---------------------------- MODULE ChunkPipeline ----------------------------
(***************************************************************************)
(* The translation of one job by one worker (process in                    *)
(* src/backend/jobs/worker.go): a coordinator hands out batches of chunks, *)
(* a goroutine per chunk looks for a checkpoint, translates, counts the    *)
(* finished pages and saves a checkpoint, and the coordinator puts the     *)
(* document together, caches it and stores the job.                        *)
(*                                                                         *)
(* The goroutines share the in-memory job, the counters of finished units  *)
(* under progressMu, two semaphores, and the job's keys in Redis.  What a  *)
(* crash leaves behind is the stored payload, the checkpoints and the      *)
(* cached translation; a new run starts from them.  A translated text is   *)
(* the unit it translates, with a flag.                                    *)
(***************************************************************************)
EXTENDS Chunking

CONSTANTS
    Types,       \* the Types the job may have
    Pages,       \* its pages (of an image: its text segments), in words
    Config,      \* the configured word range
    Widths,      \* what effectiveTranslateConcurrency may answer
    MaxLLM,      \* capacity of globalLLMSem
    Faults,      \* which kinds of fault may happen
    MaxFaults    \* bound: faults in a behaviour

FaultKinds == {"llm", "redis", "cancel", "crash", "notify"}

ASSUME PipelineAssumption ==
    /\ Types \subseteq {"text", "pdf", "image"}
    /\ Pages \in Seq(Nat \ {0})
    /\ Pages # <<>>
    /\ ValidRange(Config)
    /\ Widths \subseteq Nat \ {0}
    /\ Widths # {}
    /\ MaxLLM \in Nat \ {0}
    /\ Faults \subseteq FaultKinds
    /\ MaxFaults \in Nat

VARIABLES
    phase,      \* the next step of the coordinator
    width,      \* effectiveTranslateConcurrency of this run
    range,      \* adaptiveMinWords and adaptiveMaxWords
    rest,       \* remainingUnits
    batch,      \* the chunks of the current batch
    task,       \* task[i]: the goroutine of batch[i]
    results,    \* allResults
    pageDone,   \* unitDoneByPage
    lock,       \* the goroutine that holds progressMu, or 0
    job,        \* the in-memory Job
    stored,     \* its payload in Redis
    ckpt,       \* the chunk checkpoints of the job
    cached,     \* the cached translation, if any
    cancelled,  \* the worker's context is done
    faults      \* faults so far

runVars   == <<phase, width, range, rest, batch, results>>
redisVars == <<stored, ckpt, cached>>
vars == <<runVars, task, pageDone, lock, job, redisVars, cancelled, faults>>

Units      == UnitsOf(Pages, Config.max)
Target(p)  == Cardinality({k \in 1..Len(Units) : Units[k].page = p})
NoPages    == [p \in 1..Len(Pages) |-> 0]
NoDocument == <<>>

\* A unit of the result: translated, or the source text kept in its place.
Piece(u, done)    == [page |-> u.page, part |-> u.part, done |-> done]
Translated(units) == [i \in 1..Len(units) |-> Piece(units[i], TRUE)]
Source(units)     == [i \in 1..Len(units) |-> Piece(units[i], FALSE)]

Pieces   == [page: Nat, part: Nat, done: BOOLEAN]
Document == {NoDocument} \cup [1..Len(Pages) -> Seq(Pieces)]
Payload  == [type: Types,
             status: {"pending", "processing", "completed", "failed"},
             processed: 0..Len(Pages), document: Document]

Goroutine ==
    [pc: {"lookup", "wait", "call", "busy", "marshal", "set",
          "count", "update", "save", "end"},
     todo: Seq(Seq(UnitSet)),    \* what translateChunk has left to do
     out: Seq(Pieces),           \* what it has translated
     counted: Nat,               \* units of out in pageDone
     snap: 0..Len(Pages),        \* ProcessedPages as last marshalled
     called: BOOLEAN,            \* it came to translateChunk
     notified: BOOLEAN,          \* it reported a provider retry
     failed: BOOLEAN]

TypeOK ==
    /\ phase \in {"start", "plan", "batch", "cache", "final", "over"}
    /\ width \in Nat /\ range \in WordRange
    /\ rest \in Seq(UnitSet)
    /\ batch \in Seq(Seq(UnitSet))
    /\ task \in Seq(Goroutine) /\ Len(task) = Len(batch)
    /\ results \in Seq([units: Seq(Pieces), ok: BOOLEAN])
    /\ \A p \in 1..Len(Pages) : pageDone[p] \in 0..Target(p)
    /\ lock \in 0..Len(batch)
    /\ {job, stored} \subseteq Payload
    /\ ckpt \subseteq [key: Seq(UnitSet), value: Seq(Pieces)]
    /\ cached \in Document
    /\ cancelled \in BOOLEAN
    /\ faults \in 0..MaxFaults

\* The payload as it was enqueued.
Pending(type) == [type |-> type, status |-> "pending", processed |-> 0,
                  document |-> NoDocument]

Init ==
    /\ phase = "start" /\ width = 1 /\ range = Config
    /\ rest = <<>> /\ batch = <<>> /\ task = <<>> /\ results = <<>>
    /\ pageDone = NoPages /\ lock = 0
    /\ \E type \in Types : job = Pending(type) /\ stored = Pending(type)
    /\ ckpt = {} /\ cached = NoDocument
    /\ cancelled = FALSE /\ faults = 0

-------------------------------------------------------------------------------
(* Faults, and calls to Redis whose errors are logged and forgotten.       *)

NoFault == faults' = faults
Fault(kind) ==
    /\ kind \in Faults
    /\ faults < MaxFaults
    /\ faults' = faults + 1

\* Every call fails once the context is done.
Answers    == ~cancelled /\ NoFault
NoAnswer   == (cancelled /\ NoFault) \/ Fault("redis")

StoreJob(payload) ==
    /\ \/ Answers /\ stored' = payload
       \/ NoAnswer /\ stored' = stored
    /\ UNCHANGED <<ckpt, cached>>

-------------------------------------------------------------------------------
(* The coordinator.                                                        *)

\* The run begins: a cached translation completes the job at once (an image is
\* not looked up), else the job is stored as processing with no page done.
Start ==
    /\ phase = "start"
    /\ \/ /\ job.type # "image" /\ cached # NoDocument /\ Answers
          /\ job' = [job EXCEPT !.status = "completed", !.document = cached,
                     !.processed = IF job.type = "pdf" THEN Len(Pages) ELSE 0]
          /\ phase' = "final"
          /\ UNCHANGED <<width, range, rest, redisVars>>
       \/ /\ job' = [Pending(job.type) EXCEPT !.status = "processing"]
          /\ \/ /\ job.type = "image" \/ cached = NoDocument \/ cancelled
                /\ StoreJob(job')
             \/ /\ Fault("redis")                  \* the look-up failed
                /\ stored' = job'
                /\ UNCHANGED <<ckpt, cached>>
          /\ width' \in Widths
          /\ range' = Config
          /\ rest' = Units
          /\ phase' = "plan"
    /\ UNCHANGED <<batch, task, results, pageDone, lock, cancelled>>

Goroutines(chunks) ==
    [i \in 1..Len(chunks) |->
        [pc |-> IF job.type = "image" THEN "wait" ELSE "lookup",
         todo |-> <<chunks[i]>>, out |-> <<>>, counted |-> 0, snap |-> 0,
         called |-> FALSE, notified |-> FALSE, failed |-> FALSE]]

\* A batch has as many chunks as may run; an image is one batch.
BatchOf(chunks) ==
    IF job.type = "image" THEN chunks
    ELSE SubSeq(chunks, 1, Smaller(width, Len(chunks)))

StartBatch ==
    /\ phase = "plan" /\ rest # <<>>
    /\ batch' = BatchOf(ChunksOf(rest, range))
    /\ task' = Goroutines(batch')
    /\ phase' = "batch"
    /\ UNCHANGED <<width, range, rest, results, pageDone, lock, job, redisVars,
                   cancelled, faults>>

\* Seeded fault: Done called before the checkpoint and the progress are stored.
DoneEarly(t) == t.todo = <<>> \/ t.failed
\* wg.Wait is over.
Done(t) == t.pc = "end"

\* A chunk that failed keeps its source text.
Result(i) ==
    [units |-> IF task[i].failed THEN Source(batch[i]) ELSE task[i].out,
     ok    |-> ~task[i].failed]

Collect ==
    LET left == SubSeq(rest, Len(FlattenSeq(batch)) + 1, Len(rest))
    IN  /\ phase = "batch"
        /\ \A i \in 1..Len(batch) : Done(task[i])
        /\ results' = results \o [i \in 1..Len(batch) |-> Result(i)]
        /\ rest' = left
        /\ \/ range' = range
           \/ /\ \E i \in 1..Len(batch) : task[i].called     \* it was slow
              /\ left # <<>>
              /\ range' = Reduced(range)
        /\ phase' = "plan"
        /\ UNCHANGED <<width, batch, task, pageDone, lock, job, redisVars,
                       cancelled, faults>>

\* The units of page p, in order.
OfPage(units, p) ==
    LET kept[n \in 0..Len(units)] ==
          IF n = 0 THEN <<>>
          ELSE IF units[n].page = p THEN Append(kept[n - 1], units[n]) ELSE kept[n - 1]
    IN  kept[Len(units)]

\* translatedPageParts.
Assembled(all) ==
    [p \in 1..Len(Pages) |->
        OfPage(FlattenSeq([i \in 1..Len(all) |-> all[i].units]), p)]

\* A failed chunk fails the job only when the context is done.
Conclude ==
    /\ phase = "plan" /\ rest = <<>>
    /\ IF cancelled /\ \E i \in 1..Len(results) : ~results[i].ok
       THEN /\ job' = [job EXCEPT !.status = "failed"]
            /\ phase' = "final"
       ELSE /\ job' = [job EXCEPT !.status = "completed",
                                  !.document = Assembled(results)]
            /\ phase' = "cache"
    /\ UNCHANGED <<width, range, rest, batch, task, results, pageDone, lock,
                   redisVars, cancelled, faults>>

CacheDocument ==
    /\ phase = "cache"
    /\ \/ Answers /\ cached' = job.document
       \/ NoAnswer /\ cached' = cached
    /\ phase' = "final"
    /\ UNCHANGED <<width, range, rest, batch, task, results, pageDone, lock,
                   job, stored, ckpt, cancelled>>

StoreResult ==
    /\ phase = "final"
    /\ StoreJob(job)
    /\ phase' = "over"
    /\ UNCHANGED <<width, range, rest, batch, task, results, pageDone, lock,
                   job, cancelled>>

Coordinator == \/ Start \/ StartBatch \/ Collect \/ Conclude \/ CacheDocument
               \/ StoreResult

-------------------------------------------------------------------------------
(* A goroutine.  translateChunk is flattened: todo lists the units that    *)
(* its recursion has still to translate, in order, a group per call.       *)

Become(i, t) == task' = [task EXCEPT ![i] = t]
Step(i, pc)  == Become(i, [task[i] EXCEPT !.pc = pc])
Fail(i)      == Become(i, [task[i] EXCEPT !.pc = "end", !.failed = TRUE])

SharedVars == <<pageDone, lock, job, redisVars>>
OnlyTask   == UNCHANGED <<runVars, SharedVars, cancelled>>

\* Seeded fault: checkpoints looked up by their first unit.
MatchesLoosely(c, chunk) == c.key[1] = chunk[1]
\* chunkCheckpointKey hashes every unit of the chunk.
Matches(c, chunk) == c.key = chunk

\* A hit ends the goroutine; a lookup that fails is a miss.
Lookup(i) ==
    /\ task[i].pc = "lookup"
    /\ \/ \E c \in ckpt :
             /\ Matches(c, batch[i])
             /\ Answers
             /\ Become(i, [task[i] EXCEPT !.pc = "end", !.out = c.value])
       \/ /\ ~\E c \in ckpt : Matches(c, batch[i])
          /\ Answers
          /\ Step(i, "wait")
       \/ NoAnswer /\ Step(i, "wait")
    /\ OnlyTask

Running(i) == task[i].pc \in {"call", "busy", "marshal", "set"}

\* The per-job semaphore; select may also take the cancelled context.
Enter(i) ==
    /\ task[i].pc = "wait"
    /\ \/ /\ Cardinality({k \in 1..Len(task) : Running(k)}) < width
          /\ Become(i, [task[i] EXCEPT !.pc = "call", !.called = TRUE])
       \/ cancelled /\ Fail(i)
    /\ NoFault /\ OnlyTask

\* Seeded fault: the slot of a finished call is not given back.
HoldsSlotLeaked(i) == task[i].called /\ task[i].pc \notin {"wait", "call"}
HoldsSlot(i) == task[i].pc \in {"busy", "marshal", "set"}

SlotFree == Cardinality({k \in 1..Len(task) : HoldsSlot(k)}) < MaxLLM

\* A chunk that is translated goes on to the page counters, when it has pages.
AfterCall == IF job.type = "pdf" THEN "count" ELSE IF job.type = "text" THEN "save" ELSE "end"

Singles(units) == [k \in 1..Len(units) |-> <<units[k]>>]

\* Seeded fault: the middle unit in both halves.
HalvesOverlap(units) ==
    LET mid == Len(units) \div 2
    IN  <<SubSeq(units, 1, mid), SubSeq(units, mid, Len(units))>>
\* Seeded fault: the right half is translated first.
HalvesSwapped(units) ==
    LET mid == Len(units) \div 2
    IN  <<SubSeq(units, mid + 1, Len(units)), SubSeq(units, 1, mid)>>
Halves(units) ==
    LET mid == Len(units) \div 2
    IN  <<SubSeq(units, 1, mid), SubSeq(units, mid + 1, Len(units))>>

Redo(i, groups) ==
    Become(i, [task[i] EXCEPT !.pc = "call", !.todo = groups \o Tail(@)])

\* A call has failed, its own retries exhausted: several units are split, one
\* fails its chunk.
CallFails(i) ==
    LET units == Head(task[i].todo)
    IN  /\ ~cancelled /\ Fault("llm")
        /\ IF Len(units) > 1 THEN Redo(i, Halves(units)) ELSE Fail(i)

\* translateWithRetry takes a slot of the worker's semaphore; the deadline of the
\* chunk may pass while it waits.
Acquire(i) ==
    /\ task[i].pc = "call"
    /\ \/ SlotFree /\ Step(i, "busy") /\ NoFault
       \/ ~SlotFree /\ CallFails(i)
       \/ cancelled /\ Fail(i) /\ NoFault
    /\ OnlyTask

\* The call returns and frees its slot: with a translation, with one whose
\* delimiters the model changed, or with an error.
Answer(i) ==
    LET units == Head(task[i].todo)
        later == Tail(task[i].todo)
    IN  /\ task[i].pc = "busy"
        /\ \/ /\ Become(i, [task[i] EXCEPT
                              !.pc = IF later = <<>> THEN AfterCall ELSE "call",
                              !.out = @ \o Translated(units),
                              !.todo = later])
              /\ NoFault
           \/ Len(units) > 1 /\ Redo(i, Singles(units)) /\ NoFault
           \/ CallFails(i)
           \/ cancelled /\ Fail(i) /\ NoFault
        /\ OnlyTask

\* A provider is retried or replaced: the stage notifier writes the job's stage
\* under its mutex, then marshals the whole job and stores it, without one.
Notify(i) ==
    /\ task[i].pc = "busy" /\ ~task[i].notified
    /\ "notify" \in Faults
    /\ Become(i, [task[i] EXCEPT !.pc = "marshal", !.notified = TRUE])
    /\ NoFault /\ OnlyTask

Marshal(i) ==
    /\ task[i].pc = "marshal"
    /\ Become(i, [task[i] EXCEPT !.pc = "set", !.snap = job.processed])
    /\ NoFault /\ OnlyTask

SetStage(i) ==
    /\ task[i].pc = "set"
    /\ StoreJob([job EXCEPT !.processed = task[i].snap])
    /\ Step(i, "busy")
    /\ UNCHANGED <<runVars, pageDone, lock, job, cancelled>>

\* Seeded fault: progressMu is not taken.
NoMutex(i) == TRUE
MayCount(i)   == lock \in {0, i}
Completes(p)  == pageDone[p] + 1 = Target(p)

\* The section under progressMu, a unit at a time: the unit that completes its
\* page counts the page and stores the job.
Count(i) ==
    LET t == task[i]
        p == t.out[t.counted + 1].page
    IN  /\ t.pc = "count" /\ t.counted < Len(t.out)
        /\ MayCount(i)
        /\ lock' = i
        /\ pageDone' = [pageDone EXCEPT ![p] = @ + 1]
        /\ IF Completes(p)
           THEN /\ job' = [job EXCEPT !.processed = @ + 1]
                /\ Become(i, [t EXCEPT !.counted = @ + 1, !.pc = "update",
                                       !.snap = job.processed + 1])
           ELSE /\ Become(i, [t EXCEPT !.counted = @ + 1])
                /\ UNCHANGED job
        /\ UNCHANGED <<runVars, redisVars, cancelled, faults>>

SetProgress(i) ==
    /\ task[i].pc = "update"
    /\ StoreJob([job EXCEPT !.processed = task[i].snap])
    /\ Step(i, "count")
    /\ UNCHANGED <<runVars, pageDone, lock, job, cancelled>>

Counted(i) ==
    /\ task[i].pc = "count" /\ task[i].counted = Len(task[i].out)
    /\ lock' = 0
    /\ Step(i, "save")
    /\ NoFault
    /\ UNCHANGED <<runVars, pageDone, job, redisVars, cancelled>>

SaveCheckpoint(i) ==
    /\ task[i].pc = "save"
    /\ \/ /\ Answers
          /\ ckpt' = ckpt \cup {[key |-> batch[i], value |-> task[i].out]}
       \/ NoAnswer /\ ckpt' = ckpt
    /\ Step(i, "end")
    /\ UNCHANGED <<runVars, pageDone, lock, job, stored, cached, cancelled>>

Work(i) == \/ Lookup(i) \/ Enter(i) \/ Acquire(i) \/ Answer(i) \/ Notify(i)
           \/ Marshal(i) \/ SetStage(i) \/ Count(i) \/ SetProgress(i)
           \/ Counted(i) \/ SaveCheckpoint(i)

-------------------------------------------------------------------------------
(* The environment.                                                        *)

\* Shutdown begins, or the deadline of the context passes.
Cancel ==
    /\ phase # "over" /\ ~cancelled
    /\ Fault("cancel")
    /\ cancelled' = TRUE
    /\ UNCHANGED <<runVars, task, SharedVars>>

\* The process dies, or ends after a cancelled run; the job is delivered again.
Crash ==
    /\ phase # "start"
    /\ ~(phase = "over" /\ stored.status = "completed")
    /\ Fault("crash")
    /\ phase' = "start" /\ width' = 1 /\ range' = Config
    /\ rest' = <<>> /\ batch' = <<>> /\ task' = <<>> /\ results' = <<>>
    /\ pageDone' = NoPages /\ lock' = 0 /\ job' = Pending(job.type)
    /\ cancelled' = FALSE
    /\ UNCHANGED redisVars

Next == Coordinator \/ (\E i \in 1..Len(task) : Work(i)) \/ Cancel \/ Crash

\* Every goroutine runs on, and so does the coordinator; translateWithRetry
\* bounds its retries and its calls have a deadline.
Spec == /\ Init /\ [][Next]_vars
        /\ WF_vars(Coordinator)
        /\ \A i \in 1..Len(Units) : WF_vars(i <= Len(task) /\ Work(i))

-------------------------------------------------------------------------------
(* Properties.                                                             *)

Whole(document) ==
    \A p \in 1..Len(Pages) :
        [k \in 1..Len(document[p]) |-> document[p][k].part]
            = [k \in 1..Target(p) |-> k]

\* What is published is the whole document, every unit once and in its place,
\* whichever chunks were translated, split, degraded or taken from checkpoints
\* of an earlier run with other chunk boundaries.
DocumentIsWhole ==
    /\ stored.status = "completed" => Whole(stored.document)
    /\ cached # NoDocument => Whole(cached)

\* A checkpoint holds the translation of exactly the chunk it is filed under:
\* never source text kept for a failed chunk, never a part of the chunk.
CheckpointsAreTranslations ==
    \A c \in ckpt : c.value = Translated(c.key)

\* Every write of the job stores the page count of that moment, however the
\* goroutines that count pages interleave.  Excepted is the write of a stage notifier
\* itself, which marshals without progressMu and may store an older count.
ProgressIsCurrent ==
    [][stored' # stored =>
          \/ stored'.processed = job'.processed
          \/ \E i \in 1..Len(task) : task[i].pc = "set" /\ task'[i].pc # "set"]_vars

\* The result is the last write of a run: no goroutine is left to store an
\* older state of the job (wg.Wait before the final Update).
ResultIsLastWrite ==
    [][stored.status = "completed" => stored' = stored]_vars

\* The run ends, whatever the order in which the goroutines wait for the two
\* semaphores and the mutex; after a crash the next run does.
RunEnds == []<>(phase = "over")

===============================================================================
