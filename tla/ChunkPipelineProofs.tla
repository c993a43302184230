-------------------------- MODULE ChunkPipelineProofs --------------------------
(***************************************************************************)
(* The translation of a job, for every document, configuration and number  *)
(* of faults.  Shapes first: the types, without the bounds on what has     *)
(* been counted, and what a goroutine's next step makes of it.  Then the   *)
(* invariants: what a goroutine has translated of its chunk, who may count *)
(* pages, which goroutines can still write, and what of the document the   *)
(* results are.                                                            *)
(***************************************************************************)
EXTENDS ChunkPipeline, ChunkingProofs, FiniteSetTheorems

Statuses == {"pending", "processing", "completed", "failed"}
Phases   == {"start", "plan", "batch", "cache", "final", "over"}

Shape == [type: Types, status: Statuses, processed: Nat, document: Document]

Routine ==
    [pc: {"lookup", "wait", "call", "busy", "marshal", "set",
          "count", "update", "save", "end"},
     todo: Seq(Seq(UnitSet)), out: Seq(Pieces), counted: Nat, snap: Nat,
     called: BOOLEAN, notified: BOOLEAN, failed: BOOLEAN]

ResultSet     == [units: Seq(Pieces), ok: BOOLEAN]
CheckpointSet == [key: Seq(UnitSet), value: Seq(Pieces)]

\* A goroutine that has units to translate, and one that has translated them.
Talking  == {"lookup", "wait", "call", "busy", "marshal", "set"}
Counting == {"count", "update"}

RunShape ==
    /\ phase \in Phases
    /\ width \in Nat \ {0} /\ range \in WordRange
    /\ rest \in Seq(UnitSet)
    /\ batch \in Seq(Seq(UnitSet))
    /\ results \in Seq(ResultSet)

TaskShape ==
    /\ task \in Seq(Routine) /\ Len(task) = Len(batch)
    /\ \A i \in 1..Len(task) : task[i].pc \in Talking => task[i].todo # <<>>

SharedShape ==
    /\ pageDone \in [1..Len(Pages) -> Nat]
    /\ lock \in Nat
    /\ job \in Shape

RedisShape ==
    /\ stored \in Shape
    /\ ckpt \subseteq CheckpointSet
    /\ cached \in Document

FaultShape == cancelled \in BOOLEAN /\ faults \in 0..MaxFaults

Shapes == RunShape /\ TaskShape /\ SharedShape /\ RedisShape /\ FaultShape

-------------------------------------------------------------------------------
(* Units and pieces.                                                       *)

LEMMA PagesFacts ==
    /\ Len(Pages) \in Nat \ {0} /\ Pages \in Seq(Nat)
    /\ Config \in WordRange /\ Config.max \in Nat \ {0}
    /\ MaxFaults \in Nat /\ Widths \subseteq Nat \ {0}
  BY PipelineAssumption DEF ValidRange, WordRange

LEMMA UnitsFacts == Units \in Seq(UnitSet)
  BY PagesFacts, UnitsType DEF Units

LEMMA AsSequence ==
    ASSUME NEW A, NEW n \in Nat, NEW f \in [1..n -> A]
    PROVE  f \in Seq(A) /\ Len(f) = n
OBVIOUS

LEMMA PieceType ==
    ASSUME NEW units \in Seq(UnitSet)
    PROVE  /\ Translated(units) \in Seq(Pieces) /\ Source(units) \in Seq(Pieces)
           /\ Len(Translated(units)) = Len(units) /\ Len(Source(units)) = Len(units)
<1>1. ASSUME NEW u \in UnitSet, NEW done \in BOOLEAN PROVE Piece(u, done) \in Pieces
  BY DEF UnitSet, Pieces, Piece
<1>2. \A i \in 1..Len(units) : units[i] \in UnitSet
  OBVIOUS
<1>3. \A i \in 1..Len(units) : /\ Piece(units[i], TRUE) \in Pieces
                               /\ Piece(units[i], FALSE) \in Pieces
  BY <1>1, <1>2
<1>4. Len(units) \in Nat
  OBVIOUS
<1>5. Translated(units) \in [1..Len(units) -> Pieces]
  BY <1>3 DEF Translated
<1>6. Source(units) \in [1..Len(units) -> Pieces]
  BY <1>3 DEF Source
<1> QED BY <1>4, <1>5, <1>6, AsSequence

LEMMA HeadTail ==
    ASSUME NEW A, NEW s \in Seq(A), s # <<>>
    PROVE  Head(s) \in A /\ Tail(s) \in Seq(A)
OBVIOUS

LEMMA SinglesType ==
    ASSUME NEW units \in Seq(UnitSet)
    PROVE  Singles(units) \in Seq(Seq(UnitSet)) /\ Len(Singles(units)) = Len(units)
<1>1. \A k \in 1..Len(units) : <<units[k]>> \in Seq(UnitSet)
  OBVIOUS
<1> QED BY <1>1 DEF Singles

LEMMA HalvesType ==
    ASSUME NEW units \in Seq(UnitSet)
    PROVE  Halves(units) \in Seq(Seq(UnitSet)) /\ Len(Halves(units)) = 2
<1> DEFINE mid == Len(units) \div 2
<1>1. mid \in 0..Len(units)
  OBVIOUS
<1> HIDE DEF mid
<1>2. SubSeq(units, 1, mid) \in Seq(UnitSet) /\ SubSeq(units, mid + 1, Len(units)) \in Seq(UnitSet)
  BY <1>1
<1> QED BY <1>2 DEF Halves, mid

LEMMA DocumentFacts ==
    /\ NoDocument \in Document
    /\ \A d \in Document : d # NoDocument => d \in [1..Len(Pages) -> Seq(Pieces)]
    /\ [1..Len(Pages) -> Seq(Pieces)] \subseteq Document
  BY DEF Document

LEMMA PendingShape == \A type \in Types : Pending(type) \in Shape
  BY DocumentFacts DEF Pending, Shape, Statuses

LEMMA NoPagesType == NoPages \in [1..Len(Pages) -> Nat]
  BY DEF NoPages

LEMMA ShapesInit == Init => Shapes
<1> SUFFICES ASSUME Init PROVE Shapes
  OBVIOUS
<1>1. RunShape
  BY PagesFacts DEF Init, RunShape, Phases
<1>2. TaskShape
  BY DEF Init, TaskShape
<1>3. SharedShape
  BY NoPagesType, PendingShape DEF Init, SharedShape
<1>4. RedisShape
  BY DocumentFacts, PendingShape DEF Init, RedisShape
<1>5. FaultShape
  <2>1. 0 \in 0..MaxFaults
    BY PagesFacts
  <2>2. cancelled = FALSE /\ faults = 0
    BY DEF Init
  <2> QED BY <2>1, <2>2 DEF FaultShape
<1> QED BY <1>1, <1>2, <1>3, <1>4, <1>5 DEF Shapes

-------------------------------------------------------------------------------
(* What a step makes of a goroutine t: u.                                  *)

Carries(t, u) == u.out = t.out /\ u.counted = t.counted /\ u.failed = t.failed
Keeps(t, u)   == Carries(t, u) /\ u.todo = t.todo

\* A hit: the value of a checkpoint of the chunk.
Hits(i, t, u) ==
    /\ t.pc = "lookup" /\ u.pc = "end" /\ u.failed = t.failed /\ u.counted = t.counted
    /\ \E c \in ckpt : c.key = batch[i] /\ u.out = c.value

Fails(t, u) == t.pc \in Talking /\ u.pc = "end" /\ u.failed /\ u.counted = t.counted

\* On to another step of the call, or of the stage notifier.
Proceeds(t, u) == t.pc \in Talking /\ u.pc \in Talking \ {"lookup"} /\ Keeps(t, u)

\* Several units are translated again, apart.
Splits(t, u) ==
    /\ t.pc \in Talking /\ u.pc = "call" /\ Carries(t, u)
    /\ Len(Head(t.todo)) > 1
    /\ \E groups \in {Halves(Head(t.todo)), Singles(Head(t.todo))} :
          u.todo = groups \o Tail(t.todo)

Answered(t, u) ==
    /\ t.pc = "busy" /\ u.counted = t.counted /\ u.failed = t.failed
    /\ u.out = t.out \o Translated(Head(t.todo))
    /\ u.todo = Tail(t.todo)
    /\ IF u.todo = <<>> THEN u.pc \in {"count", "save", "end"} ELSE u.pc = "call"

Talks(i, t, u) ==
    Hits(i, t, u) \/ Fails(t, u) \/ Proceeds(t, u) \/ Splits(t, u) \/ Answered(t, u)

Replaced(i, u) == u \in Routine /\ task' = [task EXCEPT ![i] = u]

\* The steps of a goroutine that touch nothing but itself.
TalkStep(i) == Lookup(i) \/ Enter(i) \/ Acquire(i) \/ Answer(i) \/ Notify(i) \/ Marshal(i)

LEMMA FaultKept ==
    ASSUME FaultShape, NoFault \/ \E kind \in FaultKinds : Fault(kind)
    PROVE  faults' \in 0..MaxFaults
  BY PagesFacts DEF FaultShape, NoFault, Fault

LEMMA TheTask ==
    ASSUME TaskShape, NEW i \in 1..Len(task)
    PROVE  /\ task[i] \in Routine /\ i \in 1..Len(batch)
           /\ task[i].pc \in Talking => task[i].todo # <<>>
  BY DEF TaskShape

LEMMA LookupStep ==
    ASSUME Shapes, NEW i \in 1..Len(task), Lookup(i)
    PROVE  \E u : Replaced(i, u) /\ Talks(i, task[i], u)
<1>1. task[i] \in Routine /\ task[i].pc = "lookup"
  BY TheTask DEF Shapes, Lookup
<1> DEFINE t == task[i]
<1>2. ASSUME NEW c \in ckpt, Matches(c, batch[i]),
             Become(i, [task[i] EXCEPT !.pc = "end", !.out = c.value])
      PROVE  \E u : Replaced(i, u) /\ Talks(i, task[i], u)
  <2> DEFINE u == [task[i] EXCEPT !.pc = "end", !.out = c.value]
  <2>1. c.value \in Seq(Pieces)
    BY DEF Shapes, RedisShape, CheckpointSet
  <2>2. /\ u \in Routine /\ u.pc = "end" /\ u.failed = t.failed
        /\ u.counted = t.counted /\ u.out = c.value
    BY <1>1, <2>1 DEF Routine
  <2>3. task' = [task EXCEPT ![i] = u]
    BY <1>2 DEF Become
  <2> HIDE DEF u
  <2> QED BY <1>1, <1>2, <2>2, <2>3 DEF Replaced, Talks, Hits, Matches
<1>3. ASSUME Step(i, "wait") PROVE \E u : Replaced(i, u) /\ Talks(i, task[i], u)
  <2> DEFINE u == [task[i] EXCEPT !.pc = "wait"]
  <2>1. u \in Routine /\ u.pc = "wait" /\ Keeps(t, u)
    BY <1>1 DEF Routine, Keeps, Carries
  <2>2. task' = [task EXCEPT ![i] = u]
    BY <1>3 DEF Step, Become
  <2> HIDE DEF u
  <2> QED BY <1>1, <2>1, <2>2 DEF Replaced, Talks, Proceeds, Talking
<1> QED BY <1>2, <1>3 DEF Lookup

LEMMA FailShape ==
    ASSUME Shapes, NEW i \in 1..Len(task), task[i].pc \in Talking, Fail(i)
    PROVE  \E u : Replaced(i, u) /\ Talks(i, task[i], u)
<1> DEFINE u == [task[i] EXCEPT !.pc = "end", !.failed = TRUE]
           t == task[i]
<1>1. t \in Routine
  BY TheTask DEF Shapes
<1>2. u \in Routine /\ u.pc = "end" /\ u.failed /\ u.counted = t.counted
  BY <1>1 DEF Routine
<1>3. task' = [task EXCEPT ![i] = u]
  BY DEF Fail, Become
<1> HIDE DEF u
<1> QED BY <1>2, <1>3 DEF Replaced, Talks, Fails

LEMMA RedoShape ==
    ASSUME Shapes, NEW i \in 1..Len(task), task[i].pc \in {"call", "busy"},
           Len(Head(task[i].todo)) > 1,
           NEW groups \in {Halves(Head(task[i].todo)), Singles(Head(task[i].todo))},
           Redo(i, groups)
    PROVE  \E u : Replaced(i, u) /\ Talks(i, task[i], u)
<1> DEFINE t == task[i]
           todo == groups \o Tail(t.todo)
           u == [t EXCEPT !.pc = "call", !.todo = todo]
<1>1. t \in Routine /\ t.pc \in Talking /\ t.todo # <<>>
  BY TheTask DEF Shapes, Talking
<1>2. t.todo \in Seq(Seq(UnitSet))
  BY <1>1 DEF Routine
<1>3. Head(t.todo) \in Seq(UnitSet) /\ Tail(t.todo) \in Seq(Seq(UnitSet))
  BY <1>1, <1>2, HeadTail
<1>4. groups \in Seq(Seq(UnitSet))
  BY <1>3, SinglesType, HalvesType
<1>5. todo \in Seq(Seq(UnitSet))
  <2> HIDE DEF t
  <2> QED BY <1>3, <1>4
<1>6. task' = [task EXCEPT ![i] = u]
  BY DEF Redo, Become
<1> HIDE DEF todo
<1>7. /\ u \in Routine /\ u.pc = "call" /\ Carries(t, u) /\ u.todo = todo
  BY <1>1, <1>5 DEF Routine, Carries
<1> HIDE DEF u
<1> QED BY <1>1, <1>6, <1>7 DEF Replaced, Talks, Splits, todo

LEMMA CallFailsStep ==
    ASSUME Shapes, NEW i \in 1..Len(task), task[i].pc \in {"call", "busy"}, CallFails(i)
    PROVE  \E u : Replaced(i, u) /\ Talks(i, task[i], u)
<1>1. CASE Len(Head(task[i].todo)) > 1
  BY <1>1, RedoShape DEF CallFails
<1>2. CASE ~ (Len(Head(task[i].todo)) > 1)
  BY <1>2, FailShape DEF CallFails, Talking
<1> QED BY <1>1, <1>2

\* A step of the goroutine that changes its control, or what it remembers of
\* the job.
LEMMA ProceedShape ==
    ASSUME Shapes, NEW i \in 1..Len(task), NEW u,
           task[i].pc \in Talking, u.pc \in Talking \ {"lookup"},
           u \in Routine, Keeps(task[i], u), Become(i, u)
    PROVE  \E v : Replaced(i, v) /\ Talks(i, task[i], v)
  BY DEF Become, Replaced, Talks, Proceeds

LEMMA EnterStep ==
    ASSUME Shapes, NEW i \in 1..Len(task), Enter(i)
    PROVE  \E u : Replaced(i, u) /\ Talks(i, task[i], u)
<1> DEFINE t == task[i]
           u == [t EXCEPT !.pc = "call", !.called = TRUE]
<1>1. t \in Routine /\ t.pc = "wait"
  BY TheTask DEF Shapes, Enter
<1>2. u \in Routine /\ u.pc = "call" /\ Keeps(t, u)
  BY <1>1 DEF Routine, Keeps, Carries
<1>3. CASE Become(i, u)
  <2> HIDE DEF u
  <2> QED BY <1>1, <1>2, <1>3, ProceedShape DEF Talking
<1>4. CASE Fail(i)
  BY <1>1, <1>4, FailShape DEF Talking
<1> QED BY <1>3, <1>4 DEF Enter

LEMMA AcquireStep ==
    ASSUME Shapes, NEW i \in 1..Len(task), Acquire(i)
    PROVE  \E u : Replaced(i, u) /\ Talks(i, task[i], u)
<1> DEFINE t == task[i]
           u == [t EXCEPT !.pc = "busy"]
<1>1. t \in Routine /\ t.pc = "call"
  BY TheTask DEF Shapes, Acquire
<1>2. u \in Routine /\ u.pc = "busy" /\ Keeps(t, u)
  BY <1>1 DEF Routine, Keeps, Carries
<1>3. CASE Step(i, "busy")
  <2>1. Become(i, u)
    BY <1>3 DEF Step
  <2> HIDE DEF u
  <2> QED BY <1>1, <1>2, <2>1, ProceedShape DEF Talking
<1>4. CASE CallFails(i)
  BY <1>1, <1>4, CallFailsStep
<1>5. CASE Fail(i)
  BY <1>1, <1>5, FailShape DEF Talking
<1> QED BY <1>3, <1>4, <1>5 DEF Acquire

LEMMA AnswerStep ==
    ASSUME Shapes, NEW i \in 1..Len(task), Answer(i)
    PROVE  \E u : Replaced(i, u) /\ Talks(i, task[i], u)
<1> DEFINE t == task[i]
           units == Head(t.todo)
           later == Tail(t.todo)
           pc    == IF later = <<>> THEN AfterCall ELSE "call"
           out   == t.out \o Translated(units)
           u     == [t EXCEPT !.pc = pc, !.out = out, !.todo = later]
<1>1. t \in Routine /\ t.pc = "busy" /\ t.todo # <<>>
  BY TheTask DEF Shapes, Answer, Talking
<1>2. CASE task' = [task EXCEPT ![i] = u]
  <2>1. t.todo \in Seq(Seq(UnitSet)) /\ t.out \in Seq(Pieces)
    BY <1>1 DEF Routine
  <2>2. units \in Seq(UnitSet) /\ later \in Seq(Seq(UnitSet))
    BY <1>1, <2>1, HeadTail
  <2>3. out \in Seq(Pieces)
    <3>1. Translated(units) \in Seq(Pieces)
      BY <2>2, PieceType
    <3> HIDE DEF units, t
    <3> QED BY <2>1, <3>1
  <2>4. IF later = <<>> THEN pc \in {"count", "save", "end"} ELSE pc = "call"
    BY DEF AfterCall
  <2> HIDE DEF pc, out, later
  <2>5. /\ u \in Routine /\ u.pc = pc /\ u.out = out /\ u.todo = later
        /\ u.counted = t.counted /\ u.failed = t.failed
    BY <1>1, <2>2, <2>3, <2>4 DEF Routine
  <2> HIDE DEF u
  <2> QED BY <1>1, <1>2, <2>4, <2>5 DEF Replaced, Talks, Answered, out, later
<1>3. CASE Len(units) > 1 /\ Redo(i, Singles(units))
  BY <1>1, <1>3, RedoShape
<1>4. CASE CallFails(i)
  BY <1>1, <1>4, CallFailsStep
<1>5. CASE Fail(i)
  BY <1>1, <1>5, FailShape DEF Talking
<1> QED BY <1>2, <1>3, <1>4, <1>5 DEF Answer, Become

LEMMA NotifyStep ==
    ASSUME Shapes, NEW i \in 1..Len(task), Notify(i)
    PROVE  \E u : Replaced(i, u) /\ Talks(i, task[i], u)
<1> DEFINE t == task[i]
           u == [t EXCEPT !.pc = "marshal", !.notified = TRUE]
<1>1. t \in Routine /\ t.pc = "busy"
  BY TheTask DEF Shapes, Notify
<1>2. u \in Routine /\ u.pc = "marshal" /\ Keeps(t, u)
  BY <1>1 DEF Routine, Keeps, Carries
<1>3. Become(i, u)
  BY DEF Notify
<1> HIDE DEF u
<1> QED BY <1>1, <1>2, <1>3, ProceedShape DEF Talking

LEMMA MarshalStep ==
    ASSUME Shapes, NEW i \in 1..Len(task), Marshal(i)
    PROVE  \E u : Replaced(i, u) /\ Talks(i, task[i], u)
<1> DEFINE t == task[i]
           u == [t EXCEPT !.pc = "set", !.snap = job.processed]
<1>1. t \in Routine /\ t.pc = "marshal" /\ job.processed \in Nat
  BY TheTask DEF Shapes, Marshal, SharedShape, Shape
<1>2. u \in Routine /\ u.pc = "set" /\ Keeps(t, u)
  BY <1>1 DEF Routine, Keeps, Carries
<1>3. Become(i, u)
  BY DEF Marshal
<1> HIDE DEF u
<1> QED BY <1>1, <1>2, <1>3, ProceedShape DEF Talking

LEMMA TalkStepShape ==
    ASSUME Shapes, NEW i \in 1..Len(task), TalkStep(i)
    PROVE  /\ \E u : Replaced(i, u) /\ Talks(i, task[i], u)
           /\ UNCHANGED <<runVars, SharedVars, cancelled>>
           /\ faults' \in 0..MaxFaults
<1>1. \E u : Replaced(i, u) /\ Talks(i, task[i], u)
  BY LookupStep, EnterStep, AcquireStep, AnswerStep, NotifyStep, MarshalStep DEF TalkStep
<1>2. OnlyTask
  BY DEF TalkStep, Lookup, Enter, Acquire, Answer, Notify, Marshal
<1>3. NoFault \/ \E kind \in FaultKinds : Fault(kind)
  BY DEF TalkStep, Lookup, Enter, Acquire, Answer, Notify, Marshal, Answers, NoAnswer,
         CallFails, FaultKinds
<1> QED BY <1>1, <1>2, <1>3, FaultKept DEF OnlyTask, Shapes

\* The steps of a goroutine on what it shares with the others.
TalksAlone(i, t, u) == Talks(i, t, u) /\ UNCHANGED SharedVars

Stores(i, t, u) ==
    /\ \/ t.pc = "set" /\ u.pc = "busy"
       \/ t.pc = "update" /\ u.pc = "count"
    /\ Keeps(t, u)
    /\ stored' \in {stored, [job EXCEPT !.processed = t.snap]}
    /\ UNCHANGED <<pageDone, lock, job, ckpt, cached>>

Counts(i, t, u) ==
    /\ t.pc = "count" /\ t.counted < Len(t.out) /\ MayCount(i)
    /\ u.todo = t.todo /\ u.out = t.out /\ u.failed = t.failed
    /\ u.counted = t.counted + 1
    /\ lock' = i
    /\ pageDone' = [pageDone EXCEPT ![t.out[t.counted + 1].page] = @ + 1]
    /\ \/ /\ Completes(t.out[t.counted + 1].page)
          /\ u.pc = "update" /\ u.snap = job.processed + 1
          /\ job' = [job EXCEPT !.processed = job.processed + 1]
       \/ /\ ~ Completes(t.out[t.counted + 1].page)
          /\ u.pc = "count" /\ job' = job
    /\ UNCHANGED redisVars

HasCounted(i, t, u) ==
    /\ t.pc = "count" /\ t.counted = Len(t.out) /\ u.pc = "save" /\ Keeps(t, u)
    /\ lock' = 0
    /\ UNCHANGED <<pageDone, job, redisVars>>

Saves(i, t, u) ==
    /\ t.pc = "save" /\ u.pc = "end" /\ Keeps(t, u)
    /\ ckpt' \in {ckpt, ckpt \cup {[key |-> batch[i], value |-> t.out]}}
    /\ UNCHANGED <<pageDone, lock, job, stored, cached>>

Works(i, t, u) ==
    \/ TalksAlone(i, t, u) \/ Stores(i, t, u) \/ Counts(i, t, u)
    \/ HasCounted(i, t, u) \/ Saves(i, t, u)

LEMMA StoreJobShape ==
    ASSUME Shapes, NEW payload, StoreJob(payload)
    PROVE  /\ stored' \in {stored, payload} /\ UNCHANGED <<ckpt, cached>>
           /\ faults' \in 0..MaxFaults
<1>1. NoFault \/ \E kind \in FaultKinds : Fault(kind)
  BY DEF StoreJob, Answers, NoAnswer, FaultKinds
<1> QED BY <1>1, FaultKept DEF StoreJob, Shapes

LEMMA StoreStep ==
    ASSUME Shapes, NEW i \in 1..Len(task), SetStage(i) \/ SetProgress(i)
    PROVE  /\ \E u : Replaced(i, u) /\ Stores(i, task[i], u)
           /\ UNCHANGED <<runVars, cancelled>> /\ faults' \in 0..MaxFaults
<1> DEFINE t == task[i]
           u(pc) == [t EXCEPT !.pc = pc]
<1>1. t \in Routine
  BY TheTask DEF Shapes
<1>2. \A pc \in {"busy", "count"} : u(pc) \in Routine /\ u(pc).pc = pc /\ Keeps(t, u(pc))
  BY <1>1 DEF Routine, Keeps, Carries
<1>3. StoreJob([job EXCEPT !.processed = t.snap])
  BY DEF SetStage, SetProgress
<1>4. /\ stored' \in {stored, [job EXCEPT !.processed = t.snap]}
      /\ UNCHANGED <<ckpt, cached>> /\ faults' \in 0..MaxFaults
  BY <1>3, StoreJobShape
<1>5. UNCHANGED <<runVars, pageDone, lock, job, cancelled>>
  BY DEF SetStage, SetProgress
<1>6. \/ t.pc = "set" /\ task' = [task EXCEPT ![i] = u("busy")]
      \/ t.pc = "update" /\ task' = [task EXCEPT ![i] = u("count")]
  BY DEF SetStage, SetProgress, Step, Become
<1> HIDE DEF u
<1> QED BY <1>2, <1>4, <1>5, <1>6 DEF Replaced, Stores

LEMMA CountStep ==
    ASSUME Shapes, NEW i \in 1..Len(task), Count(i)
    PROVE  /\ \E u : Replaced(i, u) /\ Counts(i, task[i], u)
           /\ UNCHANGED <<runVars, cancelled>> /\ faults' \in 0..MaxFaults
<1> DEFINE t == task[i]
           p == t.out[t.counted + 1].page
           n == t.counted + 1
           k == job.processed + 1
           u == [t EXCEPT !.counted = n, !.pc = "update", !.snap = k]
           v == [t EXCEPT !.counted = n]
<1>1. t \in Routine /\ job.processed \in Nat /\ job \in Shape
  BY TheTask DEF Shapes, SharedShape, Shape
<1>2. /\ t.pc = "count" /\ t.counted < Len(t.out) /\ MayCount(i)
      /\ lock' = i /\ pageDone' = [pageDone EXCEPT ![p] = @ + 1]
      /\ UNCHANGED <<runVars, redisVars, cancelled, faults>>
  BY DEF Count
<1>3. /\ u \in Routine /\ u.pc = "update" /\ u.snap = job.processed + 1
      /\ u.todo = t.todo /\ u.out = t.out /\ u.failed = t.failed
      /\ u.counted = t.counted + 1
  <2>1. n \in Nat /\ k \in Nat
    BY <1>1 DEF Routine
  <2> HIDE DEF n, k
  <2>2. /\ u \in Routine /\ u.pc = "update" /\ u.snap = k
        /\ u.todo = t.todo /\ u.out = t.out /\ u.failed = t.failed /\ u.counted = n
    BY <1>1, <2>1 DEF Routine
  <2> HIDE DEF u
  <2> QED BY <2>2 DEF n, k
<1>4. /\ v \in Routine /\ v.pc = t.pc
      /\ v.todo = t.todo /\ v.out = t.out /\ v.failed = t.failed
      /\ v.counted = t.counted + 1
  <2>1. n \in Nat
    BY <1>1 DEF Routine
  <2> HIDE DEF n
  <2>2. /\ v \in Routine /\ v.pc = t.pc
        /\ v.todo = t.todo /\ v.out = t.out /\ v.failed = t.failed /\ v.counted = n
    BY <1>1, <2>1 DEF Routine
  <2> HIDE DEF v
  <2> QED BY <2>2 DEF n
<1>5. \/ /\ Completes(p) /\ task' = [task EXCEPT ![i] = u]
         /\ job' = [job EXCEPT !.processed = job.processed + 1]
      \/ ~ Completes(p) /\ task' = [task EXCEPT ![i] = v] /\ job' = job
  BY <1>1 DEF Count, Become
<1>6. faults' \in 0..MaxFaults
  BY <1>2 DEF Shapes, FaultShape
<1> HIDE DEF u, v, t
<1>7. CASE Completes(p) /\ task' = [task EXCEPT ![i] = u]
           /\ job' = [job EXCEPT !.processed = job.processed + 1]
  <2>1. Counts(i, t, u)
    BY <1>2, <1>3, <1>7 DEF Counts
  <2> QED BY <1>2, <1>3, <1>6, <1>7, <2>1 DEF Replaced, t
<1>8. CASE ~ Completes(p) /\ task' = [task EXCEPT ![i] = v] /\ job' = job
  <2>1. Counts(i, t, v)
    BY <1>2, <1>4, <1>8 DEF Counts
  <2> QED BY <1>2, <1>4, <1>6, <1>8, <2>1 DEF Replaced, t
<1> QED BY <1>5, <1>7, <1>8

LEMMA CountedStep ==
    ASSUME Shapes, NEW i \in 1..Len(task), Counted(i)
    PROVE  /\ \E u : Replaced(i, u) /\ HasCounted(i, task[i], u)
           /\ UNCHANGED <<runVars, cancelled>> /\ faults' \in 0..MaxFaults
<1> DEFINE t == task[i]
           u == [t EXCEPT !.pc = "save"]
<1>1. t \in Routine
  BY TheTask DEF Shapes
<1>2. u \in Routine /\ u.pc = "save" /\ Keeps(t, u)
  BY <1>1 DEF Routine, Keeps, Carries
<1>3. /\ t.pc = "count" /\ t.counted = Len(t.out) /\ lock' = 0 /\ task' = [task EXCEPT ![i] = u] /\ NoFault
      /\ UNCHANGED <<runVars, pageDone, job, redisVars, cancelled>>
  BY DEF Counted, Step, Become
<1> HIDE DEF u
<1> QED BY <1>2, <1>3, FaultKept DEF Replaced, HasCounted, Shapes

LEMMA SaveStep ==
    ASSUME Shapes, NEW i \in 1..Len(task), SaveCheckpoint(i)
    PROVE  /\ \E u : Replaced(i, u) /\ Saves(i, task[i], u)
           /\ UNCHANGED <<runVars, cancelled>> /\ faults' \in 0..MaxFaults
<1> DEFINE t == task[i]
           u == [t EXCEPT !.pc = "end"]
<1>1. t \in Routine
  BY TheTask DEF Shapes
<1>2. u \in Routine /\ u.pc = "end" /\ Keeps(t, u)
  BY <1>1 DEF Routine, Keeps, Carries
<1>3. /\ t.pc = "save" /\ task' = [task EXCEPT ![i] = u]
      /\ ckpt' \in {ckpt, ckpt \cup {[key |-> batch[i], value |-> t.out]}}
      /\ UNCHANGED <<runVars, pageDone, lock, job, stored, cached, cancelled>>
  BY DEF SaveCheckpoint, Step, Become
<1>4. NoFault \/ \E kind \in FaultKinds : Fault(kind)
  BY DEF SaveCheckpoint, Answers, NoAnswer, FaultKinds
<1> HIDE DEF u
<1> QED BY <1>2, <1>3, <1>4, FaultKept DEF Replaced, Saves, Shapes

\* Whatever a goroutine does, it does one of these.
LEMMA WorkShape ==
    ASSUME Shapes, NEW i \in 1..Len(task), Work(i)
    PROVE  /\ \E u : Replaced(i, u) /\ Works(i, task[i], u)
           /\ UNCHANGED <<runVars, cancelled>> /\ faults' \in 0..MaxFaults
<1>1. CASE TalkStep(i)
  BY <1>1, TalkStepShape DEF Works, TalksAlone
<1>2. CASE SetStage(i) \/ SetProgress(i)
  BY <1>2, StoreStep DEF Works
<1>3. CASE Count(i)
  BY <1>3, CountStep DEF Works
<1>4. CASE Counted(i)
  BY <1>4, CountedStep DEF Works
<1>5. CASE SaveCheckpoint(i)
  BY <1>5, SaveStep DEF Works
<1> QED BY <1>1, <1>2, <1>3, <1>4, <1>5 DEF Work, TalkStep

-------------------------------------------------------------------------------
(* The result, put together by pages.                                      *)

Sorts(g, units, p, S) ==
    /\ g \in [0..Len(units) -> Seq(S)]
    /\ g[0] = <<>>
    /\ \A n \in 1..Len(units) :
          g[n] = IF units[n].page = p THEN Append(g[n - 1], units[n]) ELSE g[n - 1]

LEMMA OfPageSorts ==
    ASSUME NEW S, NEW units \in Seq(S), NEW p
    PROVE  \E g : Sorts(g, units, p, S) /\ OfPage(units, p) = g[Len(units)]
<1> DEFINE N == Len(units)
           step == [n \in 1..N |-> [x \in Seq(S) |->
                      IF units[n].page = p THEN Append(x, units[n]) ELSE x]]
           Is(h) == h = [n \in 0..N |->
                           IF n = 0 THEN <<>>
                           ELSE IF units[n].page = p THEN Append(h[n - 1], units[n])
                                ELSE h[n - 1]]
           kept == CHOOSE h : Is(h)
<1>1. OfPage(units, p) = kept[N]
  BY DEF OfPage
<1>2. N \in Nat
  OBVIOUS
<1>3. PICK g : Iterates(g, Seq(S), <<>>, step, N)
  <2>1. ASSUME NEW n \in 1..N, NEW x \in Seq(S)
        PROVE  (IF units[n].page = p THEN Append(x, units[n]) ELSE x) \in Seq(S)
    OBVIOUS
  <2>2. step \in [1..N -> [Seq(S) -> Seq(S)]] /\ <<>> \in Seq(S)
    BY <2>1
  <2> HIDE DEF step, N, kept
  <2> QED BY <1>2, <2>2, Iteration
<1>4. Sorts(g, units, p, S)
  <2>1. g \in [0..N -> Seq(S)] /\ g[0] = <<>>
    BY <1>3 DEF Iterates
  <2>2. ASSUME NEW n \in 1..N
        PROVE  g[n] = IF units[n].page = p THEN Append(g[n - 1], units[n]) ELSE g[n - 1]
    <3>1. n - 1 \in 0..N
      BY <1>2
    <3>2. PICK x \in Seq(S) : x = g[n - 1]
      BY <2>1, <3>1
    <3>3. g[n] = step[n][g[n - 1]]
      BY <1>3 DEF Iterates
    <3>4. step[n][x] = IF units[n].page = p THEN Append(x, units[n]) ELSE x
      BY <3>2
    <3> QED BY <3>2, <3>3, <3>4
  <2> QED BY <2>1, <2>2 DEF Sorts
<1> HIDE DEF step
<1>5. Is(g)
  <2>1. g \in [0..N -> Seq(S)]
    BY <1>4 DEF Sorts
  <2>2. ASSUME NEW n \in 0..N
        PROVE  g[n] = IF n = 0 THEN <<>>
                      ELSE IF units[n].page = p THEN Append(g[n - 1], units[n])
                           ELSE g[n - 1]
    <3>1. n # 0 => n \in 1..N
      OBVIOUS
    <3> QED BY <1>4, <3>1 DEF Sorts
  <2> QED BY <2>1, <2>2
<1>6. Is(kept)
  <2> HIDE DEF Is
  <2> QED BY <1>5
<1> HIDE DEF kept
<1> DEFINE T == {m \in Nat : m <= N => kept[m] = g[m]}
<1>7. 0 \in T
  <2>1. kept[0] = <<>>
    BY <1>2, <1>6
  <2> QED BY <1>4, <2>1 DEF Sorts
<1>8. ASSUME NEW m \in Nat, m \in T PROVE m + 1 \in T
  <2> SUFFICES ASSUME m + 1 <= N PROVE kept[m + 1] = g[m + 1]
    OBVIOUS
  <2>1. PICK n \in 1..N : n = m + 1 /\ n - 1 = m /\ n # 0 /\ n \in 0..N
    BY <1>2
  <2>2. kept[n - 1] = g[n - 1]
    BY <1>2, <1>8, <2>1
  <2>3. kept[n] = IF units[n].page = p THEN Append(kept[n - 1], units[n]) ELSE kept[n - 1]
    BY <1>6, <2>1
  <2>4. g[n] = IF units[n].page = p THEN Append(g[n - 1], units[n]) ELSE g[n - 1]
    BY <1>4 DEF Sorts
  <2> QED BY <2>1, <2>2, <2>3, <2>4
<1>9. N \in T
  <2> HIDE DEF T
  <2> QED BY <1>2, <1>7, <1>8, SetInduction
<1> QED BY <1>1, <1>2, <1>4, <1>9

LEMMA OfPageType ==
    ASSUME NEW S, NEW units \in Seq(S), NEW p
    PROVE  OfPage(units, p) \in Seq(S)
<1>1. PICK g : Sorts(g, units, p, S) /\ OfPage(units, p) = g[Len(units)]
  BY OfPageSorts
<1>2. Len(units) \in 0..Len(units)
  OBVIOUS
<1> QED BY <1>1, <1>2 DEF Sorts

ResultPieces(all) == [i \in 1..Len(all) |-> all[i].units]

LEMMA ResultPiecesType ==
    ASSUME NEW all \in Seq(ResultSet)
    PROVE  /\ ResultPieces(all) \in Seq(Seq(Pieces))
           /\ Len(ResultPieces(all)) = Len(all)
           /\ \A i \in 1..Len(all) : ResultPieces(all)[i] = all[i].units
<1>1. ASSUME NEW i \in 1..Len(all) PROVE all[i].units \in Seq(Pieces)
  <2>1. all[i] \in ResultSet
    OBVIOUS
  <2> QED BY <2>1 DEF ResultSet
<1>2. Len(all) \in Nat /\ ResultPieces(all) \in [1..Len(all) -> Seq(Pieces)]
  BY <1>1 DEF ResultPieces
<1>3. \A i \in 1..Len(all) : ResultPieces(all)[i] = all[i].units
  BY DEF ResultPieces
<1> QED BY <1>2, <1>3, AsSequence

LEMMA AssembledType ==
    ASSUME NEW all \in Seq(ResultSet)
    PROVE  /\ FlattenSeq(ResultPieces(all)) \in Seq(Pieces)
           /\ Assembled(all) = [p \in 1..Len(Pages) |-> OfPage(FlattenSeq(ResultPieces(all)), p)]
           /\ Assembled(all) \in [1..Len(Pages) -> Seq(Pieces)]
<1>1. FlattenSeq(ResultPieces(all)) \in Seq(Pieces)
  BY ResultPiecesType, FlattenType
<1>2. Assembled(all) = [p \in 1..Len(Pages) |-> OfPage(FlattenSeq(ResultPieces(all)), p)]
  BY DEF Assembled, ResultPieces
<1>3. \A p \in 1..Len(Pages) : OfPage(FlattenSeq(ResultPieces(all)), p) \in Seq(Pieces)
  BY <1>1, OfPageType
<1> QED BY <1>1, <1>2, <1>3

-------------------------------------------------------------------------------
(* Every step keeps the shapes.                                            *)

LEMMA GoroutinesShape ==
    ASSUME NEW chunks \in Seq(Seq(UnitSet))
    PROVE  /\ Goroutines(chunks) \in Seq(Routine)
           /\ Len(Goroutines(chunks)) = Len(chunks)
           /\ \A i \in 1..Len(chunks) :
                 LET t == Goroutines(chunks)[i]
                 IN  /\ t.pc \in {"wait", "lookup"} /\ t.todo = <<chunks[i]>>
                     /\ t.out = <<>> /\ t.counted = 0 /\ ~ t.failed
<1> DEFINE G(i) == [pc |-> IF job.type = "image" THEN "wait" ELSE "lookup",
                    todo |-> <<chunks[i]>>, out |-> <<>>, counted |-> 0, snap |-> 0,
                    called |-> FALSE, notified |-> FALSE, failed |-> FALSE]
<1>1. Len(chunks) \in Nat
  OBVIOUS
<1>2. ASSUME NEW i \in 1..Len(chunks)
      PROVE  /\ G(i) \in Routine
             /\ G(i).pc \in {"wait", "lookup"} /\ G(i).todo = <<chunks[i]>>
             /\ G(i).out = <<>> /\ G(i).counted = 0 /\ ~ G(i).failed
  <2>1. chunks[i] \in Seq(UnitSet)
    OBVIOUS
  <2>2. <<chunks[i]>> \in Seq(Seq(UnitSet))
    BY <2>1
  <2> QED BY <2>2 DEF Routine
<1>3. Goroutines(chunks) = [i \in 1..Len(chunks) |-> G(i)]
  BY DEF Goroutines
<1> HIDE DEF G
<1>4. Goroutines(chunks) \in [1..Len(chunks) -> Routine]
  BY <1>2, <1>3
<1>5. Goroutines(chunks) \in Seq(Routine) /\ Len(Goroutines(chunks)) = Len(chunks)
  BY <1>1, <1>4, AsSequence
<1> QED BY <1>2, <1>3, <1>5

LEMMA ReducedType ==
    ASSUME NEW r \in WordRange
    PROVE  Reduced(r) \in WordRange
<1>1. r.min \in Nat /\ r.max \in Nat /\ Floor \in Nat
  BY LimitsAssumption DEF WordRange
<1>2. FourFifths(r.min) \in Nat /\ FourFifths(r.max) \in Nat
  BY <1>1 DEF FourFifths
<1> QED BY <1>1, <1>2 DEF Reduced, WordRange, Smaller, Bigger

\* A run that finds the cached translation, and one that does not.
FromCache ==
    /\ cached # NoDocument
    /\ phase' = "final"
    /\ job' = [job EXCEPT !.status = "completed", !.document = cached,
                          !.processed = IF job.type = "pdf" THEN Len(Pages) ELSE 0]
    /\ UNCHANGED <<width, range, rest, redisVars>>

Anew ==
    /\ job' = [Pending(job.type) EXCEPT !.status = "processing"]
    /\ stored' \in {stored, job'} /\ UNCHANGED <<ckpt, cached>>
    /\ width' \in Widths /\ range' = Config /\ rest' = Units /\ phase' = "plan"

LEMMA StartShape ==
    ASSUME Shapes, Start
    PROVE  /\ phase = "start"
           /\ FromCache \/ Anew
           /\ UNCHANGED <<batch, task, results, pageDone, lock, cancelled>>
           /\ faults' \in 0..MaxFaults
<1>1. phase = "start" /\ UNCHANGED <<batch, task, results, pageDone, lock, cancelled>>
  BY DEF Start
<1>2. CASE job' = [Pending(job.type) EXCEPT !.status = "processing"]
           /\ \/ StoreJob(job')
              \/ /\ Fault("redis")
                 /\ stored' = job'
                 /\ UNCHANGED <<ckpt, cached>>
           /\ width' \in Widths /\ range' = Config /\ rest' = Units /\ phase' = "plan"
  <2>1. stored' \in {stored, job'} /\ UNCHANGED <<ckpt, cached>>
    BY <1>2 DEF StoreJob
  <2>2. NoFault \/ \E kind \in FaultKinds : Fault(kind)
    BY <1>2 DEF StoreJob, Answers, NoAnswer, FaultKinds
  <2> QED BY <1>1, <1>2, <2>1, <2>2, FaultKept DEF Anew, Shapes
<1>3. CASE FromCache /\ Answers
  BY <1>1, <1>3, FaultKept DEF Answers, Shapes
<1> QED BY <1>1, <1>2, <1>3 DEF Start, FromCache

LEMMA CachedJob ==
    ASSUME Shapes, FromCache
    PROVE  /\ job' \in Shape /\ job'.status = "completed" /\ job'.document = cached
<1> DEFINE n == IF job.type = "pdf" THEN Len(Pages) ELSE 0
<1>1. n \in Nat /\ job \in Shape /\ cached \in Document
  BY PagesFacts DEF Shapes, SharedShape, RedisShape
<1>2. job' = [job EXCEPT !.status = "completed", !.document = cached, !.processed = n]
  BY DEF FromCache
<1> HIDE DEF n
<1> QED BY <1>1, <1>2 DEF Shape, Statuses

LEMMA NewJob ==
    ASSUME Shapes, Anew
    PROVE  /\ job' \in Shape /\ job'.status = "processing" /\ job'.processed = 0
           /\ job'.document = NoDocument
<1>1. job.type \in Types
  BY DEF Shapes, SharedShape, Shape
<1>2. Pending(job.type) \in Shape
  BY <1>1, PendingShape
<1> QED BY <1>2 DEF Anew, Pending, Shape, Statuses

LEMMA StartKeeps == Shapes /\ Start => Shapes'
<1> SUFFICES ASSUME Shapes, Start PROVE Shapes'
  OBVIOUS
<1>1. /\ UNCHANGED <<batch, task, results, pageDone, lock, cancelled>>
      /\ faults' \in 0..MaxFaults
  BY StartShape
<1>2. CASE FromCache
  <2>1. RunShape'
    BY <1>1, <1>2 DEF Shapes, RunShape, FromCache, Phases
  <2>2. SharedShape'
    BY <1>1, <1>2, CachedJob DEF Shapes, SharedShape
  <2>3. RedisShape'
    BY <1>2 DEF Shapes, RedisShape, FromCache, redisVars
  <2> QED BY <1>1, <2>1, <2>2, <2>3 DEF Shapes, TaskShape, FaultShape
<1>3. CASE Anew
  <2>1. RunShape'
    BY <1>1, <1>3, PagesFacts, UnitsFacts DEF Shapes, RunShape, Anew, Phases
  <2>2. SharedShape'
    BY <1>1, <1>3, NewJob DEF Shapes, SharedShape
  <2>3. RedisShape'
    BY <1>3, NewJob DEF Shapes, RedisShape, Anew
  <2> QED BY <1>1, <2>1, <2>2, <2>3 DEF Shapes, TaskShape, FaultShape
<1> QED BY <1>2, <1>3, StartShape

LEMMA BatchShape ==
    ASSUME Shapes, StartBatch
    PROVE  /\ batch' \in Seq(Seq(UnitSet))
           /\ \E k \in 0..Len(ChunksOf(rest, range)) : batch' = SubSeq(ChunksOf(rest, range), 1, k)
<1> DEFINE chunks == ChunksOf(rest, range)
<1>1. rest \in Seq(UnitSet) /\ width \in Nat
  BY DEF Shapes, RunShape
<1>2. chunks \in Seq(Seq(UnitSet))
  BY <1>1, ChunksAreCut
<1>3. batch' = BatchOf(chunks)
  BY DEF StartBatch
<1> HIDE DEF chunks
<1>4. SubSeq(chunks, 1, Len(chunks)) = chunks
  BY <1>2
<1>5. Smaller(width, Len(chunks)) \in 0..Len(chunks) /\ Len(chunks) \in 0..Len(chunks)
  BY <1>1, <1>2 DEF Smaller
<1>6. \E k \in 0..Len(chunks) : batch' = SubSeq(chunks, 1, k)
  BY <1>3, <1>4, <1>5 DEF BatchOf
<1>7. <<>> \in Seq(UnitSet)
  OBVIOUS
<1>8. batch' \in Seq(Seq(UnitSet))
  BY <1>2, <1>6, <1>7, SequenceFacts
<1> QED BY <1>6, <1>8 DEF chunks

LEMMA StartBatchKeeps == Shapes /\ StartBatch => Shapes'
<1> SUFFICES ASSUME Shapes, StartBatch PROVE Shapes'
  OBVIOUS
<1>1. /\ task' = Goroutines(batch') /\ phase' = "batch"
      /\ UNCHANGED <<width, range, rest, results, pageDone, lock, job, redisVars,
                     cancelled, faults>>
  BY DEF StartBatch
<1>2. batch' \in Seq(Seq(UnitSet))
  BY BatchShape
<1>3. RunShape'
  BY <1>1, <1>2 DEF Shapes, RunShape, Phases
<1>4. TaskShape'
  <2>1. PICK chunks \in Seq(Seq(UnitSet)) : chunks = batch'
    BY <1>2
  <2>2. /\ Goroutines(chunks) \in Seq(Routine)
        /\ Len(Goroutines(chunks)) = Len(chunks)
        /\ \A i \in 1..Len(chunks) : Goroutines(chunks)[i].todo = <<chunks[i]>>
    BY GoroutinesShape
  <2>3. \A i \in 1..Len(chunks) : <<chunks[i]>> # <<>>
    OBVIOUS
  <2> QED BY <1>1, <2>1, <2>2, <2>3 DEF TaskShape
<1> QED BY <1>1, <1>3, <1>4 DEF Shapes, SharedShape, RedisShape, FaultShape, redisVars

LEMMA ResultShape ==
    ASSUME Shapes, NEW i \in 1..Len(batch)
    PROVE  Result(i) \in ResultSet
<1>1. task[i] \in Routine /\ batch[i] \in Seq(UnitSet)
  BY DEF Shapes, TaskShape, RunShape
<1>2. Source(batch[i]) \in Seq(Pieces)
  BY <1>1, PieceType
<1>3. task[i].out \in Seq(Pieces) /\ task[i].failed \in BOOLEAN
  BY <1>1 DEF Routine
<1> QED BY <1>2, <1>3 DEF Result, ResultSet

NewResults == [i \in 1..Len(batch) |-> Result(i)]

LEMMA NewResultsShape ==
    ASSUME Shapes
    PROVE  NewResults \in Seq(ResultSet) /\ Len(NewResults) = Len(batch)
<1>1. Len(batch) \in Nat
  BY DEF Shapes, RunShape
<1>2. NewResults \in [1..Len(batch) -> ResultSet]
  BY ResultShape DEF NewResults
<1> QED BY <1>1, <1>2, AsSequence

LEMMA CollectKeeps == Shapes /\ Collect => Shapes'
<1> SUFFICES ASSUME Shapes, Collect PROVE Shapes'
  OBVIOUS
<1> DEFINE left == After(rest, Len(FlattenSeq(batch)))
<1>1. /\ results' = results \o NewResults /\ rest' = left /\ phase' = "plan"
      /\ range' \in {range, Reduced(range)}
      /\ UNCHANGED <<width, batch, task, pageDone, lock, job, redisVars,
                     cancelled, faults>>
  BY DEF Collect, NewResults, After
<1>2. left \in Seq(UnitSet)
  <2>1. rest \in Seq(UnitSet) /\ batch \in Seq(Seq(UnitSet))
    BY DEF Shapes, RunShape
  <2>2. Len(FlattenSeq(batch)) \in Nat
    BY <2>1, FlattenType
  <2> QED BY <2>1, <2>2 DEF After
<1> HIDE DEF left
<1>3. range' \in WordRange
  BY <1>1, ReducedType DEF Shapes, RunShape
<1>4. results' \in Seq(ResultSet)
  BY <1>1, NewResultsShape DEF Shapes, RunShape
<1>5. RunShape'
  BY <1>1, <1>2, <1>3, <1>4 DEF Shapes, RunShape, Phases
<1> QED BY <1>1, <1>5 DEF Shapes, TaskShape, SharedShape, RedisShape, FaultShape, redisVars

LEMMA ConcludeShape ==
    ASSUME Shapes, Conclude
    PROVE  /\ job' \in Shape
           /\ \/ job'.status = "failed" /\ phase' = "final"
              \/ /\ job'.status = "completed" /\ phase' = "cache"
                 /\ job'.document = Assembled(results)
           /\ job'.processed = job.processed
<1>1. job \in Shape /\ results \in Seq(ResultSet)
  BY DEF Shapes, SharedShape, RunShape
<1>2. Assembled(results) \in Document
  BY <1>1, AssembledType, DocumentFacts
<1>4. CASE job' = [job EXCEPT !.status = "failed"] /\ phase' = "final"
  BY <1>1, <1>4 DEF Shape, Statuses
<1>5. CASE /\ job' = [job EXCEPT !.status = "completed", !.document = Assembled(results)]
           /\ phase' = "cache"
  BY <1>1, <1>2, <1>5 DEF Shape, Statuses
<1> QED BY <1>4, <1>5 DEF Conclude

LEMMA EndKeeps == Shapes /\ (Conclude \/ CacheDocument \/ StoreResult) => Shapes'
<1> SUFFICES ASSUME Shapes, Conclude \/ CacheDocument \/ StoreResult PROVE Shapes'
  OBVIOUS
<1>1. CASE Conclude
  <2>1. /\ UNCHANGED <<width, range, rest, batch, task, results, pageDone, lock,
                       redisVars, cancelled, faults>>
    BY <1>1 DEF Conclude
  <2>2. job' \in Shape /\ phase' \in Phases
    BY <1>1, ConcludeShape DEF Phases
  <2> QED BY <2>1, <2>2
          DEF Shapes, RunShape, TaskShape, SharedShape, RedisShape, FaultShape, redisVars
<1>2. CASE CacheDocument
  <2>1. /\ cached' \in {job.document, cached} /\ phase' = "final"
        /\ UNCHANGED <<width, range, rest, batch, task, results, pageDone, lock,
                       job, stored, ckpt, cancelled>>
    BY <1>2 DEF CacheDocument
  <2>2. NoFault \/ \E kind \in FaultKinds : Fault(kind)
    BY <1>2 DEF CacheDocument, Answers, NoAnswer, FaultKinds
  <2>3. faults' \in 0..MaxFaults
    BY <2>2, FaultKept DEF Shapes
  <2>4. cached' \in Document
    BY <2>1 DEF Shapes, SharedShape, RedisShape, Shape
  <2> QED BY <2>1, <2>3, <2>4
          DEF Shapes, RunShape, TaskShape, SharedShape, RedisShape, FaultShape, Phases
<1>3. CASE StoreResult
  <2>1. /\ StoreJob(job) /\ phase' = "over"
        /\ UNCHANGED <<width, range, rest, batch, task, results, pageDone, lock,
                       job, cancelled>>
    BY <1>3 DEF StoreResult
  <2>2. stored' \in {stored, job} /\ UNCHANGED <<ckpt, cached>> /\ faults' \in 0..MaxFaults
    BY <2>1, StoreJobShape
  <2> QED BY <2>1, <2>2
          DEF Shapes, RunShape, TaskShape, SharedShape, RedisShape, FaultShape, Phases
<1> QED BY <1>1, <1>2, <1>3

LEMMA ReplacedTask ==
    ASSUME Shapes, NEW i \in 1..Len(task), NEW u, Replaced(i, u)
    PROVE  /\ task' \in Seq(Routine) /\ Len(task') = Len(task)
           /\ task'[i] = u
           /\ \A j \in 1..Len(task) : j # i => task'[j] = task[j]
  BY DEF Replaced, Shapes, TaskShape

LEMMA WorkKeeps == ASSUME Shapes, NEW i \in 1..Len(task), Work(i) PROVE Shapes'
<1> DEFINE t == task[i]
<1>1. PICK u : Replaced(i, u) /\ Works(i, t, u)
  BY WorkShape
<1>2. UNCHANGED <<runVars, cancelled>> /\ faults' \in 0..MaxFaults
  BY WorkShape
<1>3. t \in Routine /\ u \in Routine /\ i \in 1..Len(batch)
      /\ (t.pc \in Talking => t.todo # <<>>)
  BY <1>1, TheTask DEF Shapes, Replaced
<1>4. u.pc \in Talking => u.todo # <<>>
  <2>1. CASE Splits(t, u)
    <3>1. PICK groups \in {Halves(Head(t.todo)), Singles(Head(t.todo))} :
             u.todo = groups \o Tail(t.todo)
      BY <2>1 DEF Splits
    <3>2. t.todo \in Seq(Seq(UnitSet)) /\ t.todo # <<>>
      BY <1>3, <2>1 DEF Splits, Routine
    <3>3. Head(t.todo) \in Seq(UnitSet) /\ Tail(t.todo) \in Seq(Seq(UnitSet))
      BY <3>2, HeadTail
    <3>4. Len(Head(t.todo)) > 1
      BY <2>1 DEF Splits
    <3>5. groups \in Seq(Seq(UnitSet)) /\ Len(groups) > 1
      <4>1. CASE groups = Halves(Head(t.todo))
        <5>1. /\ Halves(Head(t.todo)) \in Seq(Seq(UnitSet))
              /\ Len(Halves(Head(t.todo))) = 2
          BY <3>3, HalvesType
        <5> HIDE DEF t
        <5>2. groups \in Seq(Seq(UnitSet)) /\ Len(groups) = 2
          BY <4>1, <5>1, Zenon
        <5> QED BY <5>2
      <4>2. CASE groups = Singles(Head(t.todo))
        BY <3>3, <3>4, <4>2, SinglesType
      <4> QED BY <4>1, <4>2
    <3>6. PICK tail \in Seq(Seq(UnitSet)) : tail = Tail(t.todo)
      BY <3>3
    <3>7. Len(groups \o tail) > 1
      BY <3>5
    <3>8. groups \o tail # <<>>
      BY <3>7
    <3> QED BY <3>1, <3>6, <3>8
  <2>2. CASE ~ Splits(t, u)
    BY <1>1, <1>3, <2>2
       DEF Works, TalksAlone, Talks, Hits, Fails, Proceeds, Answered, Stores, Counts,
           HasCounted, Saves, Keeps, Carries, Talking
  <2> QED BY <2>1, <2>2
<1>5. TaskShape'
  <2>1. batch' = batch
    BY <1>2 DEF runVars
  <2> QED BY <1>1, <1>4, <2>1, ReplacedTask DEF Shapes, TaskShape
<1>6. SharedShape' /\ RedisShape'
  <2>1. job \in Shape /\ lock \in Nat /\ pageDone \in [1..Len(Pages) -> Nat]
        /\ stored \in Shape /\ ckpt \subseteq CheckpointSet /\ cached \in Document
    BY DEF Shapes, SharedShape, RedisShape
  <2>2. CASE TalksAlone(i, t, u)
    BY <2>1, <2>2 DEF TalksAlone, SharedVars, redisVars, SharedShape, RedisShape
  <2>3. CASE Stores(i, t, u)
    <3>1. t.snap \in Nat
      BY <1>3 DEF Routine
    <3>2. [job EXCEPT !.processed = t.snap] \in Shape
      BY <2>1, <3>1 DEF Shape
    <3> QED BY <2>1, <2>3, <3>2 DEF Stores, SharedShape, RedisShape
  <2>4. CASE Counts(i, t, u)
    <3>1. job' \in Shape
      <4>1. job.processed + 1 \in Nat
        BY <2>1 DEF Shape
      <4>2. [job EXCEPT !.processed = job.processed + 1] \in Shape
        BY <2>1, <4>1 DEF Shape
      <4> QED BY <2>1, <2>4, <4>2 DEF Counts
    <3>2. pageDone' \in [1..Len(Pages) -> Nat]
      <4> DEFINE p == t.out[t.counted + 1].page
      <4>1. pageDone' = [pageDone EXCEPT ![p] = pageDone[p] + 1]
        BY <2>4 DEF Counts
      <4> HIDE DEF p
      <4>2. CASE p \in 1..Len(Pages)
        BY <2>1, <4>1, <4>2
      <4>3. CASE p \notin 1..Len(Pages)
        BY <2>1, <4>1, <4>3
      <4> QED BY <4>2, <4>3
    <3>3. lock' \in Nat
      BY <2>4 DEF Counts
    <3> QED BY <2>1, <2>4, <3>1, <3>2, <3>3 DEF Counts, SharedShape, RedisShape, redisVars
  <2>5. CASE HasCounted(i, t, u)
    BY <2>1, <2>5 DEF HasCounted, redisVars, SharedShape, RedisShape
  <2>6. CASE Saves(i, t, u)
    <3>1. batch[i] \in Seq(UnitSet) /\ t.out \in Seq(Pieces)
      <4>1. batch \in Seq(Seq(UnitSet))
        BY DEF Shapes, RunShape
      <4>2. batch[i] \in Seq(UnitSet)
        BY <1>3, <4>1
      <4> QED BY <1>3, <4>2 DEF Routine
    <3>2. [key |-> batch[i], value |-> t.out] \in CheckpointSet
      BY <3>1 DEF CheckpointSet
    <3> QED BY <2>1, <2>6, <3>2 DEF Saves, SharedShape, RedisShape
  <2> QED BY <1>1, <2>2, <2>3, <2>4, <2>5, <2>6 DEF Works
<1>7. RunShape'
  BY <1>2 DEF Shapes, RunShape, runVars
<1> QED BY <1>2, <1>5, <1>6, <1>7 DEF Shapes, FaultShape

LEMMA EnvironmentKeeps == Shapes /\ (Cancel \/ Crash) => Shapes'
<1> SUFFICES ASSUME Shapes, Cancel \/ Crash PROVE Shapes'
  OBVIOUS
<1>1. CASE Cancel
  <2>1. faults' \in 0..MaxFaults
    BY <1>1, FaultKept DEF Cancel, Shapes, FaultKinds
  <2>2. cancelled' = TRUE /\ UNCHANGED <<runVars, task, SharedVars>>
    BY <1>1 DEF Cancel
  <2> QED BY <2>1, <2>2
          DEF Shapes, RunShape, TaskShape, SharedShape, RedisShape, FaultShape, runVars,
              SharedVars, redisVars
<1>2. CASE Crash
  <2>1. faults' \in 0..MaxFaults
    BY <1>2, FaultKept DEF Crash, Shapes, FaultKinds
  <2>2. /\ phase' = "start" /\ width' = 1 /\ range' = Config
        /\ rest' = <<>> /\ batch' = <<>> /\ task' = <<>> /\ results' = <<>>
        /\ pageDone' = NoPages /\ lock' = 0 /\ job' = Pending(job.type)
        /\ cancelled' = FALSE /\ UNCHANGED redisVars
    BY <1>2 DEF Crash
  <2>3. job' \in Shape
    BY <2>2, PendingShape DEF Shapes, SharedShape, Shape
  <2>4. RunShape'
    BY <2>2, PagesFacts DEF RunShape, Phases
  <2>5. SharedShape'
    BY <2>2, <2>3, NoPagesType DEF SharedShape
  <2>6. TaskShape'
    BY <2>2 DEF TaskShape
  <2> QED BY <2>1, <2>2, <2>4, <2>5, <2>6
          DEF Shapes, TaskShape, RedisShape, FaultShape, redisVars
<1> QED BY <1>1, <1>2

LEMMA ShapesStep == Shapes /\ [Next]_vars => Shapes'
<1> SUFFICES ASSUME Shapes, [Next]_vars PROVE Shapes'
  OBVIOUS
<1>1. CASE UNCHANGED vars
  BY <1>1 DEF vars, runVars, redisVars, Shapes, RunShape, TaskShape, SharedShape,
              RedisShape, FaultShape
<1> QED BY <1>1, StartKeeps, StartBatchKeeps, CollectKeeps, EndKeeps, WorkKeeps,
           EnvironmentKeeps DEF Next, Coordinator

-------------------------------------------------------------------------------
(* Who can still write: outside a batch no goroutine is left, and nothing  *)
(* is completed before the coordinator is through.                         *)

NoneLeft  == \A i \in 1..Len(task) : task[i].pc = "end"

PhaseInv ==
    /\ phase = "start" => task = <<>>
    /\ phase # "batch" => NoneLeft
    /\ job.status = "completed" => phase \in {"cache", "final", "over"}
    /\ stored.status = "completed" => phase = "over"

LEMMA PhaseInit == Init => PhaseInv
<1> SUFFICES ASSUME Init PROVE PhaseInv
  OBVIOUS
<1>1. task = <<>> /\ phase = "start"
  BY DEF Init
<1>2. job.status = "pending" /\ stored.status = "pending"
  BY DEF Init, Pending
<1> QED BY <1>1, <1>2 DEF PhaseInv, NoneLeft

LEMMA WorkingPc ==
    ASSUME NEW i, NEW t, NEW u, Works(i, t, u)
    PROVE  t.pc # "end"
  BY DEF Works, TalksAlone, Talks, Hits, Fails, Proceeds, Splits, Answered, Stores, Counts,
         HasCounted, Saves, Talking

\* A goroutine moves only while its batch is on.
LEMMA WorkInBatch ==
    ASSUME Shapes, PhaseInv, NEW i \in 1..Len(task), Work(i)
    PROVE  phase = "batch"
<1>1. PICK u : Works(i, task[i], u)
  BY WorkShape
<1>2. task[i].pc # "end"
  BY <1>1, WorkingPc
<1> QED BY <1>2 DEF PhaseInv, NoneLeft

\* It leaves the status and the document of the job alone.
LEMMA WorkLeaves ==
    ASSUME Shapes, NEW i \in 1..Len(task), Work(i)
    PROVE  /\ job'.status = job.status /\ job'.document = job.document
           /\ stored'.status \in {stored.status, job.status}
           /\ stored' = stored \/ (/\ stored'.status = job.status
                                   /\ stored'.document = job.document)
           /\ cached' = cached
<1>1. PICK u : Works(i, task[i], u)
  BY WorkShape
<1>2. job \in Shape /\ stored \in Shape
  BY DEF Shapes, SharedShape, RedisShape
<1>3. \A n : /\ [job EXCEPT !.processed = n].status = job.status
             /\ [job EXCEPT !.processed = n].document = job.document
  BY <1>2 DEF Shape
<1>4. \/ job' = job
      \/ \E n : job' = [job EXCEPT !.processed = n]
  BY <1>1 DEF Works, TalksAlone, SharedVars, Stores, Counts, HasCounted, Saves
<1>5. \/ stored' = stored
      \/ \E n : stored' = [job EXCEPT !.processed = n]
  BY <1>1 DEF Works, TalksAlone, SharedVars, redisVars, Stores, Counts, HasCounted, Saves
<1>6. cached' = cached
  BY <1>1 DEF Works, TalksAlone, SharedVars, redisVars, Stores, Counts, HasCounted, Saves
<1> QED BY <1>3, <1>4, <1>5, <1>6

LEMMA PhaseStart == Shapes /\ PhaseInv /\ Start => PhaseInv'
<1> SUFFICES ASSUME Shapes, PhaseInv, Start PROVE PhaseInv'
  OBVIOUS
<1>1. phase = "start" /\ task' = task /\ task = <<>> /\ stored.status # "completed"
  BY StartShape DEF PhaseInv
<1>2. NoneLeft'
  BY <1>1 DEF NoneLeft
<1>3. CASE FromCache
  BY <1>1, <1>2, <1>3 DEF FromCache, PhaseInv, redisVars
<1>4. CASE Anew
  <2>1. job'.status = "processing" /\ phase' = "plan" /\ stored' \in {stored, job'}
    BY <1>4, NewJob DEF Anew
  <2> QED BY <1>1, <1>2, <2>1 DEF PhaseInv
<1> QED BY <1>3, <1>4, StartShape

LEMMA PhaseRun ==
    Shapes /\ PhaseInv /\ (StartBatch \/ Collect \/ Conclude \/ CacheDocument \/ StoreResult)
        => PhaseInv'
<1> SUFFICES ASSUME Shapes, PhaseInv,
                    StartBatch \/ Collect \/ Conclude \/ CacheDocument \/ StoreResult
             PROVE  PhaseInv'
  OBVIOUS
<1>1. CASE StartBatch
  <2>1. phase = "plan" /\ phase' = "batch" /\ job' = job /\ stored' = stored
    BY <1>1 DEF StartBatch, redisVars
  <2> QED BY <2>1 DEF PhaseInv
<1>2. CASE Collect
  <2>1. /\ phase = "batch" /\ phase' = "plan" /\ job' = job /\ stored' = stored /\ task' = task
        /\ \A i \in 1..Len(batch) : task[i].pc = "end"
    BY <1>2 DEF Collect, redisVars, Done
  <2>2. NoneLeft'
    BY <2>1 DEF NoneLeft, Shapes, TaskShape
  <2> QED BY <2>1, <2>2 DEF PhaseInv
<1>3. CASE Conclude
  <2>1. phase = "plan" /\ stored' = stored /\ task' = task
    BY <1>3 DEF Conclude, redisVars
  <2>2. NoneLeft'
    BY <2>1 DEF NoneLeft, PhaseInv
  <2> QED BY <1>3, <2>1, <2>2, ConcludeShape DEF PhaseInv
<1>4. CASE CacheDocument
  <2>1. phase = "cache" /\ phase' = "final" /\ job' = job /\ stored' = stored /\ task' = task
    BY <1>4 DEF CacheDocument
  <2>2. NoneLeft'
    BY <2>1 DEF NoneLeft, PhaseInv
  <2> QED BY <2>1, <2>2 DEF PhaseInv
<1>5. CASE StoreResult
  <2>1. phase = "final" /\ phase' = "over" /\ job' = job /\ task' = task
    BY <1>5 DEF StoreResult
  <2>2. NoneLeft'
    BY <2>1 DEF NoneLeft, PhaseInv
  <2> QED BY <2>1, <2>2 DEF PhaseInv
<1> QED BY <1>1, <1>2, <1>3, <1>4, <1>5

LEMMA PhaseStep == Shapes /\ PhaseInv /\ [Next]_vars => PhaseInv'
<1> SUFFICES ASSUME Shapes, PhaseInv, [Next]_vars PROVE PhaseInv'
  OBVIOUS
<1>1. CASE UNCHANGED vars
  BY <1>1 DEF vars, runVars, redisVars, PhaseInv, NoneLeft
<1>2. ASSUME NEW i \in 1..Len(task), Work(i) PROVE PhaseInv'
  <2>1. phase = "batch" /\ phase' = "batch"
    BY <1>2, WorkInBatch, WorkShape DEF runVars
  <2>2. job'.status # "completed" /\ stored'.status # "completed"
    BY <1>2, <2>1, WorkLeaves DEF PhaseInv
  <2> QED BY <2>1, <2>2 DEF PhaseInv
<1>3. CASE Cancel
  BY <1>3 DEF Cancel, SharedVars, runVars, redisVars, PhaseInv, NoneLeft
<1>4. CASE Crash
  <2>1. /\ phase' = "start" /\ task' = <<>> /\ job' = Pending(job.type) /\ stored' = stored
        /\ ~ (phase = "over" /\ stored.status = "completed")
    BY <1>4 DEF Crash, redisVars
  <2>2. job'.status = "pending"
    BY <2>1 DEF Pending
  <2>3. NoneLeft'
    BY <2>1 DEF NoneLeft
  <2> QED BY <2>1, <2>2, <2>3 DEF PhaseInv
<1> QED BY <1>1, <1>2, <1>3, <1>4, PhaseStart, PhaseRun DEF Next, Coordinator

\* For every document, configuration and number of faults: once the result of
\* a job is stored, nothing overwrites it (wg.Wait before the final Update).
THEOREM ResultStays == Spec => ResultIsLastWrite
<1>1. Shapes /\ PhaseInv /\ [Next]_vars => [stored.status = "completed" => stored' = stored]_vars
  <2> SUFFICES ASSUME Shapes, PhaseInv, Next, stored.status = "completed"
               PROVE  stored' = stored
    OBVIOUS
  <2>1. phase = "over"
    BY DEF PhaseInv
  <2>2. ~ \E i \in 1..Len(task) : Work(i)
    BY <2>1, WorkInBatch
  <2>3. ~ (Start \/ StartBatch \/ Collect \/ Conclude \/ CacheDocument \/ StoreResult)
    BY <2>1 DEF Start, StartBatch, Collect, Conclude, CacheDocument, StoreResult
  <2> QED BY <2>2, <2>3 DEF Next, Coordinator, Cancel, Crash, SharedVars, redisVars
<1> QED
  BY <1>1, ShapesInit, ShapesStep, PhaseInit, PhaseStep, PTL DEF Spec, ResultIsLastWrite

-------------------------------------------------------------------------------
(* What a goroutine has of its chunk: a first part of it translated, and   *)
(* the rest to do, in non-empty groups; in the end the whole chunk, or a   *)
(* failure.  Translating apart only cuts the groups finer.                 *)

HasTranslated(t, chunk, k) ==
    /\ Cut(t.todo, chunk, k, Len(chunk))
    /\ t.out = Translated(SubSeq(chunk, 1, k))

RoutineOK(t, chunk) ==
    /\ t.pc \in Talking =>
          /\ t.counted = 0 /\ ~ t.failed
          /\ \E k \in 0..Len(chunk) : HasTranslated(t, chunk, k)
    /\ t.pc \in Counting \cup {"save"} => ~ t.failed /\ t.out = Translated(chunk)
    /\ t.pc = "end" /\ ~ t.failed => t.out = Translated(chunk)

RoutinesOK == \A i \in 1..Len(task) : RoutineOK(task[i], batch[i])

TranslationInv == RoutinesOK /\ CheckpointsAreTranslations

LEMMA SingleUnit ==
    ASSUME NEW S, NEW units \in Seq(S), NEW k \in 1..Len(units)
    PROVE  SubSeq(units, k, k) = <<units[k]>>
<1> DEFINE s == SubSeq(units, k, k)
<1>1. s \in Seq(S) /\ Len(s) = 1 /\ s[1] = units[k]
  OBVIOUS
<1>2. s = [i \in 1..1 |-> s[i]]
  BY <1>1
<1>3. \A i \in 1..1 : s[i] = <<units[k]>>[i]
  BY <1>1
<1> HIDE DEF s
<1>4. s = <<units[k]>>
  BY <1>1, <1>2, <1>3
<1> QED BY <1>4 DEF s

LEMMA PairOfGroups ==
    ASSUME NEW A, NEW x \in A, NEW y \in A
    PROVE  <<x, y>> = <<x>> \o <<y>>
<1> DEFINE s == <<x>> \o <<y>>
           t == <<x, y>>
<1>1. s \in Seq(A) /\ Len(s) = 2 /\ s[1] = x /\ s[2] = y
  OBVIOUS
<1>2. t \in Seq(A) /\ Len(t) = 2 /\ t[1] = x /\ t[2] = y
  OBVIOUS
<1> HIDE DEF s, t
<1>3. \A i \in 1..2 : s[i] = t[i]
  BY <1>1, <1>2
<1>4. s = t
  BY <1>1, <1>2, <1>3
<1> QED BY <1>4 DEF s, t

LEMMA CutSingles ==
    ASSUME NEW units \in Seq(UnitSet),
           NEW a \in 0..Len(units), NEW b \in 0..Len(units), a <= b
    PROVE  Cut(Singles(SubSeq(units, a + 1, b)), units, a, b)
<1> DEFINE piece == SubSeq(units, a + 1, b)
           s == Singles(piece)
           f == [i \in 0..(b - a) |-> a + i]
<1>1. piece \in Seq(UnitSet) /\ Len(piece) = b - a
      /\ \A i \in 1..(b - a) : piece[i] = units[a + i]
  OBVIOUS
<1>2. Len(s) = b - a /\ \A i \in 1..(b - a) : s[i] = <<piece[i]>>
  <2>1. Len(s) = b - a
    BY <1>1, SinglesType
  <2>2. s = [i \in 1..(b - a) |-> <<piece[i]>>]
    BY <1>1 DEF Singles
  <2> HIDE DEF piece
  <2> QED BY <2>1, <2>2
<1>3. ASSUME NEW i \in 1..(b - a)
      PROVE  f[i - 1] < f[i] /\ s[i] = SubSeq(units, f[i - 1] + 1, f[i])
  <2>1. i - 1 \in 0..(b - a) /\ f[i - 1] = a + i - 1 /\ f[i] = a + i
    OBVIOUS
  <2>2. PICK k \in 1..Len(units) : k = a + i
    OBVIOUS
  <2>3. SubSeq(units, k, k) = <<units[k]>>
    BY SingleUnit
  <2>4. (a + i - 1) + 1 = k
    BY <2>2
  <2>5. s[i] = <<units[k]>>
    BY <1>1, <1>2, <2>2
  <2> HIDE DEF f, s
  <2> QED BY <2>1, <2>2, <2>3, <2>4, <2>5
<1>4. f \in [0..(b - a) -> 0..Len(units)] /\ f[0] = a /\ f[b - a] = b
  OBVIOUS
<1> HIDE DEF f, s
<1>5. CutAt(s, units, f)
  BY <1>2, <1>3, <1>4 DEF CutAt
<1> QED BY <1>2, <1>4, <1>5 DEF Cut, s

LEMMA CutHalves ==
    ASSUME NEW units \in Seq(UnitSet),
           NEW a \in 0..Len(units), NEW b \in 0..Len(units), b - a > 1
    PROVE  Cut(Halves(SubSeq(units, a + 1, b)), units, a, b)
<1> DEFINE piece == SubSeq(units, a + 1, b)
           mid   == Len(piece) \div 2
<1>1. Len(piece) = b - a /\ mid \in 1..(b - a - 1)
  <2>1. Len(piece) = b - a
    OBVIOUS
  <2>2. PICK n \in Nat : n = b - a /\ n > 1
    OBVIOUS
  <2>3. n \div 2 \in 1..(n - 1)
    BY <2>2
  <2> HIDE DEF piece
  <2> QED BY <2>1, <2>2, <2>3
<1> HIDE DEF mid
<1>2. PICK c \in 0..Len(units) : c = a + mid /\ a < c /\ c < b
  BY <1>1
<1>3. SubSeq(piece, 1, mid) = SubSeq(units, a + 1, c)
  BY <1>1, <1>2
<1>4. SubSeq(piece, mid + 1, Len(piece)) = SubSeq(units, c + 1, b)
  BY <1>1, <1>2
<1>5. SubSeq(units, a + 1, c) \in Seq(UnitSet) /\ SubSeq(units, c + 1, b) \in Seq(UnitSet)
  BY <1>2
<1>8. Halves(piece) = <<SubSeq(units, a + 1, c)>> \o <<SubSeq(units, c + 1, b)>>
  <2>1. Halves(piece) = <<SubSeq(units, a + 1, c), SubSeq(units, c + 1, b)>>
    BY <1>3, <1>4 DEF Halves, mid
  <2> QED BY <1>5, <2>1, PairOfGroups
<1>6. /\ Cut(<<SubSeq(units, a + 1, c)>>, units, a, c)
      /\ Cut(<<SubSeq(units, c + 1, b)>>, units, c, b)
  BY <1>2, CutOne
<1>7. /\ <<SubSeq(units, a + 1, c)>> \in Seq(Seq(UnitSet))
      /\ <<SubSeq(units, c + 1, b)>> \in Seq(Seq(UnitSet))
  BY <1>5
<1> QED BY <1>6, <1>7, <1>8, CutConcat

LEMMA TranslatedConcat ==
    ASSUME NEW units \in Seq(UnitSet),
           NEW a \in 0..Len(units), NEW b \in 0..Len(units), a <= b
    PROVE  Translated(SubSeq(units, 1, a)) \o Translated(SubSeq(units, a + 1, b))
             = Translated(SubSeq(units, 1, b))
<1> DEFINE x == SubSeq(units, 1, a)
           y == SubSeq(units, a + 1, b)
           z == SubSeq(units, 1, b)
<1>1. /\ x \in Seq(UnitSet) /\ y \in Seq(UnitSet) /\ z \in Seq(UnitSet)
      /\ Len(x) = a /\ Len(y) = b - a /\ Len(z) = b
      /\ \A i \in 1..b : z[i] = IF i <= a THEN x[i] ELSE y[i - a]
  OBVIOUS
<1> HIDE DEF x, y, z
<1>2. /\ Translated(x) \in Seq(Pieces) /\ Len(Translated(x)) = a
      /\ Translated(y) \in Seq(Pieces) /\ Len(Translated(y)) = b - a
      /\ Translated(z) \in Seq(Pieces) /\ Len(Translated(z)) = b
  BY <1>1, PieceType
<1>3. /\ \A i \in 1..a : Translated(x)[i] = Piece(x[i], TRUE)
      /\ \A i \in 1..(b - a) : Translated(y)[i] = Piece(y[i], TRUE)
      /\ \A i \in 1..b : Translated(z)[i] = Piece(z[i], TRUE)
  BY <1>1 DEF Translated
<1> DEFINE c == Translated(x) \o Translated(y)
<1>4. c \in Seq(Pieces) /\ Len(c) = b
      /\ \A i \in 1..b : c[i] = IF i <= a THEN Translated(x)[i] ELSE Translated(y)[i - a]
  <2>1. PICK tx \in Seq(Pieces), ty \in Seq(Pieces) :
           tx = Translated(x) /\ ty = Translated(y) /\ Len(tx) = a /\ Len(ty) = b - a
    BY <1>2
  <2>2. /\ tx \o ty \in Seq(Pieces) /\ Len(tx \o ty) = Len(tx) + Len(ty)
        /\ \A i \in 1..(Len(tx) + Len(ty)) :
              (tx \o ty)[i] = IF i <= Len(tx) THEN tx[i] ELSE ty[i - Len(tx)]
    BY ConcatFacts
  <2>3. a + (b - a) = b
    OBVIOUS
  <2> QED BY <2>1, <2>2, <2>3
<1> HIDE DEF c
<1>5. ASSUME NEW i \in 1..b PROVE c[i] = Translated(z)[i]
  <2>1. CASE i <= a
    <3>1. i \in 1..a
      BY <2>1
    <3> QED BY <1>1, <1>3, <1>4, <2>1, <3>1
  <2>2. CASE ~ (i <= a)
    <3>1. i - a \in 1..(b - a)
      BY <2>2
    <3> QED BY <1>1, <1>3, <1>4, <2>2, <3>1
  <2> QED BY <2>1, <2>2
<1>6. c = Translated(z)
  BY <1>2, <1>4, <1>5
<1> QED BY <1>6 DEF c, x, y, z

LEMMA EmptyCut ==
    ASSUME NEW S, NEW units \in Seq(S), NEW a, NEW b, Cut(<<>>, units, a, b)
    PROVE  a = b
BY DEF Cut

\* A step of a goroutine keeps what it has of its chunk.
LEMMA HitKeeps ==
    ASSUME NEW i, NEW t, NEW u, NEW chunk, Hits(i, t, u), batch[i] = chunk,
           CheckpointsAreTranslations
    PROVE  RoutineOK(u, chunk)
  BY DEF Hits, RoutineOK, CheckpointsAreTranslations, Talking, Counting

LEMMA SplitKeeps ==
    ASSUME NEW t \in Routine, NEW u \in Routine, NEW chunk \in Seq(UnitSet),
           t.todo # <<>>, RoutineOK(t, chunk), Splits(t, u)
    PROVE  RoutineOK(u, chunk)
<1>1. PICK k \in 0..Len(chunk) : HasTranslated(t, chunk, k)
  BY DEF RoutineOK, Splits
<1>2. t.todo \in Seq(Seq(UnitSet))
  BY DEF Routine
<1>3. PICK b \in 0..Len(chunk) : /\ k < b
                                 /\ Head(t.todo) = SubSeq(chunk, k + 1, b)
                                 /\ Cut(Tail(t.todo), chunk, b, Len(chunk))
  BY <1>1, <1>2, CutHead DEF HasTranslated
<1>4. PICK groups \in {Halves(Head(t.todo)), Singles(Head(t.todo))} :
         u.todo = groups \o Tail(t.todo)
  BY DEF Splits
<1>5. Len(Head(t.todo)) > 1 /\ Head(t.todo) \in Seq(UnitSet)
      /\ Tail(t.todo) \in Seq(Seq(UnitSet))
  BY <1>2, HeadTail DEF Splits
<1>6. b - k > 1 /\ k <= b
  BY <1>3, <1>5
<1>7. groups \in Seq(Seq(UnitSet)) /\ Cut(groups, chunk, k, b)
  <2>1. CASE groups = Halves(Head(t.todo))
    <3>1. Cut(Halves(SubSeq(chunk, k + 1, b)), chunk, k, b)
      BY <1>6, CutHalves
    <3> QED BY <1>3, <1>5, <2>1, <3>1, HalvesType
  <2>2. CASE groups = Singles(Head(t.todo))
    <3>1. Cut(Singles(SubSeq(chunk, k + 1, b)), chunk, k, b)
      BY <1>6, CutSingles
    <3> QED BY <1>3, <1>5, <2>2, <3>1, SinglesType
  <2> QED BY <2>1, <2>2
<1>8. Cut(groups \o Tail(t.todo), chunk, k, Len(chunk))
  BY <1>3, <1>5, <1>7, CutConcat
<1>9. u.pc = "call" /\ u.out = t.out /\ u.counted = t.counted /\ u.failed = t.failed
      /\ t.pc \in Talking
  BY DEF Splits, Carries
<1>10. HasTranslated(u, chunk, k)
  BY <1>1, <1>4, <1>8, <1>9 DEF HasTranslated
<1> QED BY <1>9, <1>10 DEF RoutineOK, Talking, Counting

LEMMA AnswerKeeps ==
    ASSUME NEW t \in Routine, NEW u \in Routine, NEW chunk \in Seq(UnitSet),
           t.todo # <<>>, RoutineOK(t, chunk), Answered(t, u)
    PROVE  RoutineOK(u, chunk)
<1>1. PICK k \in 0..Len(chunk) : HasTranslated(t, chunk, k)
  BY DEF RoutineOK, Answered, Talking
<1>2. t.todo \in Seq(Seq(UnitSet))
  BY DEF Routine
<1>3. PICK b \in 0..Len(chunk) : /\ k < b
                                 /\ Head(t.todo) = SubSeq(chunk, k + 1, b)
                                 /\ Cut(Tail(t.todo), chunk, b, Len(chunk))
  BY <1>1, <1>2, CutHead DEF HasTranslated
<1>4. t.out \o Translated(Head(t.todo)) = Translated(SubSeq(chunk, 1, b))
  <2>1. Translated(SubSeq(chunk, 1, k)) \o Translated(SubSeq(chunk, k + 1, b))
          = Translated(SubSeq(chunk, 1, b))
    <3>1. k <= b
      BY <1>3
    <3> QED BY <3>1, TranslatedConcat
  <2> QED BY <1>1, <1>3, <2>1 DEF HasTranslated
<1>5. /\ u.out = Translated(SubSeq(chunk, 1, b)) /\ u.todo = Tail(t.todo)
      /\ u.counted = 0 /\ ~ u.failed
      /\ IF u.todo = <<>> THEN u.pc \in {"count", "save", "end"} ELSE u.pc = "call"
  BY <1>4 DEF Answered, RoutineOK, Talking
<1>6. CASE u.todo = <<>>
  <2>1. b = Len(chunk)
    BY <1>3, <1>5, <1>6, EmptyCut
  <2>2. SubSeq(chunk, 1, Len(chunk)) = chunk
    OBVIOUS
  <2> QED BY <1>5, <1>6, <2>1, <2>2 DEF RoutineOK, Talking, Counting
<1>7. CASE u.todo # <<>>
  <2>1. HasTranslated(u, chunk, b)
    BY <1>3, <1>5 DEF HasTranslated
  <2> QED BY <1>5, <1>7, <2>1 DEF RoutineOK, Talking, Counting
<1> QED BY <1>6, <1>7

LEMMA RoutineKeeps ==
    ASSUME NEW i, NEW t \in Routine, NEW u \in Routine, NEW chunk \in Seq(UnitSet),
           batch[i] = chunk, t.pc \in Talking => t.todo # <<>>,
           CheckpointsAreTranslations, RoutineOK(t, chunk), Works(i, t, u)
    PROVE  RoutineOK(u, chunk)
<1>1. CASE Hits(i, t, u)
  BY <1>1, HitKeeps
<1>2. CASE Splits(t, u)
  BY <1>2, SplitKeeps DEF Splits
<1>3. CASE Answered(t, u)
  BY <1>3, AnswerKeeps DEF Answered, Talking
<1>4. CASE Fails(t, u)
  BY <1>4 DEF Fails, RoutineOK, Talking, Counting
<1>5. CASE Proceeds(t, u)
  BY <1>5 DEF Proceeds, Keeps, Carries, RoutineOK, HasTranslated, Talking, Counting
<1>6. CASE Stores(i, t, u)
  BY <1>6 DEF Stores, Keeps, Carries, RoutineOK, HasTranslated, Talking, Counting
<1>7. CASE Counts(i, t, u) \/ HasCounted(i, t, u) \/ Saves(i, t, u)
  BY <1>7 DEF Counts, HasCounted, Saves, Keeps, Carries, RoutineOK, Talking, Counting
<1> QED BY <1>1, <1>2, <1>3, <1>4, <1>5, <1>6, <1>7 DEF Works, TalksAlone, Talks

LEMMA TranslationInit == Init => TranslationInv
  BY DEF Init, TranslationInv, RoutinesOK, CheckpointsAreTranslations

\* No chunk of a batch is empty.
LEMMA ChunksFilled ==
    ASSUME Shapes, StartBatch
    PROVE  \A i \in 1..Len(batch') : batch'[i] # <<>> /\ batch'[i] \in Seq(UnitSet)
<1>1. PICK chunks \in Seq(Seq(UnitSet)) : chunks = batch'
  BY BatchShape
<1>2. \A i \in 1..Len(chunks) : chunks[i] # <<>> /\ chunks[i] \in Seq(UnitSet)
  <2>1. rest \in Seq(UnitSet)
    BY DEF Shapes, RunShape
  <2>2. PICK all \in Seq(Seq(UnitSet)) :
           all = ChunksOf(rest, range) /\ Cut(all, rest, 0, Len(rest))
    BY <2>1, ChunksAreCut
  <2>3. PICK k \in 0..Len(all) : chunks = SubSeq(all, 1, k)
    BY <1>1, <2>2, BatchShape
  <2>4. \A i \in 1..Len(all) : all[i] # <<>>
    BY <2>1, <2>2, CutType
  <2>5. \A i \in 1..Len(chunks) : i \in 1..Len(all) /\ chunks[i] = all[i]
    BY <2>3
  <2> QED BY <2>4, <2>5
<1> QED BY <1>1, <1>2

LEMMA StartBatchTranslation ==
    Shapes /\ TranslationInv /\ StartBatch => TranslationInv'
<1> SUFFICES ASSUME Shapes, TranslationInv, StartBatch PROVE TranslationInv'
  OBVIOUS
<1>1. task' = Goroutines(batch') /\ ckpt' = ckpt
  BY DEF StartBatch, redisVars
<1>2. PICK chunks \in Seq(Seq(UnitSet)) : chunks = batch'
  BY BatchShape
<1>3. \A i \in 1..Len(chunks) : chunks[i] # <<>> /\ chunks[i] \in Seq(UnitSet)
  BY <1>2, ChunksFilled
<1>4. ASSUME NEW i \in 1..Len(chunks)
      PROVE  RoutineOK(Goroutines(chunks)[i], chunks[i])
  <2>1. PICK c \in Seq(UnitSet) : c = chunks[i] /\ c # <<>>
    BY <1>3
  <2>2. PICK t : t = Goroutines(chunks)[i]
    OBVIOUS
  <2>3. /\ t.pc \in {"wait", "lookup"} /\ t.todo = <<c>>
        /\ t.out = <<>> /\ t.counted = 0 /\ ~ t.failed
    BY <2>1, <2>2, GoroutinesShape
  <2>4. Cut(<<c>>, c, 0, Len(c))
    <3>1. 0 \in 0..Len(c) /\ Len(c) \in 0..Len(c) /\ 0 < Len(c)
      BY <2>1
    <3>2. SubSeq(c, 0 + 1, Len(c)) = c
      BY <2>1
    <3>3. Cut(<<SubSeq(c, 0 + 1, Len(c))>>, c, 0, Len(c))
      BY <3>1, CutOne
    <3> QED BY <3>2, <3>3
  <2>5. Translated(SubSeq(c, 1, 0)) = <<>>
    <3>1. SubSeq(c, 1, 0) = <<>>
      BY <2>1
    <3> QED BY <3>1 DEF Translated
  <2>6. HasTranslated(t, c, 0) /\ 0 \in 0..Len(c)
    BY <2>3, <2>4, <2>5 DEF HasTranslated
  <2>7. RoutineOK(t, c)
    BY <2>3, <2>6 DEF RoutineOK, Talking, Counting
  <2> QED BY <2>1, <2>2, <2>7
<1>5. Len(Goroutines(chunks)) = Len(chunks)
  BY GoroutinesShape
<1>6. RoutinesOK'
  BY <1>1, <1>2, <1>4, <1>5 DEF RoutinesOK
<1> QED BY <1>1, <1>6 DEF TranslationInv, CheckpointsAreTranslations

LEMMA WorkTranslation ==
    ASSUME Shapes, TranslationInv, NEW i \in 1..Len(task), Work(i) PROVE TranslationInv'
<1> DEFINE t == task[i]
<1>1. PICK u : Replaced(i, u) /\ Works(i, t, u)
  BY WorkShape
<1>2. batch' = batch
  BY WorkShape DEF runVars
<1>3. t \in Routine /\ u \in Routine /\ i \in 1..Len(batch)
      /\ (t.pc \in Talking => t.todo # <<>>)
  BY <1>1, TheTask DEF Shapes, Replaced
<1>4. batch[i] \in Seq(UnitSet)
  BY <1>3 DEF Shapes, RunShape
<1>5. RoutineOK(t, batch[i])
  BY DEF TranslationInv, RoutinesOK
<1>6. RoutineOK(u, batch[i])
  <2> HIDE DEF t
  <2> QED BY <1>1, <1>3, <1>4, <1>5, RoutineKeeps DEF TranslationInv
<1>7. RoutinesOK'
  BY <1>1, <1>2, <1>6, ReplacedTask DEF TranslationInv, RoutinesOK
<1>8. CheckpointsAreTranslations'
  <2>1. CASE Saves(i, t, u)
    <3>1. t.out = Translated(batch[i])
      BY <1>5, <2>1 DEF Saves, RoutineOK
    <3> DEFINE c == [key |-> batch[i], value |-> t.out]
    <3>2. c.value = Translated(c.key)
      BY <3>1
    <3>3. ckpt' \in {ckpt, ckpt \cup {c}}
      BY <2>1 DEF Saves
    <3> HIDE DEF c
    <3> QED BY <3>2, <3>3 DEF TranslationInv, CheckpointsAreTranslations
  <2>2. CASE ~ Saves(i, t, u)
    <3>1. ckpt' = ckpt
      BY <1>1, <2>2 DEF Works, TalksAlone, Stores, Counts, HasCounted, SharedVars, redisVars
    <3> QED BY <3>1 DEF TranslationInv, CheckpointsAreTranslations
  <2> QED BY <2>1, <2>2
<1> QED BY <1>7, <1>8 DEF TranslationInv

LEMMA TranslationStep == Shapes /\ TranslationInv /\ [Next]_vars => TranslationInv'
<1> SUFFICES ASSUME Shapes, TranslationInv, [Next]_vars PROVE TranslationInv'
  OBVIOUS
<1>1. CASE UNCHANGED <<batch, task, ckpt>>
  BY <1>1 DEF TranslationInv, RoutinesOK, CheckpointsAreTranslations
<1>2. CASE Start
  <2>1. UNCHANGED <<batch, task, ckpt>>
    BY <1>2, StartShape DEF FromCache, Anew, redisVars
  <2> QED BY <1>1, <2>1
<1>3. CASE Collect \/ Conclude \/ CacheDocument \/ StoreResult
  BY <1>1, <1>3 DEF Collect, Conclude, CacheDocument, StoreResult, StoreJob, redisVars
<1>4. CASE Cancel
  BY <1>1, <1>4 DEF Cancel, runVars, SharedVars, redisVars
<1>5. CASE Crash
  BY <1>5 DEF Crash, redisVars, TranslationInv, RoutinesOK, CheckpointsAreTranslations
<1> QED BY <1>1, <1>2, <1>3, <1>4, <1>5, StartBatchTranslation, WorkTranslation
        DEF Next, Coordinator, vars, runVars, redisVars

\* For every document, configuration and number of faults: a checkpoint holds
\* the translation of the chunk it is filed under, all of it and nothing else.
THEOREM CheckpointsCorrect == Spec => []CheckpointsAreTranslations
<1>1. TranslationInv => CheckpointsAreTranslations
  BY DEF TranslationInv
<1> QED
  BY <1>1, ShapesInit, ShapesStep, TranslationInit, TranslationStep, PTL DEF Spec

-------------------------------------------------------------------------------
(* Who may count pages: a goroutine in the section of progressMu holds     *)
(* lock, and what it has marshalled there is still the count of the job.   *)

NonEmptyChunks == \A i \in 1..Len(batch) : batch[i] # <<>>

HoldsLock(i, t) ==
    /\ t.pc = "update" => lock = i /\ t.snap = job.processed
    /\ t.pc = "count" /\ lock # i => t.counted = 0

ProgressInv == NonEmptyChunks /\ \A i \in 1..Len(task) : HoldsLock(i, task[i])

LEMMA ProgressInit == Init => ProgressInv
  BY DEF Init, ProgressInv, NonEmptyChunks

LEMMA WorkProgress ==
    ASSUME Shapes, TranslationInv, ProgressInv, NEW i \in 1..Len(task), Work(i)
    PROVE  ProgressInv'
<1> DEFINE t == task[i]
<1>1. PICK u : Replaced(i, u) /\ Works(i, t, u)
  BY WorkShape
<1>2. batch' = batch
  BY WorkShape DEF runVars
<1>3. t \in Routine /\ u \in Routine /\ i \in 1..Len(batch) /\ i \in Nat \ {0}
      /\ job \in Shape
  BY <1>1, TheTask DEF Shapes, Replaced, SharedShape
<1>4. /\ Len(task') = Len(task) /\ task'[i] = u
      /\ \A j \in 1..Len(task) : j # i => task'[j] = task[j]
  BY <1>1, ReplacedTask
<1>5. RoutineOK(t, batch[i]) /\ HoldsLock(i, t)
  BY DEF TranslationInv, RoutinesOK, ProgressInv
<1>6. ASSUME NEW j \in 1..Len(task) PROVE HoldsLock(j, task[j]) /\ j \in Nat \ {0}
  BY DEF ProgressInv
<1>7. CASE TalksAlone(i, t, u)
  <2>1. lock' = lock /\ job' = job
    BY <1>7 DEF TalksAlone, SharedVars
  <2>2. u.pc # "update" /\ (u.pc = "count" => u.counted = 0)
    BY <1>5, <1>7 DEF TalksAlone, Talks, Hits, Fails, Proceeds, Keeps, Carries, Splits,
                      Answered, RoutineOK, Talking
  <2>3. HoldsLock(i, u)'
    BY <2>2 DEF HoldsLock
  <2> QED BY <1>2, <1>4, <1>6, <2>1, <2>3 DEF ProgressInv, NonEmptyChunks, HoldsLock
<1>8. CASE Stores(i, t, u)
  <2>1. lock' = lock /\ job' = job
    BY <1>8 DEF Stores
  <2>2. /\ u.pc # "update"
        /\ u.pc = "count" => lock = i
    BY <1>5, <1>8 DEF Stores, HoldsLock
  <2> QED BY <1>2, <1>4, <1>6, <2>1, <2>2 DEF ProgressInv, NonEmptyChunks, HoldsLock
<1>9. CASE Counts(i, t, u)
  <2>1. lock \in {0, i} /\ lock' = i
    BY <1>9 DEF Counts, MayCount
  <2>2. u.pc = "update" => u.snap = job'.processed
    <3>1. [job EXCEPT !.processed = job.processed + 1].processed = job.processed + 1
      BY <1>3 DEF Shape
    <3> QED BY <1>9, <3>1 DEF Counts
  <2>3. ASSUME NEW j \in 1..Len(task), j # i
        PROVE  /\ task[j].pc # "update"
               /\ task[j].pc = "count" => task[j].counted = 0
    BY <1>3, <1>6, <2>1, <2>3 DEF HoldsLock
  <2>4. ASSUME NEW j \in 1..Len(task) PROVE HoldsLock(j, task[j])'
    <3>1. CASE j = i
      BY <1>4, <2>1, <2>2, <3>1 DEF HoldsLock
    <3>2. CASE j # i
      BY <1>4, <2>3, <3>2 DEF HoldsLock
    <3> QED BY <3>1, <3>2
  <2> QED BY <1>2, <1>4, <2>4 DEF ProgressInv, NonEmptyChunks, HoldsLock
<1>10. CASE HasCounted(i, t, u)
  <2>1. t.pc = "count" /\ t.counted = Len(t.out) /\ u.pc = "save" /\ lock' = 0 /\ job' = job
    BY <1>10 DEF HasCounted
  <2>2. t.out = Translated(batch[i]) /\ batch[i] # <<>> /\ batch[i] \in Seq(UnitSet)
    BY <1>3, <1>5, <2>1 DEF RoutineOK, Counting, ProgressInv, NonEmptyChunks, Shapes, RunShape
  <2>3. t.counted # 0
    <3>1. PICK c \in Seq(UnitSet) : c = batch[i] /\ Len(c) # 0
      BY <2>2
    <3>2. Len(Translated(c)) = Len(c)
      BY PieceType
    <3> QED BY <2>1, <2>2, <3>1, <3>2
  <2>4. lock = i
    BY <1>5, <2>1, <2>3 DEF HoldsLock
  <2>5. ASSUME NEW j \in 1..Len(task), j # i
        PROVE  /\ task[j].pc # "update"
               /\ task[j].pc = "count" => task[j].counted = 0
    BY <1>3, <1>6, <2>4, <2>5 DEF HoldsLock
  <2>6. ASSUME NEW j \in 1..Len(task) PROVE HoldsLock(j, task[j])'
    <3>1. CASE j = i
      BY <1>4, <2>1, <3>1 DEF HoldsLock
    <3>2. CASE j # i
      BY <1>4, <2>5, <3>2 DEF HoldsLock
    <3> QED BY <3>1, <3>2
  <2> QED BY <1>2, <1>4, <2>6 DEF ProgressInv, NonEmptyChunks, HoldsLock
<1>11. CASE Saves(i, t, u)
  <2>1. lock' = lock /\ job' = job /\ u.pc = "end"
    BY <1>11 DEF Saves
  <2> QED BY <1>2, <1>4, <1>6, <2>1 DEF ProgressInv, NonEmptyChunks, HoldsLock
<1> QED BY <1>1, <1>7, <1>8, <1>9, <1>10, <1>11 DEF Works

LEMMA NoneLeftProgress ==
    ASSUME NonEmptyChunks, batch' = batch, task' = task, NoneLeft
    PROVE  ProgressInv'
  BY DEF NonEmptyChunks, ProgressInv, NoneLeft, HoldsLock

LEMMA ProgressStep ==
    Shapes /\ PhaseInv /\ TranslationInv /\ ProgressInv /\ [Next]_vars => ProgressInv'
<1> SUFFICES ASSUME Shapes, PhaseInv, TranslationInv, ProgressInv, [Next]_vars
             PROVE  ProgressInv'
  OBVIOUS
<1>1. CASE UNCHANGED <<batch, task, lock, job>>
  BY <1>1 DEF ProgressInv, NonEmptyChunks, HoldsLock
<1>2. CASE Start
  <2>1. NoneLeft /\ batch' = batch /\ task' = task
    BY <1>2, StartShape DEF PhaseInv
  <2> QED BY <2>1, NoneLeftProgress DEF ProgressInv
<1>3. CASE StartBatch
  <2>1. NonEmptyChunks'
    BY <1>3, ChunksFilled DEF NonEmptyChunks
  <2>2. PICK chunks \in Seq(Seq(UnitSet)) : chunks = batch'
    BY <1>3, BatchShape
  <2>3. task' = Goroutines(chunks)
    BY <1>3, <2>2 DEF StartBatch
  <2>4. ASSUME NEW i \in 1..Len(task') PROVE task'[i].pc \in {"wait", "lookup"}
    BY <2>3, GoroutinesShape
  <2> QED BY <2>1, <2>4 DEF ProgressInv, HoldsLock
<1>4. CASE Collect \/ Conclude \/ CacheDocument \/ StoreResult
  <2>1. batch' = batch /\ task' = task
    BY <1>4 DEF Collect, Conclude, CacheDocument, StoreResult
  <2>2. CASE Conclude
    <3>1. NoneLeft
      BY <2>2 DEF Conclude, PhaseInv
    <3> QED BY <2>1, <3>1, NoneLeftProgress DEF ProgressInv
  <2>3. CASE Collect \/ CacheDocument \/ StoreResult
    BY <1>1, <2>1, <2>3 DEF Collect, CacheDocument, StoreResult
  <2> QED BY <1>4, <2>2, <2>3
<1>5. CASE Cancel
  BY <1>1, <1>5 DEF Cancel, runVars, SharedVars
<1>6. CASE Crash
  BY <1>6 DEF Crash, ProgressInv, NonEmptyChunks
<1> QED BY <1>1, <1>2, <1>3, <1>4, <1>5, <1>6, WorkProgress
        DEF Next, Coordinator, vars, runVars

\* For every document, configuration and number of faults: a write of the job
\* stores the page count of that moment, unless a stage notifier makes it.
THEOREM ProgressCorrect == Spec => ProgressIsCurrent
<1> DEFINE Current == \/ stored'.processed = job'.processed
                      \/ \E i \in 1..Len(task) : task[i].pc = "set" /\ task'[i].pc # "set"
<1>1. Shapes /\ PhaseInv /\ ProgressInv /\ [Next]_vars => [stored' # stored => Current]_vars
  <2> SUFFICES ASSUME Shapes, PhaseInv, ProgressInv, Next, stored' # stored PROVE Current
    OBVIOUS
  <2>1. CASE Start
    BY <2>1, StartShape DEF FromCache, Anew, redisVars
  <2>2. CASE StoreResult
    BY <2>2 DEF StoreResult, StoreJob
  <2>3. ASSUME NEW i \in 1..Len(task), Work(i) PROVE Current
    <3>1. PICK u : Replaced(i, u) /\ Works(i, task[i], u)
      BY <2>3, WorkShape
    <3>2. Stores(i, task[i], u)
      BY <3>1 DEF Works, TalksAlone, Counts, HasCounted, Saves, SharedVars, redisVars
    <3>3. CASE task[i].pc = "set"
      <4>1. task'[i] = u
        BY <3>1 DEF Replaced, Shapes
      <4>2. task'[i].pc = "busy"
        BY <3>2, <3>3, <4>1 DEF Stores
      <4> QED BY <3>3, <4>2
    <3>4. CASE task[i].pc = "update"
      <4>1. task[i].snap = job.processed /\ job \in Shape
        BY <3>4 DEF ProgressInv, HoldsLock, Shapes, SharedShape
      <4>2. [job EXCEPT !.processed = task[i].snap].processed = job.processed
        BY <4>1 DEF Shape
      <4> QED BY <3>2, <4>2 DEF Stores
    <3> QED BY <3>2, <3>3, <3>4 DEF Stores
  <2>4. ~ (StartBatch \/ Collect \/ Conclude \/ CacheDocument \/ Cancel \/ Crash)
    BY DEF StartBatch, Collect, Conclude, CacheDocument, Cancel, Crash, redisVars, SharedVars
  <2> QED BY <2>1, <2>2, <2>3, <2>4 DEF Next, Coordinator
<1> QED
  BY <1>1, ShapesInit, ShapesStep, PhaseInit, PhaseStep, TranslationInit, TranslationStep,
     ProgressInit, ProgressStep, PTL DEF Spec, ProgressIsCurrent

-------------------------------------------------------------------------------
(* The whole document.  The results of a run stand for the first units of  *)
(* the document, what is left are the others, and the batch goes on where  *)
(* the results end; what is put together from all of them has every unit   *)
(* of every page in its place.                                             *)

Numbered(s, l) == Len(s) = l /\ \A k \in 1..l : s[k].part = k

LEMMA NumberedMore ==
    ASSUME NEW S, NEW s \in Seq(S), NEW x \in S, NEW l \in Nat, Numbered(s, l), x.part = l + 1
    PROVE  Numbered(Append(s, x), l + 1)
<1>1. Len(s) = l /\ \A k \in 1..l : s[k].part = k
  BY DEF Numbered
<1>2. Len(Append(s, x)) = l + 1
  BY <1>1
<1>3. ASSUME NEW k \in 1..(l + 1) PROVE Append(s, x)[k].part = k
  <2>1. CASE k = l + 1
    <3>1. Append(s, x)[k] = x
      BY <1>1, <2>1
    <3> QED BY <2>1, <3>1
  <2>2. CASE k # l + 1
    <3>1. k \in 1..l /\ Append(s, x)[k] = s[k]
      BY <1>1, <2>2
    <3> QED BY <1>1, <3>1
  <2> QED BY <2>1, <2>2
<1> QED BY <1>2, <1>3 DEF Numbered

\* The pieces of a page, sorted out, are numbered from one.
LEMMA PageNumbers ==
    ASSUME NEW S, NEW pieces \in Seq(S), NEW n \in Nat, NEW e, PageEnds(e, pieces, n),
           NEW p \in 1..n
    PROVE  Numbered(OfPage(pieces, p), e[p] - e[p - 1])
<1> DEFINE N == Len(pieces)
<1>1. PICK a, b : a = e[p - 1] /\ b = e[p]
  OBVIOUS
<1>2. a \in Nat /\ b \in Nat /\ a <= b /\ b <= N /\ N \in Nat
  <2>1. p - 1 \in 0..n /\ p \in 0..n
    OBVIOUS
  <2> QED BY <1>1, <2>1 DEF PageEnds
<1>3. ASSUME NEW k \in 1..N
      PROVE  /\ pieces[k].page = p <=> a < k /\ k <= b
             /\ pieces[k].page = p => pieces[k].part = k - a
  BY <1>1, PageOf
<1>4. PICK g : Sorts(g, pieces, p, S) /\ OfPage(pieces, p) = g[N]
  BY OfPageSorts
<1> DEFINE L(k) == IF k <= a THEN 0 ELSE IF k <= b THEN k - a ELSE b - a
           T    == {m \in Nat : m <= N => Numbered(g[m], L(m))}
<1>5. 0 \in T
  <2>1. Numbered(<<>>, 0)
    BY DEF Numbered
  <2> QED BY <1>2, <1>4, <2>1 DEF Sorts
<1>6. ASSUME NEW m \in Nat, m \in T PROVE m + 1 \in T
  <2> SUFFICES ASSUME m + 1 <= N PROVE Numbered(g[m + 1], L(m + 1))
    OBVIOUS
  <2>1. PICK k \in 1..N : k = m + 1 /\ k - 1 = m /\ m \in 0..N
    BY <1>2
  <2>2. PICK s \in Seq(S) : s = g[m]
    BY <1>4, <2>1 DEF Sorts
  <2>3. g[k] = IF pieces[k].page = p THEN Append(s, pieces[k]) ELSE s
    BY <1>4, <2>1, <2>2 DEF Sorts
  <2>4. Numbered(s, L(m)) /\ L(m) \in Nat
    BY <1>2, <1>6, <2>1, <2>2
  <2>5. CASE pieces[k].page = p
    <3>1. L(m) = m - a /\ L(m + 1) = m - a + 1 /\ pieces[k].part = m - a + 1
      BY <1>2, <1>3, <2>1, <2>5
    <3>2. PICK l \in Nat : l = m - a /\ L(m) = l /\ L(m + 1) = l + 1 /\ pieces[k].part = l + 1
      BY <2>4, <3>1
    <3>3. pieces[k] \in S
      BY <1>2
    <3>4. Numbered(Append(s, pieces[k]), l + 1)
      <4> HIDE DEF L, N
      <4> QED BY <2>4, <3>2, <3>3, NumberedMore
    <3> QED BY <2>1, <2>3, <2>5, <3>2, <3>4
  <2>6. CASE pieces[k].page # p
    <3>1. ~ (a < m + 1 /\ m + 1 <= b)
      BY <1>3, <2>1, <2>6
    <3>2. L(m + 1) = L(m)
      BY <1>2, <3>1
    <3> QED BY <2>1, <2>3, <2>4, <2>6, <3>2
  <2> QED BY <2>5, <2>6
<1>7. N \in T
  <2> HIDE DEF T
  <2> QED BY <1>2, <1>5, <1>6, SetInduction
<1>8. L(N) = b - a
  BY <1>2
<1> QED BY <1>1, <1>2, <1>4, <1>7, <1>8

\* The pages of the document.
LEMMA PagesEnd ==
    \E e : PageEnds(e, Units, Len(Pages))
  BY PagesFacts, UnitsByPage DEF Units

LEMMA TargetIs ==
    ASSUME NEW e, PageEnds(e, Units, Len(Pages)), NEW p \in 1..Len(Pages)
    PROVE  Target(p) = e[p] - e[p - 1]
<1> DEFINE N == Len(Units)
<1>1. PICK a, b : a = e[p - 1] /\ b = e[p]
  OBVIOUS
<1>2. Len(Pages) \in Nat /\ Units \in Seq(UnitSet) /\ N \in Nat
  BY PagesFacts, UnitsFacts
<1>3. a \in Nat /\ b \in Nat /\ a <= b /\ b <= N
  <2>1. p - 1 \in 0..Len(Pages) /\ p \in 0..Len(Pages)
    BY <1>2
  <2> QED BY <1>1, <2>1 DEF PageEnds
<1>4. \A k \in 1..N : Units[k].page = p <=> a < k /\ k <= b
  BY <1>1, <1>2, PageOf
<1>5. {k \in 1..N : Units[k].page = p} = (a + 1)..b
  BY <1>2, <1>3, <1>4
<1>6. Cardinality((a + 1)..b) = b - a
  <2>1. a + 1 \in Int /\ b \in Int
    BY <1>3
  <2>2. Cardinality((a + 1)..b) = IF a + 1 > b THEN 0 ELSE b - (a + 1) + 1
    BY <2>1, FS_Interval
  <2> QED BY <1>3, <2>2
<1> QED BY <1>1, <1>5, <1>6 DEF Target

ResultsStand(all, m) ==
    \E chunks \in Seq(Seq(UnitSet)) :
        /\ Len(chunks) = Len(all) /\ Cut(chunks, Units, 0, m)
        /\ \A i \in 1..Len(all) : Stands(all[i].units, chunks[i])

\* The results for all units make up the whole document.
LEMMA WholeAssembled ==
    ASSUME NEW all \in Seq(ResultSet), ResultsStand(all, Len(Units))
    PROVE  Whole(Assembled(all))
<1> DEFINE outs   == ResultPieces(all)
           pieces == FlattenSeq(ResultPieces(all))
<1>1. PICK chunks \in Seq(Seq(UnitSet)) :
         /\ Len(chunks) = Len(all) /\ Cut(chunks, Units, 0, Len(Units))
         /\ \A i \in 1..Len(all) : Stands(all[i].units, chunks[i])
  BY DEF ResultsStand
<1>2. /\ outs \in Seq(Seq(Pieces)) /\ Len(outs) = Len(chunks)
      /\ \A i \in 1..Len(chunks) : Stands(outs[i], chunks[i])
  BY <1>1, ResultPiecesType
<1>3. Stands(pieces, FlattenSeq(chunks))
  <2> HIDE DEF outs
  <2>1. Stands(FlattenSeq(outs), FlattenSeq(chunks))
    BY <1>1, <1>2, StandsFlat
  <2> QED BY <2>1 DEF outs
<1>4. FlattenSeq(chunks) = Units
  <2>1. FlattenSeq(chunks) = SubSeq(Units, 0 + 1, Len(Units))
    BY <1>1, UnitsFacts, FlattenCut
  <2> QED BY <2>1, UnitsFacts
<1>5. PICK e : PageEnds(e, Units, Len(Pages))
  BY PagesEnd
<1>6. Len(Pages) \in Nat /\ Len(Units) \in Nat /\ pieces \in Seq(Pieces)
  BY PagesFacts, UnitsFacts, AssembledType
<1> HIDE DEF pieces, outs
<1>7. PageEnds(e, pieces, Len(Pages))
  BY <1>3, <1>4, <1>5, <1>6, StandsPages
<1>8. ASSUME NEW p \in 1..Len(Pages)
      PROVE  [k \in 1..Len(Assembled(all)[p]) |-> Assembled(all)[p][k].part]
                 = [k \in 1..Target(p) |-> k]
  <2>1. Assembled(all)[p] = OfPage(pieces, p)
    BY AssembledType DEF pieces
  <2>2. Numbered(OfPage(pieces, p), Target(p))
    <3>1. Numbered(OfPage(pieces, p), e[p] - e[p - 1])
      BY <1>6, <1>7, PageNumbers
    <3> QED BY <1>5, <3>1, TargetIs
  <2> QED BY <2>1, <2>2 DEF Numbered
<1> QED BY <1>8 DEF Whole

LEMMA PiecesStand ==
    ASSUME NEW units \in Seq(UnitSet)
    PROVE  Stands(Translated(units), units) /\ Stands(Source(units), units)
<1>1. Len(Translated(units)) = Len(units) /\ Len(Source(units)) = Len(units)
  BY PieceType
<1>2. ASSUME NEW k \in 1..Len(units)
      PROVE  /\ Translated(units)[k] = Piece(units[k], TRUE)
             /\ Source(units)[k] = Piece(units[k], FALSE)
  <2>1. Translated(units)[k] = Piece(units[k], TRUE)
    BY Zenon DEF Translated
  <2>2. Source(units)[k] = Piece(units[k], FALSE)
    BY Zenon DEF Source
  <2> QED BY <2>1, <2>2
<1>3. \A u, done : Piece(u, done).page = u.page /\ Piece(u, done).part = u.part
  BY DEF Piece
<1>4. ASSUME NEW k \in 1..Len(units)
      PROVE  /\ Translated(units)[k].page = units[k].page
             /\ Translated(units)[k].part = units[k].part
             /\ Source(units)[k].page = units[k].page
             /\ Source(units)[k].part = units[k].part
  BY <1>2, <1>3, Zenon
<1>5. Stands(Translated(units), units)
  BY <1>1, <1>4, Zenon DEF Stands
<1>6. Stands(Source(units), units)
  BY <1>1, <1>4, Zenon DEF Stands
<1> QED BY <1>5, <1>6

\* What a goroutine leaves stands for its chunk, translated or not.
LEMMA ResultStands ==
    ASSUME Shapes, TranslationInv, NEW i \in 1..Len(batch), task[i].pc = "end"
    PROVE  Stands(Result(i).units, batch[i])
<1>1. batch[i] \in Seq(UnitSet) /\ task[i] \in Routine /\ i \in 1..Len(task)
  BY DEF Shapes, RunShape, TaskShape
<1>2. ~ task[i].failed => task[i].out = Translated(batch[i])
  BY <1>1 DEF TranslationInv, RoutinesOK, RoutineOK
<1>3. Result(i).units \in {Source(batch[i]), Translated(batch[i])}
  BY <1>2 DEF Result
<1> QED BY <1>1, <1>3, PiecesStand

LEMMA MoreResults ==
    ASSUME Shapes, TranslationInv, \A i \in 1..Len(batch) : task[i].pc = "end",
           NEW m, NEW b, ResultsStand(results, m), Cut(batch, Units, m, b)
    PROVE  ResultsStand(results \o NewResults, b)
<1> DEFINE all == results \o NewResults
<1>1. PICK chunks \in Seq(Seq(UnitSet)) :
         /\ Len(chunks) = Len(results) /\ Cut(chunks, Units, 0, m)
         /\ \A i \in 1..Len(results) : Stands(results[i].units, chunks[i])
  BY DEF ResultsStand
<1>2. /\ batch \in Seq(Seq(UnitSet)) /\ results \in Seq(ResultSet)
      /\ NewResults \in Seq(ResultSet) /\ Len(NewResults) = Len(batch)
  BY NewResultsShape DEF Shapes, RunShape
<1>3. ASSUME NEW i \in 1..Len(batch) PROVE Stands(NewResults[i].units, batch[i])
  BY ResultStands DEF NewResults
<1> DEFINE c == Len(results)
           d == Len(batch)
<1>4. c \in Nat /\ d \in Nat
  BY <1>2
<1>5. /\ Len(all) = c + d
      /\ \A i \in 1..(c + d) : all[i] = IF i <= c THEN results[i] ELSE NewResults[i - c]
  <2>1. PICK new \in Seq(ResultSet) : new = NewResults /\ Len(new) = d
    BY <1>2
  <2>2. /\ Len(results \o new) = Len(results) + Len(new)
        /\ \A i \in 1..(Len(results) + Len(new)) :
              (results \o new)[i] = IF i <= Len(results) THEN results[i] ELSE new[i - Len(results)]
    BY <1>2, ConcatFacts
  <2> QED BY <2>1, <2>2
<1>6. /\ chunks \o batch \in Seq(Seq(UnitSet)) /\ Len(chunks \o batch) = c + d
      /\ \A i \in 1..(c + d) : (chunks \o batch)[i] = IF i <= c THEN chunks[i] ELSE batch[i - c]
  <2>1. /\ chunks \o batch \in Seq(Seq(UnitSet))
        /\ Len(chunks \o batch) = Len(chunks) + Len(batch)
        /\ \A i \in 1..(Len(chunks) + Len(batch)) :
              (chunks \o batch)[i] = IF i <= Len(chunks) THEN chunks[i] ELSE batch[i - Len(chunks)]
    BY <1>2, ConcatFacts
  <2> QED BY <1>1, <2>1
<1>7. Cut(chunks \o batch, Units, 0, b)
  BY <1>1, <1>2, UnitsFacts, CutConcat
<1>8. ASSUME NEW i \in 1..(c + d) PROVE Stands(all[i].units, (chunks \o batch)[i])
  <2>1. CASE i <= c
    <3>1. i \in 1..c
      BY <1>4, <2>1
    <3> QED BY <1>1, <1>5, <1>6, <2>1, <3>1
  <2>2. CASE ~ (i <= c)
    <3>1. i - c \in 1..d
      BY <1>4, <2>2
    <3> QED BY <1>3, <1>5, <1>6, <2>2, <3>1
  <2> QED BY <2>1, <2>2
<1> HIDE DEF all
<1>9. ResultsStand(all, b)
  BY <1>5, <1>6, <1>7, <1>8 DEF ResultsStand
<1> QED BY <1>9 DEF all

ResultsInv ==
    /\ phase = "start" => results = <<>>
    /\ phase \in {"plan", "batch"} =>
          \E m \in 0..Len(Units) :
              /\ ResultsStand(results, m)
              /\ rest = After(Units, m)
              /\ phase = "batch" => \E b : Cut(batch, Units, m, b)

LEMMA ResultsInit == Init => ResultsInv
  BY DEF Init, ResultsInv

LEMMA ResultsStart == Shapes /\ ResultsInv /\ Start => ResultsInv'
<1> SUFFICES ASSUME Shapes, ResultsInv, Start PROVE ResultsInv'
  OBVIOUS
<1>1. results = <<>> /\ results' = <<>>
  BY StartShape DEF ResultsInv
<1>2. CASE FromCache
  BY <1>2 DEF FromCache, ResultsInv
<1>3. CASE Anew
  <2>1. phase' = "plan" /\ rest' = Units
    BY <1>3 DEF Anew
  <2>2. 0 \in 0..Len(Units) /\ Units = After(Units, 0)
    BY UnitsFacts, AfterFacts
  <2>3. ResultsStand(<<>>, 0)
    <3>1. Cut(<<>>, Units, 0, 0)
      BY <2>2, UnitsFacts, CutEmpty
    <3>2. PICK none : none = <<>>
      OBVIOUS
    <3>3. none \in Seq(Seq(UnitSet)) /\ Len(none) = 0
      BY <3>2
    <3>4. ResultsStand(none, 0)
      <4>1. Cut(none, Units, 0, 0)
        BY <3>1, <3>2
      <4>2. \A i \in 1..Len(none) : Stands(none[i].units, none[i])
        BY <3>3
      <4> QED BY <3>3, <4>1, <4>2 DEF ResultsStand
    <3> QED BY <3>2, <3>4
  <2> QED BY <1>1, <2>1, <2>2, <2>3 DEF ResultsInv
<1> QED BY <1>2, <1>3, StartShape

LEMMA ResultsStartBatch == Shapes /\ ResultsInv /\ StartBatch => ResultsInv'
<1> SUFFICES ASSUME Shapes, ResultsInv, StartBatch PROVE ResultsInv'
  OBVIOUS
<1>1. phase = "plan" /\ phase' = "batch" /\ results' = results /\ rest' = rest
  BY DEF StartBatch
<1>2. PICK m \in 0..Len(Units) : ResultsStand(results, m) /\ rest = After(Units, m)
  BY <1>1 DEF ResultsInv
<1>3. PICK chunks \in Seq(Seq(UnitSet)), k \in 0..Len(ChunksOf(rest, range)) :
         chunks = batch' /\ chunks = SubSeq(ChunksOf(rest, range), 1, k)
  BY BatchShape
<1>4. \E b : Cut(chunks, Units, m, b)
  BY <1>2, <1>3, UnitsFacts, BatchIsNext
<1> QED BY <1>1, <1>2, <1>3, <1>4 DEF ResultsInv

LEMMA ResultsCollect == Shapes /\ TranslationInv /\ ResultsInv /\ Collect => ResultsInv'
<1> SUFFICES ASSUME Shapes, TranslationInv, ResultsInv, Collect PROVE ResultsInv'
  OBVIOUS
<1>1. /\ phase = "batch" /\ phase' = "plan" /\ results' = results \o NewResults
      /\ rest' = After(rest, Len(FlattenSeq(batch)))
      /\ \A i \in 1..Len(batch) : task[i].pc = "end"
  BY DEF Collect, NewResults, After, Done
<1>2. PICK m \in 0..Len(Units) :
         /\ ResultsStand(results, m) /\ rest = After(Units, m)
         /\ \E b : Cut(batch, Units, m, b)
  BY <1>1 DEF ResultsInv
<1>3. PICK b : Cut(batch, Units, m, b)
  BY <1>2
<1>4. batch \in Seq(Seq(UnitSet))
  BY DEF Shapes, RunShape
<1>5. b \in 0..Len(Units) /\ After(After(Units, m), Len(FlattenSeq(batch))) = After(Units, b)
  BY <1>3, <1>4, UnitsFacts, AfterBatch
<1>6. ResultsStand(results \o NewResults, b)
  BY <1>1, <1>2, <1>3, MoreResults
<1>7. rest' = After(Units, b) /\ b \in 0..Len(Units)
  BY <1>1, <1>2, <1>5
<1> HIDE DEF NewResults
<1> QED BY <1>1, <1>6, <1>7 DEF ResultsInv

LEMMA ResultsStep ==
    Shapes /\ PhaseInv /\ TranslationInv /\ ResultsInv /\ [Next]_vars => ResultsInv'
<1> SUFFICES ASSUME Shapes, PhaseInv, TranslationInv, ResultsInv, [Next]_vars
             PROVE  ResultsInv'
  OBVIOUS
<1>1. CASE UNCHANGED runVars
  BY <1>1 DEF runVars, ResultsInv
<1>2. ASSUME NEW i \in 1..Len(task), Work(i) PROVE ResultsInv'
  BY <1>1, <1>2, WorkShape
<1>3. CASE Cancel
  BY <1>1, <1>3 DEF Cancel
<1>4. CASE Crash
  BY <1>4 DEF Crash, ResultsInv
<1>5. CASE Conclude \/ CacheDocument \/ StoreResult
  <2>1. phase' \in {"cache", "final", "over"}
    BY <1>5 DEF Conclude, CacheDocument, StoreResult
  <2> QED BY <2>1 DEF ResultsInv
<1> QED BY <1>1, <1>2, <1>3, <1>4, <1>5, ResultsStart, ResultsStartBatch, ResultsCollect
        DEF Next, Coordinator, vars

\* What is completed is whole, before it is stored too.
DocumentInv ==
    /\ cached # NoDocument => Whole(cached)
    /\ job.status = "completed" => Whole(job.document)
    /\ stored.status = "completed" => Whole(stored.document)
    /\ phase = "cache" => job.status = "completed"

LEMMA DocumentInit == Init => DocumentInv
<1> SUFFICES ASSUME Init PROVE DocumentInv
  OBVIOUS
<1>1. job.status = "pending" /\ stored.status = "pending"
  BY DEF Init, Pending
<1> QED BY <1>1 DEF Init, DocumentInv

LEMMA DocumentConclude == Shapes /\ ResultsInv /\ DocumentInv /\ Conclude => DocumentInv'
<1> SUFFICES ASSUME Shapes, ResultsInv, DocumentInv, Conclude PROVE DocumentInv'
  OBVIOUS
<1>1. phase = "plan" /\ rest = <<>> /\ cached' = cached /\ stored' = stored
  BY DEF Conclude, redisVars
<1>2. PICK m \in 0..Len(Units) : ResultsStand(results, m) /\ rest = After(Units, m)
  BY <1>1 DEF ResultsInv
<1>3. m = Len(Units)
  BY <1>1, <1>2, UnitsFacts, AfterFacts
<1>4. Whole(Assembled(results))
  BY <1>2, <1>3, WholeAssembled DEF Shapes, RunShape
<1>5. PICK d : d = Assembled(results)
  OBVIOUS
<1>6. job'.status = "completed" => job'.document = d
  BY <1>5, ConcludeShape
<1>7. phase' = "cache" => job'.status = "completed"
  BY ConcludeShape
<1> QED BY <1>1, <1>4, <1>5, <1>6, <1>7 DEF DocumentInv, Whole

LEMMA DocumentStep ==
    Shapes /\ PhaseInv /\ ResultsInv /\ DocumentInv /\ [Next]_vars => DocumentInv'
<1> SUFFICES ASSUME Shapes, PhaseInv, ResultsInv, DocumentInv, [Next]_vars
             PROVE  DocumentInv'
  OBVIOUS
<1>1. CASE UNCHANGED <<phase, job, stored, cached>>
  BY <1>1 DEF DocumentInv, Whole
<1>2. CASE Start
  <2>1. CASE FromCache
    <3>1. /\ job'.status = "completed" /\ job'.document = cached /\ Whole(cached)
          /\ phase' = "final" /\ stored' = stored /\ cached' = cached
      BY <2>1, CachedJob DEF FromCache, redisVars, DocumentInv
    <3> QED BY <3>1 DEF DocumentInv, Whole
  <2>2. CASE Anew
    <3>1. /\ job'.status # "completed" /\ phase' = "plan"
          /\ stored' \in {stored, job'} /\ cached' = cached
      BY <2>2, NewJob DEF Anew
    <3> QED BY <3>1 DEF DocumentInv, Whole
  <2> QED BY <1>2, <2>1, <2>2, StartShape
<1>3. CASE StartBatch \/ Collect
  <2>1. job' = job /\ stored' = stored /\ cached' = cached /\ phase' \in {"plan", "batch"}
    BY <1>3 DEF StartBatch, Collect, redisVars
  <2> QED BY <2>1 DEF DocumentInv, Whole
<1>4. CASE CacheDocument
  <2>1. /\ phase = "cache" /\ phase' = "final" /\ job' = job /\ stored' = stored
        /\ cached' \in {job.document, cached}
    BY <1>4 DEF CacheDocument
  <2>2. Whole(job.document)
    BY <2>1 DEF DocumentInv
  <2> QED BY <2>1, <2>2 DEF DocumentInv, Whole
<1>5. CASE StoreResult
  <2>1. /\ phase' = "over" /\ job' = job /\ cached' = cached /\ stored' \in {job, stored}
    BY <1>5 DEF StoreResult, StoreJob
  <2> QED BY <2>1 DEF DocumentInv, Whole
<1>6. ASSUME NEW i \in 1..Len(task), Work(i) PROVE DocumentInv'
  <2>1. phase = "batch" /\ phase' = "batch"
    BY <1>6, WorkInBatch, WorkShape DEF runVars
  <2>2. /\ job'.status # "completed" /\ stored'.status # "completed" /\ cached' = cached
    BY <1>6, <2>1, WorkLeaves DEF PhaseInv
  <2> QED BY <2>1, <2>2 DEF DocumentInv, Whole
<1>7. CASE Cancel
  BY <1>1, <1>7 DEF Cancel, runVars, SharedVars, redisVars
<1>8. CASE Crash
  <2>1. job'.status = "pending" /\ phase' = "start" /\ stored' = stored /\ cached' = cached
    BY <1>8 DEF Crash, redisVars, Pending
  <2> QED BY <2>1 DEF DocumentInv, Whole
<1> QED BY <1>1, <1>2, <1>3, <1>4, <1>5, <1>6, <1>7, <1>8, DocumentConclude
        DEF Next, Coordinator, vars, runVars, redisVars

\* For every document, configuration and number of faults: what is published
\* and what is cached is the whole document, every unit of every page once and
\* in its place, whatever the chunks of this run and of earlier ones were.
THEOREM DocumentCorrect == Spec => []DocumentIsWhole
<1>1. DocumentInv => DocumentIsWhole
  BY DEF DocumentInv, DocumentIsWhole
<1> QED
  BY <1>1, ShapesInit, ShapesStep, PhaseInit, PhaseStep, TranslationInit, TranslationStep,
     ResultsInit, ResultsStep, DocumentInit, DocumentStep, PTL DEF Spec

-------------------------------------------------------------------------------
(* How far the counters go.  C are the units counted so far, by their      *)
(* places in the document: each is counted once, whichever goroutine and   *)
(* whichever batch it came in, so no page counts more units than it has,   *)
(* and no more pages are counted than are complete.                        *)

OnPage(C, p)    == {k \in C : Units[k].page = p}
DonePages(done) == {p \in 1..Len(Pages) : Target(p) <= done[p]}

Bounded(done, C) ==
    /\ C \subseteq 1..Len(Units)
    /\ \A p \in 1..Len(Pages) : done[p] <= Cardinality(OnPage(C, p))

LEMMA OnPageFinite ==
    ASSUME NEW C \in SUBSET (1..Len(Units)), NEW p
    PROVE  /\ IsFiniteSet(OnPage(C, p)) /\ Cardinality(OnPage(C, p)) \in Nat
           /\ Cardinality(OnPage(C, p)) <= Target(p)
           /\ Target(p) \in Nat
<1>1. IsFiniteSet(1..Len(Units))
  <2>1. 1 \in Int /\ Len(Units) \in Int
    BY UnitsFacts
  <2> QED BY <2>1, FS_Interval
<1> DEFINE A == OnPage(1..Len(Units), p)
<1>2. A \subseteq 1..Len(Units) /\ OnPage(C, p) \subseteq A /\ Target(p) = Cardinality(A)
  BY DEF OnPage, Target
<1> HIDE DEF A
<1>3. IsFiniteSet(A)
  BY <1>1, <1>2, FS_Subset
<1>4. IsFiniteSet(OnPage(C, p)) /\ Cardinality(OnPage(C, p)) <= Cardinality(A)
  BY <1>2, <1>3, FS_Subset
<1> QED BY <1>2, <1>3, <1>4, FS_CardinalityType

LEMMA DonePagesSize ==
    ASSUME NEW done
    PROVE  /\ IsFiniteSet(DonePages(done))
           /\ Cardinality(DonePages(done)) \in Nat
           /\ Cardinality(DonePages(done)) <= Len(Pages)
<1>1. 1 \in Int /\ Len(Pages) \in Int /\ 1 <= Len(Pages)
  BY PagesFacts
<1>2. IsFiniteSet(1..Len(Pages)) /\ Cardinality(1..Len(Pages)) = Len(Pages)
  BY <1>1, FS_Interval
<1>3. DonePages(done) \subseteq 1..Len(Pages)
  BY DEF DonePages
<1> QED BY <1>2, <1>3, FS_Subset, FS_CardinalityType

LEMMA PageBound ==
    ASSUME NEW done, NEW C, done \in [1..Len(Pages) -> Nat], Bounded(done, C)
    PROVE  \A p \in 1..Len(Pages) : done[p] <= Target(p)
<1>1. ASSUME NEW p \in 1..Len(Pages) PROVE done[p] <= Target(p)
  <2>1. C \in SUBSET (1..Len(Units)) /\ done[p] <= Cardinality(OnPage(C, p)) /\ done[p] \in Nat
    BY DEF Bounded
  <2> QED BY <2>1, OnPageFinite
<1> QED BY <1>1

\* One more unit of the page p.
More(done, p) == [done EXCEPT ![p] = done[p] + 1]

LEMMA UnitsPage ==
    ASSUME NEW k \in 1..Len(Units) PROVE Units[k].page \in 1..Len(Pages)
<1>1. PICK e : PageEnds(e, Units, Len(Pages))
  BY PagesEnd
<1>2. Len(Pages) \in Nat /\ Units \in Seq(UnitSet)
  BY PagesFacts, UnitsFacts
<1>3. PICK q \in 1..Len(Pages) : e[q - 1] < k /\ k <= e[q]
  BY <1>1, <1>2, PageIn
<1>4. Units[k].page = q
  BY <1>1, <1>2, <1>3, PageOf
<1> QED BY <1>4

LEMMA CountBounded ==
    ASSUME NEW done \in [1..Len(Pages) -> Nat], NEW C, Bounded(done, C),
           NEW k \in 1..Len(Units), k \notin C
    PROVE  Bounded(More(done, Units[k].page), C \cup {k})
<1> DEFINE p == Units[k].page
           next == More(done, p)
<1>1. p \in 1..Len(Pages)
  BY UnitsPage
<1>2. C \in SUBSET (1..Len(Units)) /\ (C \cup {k}) \subseteq 1..Len(Units)
  BY DEF Bounded
<1>3. ASSUME NEW q \in 1..Len(Pages) PROVE next[q] <= Cardinality(OnPage(C \cup {k}, q))
  <2>1. done[q] <= Cardinality(OnPage(C, q)) /\ done[q] \in Nat
    BY DEF Bounded
  <2>2. IsFiniteSet(OnPage(C, q)) /\ Cardinality(OnPage(C, q)) \in Nat
    BY <1>2, OnPageFinite
  <2>3. CASE q = p
    <3>1. OnPage(C \cup {k}, q) = OnPage(C, q) \cup {k} /\ k \notin OnPage(C, q)
      BY <2>3 DEF OnPage
    <3>2. Cardinality(OnPage(C \cup {k}, q)) = Cardinality(OnPage(C, q)) + 1
      BY <2>2, <3>1, FS_AddElement
    <3>3. next[q] = done[q] + 1
      BY <1>1, <2>3 DEF More
    <3> HIDE DEF next
    <3> QED BY <2>1, <2>2, <3>2, <3>3
  <2>4. CASE q # p
    <3>1. OnPage(C \cup {k}, q) = OnPage(C, q)
      BY <2>4 DEF OnPage
    <3>2. next[q] = done[q]
      BY <2>4 DEF More
    <3> HIDE DEF next
    <3> QED BY <2>1, <3>1, <3>2
  <2> QED BY <2>3, <2>4
<1> HIDE DEF next
<1> QED BY <1>2, <1>3 DEF Bounded, next

\* A unit that completes its page makes one more page complete.
LEMMA CountDone ==
    ASSUME NEW done \in [1..Len(Pages) -> Nat], NEW p \in 1..Len(Pages), NEW n \in Nat,
           n <= Cardinality(DonePages(done))
    PROVE  /\ n <= Cardinality(DonePages(More(done, p)))
           /\ done[p] + 1 = Target(p) => n + 1 <= Cardinality(DonePages(More(done, p)))
<1> DEFINE next == More(done, p)
           A == DonePages(done)
           B == DonePages(next)
<1>1. \A q \in 1..Len(Pages) : next[q] = IF q = p THEN done[q] + 1 ELSE done[q]
  BY DEF More
<1>2. \A q \in 1..Len(Pages) : done[q] \in Nat /\ Target(q) \in Nat
  BY OnPageFinite
<1> HIDE DEF next
<1>3. A \subseteq B
  BY <1>1, <1>2 DEF DonePages
<1>4. /\ IsFiniteSet(A) /\ Cardinality(A) \in Nat /\ n <= Cardinality(A)
      /\ IsFiniteSet(B) /\ Cardinality(B) \in Nat
  BY DonePagesSize
<1>5. Cardinality(A) <= Cardinality(B)
  BY <1>3, <1>4, FS_Subset
<1>6. ASSUME done[p] + 1 = Target(p) PROVE n + 1 <= Cardinality(B)
  <2>1. p \notin A /\ p \in B
    BY <1>1, <1>2, <1>6 DEF DonePages
  <2>2. (A \cup {p}) \subseteq B
    BY <1>3, <2>1
  <2> HIDE DEF A, B
  <2>3. IsFiniteSet(A \cup {p}) /\ Cardinality(A \cup {p}) = Cardinality(A) + 1
    BY <1>4, <2>1, FS_AddElement
  <2>4. Cardinality(A \cup {p}) <= Cardinality(B)
    BY <1>4, <2>2, FS_Subset
  <2> QED BY <1>4, <2>3, <2>4
<1> HIDE DEF A, B
<1>7. n <= Cardinality(B)
  BY <1>4, <1>5
<1> QED BY <1>6, <1>7 DEF B, next

\* What a goroutine has still to count of its chunk, the i-th of the batch, is
\* not counted: f says where the chunks end.
Ahead(C, f, i, t) == \A k \in C : k <= f[i - 1] + t.counted \/ f[i] < k

CountedBefore ==
    \E m \in 0..Len(Units), C \in SUBSET Nat :
        /\ rest = After(Units, m)
        /\ Bounded(pageDone, C) /\ \A k \in C : k <= m

CountedIn(f, C) ==
    /\ CutAt(batch, Units, f) /\ rest = After(Units, f[0])
    /\ Bounded(pageDone, C) /\ \A k \in C : k <= f[Len(batch)]
    /\ \A i \in 1..Len(task) : Ahead(C, f, i, task[i])

CountedSoFar == \E C \in SUBSET Nat : \E f : CountedIn(f, C)

CountInv ==
    /\ phase = "start" => pageDone = NoPages /\ job.processed = 0
    /\ phase = "plan" => CountedBefore
    /\ phase = "batch" => CountedSoFar
    /\ phase \in {"plan", "batch"} => job.processed <= Cardinality(DonePages(pageDone))
    /\ \A p \in 1..Len(Pages) : pageDone[p] <= Target(p)

LEMMA NothingCounted ==
    /\ Bounded(NoPages, {})
    /\ \A p \in 1..Len(Pages) : NoPages[p] <= Target(p)
<1>1. \A p \in 1..Len(Pages) : NoPages[p] = 0
  BY DEF NoPages
<1>2. ASSUME NEW p \in 1..Len(Pages) PROVE 0 <= Cardinality(OnPage({}, p)) /\ 0 <= Target(p)
  <2>1. {} \in SUBSET (1..Len(Units))
    OBVIOUS
  <2> QED BY <2>1, OnPageFinite
<1> QED BY <1>1, <1>2 DEF Bounded

LEMMA CountInit == Init => CountInv
<1> SUFFICES ASSUME Init PROVE CountInv
  OBVIOUS
<1>1. phase = "start" /\ pageDone = NoPages /\ job.processed = 0
  BY DEF Init, Pending
<1> QED BY <1>1, NothingCounted DEF CountInv

LEMMA CountStart == Shapes /\ CountInv /\ Start => CountInv'
<1> SUFFICES ASSUME Shapes, CountInv, Start PROVE CountInv'
  OBVIOUS
<1>1. pageDone = NoPages /\ pageDone' = pageDone
  BY StartShape DEF CountInv
<1>2. CASE FromCache
  BY <1>1, <1>2 DEF FromCache, CountInv
<1>3. CASE Anew
  <2>1. phase' = "plan" /\ rest' = Units /\ job'.processed = 0
    BY <1>3, NewJob DEF Anew
  <2>2. 0 \in 0..Len(Units) /\ Units = After(Units, 0)
    BY UnitsFacts, AfterFacts
  <2>3. CountedBefore'
    <3>1. {} \in SUBSET Nat /\ \A k \in {} : k <= 0
      OBVIOUS
    <3>2. Bounded(NoPages, {})
      BY NothingCounted
    <3> QED BY <1>1, <2>1, <2>2, <3>1, <3>2 DEF CountedBefore
  <2>4. (job.processed <= Cardinality(DonePages(pageDone)))'
    <3>1. Cardinality(DonePages(NoPages)) \in Nat
      BY DonePagesSize
    <3> QED BY <1>1, <2>1, <3>1
  <2> QED BY <1>1, <2>1, <2>3, <2>4 DEF CountInv
<1> QED BY <1>2, <1>3, StartShape

LEMMA CountStartBatch == Shapes /\ CountInv /\ StartBatch => CountInv'
<1> SUFFICES ASSUME Shapes, CountInv, StartBatch PROVE CountInv'
  OBVIOUS
<1>1. /\ phase = "plan" /\ phase' = "batch" /\ rest' = rest /\ pageDone' = pageDone
      /\ job' = job /\ task' = Goroutines(batch')
  BY DEF StartBatch
<1>2. PICK m \in 0..Len(Units), C \in SUBSET Nat :
         rest = After(Units, m) /\ Bounded(pageDone, C) /\ \A k \in C : k <= m
  BY <1>1 DEF CountInv, CountedBefore
<1>3. PICK chunks \in Seq(Seq(UnitSet)), j \in 0..Len(ChunksOf(rest, range)) :
         chunks = batch' /\ chunks = SubSeq(ChunksOf(rest, range), 1, j)
  BY BatchShape
<1>4. PICK b : Cut(chunks, Units, m, b)
  BY <1>2, <1>3, UnitsFacts, BatchIsNext
<1>5. PICK f : CutAt(chunks, Units, f) /\ f[0] = m
  BY <1>4 DEF Cut
<1>6. Len(chunks) \in Nat /\ Len(Units) \in Nat
  BY UnitsFacts
<1>7. \A i \in 0..Len(chunks) : f[i] \in Nat /\ m <= f[i]
  <2>1. 0 \in 0..Len(chunks)
    BY <1>6
  <2> QED BY <1>5, <1>6, <2>1, CutAtOrdered
<1>8. \A k \in C : k <= f[Len(chunks)]
  <2>1. Len(chunks) \in 0..Len(chunks)
    BY <1>6
  <2> QED BY <1>2, <1>7, <2>1
<1> DEFINE tasks == Goroutines(chunks)
<1>9. Len(tasks) = Len(chunks) /\ \A i \in 1..Len(chunks) : tasks[i].counted = 0
  BY GoroutinesShape
<1>10. ASSUME NEW i \in 1..Len(tasks) PROVE Ahead(C, f, i, tasks[i])
  <2>1. i \in 1..Len(chunks) /\ i - 1 \in 0..Len(chunks)
    BY <1>6, <1>9
  <2>2. PICK a \in Nat : a = f[i - 1] /\ m <= a
    BY <1>7, <2>1
  <2>3. \A k \in C : k <= a + 0
    BY <1>2, <2>2
  <2> QED BY <1>9, <2>1, <2>2, <2>3 DEF Ahead
<1> HIDE DEF tasks
<1>11. CountedSoFar'
  <2>1. task' = tasks
    BY <1>1, <1>3 DEF tasks
  <2>2. CutAt(batch', Units, f) /\ rest' = After(Units, f[0]) /\ Bounded(pageDone', C)
    BY <1>1, <1>2, <1>3, <1>5
  <2>3. /\ \A k \in C : k <= f[Len(batch')]
        /\ \A i \in 1..Len(task') : Ahead(C, f, i, task'[i])
    BY <1>3, <1>8, <1>10, <2>1
  <2>4. CountedIn(f, C)'
    BY <2>2, <2>3 DEF CountedIn
  <2> QED BY <2>4 DEF CountedSoFar
<1> QED BY <1>1, <1>11 DEF CountInv

LEMMA CountCollect == Shapes /\ CountInv /\ Collect => CountInv'
<1> SUFFICES ASSUME Shapes, CountInv, Collect PROVE CountInv'
  OBVIOUS
<1>1. /\ phase = "batch" /\ phase' = "plan" /\ pageDone' = pageDone /\ job' = job
      /\ rest' = After(rest, Len(FlattenSeq(batch)))
  BY DEF Collect, After
<1>0. PICK C \in SUBSET Nat : \E f : CountedIn(f, C)
  BY <1>1 DEF CountInv, CountedSoFar
<1>2. PICK f :
         /\ CutAt(batch, Units, f) /\ rest = After(Units, f[0])
         /\ Bounded(pageDone, C) /\ \A k \in C : k <= f[Len(batch)]
  BY <1>0 DEF CountedIn
<1>3. Cut(batch, Units, f[0], f[Len(batch)])
  BY <1>2 DEF Cut
<1>4. batch \in Seq(Seq(UnitSet))
  BY DEF Shapes, RunShape
<1>5. PICK a, b : a = f[0] /\ b = f[Len(batch)]
  OBVIOUS
<1>6. /\ b \in 0..Len(Units)
      /\ After(After(Units, a), Len(FlattenSeq(batch))) = After(Units, b)
  BY <1>3, <1>4, <1>5, UnitsFacts, AfterBatch
<1>7. CountedBefore'
  <2>1. rest' = After(Units, b)
    BY <1>1, <1>2, <1>5, <1>6
  <2>2. \A k \in C : k <= b
    BY <1>2, <1>5
  <2> QED BY <1>1, <1>2, <1>6, <2>1, <2>2 DEF CountedBefore
<1> QED BY <1>1, <1>7 DEF CountInv

\* The counters move only when a unit is counted.
LEMMA WorkCounts ==
    ASSUME Shapes, NEW i, NEW t, NEW u, Works(i, t, u)
    PROVE  Counts(i, t, u) \/ (/\ pageDone' = pageDone /\ job' = job
                               /\ u.counted = t.counted)
  BY DEF Works, TalksAlone, Talks, Hits, Fails, Proceeds, Splits, Answered, Stores, HasCounted,
         Saves, SharedVars, Keeps, Carries

\* The unit that goroutine i counts, at place k of the document: one of its own,
\* not counted yet, and of no other goroutine of the batch.
Uncounted(k, f, C, i, t, u) ==
    /\ k \notin C /\ k <= f[Len(batch)]
    /\ Units[k].page = t.out[t.counted + 1].page
    /\ Ahead(C \cup {k}, f, i, u)
    /\ \A j \in 1..Len(task) : j # i => Ahead(C \cup {k}, f, j, task[j])

LEMMA CountedUnit ==
    ASSUME Shapes, TranslationInv, NEW i \in 1..Len(task), NEW t, t = task[i], NEW u,
           Counts(i, t, u), NEW f, NEW C \in SUBSET Nat, CountedIn(f, C)
    PROVE  \E k \in 1..Len(Units) : Uncounted(k, f, C, i, t, u)
<1>0. /\ CutAt(batch, Units, f) /\ \A k \in C : k <= f[Len(batch)]
      /\ \A j \in 1..Len(task) : Ahead(C, f, j, task[j])
  BY DEF CountedIn
<1>1. /\ t.pc = "count" /\ t.counted < Len(t.out) /\ u.counted = t.counted + 1
  BY DEF Counts
<1>2. /\ i \in 1..Len(batch) /\ Len(batch) \in Nat /\ Len(task) = Len(batch)
      /\ batch[i] \in Seq(UnitSet) /\ Units \in Seq(UnitSet) /\ Len(Units) \in Nat
      /\ \A j \in 1..Len(task) : task[j].counted \in Nat
  <2>1. \A j \in 1..Len(task) : task[j] \in Routine
    BY DEF Shapes, TaskShape
  <2>2. \A j \in 1..Len(task) : task[j].counted \in Nat
    BY <2>1 DEF Routine
  <2>3. batch \in Seq(Seq(UnitSet)) /\ Len(task) = Len(batch)
    BY DEF Shapes, TaskShape, RunShape
  <2>4. i \in 1..Len(batch) /\ Len(batch) \in Nat /\ batch[i] \in Seq(UnitSet)
    BY <2>3
  <2> QED BY <2>2, <2>3, <2>4, UnitsFacts
<1>3. t.out = Translated(batch[i])
  BY <1>1 DEF TranslationInv, RoutinesOK, RoutineOK, Counting
<1>4. PICK chunk \in Seq(UnitSet) : chunk = batch[i]
  BY <1>2
<1>5. PICK a, b : a = f[i - 1] /\ b = f[i]
  OBVIOUS
<1>6. /\ a \in 0..Len(Units) /\ b \in 0..Len(Units) /\ a < b /\ Len(chunk) = b - a
      /\ \A j \in 1..(b - a) : chunk[j] = Units[a + j]
  BY <1>0, <1>2, <1>4, <1>5, CutAtPiece
<1>7. Len(Translated(chunk)) = Len(chunk)
  BY PieceType
<1>8. PICK n \in Nat : n = t.counted
  BY <1>2
<1>9. n < b - a
  BY <1>1, <1>3, <1>4, <1>6, <1>7, <1>8
<1>10. PICK k \in 1..Len(Units) : k = a + n + 1 /\ a < k /\ k <= b
  BY <1>6, <1>9
<1>11. Units[k].page = t.out[n + 1].page
  <2>1. n + 1 \in 1..Len(chunk) /\ n + 1 \in 1..(b - a)
    BY <1>6, <1>9
  <2>2. chunk[n + 1] = Units[k]
    BY <1>6, <1>10, <2>1
  <2>3. Translated(chunk)[n + 1] = Piece(chunk[n + 1], TRUE)
    BY <2>1 DEF Translated
  <2> QED BY <1>3, <1>4, <2>2, <2>3 DEF Piece
<1>12. k \notin C
  <2>1. Ahead(C, f, i, t)
    BY <1>0
  <2>2. \A x \in C : x <= a + n \/ b < x
    BY <1>5, <1>8, <2>1 DEF Ahead
  <2> QED BY <1>6, <1>10, <2>2
<1>13. k <= f[Len(batch)]
  <2>1. i \in 0..Len(batch) /\ Len(batch) \in 0..Len(batch) /\ i <= Len(batch)
    BY <1>2
  <2>2. PICK d \in Nat : d = f[Len(batch)] /\ b <= d
    BY <1>0, <1>2, <1>5, <2>1, CutAtOrdered
  <2> QED BY <1>6, <1>10, <2>2
<1>14. Ahead(C \cup {k}, f, i, u)
  <2>1. \A x \in C : x <= a + n \/ b < x
    BY <1>0, <1>5, <1>8 DEF Ahead
  <2>2. \A x \in C \cup {k} : x <= a + (n + 1) \/ b < x
    BY <1>6, <1>10, <2>1
  <2> QED BY <1>1, <1>5, <1>8, <2>2 DEF Ahead
<1>15. ASSUME NEW j \in 1..Len(task), j # i PROVE Ahead(C \cup {k}, f, j, task[j])
  <2>1. PICK c, d, l \in Nat : c = f[j - 1] /\ d = f[j] /\ l = task[j].counted
    <3>1. j - 1 \in 0..Len(batch) /\ j \in 0..Len(batch)
      BY <1>2
    <3>2. f[j - 1] \in 0..Len(Units) /\ f[j] \in 0..Len(Units)
      BY <1>0, <3>1 DEF CutAt
    <3> QED BY <1>2, <3>2
  <2>2. \A x \in C : x <= c + l \/ d < x
    BY <1>0, <2>1 DEF Ahead
  <2>3. k <= c + l \/ d < k
    <3>1. CASE j < i
      <4>1. j \in 0..Len(batch) /\ i - 1 \in 0..Len(batch) /\ j <= i - 1
        BY <1>2, <3>1
      <4>2. d <= a
        BY <1>0, <1>2, <1>5, <2>1, <4>1, CutAtOrdered
      <4> QED BY <1>6, <1>10, <4>2
    <3>2. CASE i < j
      <4>1. i \in 0..Len(batch) /\ j - 1 \in 0..Len(batch) /\ i <= j - 1
        BY <1>2, <3>2
      <4>2. b <= c
        BY <1>0, <1>2, <1>5, <2>1, <4>1, CutAtOrdered
      <4> QED BY <1>6, <1>10, <4>2
    <3> QED BY <1>2, <1>15, <3>1, <3>2
  <2>4. \A x \in C \cup {k} : x <= c + l \/ d < x
    BY <2>2, <2>3
  <2> QED BY <2>1, <2>4 DEF Ahead
<1>16. Units[k].page = t.out[t.counted + 1].page
  BY <1>8, <1>11
<1> QED BY <1>12, <1>13, <1>14, <1>15, <1>16 DEF Uncounted

LEMMA WorkCount ==
    ASSUME Shapes, PhaseInv, TranslationInv, CountInv, NEW i \in 1..Len(task), Work(i)
    PROVE  CountInv'
<1>1. PICK t : t = task[i]
  OBVIOUS
<1>2. PICK u : Replaced(i, u) /\ Works(i, t, u)
  BY <1>1, WorkShape
<1>3. phase = "batch" /\ UNCHANGED runVars
  BY WorkInBatch, WorkShape
<1>4. /\ phase' = "batch" /\ rest' = rest /\ batch' = batch
  BY <1>3 DEF runVars
<1>5. /\ Len(task') = Len(task) /\ task'[i] = u
      /\ \A j \in 1..Len(task) : j # i => task'[j] = task[j]
  BY <1>2, ReplacedTask
<1>0. PICK C \in SUBSET Nat : \E f : CountedIn(f, C)
  BY <1>3 DEF CountInv, CountedSoFar
<1>6. PICK f :
         /\ CutAt(batch, Units, f) /\ rest = After(Units, f[0])
         /\ Bounded(pageDone, C) /\ \A k \in C : k <= f[Len(batch)]
         /\ \A j \in 1..Len(task) : Ahead(C, f, j, task[j])
         /\ CountedIn(f, C)
  BY <1>0 DEF CountedIn
<1>7. /\ pageDone \in [1..Len(Pages) -> Nat] /\ job \in Shape /\ job.processed \in Nat
      /\ job.processed <= Cardinality(DonePages(pageDone))
      /\ \A p \in 1..Len(Pages) : pageDone[p] <= Target(p)
  BY <1>3 DEF CountInv, Shapes, SharedShape, Shape
<1>8. CASE Counts(i, t, u)
  <2>0. PICK k \in 1..Len(Units) : Uncounted(k, f, C, i, t, u)
    BY <1>0, <1>1, <1>6, <1>8, CountedUnit
  <2>1. /\ k \notin C /\ k <= f[Len(batch)]
        /\ Units[k].page = t.out[t.counted + 1].page
        /\ Ahead(C \cup {k}, f, i, u)
        /\ \A j \in 1..Len(task) : j # i => Ahead(C \cup {k}, f, j, task[j])
    BY <2>0 DEF Uncounted
  <2>2. PICK p \in 1..Len(Pages) : p = Units[k].page
    BY UnitsPage
  <2>3. pageDone' = More(pageDone, p)
    BY <1>8, <2>1, <2>2 DEF Counts, More
  <2>4. Bounded(More(pageDone, p), C \cup {k})
    BY <1>6, <1>7, <2>1, <2>2, CountBounded
  <2>5. CountedSoFar'
    <3>1. C \cup {k} \in SUBSET Nat /\ \A x \in C \cup {k} : x <= f[Len(batch)]
      <4>1. C \in SUBSET Nat /\ k \in Nat
        BY <1>0
      <4> QED BY <1>6, <2>1, <4>1
    <3>2. \A j \in 1..Len(task') : Ahead(C \cup {k}, f, j, task'[j])
      BY <1>5, <2>1
    <3>3. CutAt(batch', Units, f) /\ rest' = After(Units, f[0]) /\ Bounded(pageDone', C \cup {k})
      BY <1>4, <1>6, <2>3, <2>4
    <3>4. \A x \in C \cup {k} : x <= f[Len(batch')]
      BY <1>4, <3>1
    <3>5. CountedIn(f, C \cup {k})'
      BY <3>2, <3>3, <3>4 DEF CountedIn
    <3> QED BY <3>1, <3>5 DEF CountedSoFar
  <2>6. More(pageDone, p) \in [1..Len(Pages) -> Nat]
    BY <1>7 DEF More
  <2>7. \A q \in 1..Len(Pages) : pageDone'[q] <= Target(q)
    BY <2>3, <2>4, <2>6, PageBound
  <2>8. PICK n \in Nat : n = job.processed
    BY <1>7
  <2>9. /\ n <= Cardinality(DonePages(More(pageDone, p)))
        /\ pageDone[p] + 1 = Target(p) => n + 1 <= Cardinality(DonePages(More(pageDone, p)))
    BY <1>7, <2>8, CountDone
  <2>10. \/ Completes(p) /\ job'.processed = n + 1
         \/ job' = job
    <3>1. [job EXCEPT !.processed = job.processed + 1].processed = job.processed + 1
      BY <1>7 DEF Shape
    <3> QED BY <1>8, <2>1, <2>2, <2>8, <3>1 DEF Counts
  <2>11. job'.processed <= Cardinality(DonePages(pageDone'))
    BY <2>3, <2>8, <2>9, <2>10 DEF Completes
  <2> QED BY <1>4, <2>5, <2>7, <2>11 DEF CountInv
<1>9. CASE ~ Counts(i, t, u)
  <2>1. pageDone' = pageDone /\ job' = job /\ u.counted = t.counted
    BY <1>2, <1>9, WorkCounts
  <2>2. ASSUME NEW j \in 1..Len(task') PROVE Ahead(C, f, j, task'[j])
    <3>1. task'[j].counted = task[j].counted /\ Ahead(C, f, j, task[j])
      BY <1>1, <1>5, <1>6, <2>1
    <3> QED BY <3>1 DEF Ahead
  <2>3. CountedSoFar'
    <3>1. CutAt(batch', Units, f) /\ rest' = After(Units, f[0]) /\ Bounded(pageDone', C)
      BY <1>4, <1>6, <2>1
    <3>2. \A x \in C : x <= f[Len(batch')]
      BY <1>4, <1>6
    <3>3. CountedIn(f, C)'
      BY <2>2, <3>1, <3>2 DEF CountedIn
    <3> QED BY <3>3 DEF CountedSoFar
  <2> QED BY <1>4, <1>7, <2>1, <2>3 DEF CountInv
<1> QED BY <1>8, <1>9

LEMMA CountInvStep ==
    Shapes /\ PhaseInv /\ TranslationInv /\ CountInv /\ [Next]_vars => CountInv'
<1> SUFFICES ASSUME Shapes, PhaseInv, TranslationInv, CountInv, [Next]_vars
             PROVE  CountInv'
  OBVIOUS
<1>1. CASE UNCHANGED <<phase, rest, batch, task, pageDone, job>>
  BY <1>1 DEF CountInv, CountedBefore, CountedSoFar, CountedIn
<1>2. CASE Conclude \/ CacheDocument \/ StoreResult
  <2>1. phase' \in {"cache", "final", "over"} /\ pageDone' = pageDone
    BY <1>2 DEF Conclude, CacheDocument, StoreResult
  <2> QED BY <2>1 DEF CountInv
<1>3. CASE Cancel
  BY <1>1, <1>3 DEF Cancel, runVars, SharedVars
<1>4. CASE Crash
  <2>1. phase' = "start" /\ pageDone' = NoPages /\ job'.processed = 0
    BY <1>4 DEF Crash, Pending
  <2> QED BY <2>1, NothingCounted DEF CountInv
<1> QED BY <1>1, <1>2, <1>3, <1>4, CountStart, CountStartBatch, CountCollect, WorkCount
        DEF Next, Coordinator, vars, runVars

\* What a goroutine marshals is a count of the job.
LEMMA OneFieldMore ==
    ASSUME NEW t \in Routine, NEW a, NEW b, NEW c, NEW n
    PROVE  /\ [t EXCEPT !.pc = a].snap = t.snap
           /\ [t EXCEPT !.pc = a, !.out = b].snap = t.snap
           /\ [t EXCEPT !.pc = a, !.todo = b].snap = t.snap
           /\ [t EXCEPT !.pc = a, !.out = b, !.todo = c].snap = t.snap
           /\ [t EXCEPT !.pc = a, !.called = b].snap = t.snap
           /\ [t EXCEPT !.pc = a, !.notified = b].snap = t.snap
           /\ [t EXCEPT !.pc = a, !.failed = b].snap = t.snap
           /\ [t EXCEPT !.counted = b].snap = t.snap
           /\ [t EXCEPT !.counted = b, !.pc = a, !.snap = n].snap = n
           /\ [t EXCEPT !.pc = a, !.snap = n].snap = n
  BY DEF Routine

LEMMA WorkSnap ==
    ASSUME Shapes, NEW i \in 1..Len(task), Work(i)
    PROVE  task'[i].snap \in {task[i].snap, job.processed, job'.processed}
<1>1. PICK t \in Routine : t = task[i]
  BY TheTask DEF Shapes
<1>2. ASSUME NEW u, Become(i, u) PROVE task'[i] = u
  BY <1>2 DEF Become, Shapes, TaskShape
<1>3. CASE Lookup(i)
  <2>1. \/ \E c \in ckpt : task'[i] = [t EXCEPT !.pc = "end", !.out = c.value]
        \/ task'[i] = [t EXCEPT !.pc = "wait"]
    BY <1>1, <1>2, <1>3 DEF Lookup, Step
  <2>2. \A x : [t EXCEPT !.pc = "end", !.out = x].snap = t.snap
    BY OneFieldMore
  <2>3. [t EXCEPT !.pc = "wait"].snap = t.snap
    BY OneFieldMore
  <2> QED BY <1>1, <2>1, <2>2, <2>3
<1>4. CASE Enter(i)
  <2>1. \/ task'[i] = [t EXCEPT !.pc = "call", !.called = TRUE]
        \/ task'[i] = [t EXCEPT !.pc = "end", !.failed = TRUE]
    BY <1>1, <1>2, <1>4 DEF Enter, Fail
  <2>2. /\ [t EXCEPT !.pc = "call", !.called = TRUE].snap = t.snap
        /\ [t EXCEPT !.pc = "end", !.failed = TRUE].snap = t.snap
    BY <1>1 DEF Routine
  <2> QED BY <1>1, <2>1, <2>2
<1>5. ASSUME NEW groups, Redo(i, groups) PROVE task'[i].snap = t.snap
  <2>1. task'[i] = [t EXCEPT !.pc = "call", !.todo = groups \o Tail(t.todo)]
    BY <1>1, <1>2, <1>5 DEF Redo
  <2> QED BY <2>1, OneFieldMore
<1>6. ASSUME Fail(i) PROVE task'[i].snap = t.snap
  <2>1. task'[i] = [t EXCEPT !.pc = "end", !.failed = TRUE]
    BY <1>1, <1>2, <1>6 DEF Fail
  <2> QED BY <2>1, OneFieldMore
<1>7. ASSUME NEW pc, Step(i, pc) PROVE task'[i].snap = t.snap
  <2>1. task'[i] = [t EXCEPT !.pc = pc]
    BY <1>1, <1>2, <1>7 DEF Step
  <2> QED BY <2>1, OneFieldMore
<1>8. ASSUME CallFails(i) PROVE task'[i].snap = t.snap
  BY <1>5, <1>6, <1>8 DEF CallFails
<1>9. CASE Acquire(i)
  BY <1>1, <1>6, <1>7, <1>8, <1>9 DEF Acquire
<1>10. CASE Answer(i)
  <2>1. CASE \E pc, out, later : task'[i] = [t EXCEPT !.pc = pc, !.out = out, !.todo = later]
    BY <1>1, <2>1, OneFieldMore
  <2>2. CASE ~ \E pc, out, later : task'[i] = [t EXCEPT !.pc = pc, !.out = out, !.todo = later]
    <3>1. ~ Become(i, [task[i] EXCEPT
                         !.pc = IF Tail(task[i].todo) = <<>> THEN AfterCall ELSE "call",
                         !.out = @ \o Translated(Head(task[i].todo)),
                         !.todo = Tail(task[i].todo)])
      BY <1>1, <1>2, <2>2
    <3>2. \/ Redo(i, Singles(Head(task[i].todo)))
          \/ CallFails(i)
          \/ Fail(i)
      BY <1>10, <3>1 DEF Answer
    <3> QED BY <1>1, <1>5, <1>6, <1>8, <3>2
  <2> QED BY <2>1, <2>2
<1>11. CASE Notify(i)
  <2>1. task'[i] = [t EXCEPT !.pc = "marshal", !.notified = TRUE]
    BY <1>1, <1>2, <1>11 DEF Notify
  <2> QED BY <1>1, <2>1, OneFieldMore
<1>12. CASE Marshal(i)
  <2>1. task'[i] = [t EXCEPT !.pc = "set", !.snap = job.processed]
    BY <1>1, <1>2, <1>12 DEF Marshal
  <2> QED BY <1>1, <2>1, OneFieldMore
<1>13. CASE Count(i)
  <2>1. \/ /\ task'[i] = [t EXCEPT !.counted = t.counted + 1, !.pc = "update",
                                   !.snap = job.processed + 1]
           /\ job' = [job EXCEPT !.processed = job.processed + 1]
        \/ task'[i] = [t EXCEPT !.counted = t.counted + 1]
    BY <1>1, <1>2, <1>13 DEF Count
  <2>2. [job EXCEPT !.processed = job.processed + 1].processed = job.processed + 1
    BY DEF Shapes, SharedShape, Shape
  <2>3. /\ [t EXCEPT !.counted = t.counted + 1, !.pc = "update",
                   !.snap = job.processed + 1].snap = job.processed + 1
        /\ [t EXCEPT !.counted = t.counted + 1].snap = t.snap
    BY OneFieldMore
  <2> QED BY <1>1, <2>1, <2>2, <2>3
<1>14. CASE SetStage(i) \/ SetProgress(i) \/ Counted(i) \/ SaveCheckpoint(i)
  BY <1>1, <1>7, <1>14 DEF SetStage, SetProgress, Counted, SaveCheckpoint
<1> QED BY <1>3, <1>4, <1>9, <1>10, <1>11, <1>12, <1>13, <1>14 DEF Work

\* The counts of pages, in the job, in Redis and as marshalled.
SizeInv ==
    /\ job.processed <= Len(Pages) /\ stored.processed <= Len(Pages)
    /\ \A i \in 1..Len(task) : task[i].snap <= Len(Pages)

\* Who holds progressMu is in its section.
LockInv == lock # 0 => lock \in 1..Len(task) /\ task[lock].pc \in Counting

LEMMA SizeInit == Init => SizeInv /\ LockInv
<1> SUFFICES ASSUME Init PROVE SizeInv /\ LockInv
  OBVIOUS
<1>1. job.processed = 0 /\ stored.processed = 0 /\ task = <<>> /\ lock = 0
  BY DEF Init, Pending
<1> QED BY <1>1, PagesFacts DEF SizeInv, LockInv

LEMMA WorkSize ==
    ASSUME Shapes, PhaseInv, TranslationInv, CountInv, SizeInv, LockInv,
           NEW i \in 1..Len(task), Work(i)
    PROVE  SizeInv' /\ LockInv'
<1>1. PICK t \in Routine : t = task[i]
  BY TheTask DEF Shapes
<1>2. PICK u : Replaced(i, u) /\ Works(i, t, u)
  BY <1>1, WorkShape
<1>3. /\ Len(task') = Len(task) /\ task'[i] = u
      /\ \A j \in 1..Len(task) : j # i => task'[j] = task[j]
  BY <1>2, ReplacedTask
<1>4. job'.processed <= Len(Pages)
  <2>1. phase' = "batch"
    BY WorkInBatch, WorkShape DEF runVars
  <2>2. CountInv' /\ Shapes'
    BY WorkCount, WorkKeeps
  <2>3. PICK n, d : n = job'.processed /\ d = pageDone'
    OBVIOUS
  <2>4. n <= Cardinality(DonePages(d)) /\ n \in Nat
    BY <2>1, <2>2, <2>3 DEF CountInv, Shapes, SharedShape, Shape
  <2>5. Cardinality(DonePages(d)) \in Nat /\ Cardinality(DonePages(d)) <= Len(Pages)
    BY DonePagesSize
  <2>6. n <= Len(Pages)
    BY <2>4, <2>5, PagesFacts
  <2> QED BY <2>3, <2>6
<1>5. u.snap <= Len(Pages)
  BY <1>1, <1>3, <1>4, WorkSnap DEF SizeInv
<1>6. stored'.processed <= Len(Pages)
  <2>1. stored' = stored \/ Stores(i, t, u)
    BY <1>2 DEF Works, TalksAlone, SharedVars, redisVars, Counts, HasCounted, Saves
  <2>2. [job EXCEPT !.processed = t.snap].processed = t.snap
    BY DEF Shapes, SharedShape, Shape
  <2> QED BY <1>1, <2>1, <2>2 DEF SizeInv, Stores
<1>7. SizeInv'
  BY <1>3, <1>4, <1>5, <1>6 DEF SizeInv
<1>8. LockInv'
  <2>1. CASE TalksAlone(i, t, u) \/ Stores(i, t, u) \/ Saves(i, t, u)
    <3>1. lock' = lock
      BY <2>1 DEF TalksAlone, SharedVars, Stores, Saves
    <3>2. t.pc \in Counting => u.pc \in Counting
      BY <2>1 DEF TalksAlone, Talks, Hits, Fails, Proceeds, Splits, Answered, Stores, Saves,
                  Talking, Counting
    <3> QED BY <1>1, <1>3, <3>1, <3>2 DEF LockInv
  <2>2. CASE Counts(i, t, u)
    BY <1>3, <2>2 DEF Counts, LockInv, Counting
  <2>3. CASE HasCounted(i, t, u)
    BY <2>3 DEF HasCounted, LockInv
  <2> QED BY <1>2, <2>1, <2>2, <2>3 DEF Works
<1> QED BY <1>7, <1>8

LEMMA SizeStep ==
    Shapes /\ PhaseInv /\ TranslationInv /\ CountInv /\ SizeInv /\ LockInv /\ [Next]_vars
        => SizeInv' /\ LockInv'
<1> SUFFICES ASSUME Shapes, PhaseInv, TranslationInv, CountInv, SizeInv, LockInv, [Next]_vars
             PROVE  SizeInv' /\ LockInv'
  OBVIOUS
<1>1. CASE UNCHANGED <<task, job, stored, lock>>
  BY <1>1 DEF SizeInv, LockInv
<1>2. CASE Start
  <2>1. task = <<>> /\ task' = task /\ lock' = lock
    BY <1>2, StartShape DEF PhaseInv
  <2>2. lock = 0
    BY <2>1 DEF LockInv
  <2>3. CASE FromCache
    <3>1. job'.processed <= Len(Pages)
      <4> DEFINE n == IF job.type = "pdf" THEN Len(Pages) ELSE 0
      <4>1. n <= Len(Pages)
        BY PagesFacts
      <4>2. job' = [job EXCEPT !.status = "completed", !.document = cached, !.processed = n]
        BY <2>3 DEF FromCache
      <4> HIDE DEF n
      <4>3. job'.processed = n
        BY <4>2 DEF Shapes, SharedShape, Shape
      <4> QED BY <4>1, <4>3
    <3>2. stored' = stored
      BY <2>3 DEF FromCache, redisVars
    <3> QED BY <2>1, <2>2, <3>1, <3>2 DEF SizeInv, LockInv
  <2>4. CASE Anew
    <3>1. job'.processed = 0 /\ stored' \in {stored, job'}
      BY <2>4, NewJob DEF Anew
    <3> QED BY <2>1, <2>2, <3>1, PagesFacts DEF SizeInv, LockInv
  <2> QED BY <1>2, <2>3, <2>4, StartShape
<1>3. CASE StartBatch
  <2>1. NoneLeft /\ lock' = lock /\ job' = job /\ stored' = stored
    BY <1>3 DEF StartBatch, PhaseInv, redisVars
  <2>2. lock = 0
    BY <2>1 DEF NoneLeft, LockInv, Counting
  <2>3. PICK chunks \in Seq(Seq(UnitSet)) : chunks = batch'
    BY <1>3, BatchShape
  <2>4. task' = Goroutines(chunks)
    BY <1>3, <2>3 DEF StartBatch
  <2>5. \A i \in 1..Len(Goroutines(chunks)) : Goroutines(chunks)[i].snap = 0
    <3>1. Len(Goroutines(chunks)) = Len(chunks)
      BY GoroutinesShape
    <3> QED BY <3>1 DEF Goroutines
  <2> QED BY <2>1, <2>2, <2>4, <2>5, PagesFacts DEF SizeInv, LockInv
<1>4. CASE Conclude
  <2>1. job'.processed = job.processed /\ task' = task /\ stored' = stored /\ lock' = lock
    BY <1>4, ConcludeShape DEF Conclude, redisVars
  <2> QED BY <2>1 DEF SizeInv, LockInv
<1>5. CASE StoreResult
  <2>1. stored' \in {stored, job} /\ job' = job /\ task' = task /\ lock' = lock
    BY <1>5 DEF StoreResult, StoreJob
  <2> QED BY <2>1 DEF SizeInv, LockInv
<1>6. CASE Collect \/ CacheDocument \/ Cancel
  BY <1>1, <1>6 DEF Collect, CacheDocument, Cancel, SharedVars, runVars, redisVars
<1>7. CASE Crash
  <2>1. job'.processed = 0 /\ task' = <<>> /\ stored' = stored /\ lock' = 0
    BY <1>7 DEF Crash, redisVars, Pending
  <2> QED BY <2>1, PagesFacts DEF SizeInv, LockInv
<1> QED BY <1>1, <1>2, <1>3, <1>4, <1>5, <1>6, <1>7, WorkSize
        DEF Next, Coordinator, vars, runVars, redisVars

LEMMA TypesHold ==
    Shapes /\ CountInv /\ SizeInv /\ LockInv => TypeOK
<1> SUFFICES ASSUME Shapes, CountInv, SizeInv, LockInv PROVE TypeOK
  OBVIOUS
<1>1. job \in Payload /\ stored \in Payload
  <2>1. \A j \in Shape : j.processed <= Len(Pages) => j \in Payload
    BY PagesFacts DEF Shape, Payload, Statuses
  <2> QED BY <2>1 DEF Shapes, SharedShape, RedisShape, SizeInv
<1>2. task \in Seq(Goroutine) /\ Len(task) = Len(batch)
  <2>1. task \in Seq(Routine) /\ Len(task) = Len(batch)
    BY DEF Shapes, TaskShape
  <2>2. ASSUME NEW i \in 1..Len(task) PROVE task[i] \in Goroutine
    <3>1. task[i] \in Routine /\ task[i].snap <= Len(Pages)
      BY <2>1 DEF SizeInv
    <3> QED BY <3>1, PagesFacts DEF Routine, Goroutine
  <2> QED BY <2>1, <2>2
<1>3. \A p \in 1..Len(Pages) : pageDone[p] \in 0..Target(p)
  <2>1. ASSUME NEW p \in 1..Len(Pages) PROVE pageDone[p] \in 0..Target(p)
    <3>1. pageDone[p] \in Nat /\ pageDone[p] <= Target(p)
      BY DEF Shapes, SharedShape, CountInv
    <3>2. Target(p) \in Nat
      BY OnPageFinite
    <3> QED BY <3>1, <3>2
  <2> QED BY <2>1
<1>4. lock \in 0..Len(batch)
  BY <1>2 DEF LockInv, Shapes, SharedShape, RunShape
<1> QED BY <1>1, <1>2, <1>3, <1>4
        DEF TypeOK, Shapes, RunShape, RedisShape, FaultShape, Phases, ResultSet, CheckpointSet

\* For every document, configuration and number of faults: every variable keeps
\* its type, its bounds too: no page counts more units than it has, and the job
\* counts no more pages than the document has.
THEOREM TypeCorrect == Spec => []TypeOK
  BY TypesHold, ShapesInit, ShapesStep, PhaseInit, PhaseStep, TranslationInit, TranslationStep,
     CountInit, CountInvStep, SizeInit, SizeStep, PTL DEF Spec

===============================================================================
