------------------------------- MODULE JobQueue -------------------------------
(***************************************************************************)
(* The job queue at work: API handlers that upload and enqueue             *)
(* (src/backend/handlers/jobs.go), worker processes that run the loop of   *)
(* src/backend/jobs/worker.go over the Redis structures of RedisStore, the *)
(* uploaded source files both sides share, an operator who replays dead    *)
(* letters, and the faults the code handles or is exposed to.              *)
(*                                                                         *)
(* A worker is a process of its own (the deployment runs one per backend   *)
(* replica).  Its program counter names the store command it sends next;   *)
(* cur[w] is its in-memory *Job, which it reads once and then overwrites   *)
(* the stored payload with.                                                *)
(***************************************************************************)
EXTENDS RedisStore, FiniteSets

CONSTANTS
    Workers,
    Kind,          \* Kind[j]: the Type of job j
    NoJob,         \* the worker holds no job
    MaxAttempts,   \* Job.MaxAttempts (defaultJobMaxAttempts = 3 in the code)
    Overload,      \* the answers isQueueOverloaded may give
    Faults,        \* which kinds of fault may happen
    MaxFaults,     \* bound: faults in a behaviour
    MaxReplays     \* bound: operator replays in a behaviour

Kinds      == {"text", "pdf", "image"}
FaultKinds == {"crash", "shutdown", "redis", "slow", "expire"}

ASSUME ConstantsAssumption ==
    /\ Kind \in [Jobs -> Kinds]
    /\ NoJob \notin Jobs
    /\ MaxAttempts \in Nat \ {0}
    /\ Overload \subseteq BOOLEAN
    /\ Overload # {}
    /\ Faults \subseteq FaultKinds
    /\ MaxFaults \in Nat
    /\ MaxReplays \in Nat

VARIABLES
    handler,   \* handler[j]: how far the request that creates j has come
    pc,        \* pc[w]: the next step of worker w
    cur,       \* cur[w]: the job worker w holds in memory
    files,     \* jobs whose uploaded source file is on disk
    faults,    \* faults so far
    replays    \* operator replays so far

localVars == <<handler, pc, cur, files, faults, replays>>
vars      == <<redisVars, localVars>>

Steps == {"poll", "pop", "mark", "load", "run", "cleanup", "fail", "requeue",
          "bury", "clear", "ack"}

Local == [job: Jobs \cup {NoJob}, status: Status, attempt: Nat,
          deadLettered: BOOLEAN, retryable: BOOLEAN]
Idle  == [job |-> NoJob, status |-> "pending", attempt |-> 0,
          deadLettered |-> FALSE, retryable |-> FALSE]

TypeOK ==
    /\ RedisTypeOK
    /\ handler \in [Jobs -> {"new", "accepted", "rejected"}]
    /\ pc \in [Workers -> Steps]
    /\ cur \in [Workers -> Local]
    /\ \A w \in Workers : cur[w].job = NoJob <=> pc[w] \in {"poll", "pop"}
    /\ files \in SUBSET Jobs
    /\ faults \in Nat
    /\ replays \in Nat

Init ==
    /\ RedisInit
    /\ handler = [j \in Jobs |-> "new"]
    /\ pc = [w \in Workers |-> "poll"]
    /\ cur = [w \in Workers |-> Idle]
    /\ files = {}
    /\ faults = 0
    /\ replays = 0

-------------------------------------------------------------------------------
(* Helpers.                                                                *)

Holds(w, j)   == cur[w].job = j
Held(j)       == \E w \in Workers : Holds(w, j)
HasSource(j)  == Kind[j] = "text" \/ j \in files
Settled(j)    == store[j].status = "completed" \/ dead[j] > 0
Open(j)       == handler[j] = "accepted" /\ ~Settled(j)

\* The payload Update marshals from the in-memory job.
Payload(job) == [status |-> job.status, attempt |-> job.attempt,
                 deadLettered |-> job.deadLettered]

Goto(w, step)    == pc' = [pc EXCEPT ![w] = step]
Keep(w, job)     == cur' = [cur EXCEPT ![w] = job]
Release(w)       == Goto(w, "poll") /\ Keep(w, Idle)
NoFault          == faults' = faults

Fault(kind) ==
    /\ kind \in Faults
    /\ faults < MaxFaults
    /\ faults' = faults + 1

\* A store call that reports an error: it had no effect, or it took effect and
\* only the reply was lost.
Unsure(call) == Fault("redis") /\ (call \/ UNCHANGED redisVars)

\* Update whose error is only logged: the caller goes on either way.
BestEffortUpdate(j, record) ==
    \/ SetJob(j, record) /\ NoFault
    \/ Fault("redis") /\ UNCHANGED redisVars

-------------------------------------------------------------------------------
(* Creating a job: save the upload, then Enqueue.  A failing pipeline is   *)
(* answered 500; the file, and what the pipeline did, stay.                *)

Create(j) ==
    /\ handler[j] = "new"
    /\ files' = IF Kind[j] = "text" THEN files ELSE files \cup {j}
    /\ \/ /\ EnqueueJob(j)
          /\ handler' = [handler EXCEPT ![j] = "accepted"]
          /\ NoFault
       \/ /\ Unsure(EnqueueJob(j) \/ SetJob(j, Fresh))
          /\ handler' = [handler EXCEPT ![j] = "rejected"]
    /\ UNCHANGED <<pc, cur, replays>>

-------------------------------------------------------------------------------
(* Dequeue.                                                                *)

DequeueSweep(w) ==
    /\ pc[w] = "poll"
    /\ Sweep(TRUE)
    /\ Goto(w, "pop")
    /\ UNCHANGED <<handler, cur, files, faults, replays>>

DequeuePop(w) ==
    /\ pc[w] = "pop"
    /\ \/ \E j \in Jobs :
             /\ PopToInflight(j)
             /\ Keep(w, [Idle EXCEPT !.job = j])
             /\ Goto(w, "mark")
       \/ /\ \A j \in Jobs : queue[j] = 0          \* BRPOPLPUSH timed out
          /\ Goto(w, "poll")
          /\ UNCHANGED <<redisVars, cur>>
    /\ UNCHANGED <<handler, files, faults, replays>>

DequeueMark(w) ==
    /\ pc[w] = "mark"
    /\ MarkInflight(cur[w].job)
    /\ Goto(w, "load")
    /\ UNCHANGED <<handler, cur, files, faults, replays>>

\* A failing ZADD or GET makes Dequeue give the job up where it is.
DequeueFault(w) ==
    /\ \/ pc[w] = "mark" /\ Unsure(MarkInflight(cur[w].job))
       \/ pc[w] = "load" /\ Fault("redis") /\ UNCHANGED redisVars
    /\ Release(w)
    /\ UNCHANGED <<handler, files, replays>>

Loaded(job, record) ==
    [job EXCEPT !.status = record.status, !.attempt = record.attempt,
                !.deadLettered = record.deadLettered]

\* A vanished payload is acknowledged and dropped.
DequeueLoad(w) ==
    LET j == cur[w].job
    IN  /\ pc[w] = "load"
        /\ \/ Exists(j) /\ Keep(w, Loaded(cur[w], store[j])) /\ Goto(w, "run")
           \/ ~Exists(j) /\ Goto(w, "ack") /\ UNCHANGED cur
        /\ UNCHANGED <<redisVars, handler, files, faults, replays>>

-------------------------------------------------------------------------------
(* process: any number of stage, progress and checkpoint writes, the final *)
(* Update, and the deferred removal of the source file.                    *)

\* A PDF reports its first stage before its status becomes processing.
Progress(w) ==
    LET j == cur[w].job
    IN  /\ pc[w] = "run"
        /\ \E status \in {"processing"} \cup
                         (IF Kind[j] = "pdf" THEN {cur[w].status} ELSE {}) :
             LET job == [cur[w] EXCEPT !.status = status]
             IN  Keep(w, job) /\ BestEffortUpdate(j, Payload(job))
        /\ UNCHANGED <<handler, pc, files, replays>>

SaveCheckpoint(w) ==
    LET j == cur[w].job
    IN  /\ pc[w] = "run"
        /\ Kind[j] # "image"
        /\ cur[w].status = "processing"
        /\ SetChunkCheckpoint(j)
        /\ UNCHANGED localVars

\* What process can end with.  A job whose source file is gone cannot complete;
\* a text job degrades instead of failing on a transient error.
Failure == [status: {"failed"}, retryable: BOOLEAN]
Success == [status: {"completed"}, retryable: {FALSE}]

Outcomes(j) ==
    {o \in Success \cup Failure :
        /\ o.status = "completed" => HasSource(j)
        /\ o.retryable => Kind[j] # "text"}

Finish(w) ==
    LET j == cur[w].job
    IN  /\ pc[w] = "run"
        /\ \E o \in Outcomes(j) :
             LET job == [cur[w] EXCEPT !.status = o.status,
                                       !.retryable = o.retryable]
             IN  Keep(w, job) /\ BestEffortUpdate(j, Payload(job))
        /\ Goto(w, "cleanup")
        /\ UNCHANGED <<handler, files, replays>>

\* The deferred function: a PDF source goes after any attempt, an image source
\* only when the in-memory job completed or already carries DeadLetteredAt.
RemovesSource(job) ==
    \/ Kind[job.job] = "pdf"
    \/ Kind[job.job] = "image" /\ (job.status = "completed" \/ job.deadLettered)

AfterProcess(job) == IF job.status = "failed" THEN "fail" ELSE "clear"

SourceCleanup(w) ==
    /\ pc[w] = "cleanup"
    /\ files' = IF RemovesSource(cur[w]) THEN files \ {cur[w].job} ELSE files
    /\ Goto(w, AfterProcess(cur[w]))
    /\ UNCHANGED <<redisVars, handler, cur, faults, replays>>

-------------------------------------------------------------------------------
(* handleFailedJob.                                                        *)

Budget(overloaded) ==
    IF overloaded /\ MaxAttempts > 1 THEN MaxAttempts - 1 ELSE MaxAttempts

Retries(job, overloaded) ==
    job.retryable /\ job.attempt + 1 < Budget(overloaded)

\* Seeded fault: an attempt that is not counted.
VerdictUncounted(job, again) ==
    [job EXCEPT !.status = IF again THEN "pending" ELSE "failed",
                !.deadLettered = IF again THEN @ ELSE TRUE]
Verdict(job, again) ==
    [job EXCEPT !.attempt = @ + 1,
                !.status = IF again THEN "pending" ELSE "failed",
                !.deadLettered = IF again THEN @ ELSE TRUE]

\* The attempt is counted and the verdict stored; when that Update fails the
\* function returns, and the caller still acknowledges the job.
DecideRetry(w) ==
    /\ pc[w] = "fail"
    /\ \E overloaded \in Overload :
         LET again == Retries(cur[w], overloaded)
             job   == Verdict(cur[w], again)
         IN  /\ Keep(w, job)
             /\ \/ /\ SetJob(job.job, Payload(job))
                   /\ NoFault
                   /\ Goto(w, IF again THEN "requeue" ELSE "bury")
                \/ /\ Unsure(SetJob(job.job, Payload(job)))
                   /\ Goto(w, "clear")
    /\ UNCHANGED <<handler, files, replays>>

ScheduleRetry(w) ==
    /\ pc[w] = "requeue"
    /\ Requeue(cur[w].job)
    /\ Goto(w, "clear")
    /\ UNCHANGED <<handler, cur, files, faults, replays>>

\* A failing Requeue falls back to failed; its Update may be lost as well.
ScheduleRetryFault(w) ==
    LET j    == cur[w].job
        job  == [cur[w] EXCEPT !.status = "failed"]
        last == [store EXCEPT ![j] = Payload(job)]
    IN  /\ pc[w] = "requeue"
        /\ Fault("redis")
        /\ Keep(w, job)
        /\ retry' \in {retry, [retry EXCEPT ![j] = "waiting"]}
        /\ store' \in {store, last}
        /\ Goto(w, "clear")
        /\ UNCHANGED <<queue, inflight, mark, dead, deadMeta, ckpt>>
        /\ UNCHANGED <<handler, files, replays>>

Bury(w) ==
    /\ pc[w] = "bury"
    /\ \/ DeadLetter(cur[w].job) /\ NoFault
       \/ Unsure(DeadLetter(cur[w].job) \/ DeadLetterPush(cur[w].job))
    /\ Goto(w, "clear")
    /\ UNCHANGED <<handler, cur, files, replays>>

-------------------------------------------------------------------------------
(* The end of the worker loop: terminal checkpoints, then Ack.             *)

\* Seeded fault: a PDF that failed for good keeps its checkpoints.
ClearsWhenCompleted(job) ==
    Kind[job.job] = "pdf" /\ job.status = "completed"

ClearsCheckpoints(job) ==
    Kind[job.job] = "pdf" /\ job.status \in {"completed", "failed"}

CleanupCheckpoints(w) ==
    /\ pc[w] = "clear"
    /\ \/ /\ ClearsCheckpoints(cur[w])
          /\ \/ ClearChunkCheckpoints(cur[w].job) /\ NoFault
             \/ Fault("redis") /\ UNCHANGED redisVars
       \/ /\ ~ClearsCheckpoints(cur[w])
          /\ UNCHANGED redisVars
          /\ NoFault
    /\ Goto(w, "ack")
    /\ UNCHANGED <<handler, cur, files, replays>>

AckJob(w) ==
    /\ pc[w] = "ack"
    /\ \/ Ack(cur[w].job) /\ NoFault
       \/ Unsure(Ack(cur[w].job) \/ AckRemove(cur[w].job))
    /\ Release(w)
    /\ UNCHANGED <<handler, files, replays>>

-------------------------------------------------------------------------------
(* The environment.                                                        *)

\* The ticker of Run; also the recovery a restarted worker begins with.
RecoverTick ==
    /\ \E j \in Jobs : mark[j] = "stale"
    /\ Sweep(FALSE)
    /\ UNCHANGED localVars

\* An abandoned job grows stale with time; one still held does so only when
\* its processing takes longer than ten minutes, since nothing renews the mark.
AgeMark(j) ==
    /\ GrowStale(j)
    /\ IF Held(j) THEN Fault("slow") ELSE NoFault
    /\ UNCHANGED <<handler, pc, cur, files, replays>>

RetryDue(j) ==
    /\ BecomeDue(j)
    /\ UNCHANGED localVars

OperatorReplay(j) ==
    /\ replays < MaxReplays
    /\ ReplayDead(j)
    /\ replays' = replays + 1
    /\ UNCHANGED <<handler, pc, cur, files, faults>>

\* The process dies and a new one starts: memory is lost, nothing else.
Crash(w) ==
    /\ cur[w].job # NoJob
    /\ Fault("crash")
    /\ Release(w)
    /\ UNCHANGED <<redisVars, handler, files, replays>>

\* SIGTERM cancels the context under a translation: the job fails in memory, or is
\* completed there when no more calls were needed; every store call fails on the
\* cancelled context, the deferred cleanup still goes by the outcome in memory, and
\* the process exits.
Shutdown(w) ==
    LET j == cur[w].job
    IN  /\ pc[w] = "run"
        /\ Fault("shutdown")
        /\ \E o \in Outcomes(j) :
             files' = IF RemovesSource([cur[w] EXCEPT !.status = o.status])
                      THEN files \ {j} ELSE files
        /\ Release(w)
        /\ UNCHANGED <<redisVars, handler, replays>>

\* A day passes for a job no worker holds: its payload expires, or the hourly
\* cleanStaleUploads removes its PDF.
DayPasses(j) ==
    /\ ~Held(j)
    /\ Fault("expire")
    /\ \/ Exists(j) /\ ExpireJob(j) /\ UNCHANGED files
       \/ /\ Kind[j] = "pdf" /\ j \in files
          /\ files' = files \ {j}
          /\ UNCHANGED redisVars
    /\ UNCHANGED <<handler, pc, cur, replays>>

-------------------------------------------------------------------------------
Dequeue(w)      == \/ DequeueSweep(w) \/ DequeuePop(w) \/ DequeueMark(w)
                   \/ DequeueLoad(w) \/ DequeueFault(w)
HandleFailed(w) == \/ DecideRetry(w) \/ ScheduleRetry(w)
                   \/ ScheduleRetryFault(w) \/ Bury(w)
WorkerStep(w)   == \/ Dequeue(w) \/ Finish(w) \/ SourceCleanup(w)
                   \/ HandleFailed(w) \/ CleanupCheckpoints(w) \/ AckJob(w)

Next ==
    \/ \E j \in Jobs : \/ Create(j) \/ AgeMark(j) \/ RetryDue(j)
                       \/ OperatorReplay(j) \/ DayPasses(j)
    \/ \E w \in Workers : \/ WorkerStep(w) \/ Progress(w) \/ SaveCheckpoint(w)
                          \/ Crash(w) \/ Shutdown(w)
    \/ RecoverTick

Spec == Init /\ [][Next]_vars

\* A worker keeps looping (Run has no exit but its context), process returns,
\* and time passes.  Requests, operators and faults owe nothing.
Fairness ==
    /\ \A j \in Jobs : WF_vars(RetryDue(j)) /\ WF_vars(AgeMark(j) /\ NoFault)
    /\ \A w \in Workers : WF_vars(WorkerStep(w))

FairSpec == Spec /\ Fairness

-------------------------------------------------------------------------------
(* Properties.                                                             *)

\* A worker that has popped j and still owes it an outcome: from the pop to the
\* final verdict of process, or of handleFailedJob when it failed.
Owns(w, j) ==
    /\ Holds(w, j)
    /\ \/ pc[w] \in {"mark", "load", "run", "fail", "requeue", "bury"}
       \/ pc[w] = "cleanup" /\ cur[w].status = "failed"

\* Exactly-once custody: at any time a job is in one place only, and a settled
\* job is nowhere.  Several workers, due retries and operator replays race for
\* it; nothing in the code locks a job (Dequeue, Requeue, Ack, ReplayDead).
SingleCustody ==
    \A j \in Jobs :
        /\ queue[j] <= 1
        /\ queue[j] = 1 => /\ retry[j] = "none"
                           /\ \A w \in Workers : ~Owns(w, j)
                           /\ ~Settled(j)
        /\ retry[j] # "none" => /\ \A w \in Workers : ~Owns(w, j)
                                /\ ~Settled(j)
        /\ \A w \in Workers : Owns(w, j) =>
              /\ ~Settled(j)
              /\ \A v \in Workers : Owns(v, j) => v = w

\* No accepted job is lost: until it is completed or dead-lettered it is queued,
\* scheduled for a retry, or in the hands of a worker that will decide it.
NoJobLost ==
    \A j \in Jobs : (Open(j) /\ Exists(j)) =>
        \/ queue[j] > 0
        \/ retry[j] # "none"
        \/ \E w \in Workers : Owns(w, j)

\* A settled PDF that no worker holds leaves no checkpoints: each run clears them
\* after its verdict, however it has ended, although a replay may start the next run
\* before that, so that two runs write and clear the same keys
\* (cleanupTerminalChunkCheckpoints).
CheckpointsGo ==
    \A j \in Jobs : Kind[j] = "pdf" /\ Settled(j) /\ ~Held(j) => j \notin ckpt

\* Whatever happened, an accepted job is eventually completed or dead-lettered,
\* and released by its worker.
EverySettles ==
    \A j \in Jobs : Open(j) ~> (Settled(j) /\ ~Held(j))

-------------------------------------------------------------------------------
(* The abstract specification, under the mapping that places a job by the  *)
(* structure that holds it.  A failed try counts once the job has left its *)
(* worker: handleFailedJob stores the attempt one command before it        *)
(* schedules the retry or buries the job.                                  *)

Place(j) ==
    IF dead[j] > 0 THEN "dead"
    ELSE IF \E w \in Workers : Owns(w, j) THEN "working"
    ELSE IF queue[j] > 0 THEN "queued"
    ELSE IF retry[j] # "none" THEN "delayed"
    ELSE IF store[j].status = "completed" THEN "completed"
    ELSE "absent"

Tries(j) ==
    IF \E w \in Workers : Holds(w, j) /\ pc[w] \in {"requeue", "bury"}
    THEN store[j].attempt - 1
    ELSE store[j].attempt

Lifecycle == INSTANCE JobLifecycle
    WITH place <- [j \in Jobs |-> Place(j)], tries <- [j \in Jobs |-> Tries(j)]

\* Without faults the queue is that life cycle, step by step, and every job ends.
ImplementsLifecycle == Lifecycle!FairSpec

-------------------------------------------------------------------------------
(* What is left of these properties when faults happen.                    *)

\* The copies of j that will each be processed, now or later.
Copies(j) ==
    queue[j] + (IF retry[j] = "none" THEN 0 ELSE 1)
             + Cardinality({w \in Workers : Owns(w, j)})

\* One fault duplicates a job at most once: a crash, a lost reply, a recovery
\* that overtakes its worker or an expiry adds one copy, never a growing number,
\* because RecoverStale and ReplayDead move ids and Ack removes what it finds.
DuplicatesBounded ==
    \A j \in Jobs : Copies(j) <= 1 + faults + replays

\* Redis never forgets an accepted job: a worker may die at any point or be
\* overtaken by RecoverStale, the id is still in one of the lists until the job
\* is settled (Dequeue moves it, Requeue precedes Ack, RecoverStale moves back).
NeverForgotten ==
    \A j \in Jobs : (Open(j) /\ Exists(j)) =>
        queue[j] > 0 \/ inflight[j] > 0 \/ retry[j] # "none" \/ Held(j)

\* An id whose worker died or gave up after marking it comes back to the queue,
\* or to a worker, once its mark is stale (RecoverStale).
AbandonedRecovered ==
    \A j \in Jobs :
        (inflight[j] > 0 /\ mark[j] # "none" /\ ~Held(j))
            ~> (queue[j] > 0 \/ Held(j))

\* In the in-flight list with no entry in the set that RecoverStale scans.
Stranded(j) == inflight[j] > 0 /\ mark[j] = "none" /\ ~Held(j)

\* Recovery works: after crashes, restarts and overtaken workers every accepted
\* job is still settled, but for one whose worker died before it was marked.
SettlesUnlessStranded ==
    \A j \in Jobs : Open(j) ~> (Settled(j) \/ Stranded(j))
===============================================================================
