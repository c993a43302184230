---------------------------- MODULE JobQueueProofs ----------------------------
(***************************************************************************)
(* Proofs about JobQueue, for any jobs, workers and bounds: the type       *)
(* invariant under every fault; that no accepted job is lost as long as    *)
(* workers survive and Redis answers; that without faults a job is in one  *)
(* place at a time and moves only as JobLifecycle says; and, whatever the  *)
(* faults, that no job is forgotten and that its copies are bounded.       *)
(***************************************************************************)
EXTENDS JobQueue, FiniteSetTheorems, TLAPS

USE DEF Status, JobRecord, NoRecord, Fresh, Local, Idle, Steps, Kinds

-------------------------------------------------------------------------------
(* Type correctness.  First the payloads and in-memory jobs that the       *)
(* workers build, then one step per action.                                *)

LEMMA PayloadType ==
    ASSUME NEW job \in Local
    PROVE  Payload(job) \in JobRecord
BY DEF Payload

LEMMA VerdictType ==
    ASSUME NEW job \in Local, NEW again \in BOOLEAN
    PROVE  /\ Verdict(job, again) \in Local
           /\ Verdict(job, again).job = job.job
<1>1. job.attempt + 1 \in Nat
  OBVIOUS
<1>2. CASE again
  BY <1>1, <1>2 DEF Verdict
<1>3. CASE ~again
  BY <1>1, <1>3 DEF Verdict
<1> QED BY <1>2, <1>3

LEMMA SweepType ==
    ASSUME RedisTypeOK, NEW promote \in BOOLEAN, Sweep(promote)
    PROVE  RedisTypeOK'
<1> DEFINE R == StaleIds
<1> DEFINE D == IF promote THEN DueIds ELSE {}
<1>1. \A S : \A j \in Jobs : One(j, S) \in {0, 1}
  BY DEF One
<1>2. \A j \in R : inflight[j] > 0
  BY DEF StaleIds
<1>3. inflight' \in [Jobs -> Nat]
  <2>1. ASSUME NEW j \in Jobs PROVE inflight[j] - One(j, R) \in Nat
    BY <1>2 DEF One, RedisTypeOK
  <2> QED BY <2>1 DEF Sweep, MoveIds
<1>4. queue' \in [Jobs -> Nat]
  <2>1. ASSUME NEW j \in Jobs PROVE queue[j] + One(j, R) + One(j, D) \in Nat
    BY <1>1 DEF RedisTypeOK
  <2> QED BY <2>1 DEF Sweep, MoveIds
<1>5. /\ retry' \in [Jobs -> {"none", "waiting", "due"}]
      /\ mark' \in [Jobs -> {"none", "fresh", "stale"}]
  BY DEF Sweep, MoveIds, ClearStale, RedisTypeOK
<1>6. UNCHANGED <<dead, deadMeta, store, ckpt>>
  BY DEF Sweep, MoveIds
<1> QED BY <1>3, <1>4, <1>5, <1>6 DEF RedisTypeOK

LEMMA RedisOpType ==
    ASSUME RedisTypeOK, NEW j \in Jobs,
           \/ EnqueueJob(j) \/ ExpireJob(j)
           \/ \E record \in JobRecord : SetJob(j, record)
           \/ SetChunkCheckpoint(j) \/ ClearChunkCheckpoints(j)
           \/ PopToInflight(j) \/ MarkInflight(j) \/ AckRemove(j) \/ Ack(j)
           \/ Requeue(j) \/ DeadLetterPush(j) \/ DeadLetter(j) \/ ReplayDead(j)
           \/ GrowStale(j) \/ BecomeDue(j)
           \/ UNCHANGED redisVars
    PROVE  RedisTypeOK'
<1>1. CASE EnqueueJob(j)
  BY <1>1 DEF RedisTypeOK, EnqueueJob
<1>2. CASE ExpireJob(j)
  BY <1>2 DEF RedisTypeOK, ExpireJob, listVars
<1>3. CASE \E record \in JobRecord : SetJob(j, record)
  BY <1>3 DEF RedisTypeOK, SetJob
<1>4. CASE SetChunkCheckpoint(j) \/ ClearChunkCheckpoints(j)
  BY <1>4 DEF RedisTypeOK, SetChunkCheckpoint, ClearChunkCheckpoints
<1>5. CASE PopToInflight(j)
  BY <1>5 DEF RedisTypeOK, PopToInflight
<1>6. CASE MarkInflight(j) \/ GrowStale(j)
  BY <1>6 DEF RedisTypeOK, MarkInflight, GrowStale
<1>7. CASE AckRemove(j) \/ Ack(j)
  BY <1>7 DEF RedisTypeOK, AckRemove, Ack
<1>8. CASE Requeue(j) \/ BecomeDue(j)
  BY <1>8 DEF RedisTypeOK, Requeue, BecomeDue
<1>9. CASE DeadLetterPush(j) \/ DeadLetter(j)
  BY <1>9 DEF RedisTypeOK, DeadLetterPush, DeadLetter
<1>10. CASE ReplayDead(j)
  BY <1>10 DEF RedisTypeOK, ReplayDead
<1>11. CASE UNCHANGED redisVars
  BY <1>11 DEF RedisTypeOK, redisVars
<1> QED
  BY <1>1, <1>2, <1>3, <1>4, <1>5, <1>6, <1>7, <1>8, <1>9, <1>10, <1>11

\* A worker that moves to a step with a job in memory exactly when the step
\* needs one.
LEMMA WorkerMoveType ==
    ASSUME TypeOK, NEW w \in Workers, NEW step \in Steps, NEW job \in Local,
           job.job = NoJob <=> step \in {"poll", "pop"},
           Goto(w, step), Keep(w, job)
    PROVE  /\ pc' \in [Workers -> Steps]
           /\ cur' \in [Workers -> Local]
           /\ \A v \in Workers : cur'[v].job = NoJob <=> pc'[v] \in {"poll", "pop"}
BY DEF TypeOK, Goto, Keep

LEMMA InitType == Init => TypeOK
BY ConstantsAssumption DEF Init, TypeOK, RedisInit, RedisTypeOK, ConstantsAssumption

\* A worker at any step but poll and pop holds a job.
LEMMA HolderType ==
    ASSUME TypeOK, NEW w \in Workers, pc[w] \notin {"poll", "pop"}
    PROVE  /\ cur[w] \in Local
           /\ cur[w].job \in Jobs
BY DEF TypeOK

LEMMA DequeueType ==
    ASSUME TypeOK, NEW w \in Workers, Dequeue(w)
    PROVE  TypeOK'
<1>1. CASE DequeueSweep(w)
  <2>1. RedisTypeOK'
    BY <1>1, SweepType DEF DequeueSweep, TypeOK
  <2> QED BY <1>1, <2>1 DEF DequeueSweep, TypeOK, Goto
<1>2. CASE DequeuePop(w)
  <2>1. CASE \E j \in Jobs : /\ PopToInflight(j)
                             /\ Keep(w, [Idle EXCEPT !.job = j])
                             /\ Goto(w, "mark")
    <3>1. PICK j \in Jobs : /\ PopToInflight(j)
                            /\ Keep(w, [Idle EXCEPT !.job = j])
                            /\ Goto(w, "mark")
      BY <2>1
    <3>2. [Idle EXCEPT !.job = j] \in Local /\ [Idle EXCEPT !.job = j].job # NoJob
      BY ConstantsAssumption DEF ConstantsAssumption
    <3>3. RedisTypeOK'
      BY <3>1, RedisOpType DEF TypeOK
    <3>4. /\ pc' \in [Workers -> Steps]
          /\ cur' \in [Workers -> Local]
          /\ \A v \in Workers : cur'[v].job = NoJob <=> pc'[v] \in {"poll", "pop"}
      BY <3>1, <3>2, WorkerMoveType
    <3> QED BY <1>2, <3>3, <3>4 DEF DequeuePop, TypeOK
  <2>2. CASE Goto(w, "poll") /\ UNCHANGED <<redisVars, cur>>
    BY <1>2, <2>2 DEF DequeuePop, TypeOK, Goto, redisVars, RedisTypeOK
  <2> QED BY <1>2, <2>1, <2>2 DEF DequeuePop
<1>3. CASE DequeueMark(w)
  <2>1. cur[w].job \in Jobs
    BY <1>3, HolderType DEF DequeueMark
  <2>2. RedisTypeOK'
    BY <1>3, <2>1, RedisOpType DEF DequeueMark, TypeOK
  <2> QED BY <1>3, <2>2 DEF DequeueMark, TypeOK, Goto
<1>4. CASE DequeueLoad(w)
  <2>1. cur[w] \in Local /\ cur[w].job \in Jobs
    BY <1>4, HolderType DEF DequeueLoad
  <2>2. RedisTypeOK'
    BY <1>4, <2>1, RedisOpType DEF DequeueLoad, TypeOK
  <2>3. CASE Exists(cur[w].job) /\ Keep(w, Loaded(cur[w], store[cur[w].job]))
                                /\ Goto(w, "run")
    <3>1. store[cur[w].job] \in JobRecord
      BY <2>1, <2>3 DEF Exists, TypeOK, RedisTypeOK
    <3>2. /\ Loaded(cur[w], store[cur[w].job]) \in Local
          /\ Loaded(cur[w], store[cur[w].job]).job # NoJob
      BY <2>1, <3>1, ConstantsAssumption DEF Loaded, ConstantsAssumption
    <3>3. /\ pc' \in [Workers -> Steps]
          /\ cur' \in [Workers -> Local]
          /\ \A v \in Workers : cur'[v].job = NoJob <=> pc'[v] \in {"poll", "pop"}
      BY <2>3, <3>2, WorkerMoveType
    <3> QED BY <1>4, <2>2, <3>3 DEF DequeueLoad, TypeOK
  <2>4. CASE Goto(w, "ack") /\ UNCHANGED cur
    BY <1>4, <2>2, <2>4 DEF DequeueLoad, TypeOK, Goto
  <2> QED BY <1>4, <2>3, <2>4 DEF DequeueLoad
<1>5. CASE DequeueFault(w)
  <2>1. cur[w].job \in Jobs
    BY <1>5, HolderType DEF DequeueFault
  <2>2. RedisTypeOK' /\ faults' \in Nat
    BY <1>5, <2>1, RedisOpType DEF DequeueFault, Unsure, Fault, TypeOK
  <2>3. /\ pc' \in [Workers -> Steps]
        /\ cur' \in [Workers -> Local]
        /\ \A v \in Workers : cur'[v].job = NoJob <=> pc'[v] \in {"poll", "pop"}
    BY <1>5, WorkerMoveType DEF DequeueFault, Release
  <2> QED BY <1>5, <2>2, <2>3 DEF DequeueFault, TypeOK
<1> QED BY <1>1, <1>2, <1>3, <1>4, <1>5 DEF Dequeue

LEMMA ProcessType ==
    ASSUME TypeOK, NEW w \in Workers,
           Progress(w) \/ SaveCheckpoint(w) \/ Finish(w) \/ SourceCleanup(w)
    PROVE  TypeOK'
<1> DEFINE j == cur[w].job
<1>1. cur[w] \in Local /\ j \in Jobs
  BY HolderType DEF Progress, SaveCheckpoint, Finish, SourceCleanup
<1>2. CASE Progress(w)
  <2>1. PICK status \in Status :
            /\ Keep(w, [cur[w] EXCEPT !.status = status])
            /\ BestEffortUpdate(j, Payload([cur[w] EXCEPT !.status = status]))
    BY <1>1, <1>2 DEF Progress
  <2> DEFINE job == [cur[w] EXCEPT !.status = status]
  <2>2. job \in Local /\ job.job = j
    BY <1>1, <2>1
  <2>3. RedisTypeOK' /\ faults' \in Nat
    BY <1>1, <2>1, <2>2, PayloadType, RedisOpType
       DEF BestEffortUpdate, NoFault, Fault, TypeOK
  <2>4. cur' \in [Workers -> Local] /\ \A v \in Workers : cur'[v].job = cur[v].job
    BY <2>1, <2>2 DEF Keep, TypeOK
  <2> QED BY <1>2, <2>3, <2>4 DEF Progress, TypeOK
<1>3. CASE SaveCheckpoint(w)
  <2>1. RedisTypeOK'
    BY <1>1, <1>3, RedisOpType DEF SaveCheckpoint, TypeOK
  <2> QED BY <1>3, <2>1 DEF SaveCheckpoint, TypeOK, localVars
<1>4. CASE Finish(w)
  <2>1. PICK o \in Outcomes(j) :
            /\ Keep(w, [cur[w] EXCEPT !.status = o.status, !.retryable = o.retryable])
            /\ BestEffortUpdate(j, Payload([cur[w] EXCEPT !.status = o.status,
                                                          !.retryable = o.retryable]))
    BY <1>4 DEF Finish
  <2> DEFINE job == [cur[w] EXCEPT !.status = o.status, !.retryable = o.retryable]
  <2>2. o.status \in Status /\ o.retryable \in BOOLEAN
    BY <2>1 DEF Outcomes, Success, Failure
  <2>3. job \in Local /\ job.job = j
    BY <1>1, <2>2
  <2>4. Keep(w, job) /\ BestEffortUpdate(j, Payload(job))
    BY <2>1
  <2> HIDE DEF job
  <2>5. RedisTypeOK' /\ faults' \in Nat
    BY <1>1, <2>4, <2>3, PayloadType, RedisOpType
       DEF BestEffortUpdate, NoFault, Fault, TypeOK
  <2>6. j # NoJob
    BY <1>1, ConstantsAssumption DEF ConstantsAssumption
  <2>7. /\ pc' \in [Workers -> Steps]
        /\ cur' \in [Workers -> Local]
        /\ \A v \in Workers : cur'[v].job = NoJob <=> pc'[v] \in {"poll", "pop"}
    <3>1. Goto(w, "cleanup") /\ Keep(w, job)
      BY <1>4, <2>4 DEF Finish
    <3> QED BY <2>3, <2>6, <3>1, WorkerMoveType
  <2> QED BY <1>4, <2>5, <2>7 DEF Finish, TypeOK
<1>5. CASE SourceCleanup(w)
  <2>1. RedisTypeOK'
    BY <1>1, <1>5, RedisOpType DEF SourceCleanup, TypeOK, redisVars
  <2>2. files' \in SUBSET Jobs
    BY <1>5 DEF SourceCleanup, TypeOK
  <2> QED BY <1>5, <2>1, <2>2 DEF SourceCleanup, TypeOK, Goto, AfterProcess
<1> QED BY <1>2, <1>3, <1>4, <1>5

LEMMA HandleFailedType ==
    ASSUME TypeOK, NEW w \in Workers, HandleFailed(w)
    PROVE  TypeOK'
<1> DEFINE j == cur[w].job
<1>1. cur[w] \in Local /\ j \in Jobs /\ j # NoJob
  BY HolderType, ConstantsAssumption
     DEF HandleFailed, DecideRetry, ScheduleRetry, ScheduleRetryFault, Bury,
         ConstantsAssumption
<1>2. CASE DecideRetry(w)
  <2>1. PICK overloaded \in Overload :
          LET again == Retries(cur[w], overloaded)
              job   == Verdict(cur[w], again)
          IN  /\ Keep(w, job)
              /\ \/ /\ SetJob(job.job, Payload(job))
                    /\ NoFault
                    /\ Goto(w, IF again THEN "requeue" ELSE "bury")
                 \/ /\ Unsure(SetJob(job.job, Payload(job)))
                    /\ Goto(w, "clear")
    BY <1>2 DEF DecideRetry
  <2> DEFINE again == Retries(cur[w], overloaded)
             job   == Verdict(cur[w], again)
  <2>2. again \in BOOLEAN
    BY <1>1 DEF Retries
  <2>3. job \in Local /\ job.job = j
    <3> HIDE DEF again
    <3> QED BY <1>1, <2>2, VerdictType
  <2>4. /\ Keep(w, job)
        /\ \/ SetJob(j, Payload(job)) /\ NoFault
           \/ Unsure(SetJob(j, Payload(job)))
        /\ \E step \in {"requeue", "bury", "clear"} : Goto(w, step)
    BY <2>1, <2>3
  <2> HIDE DEF job
  <2>5. RedisTypeOK' /\ faults' \in Nat
    BY <1>1, <2>3, <2>4, PayloadType, RedisOpType
       DEF Unsure, NoFault, Fault, TypeOK
  <2>6. /\ pc' \in [Workers -> Steps]
        /\ cur' \in [Workers -> Local]
        /\ \A v \in Workers : cur'[v].job = NoJob <=> pc'[v] \in {"poll", "pop"}
    BY <1>1, <2>3, <2>4, WorkerMoveType
  <2> QED BY <1>2, <2>5, <2>6 DEF DecideRetry, TypeOK
<1>3. CASE ScheduleRetry(w)
  <2>1. RedisTypeOK'
    BY <1>1, <1>3, RedisOpType DEF ScheduleRetry, TypeOK
  <2> QED BY <1>3, <2>1 DEF ScheduleRetry, TypeOK, Goto
<1>4. CASE ScheduleRetryFault(w)
  <2> DEFINE job == [cur[w] EXCEPT !.status = "failed"]
  <2>1. job \in Local /\ job.job = j
    BY <1>1
  <2>2. Payload(job) \in JobRecord
    BY <2>1, PayloadType
  <2>3. RedisTypeOK' /\ faults' \in Nat
    <3>1. retry' \in [Jobs -> {"none", "waiting", "due"}]
      BY <1>1, <1>4 DEF ScheduleRetryFault, TypeOK, RedisTypeOK
    <3>2. store' \in [Jobs -> JobRecord \cup {NoRecord}]
      <4>1. store' \in {store, [store EXCEPT ![j] = Payload(job)]}
        BY <1>4 DEF ScheduleRetryFault
      <4> HIDE DEF job
      <4> QED BY <1>1, <2>2, <4>1 DEF TypeOK, RedisTypeOK
    <3> QED BY <1>4, <3>1, <3>2 DEF ScheduleRetryFault, Fault, TypeOK, RedisTypeOK
  <2>4. /\ pc' \in [Workers -> Steps]
        /\ cur' \in [Workers -> Local]
        /\ \A v \in Workers : cur'[v].job = NoJob <=> pc'[v] \in {"poll", "pop"}
    BY <1>1, <1>4, <2>1, WorkerMoveType DEF ScheduleRetryFault
  <2> QED BY <1>4, <2>3, <2>4 DEF ScheduleRetryFault, TypeOK
<1>5. CASE Bury(w)
  <2>1. RedisTypeOK' /\ faults' \in Nat
    BY <1>1, <1>5, RedisOpType DEF Bury, Unsure, NoFault, Fault, TypeOK
  <2> QED BY <1>5, <2>1 DEF Bury, TypeOK, Goto
<1> QED BY <1>2, <1>3, <1>4, <1>5 DEF HandleFailed

LEMMA EndOfLoopType ==
    ASSUME TypeOK, NEW w \in Workers, CleanupCheckpoints(w) \/ AckJob(w)
    PROVE  TypeOK'
<1>1. cur[w].job \in Jobs
  BY HolderType DEF CleanupCheckpoints, AckJob
<1>2. RedisTypeOK' /\ faults' \in Nat
  BY <1>1, RedisOpType DEF CleanupCheckpoints, AckJob, Unsure, NoFault, Fault, TypeOK
<1>3. CASE CleanupCheckpoints(w)
  BY <1>2, <1>3 DEF CleanupCheckpoints, TypeOK, Goto
<1>4. CASE AckJob(w)
  <2>1. /\ pc' \in [Workers -> Steps]
        /\ cur' \in [Workers -> Local]
        /\ \A v \in Workers : cur'[v].job = NoJob <=> pc'[v] \in {"poll", "pop"}
    BY <1>4, WorkerMoveType DEF AckJob, Release
  <2> QED BY <1>2, <1>4, <2>1 DEF AckJob, TypeOK
<1> QED BY <1>3, <1>4

LEMMA EnvironmentType ==
    ASSUME TypeOK,
           \/ RecoverTick
           \/ \E j \in Jobs : \/ Create(j) \/ AgeMark(j) \/ RetryDue(j)
                              \/ OperatorReplay(j) \/ DayPasses(j)
           \/ \E w \in Workers : Crash(w) \/ Shutdown(w)
    PROVE  TypeOK'
<1>1. CASE RecoverTick
  <2>1. RedisTypeOK'
    BY <1>1, SweepType DEF RecoverTick, TypeOK
  <2> QED BY <1>1, <2>1 DEF RecoverTick, TypeOK, localVars
<1>2. ASSUME NEW j \in Jobs, Create(j) PROVE TypeOK'
  <2>1. Fresh \in JobRecord
    OBVIOUS
  <2>2. EnqueueJob(j) \/ SetJob(j, Fresh) \/ UNCHANGED redisVars
    BY <1>2 DEF Create, Unsure
  <2>3. RedisTypeOK'
    BY <2>1, <2>2, RedisOpType DEF TypeOK
  <2>4. faults' \in Nat
    BY <1>2 DEF Create, Unsure, NoFault, Fault, TypeOK
  <2> QED BY <1>2, <2>3, <2>4 DEF Create, TypeOK
<1>3. ASSUME NEW j \in Jobs, AgeMark(j) PROVE TypeOK'
  <2>1. RedisTypeOK' /\ faults' \in Nat
    BY <1>3, RedisOpType DEF AgeMark, NoFault, Fault, TypeOK
  <2> QED BY <1>3, <2>1 DEF AgeMark, TypeOK
<1>4. ASSUME NEW j \in Jobs, RetryDue(j) PROVE TypeOK'
  <2>1. RedisTypeOK'
    BY <1>4, RedisOpType DEF RetryDue, TypeOK
  <2> QED BY <1>4, <2>1 DEF RetryDue, TypeOK, localVars
<1>5. ASSUME NEW j \in Jobs, OperatorReplay(j) PROVE TypeOK'
  <2>1. RedisTypeOK'
    BY <1>5, RedisOpType DEF OperatorReplay, TypeOK
  <2> QED BY <1>5, <2>1 DEF OperatorReplay, TypeOK
<1>6. ASSUME NEW j \in Jobs, DayPasses(j) PROVE TypeOK'
  <2>1. RedisTypeOK' /\ faults' \in Nat
    BY <1>6, RedisOpType DEF DayPasses, Fault, TypeOK
  <2> QED BY <1>6, <2>1 DEF DayPasses, TypeOK
<1>7. ASSUME NEW w \in Workers, Crash(w) \/ Shutdown(w) PROVE TypeOK'
  <2>1. /\ pc' \in [Workers -> Steps]
        /\ cur' \in [Workers -> Local]
        /\ \A v \in Workers : cur'[v].job = NoJob <=> pc'[v] \in {"poll", "pop"}
    BY <1>7, WorkerMoveType DEF Crash, Shutdown, Release
  <2>2. /\ UNCHANGED redisVars /\ faults' \in Nat
        /\ UNCHANGED <<handler, replays>>
    BY <1>7 DEF Crash, Shutdown, Fault, TypeOK
  <2>3. files' \in SUBSET Jobs
    BY <1>7 DEF Crash, Shutdown, TypeOK
  <2>4. RedisTypeOK'
    BY <2>2 DEF TypeOK, RedisTypeOK, redisVars
  <2> QED BY <2>1, <2>2, <2>3, <2>4 DEF TypeOK
<1> QED BY <1>1, <1>2, <1>3, <1>4, <1>5, <1>6, <1>7

LEMMA StepType == TypeOK /\ [Next]_vars => TypeOK'
<1> SUFFICES ASSUME TypeOK, [Next]_vars PROVE TypeOK'
  OBVIOUS
<1>1. CASE Next
  BY <1>1, DequeueType, ProcessType, HandleFailedType, EndOfLoopType, EnvironmentType
     DEF Next, WorkerStep
<1>2. CASE UNCHANGED vars
  BY <1>2 DEF vars, redisVars, localVars, TypeOK, RedisTypeOK
<1> QED BY <1>1, <1>2

\* Whatever faults happen, Redis, the workers and the upload directory hold
\* values of their types; in particular no Ack or recovery drives the count of
\* an in-flight id below zero, and a worker has a job in memory exactly between
\* its pop and its Ack.
THEOREM TypeCorrect == Spec => []TypeOK
<1>1. Init => TypeOK
  BY InitType
<1>2. TypeOK /\ [Next]_vars => TypeOK'
  BY StepType
<1> QED BY <1>1, <1>2, PTL DEF Spec

-------------------------------------------------------------------------------
(* No accepted job is lost, while workers survive and Redis answers.  The  *)
(* invariant is inductive as it stands: whoever writes an unsettled        *)
(* payload owns the job, and gives it up only to the retries, to the dead  *)
(* letters or by completing it.                                            *)

Reliable == Faults \cap {"crash", "shutdown", "redis"} = {}

Safe(j) == queue[j] > 0 \/ retry[j] # "none" \/ \E w \in Workers : Owns(w, j)

LEMMA ReliableFaults ==
    ASSUME Reliable
    PROVE  ~Fault("crash") /\ ~Fault("shutdown") /\ ~Fault("redis")
BY DEF Reliable, Fault

\* What one worker does leaves alone what the others own.
LEMMA OthersOwn ==
    ASSUME NEW w \in Workers, NEW v \in Workers, v # w, NEW j,
           pc'[v] = pc[v], cur'[v] = cur[v]
    PROVE  Owns(v, j)' <=> Owns(v, j)
BY DEF Owns, Holds

\* A worker step that touches at most the payload, the dead letters and the
\* ownership of its own job leaves every other job where it was.
LEMMA OtherJobsSafe ==
    ASSUME TypeOK, NoJobLost, NEW w \in Workers, NEW j \in Jobs, Holds(w, j),
           NEW step \in Steps, NEW job \in Local, job.job = j,
           Goto(w, step), Keep(w, job),
           UNCHANGED <<queue, handler>>,
           \A i \in Jobs \ {j} :
               retry'[i] = retry[i] /\ store'[i] = store[i] /\ dead'[i] = dead[i],
           NEW i \in Jobs \ {j}, Open(i)', Exists(i)'
    PROVE  Safe(i)'
<1>1. Open(i) /\ Exists(i)
  BY DEF Open, Settled, Exists
<1>2. Safe(i)
  BY <1>1 DEF NoJobLost, Safe
<1>3. CASE queue[i] > 0 \/ retry[i] # "none"
  BY <1>3 DEF Safe
<1>4. CASE \E v \in Workers : Owns(v, i)
  <2>1. PICK v \in Workers : Owns(v, i)
    BY <1>4
  <2>2. v # w
    BY <2>1 DEF Owns, Holds
  <2>3. pc'[v] = pc[v] /\ cur'[v] = cur[v]
    BY <2>2 DEF Goto, Keep, TypeOK
  <2>4. Owns(v, i)'
    BY <2>1, <2>2, <2>3, OthersOwn
  <2> QED BY <2>4 DEF Safe
<1> QED BY <1>2, <1>3, <1>4 DEF Safe

\* The same for a worker's own job, which the step leaves unowned but safe, or
\* settled, or owned.
LEMMA WorkerStepSafe ==
    ASSUME TypeOK, NoJobLost, NEW w \in Workers, NEW j \in Jobs, Holds(w, j),
           NEW step \in Steps, NEW job \in Local, job.job = j,
           Goto(w, step), Keep(w, job),
           UNCHANGED <<queue, handler>>,
           \A i \in Jobs \ {j} :
               retry'[i] = retry[i] /\ store'[i] = store[i] /\ dead'[i] = dead[i],
           Open(j)' /\ Exists(j)' => Safe(j)'
    PROVE  NoJobLost'
<1> SUFFICES ASSUME NEW i \in Jobs, Open(i)', Exists(i)'
             PROVE  Safe(i)'
  BY DEF NoJobLost, Safe
<1>1. CASE i = j
  BY <1>1
<1>2. CASE i # j
  BY <1>2, OtherJobsSafe
<1> QED BY <1>1, <1>2

LEMMA DequeueSafe ==
    ASSUME Reliable, TypeOK, NoJobLost, NEW w \in Workers, Dequeue(w)
    PROVE  NoJobLost'
<1>1. CASE DequeueSweep(w)
  <2> SUFFICES ASSUME NEW i \in Jobs, Open(i)', Exists(i)'
               PROVE  Safe(i)'
    BY DEF NoJobLost, Safe
  <2>1. Open(i) /\ Exists(i)
    BY <1>1 DEF DequeueSweep, Sweep, MoveIds, Open, Settled, Exists
  <2>2. CASE queue[i] > 0
    BY <1>1, <2>2 DEF DequeueSweep, Sweep, MoveIds, One, Safe, TypeOK, RedisTypeOK
  <2>3. CASE retry[i] = "due"
    BY <1>1, <2>3 DEF DequeueSweep, Sweep, MoveIds, DueIds, One, Safe, TypeOK, RedisTypeOK
  <2>4. CASE retry[i] = "waiting"
    BY <1>1, <2>4 DEF DequeueSweep, Sweep, MoveIds, DueIds, Safe, TypeOK, RedisTypeOK
  <2>5. CASE \E v \in Workers : Owns(v, i)
    <3>1. PICK v \in Workers : Owns(v, i)
      BY <2>5
    <3>2. Owns(v, i)'
      <4>1. v # w
        BY <1>1, <3>1 DEF DequeueSweep, Owns
      <4> QED BY <1>1, <3>1, <4>1 DEF DequeueSweep, Owns, Holds, Goto, TypeOK
    <3> QED BY <3>2 DEF Safe
  <2> QED BY <2>1, <2>2, <2>3, <2>4, <2>5 DEF NoJobLost, TypeOK, RedisTypeOK
<1>2. CASE DequeuePop(w)
  <2>1. CASE UNCHANGED <<redisVars, cur>> /\ Goto(w, "poll")
    <3>1. ASSUME NEW v \in Workers, NEW i \in Jobs, Owns(v, i) PROVE Owns(v, i)'
      BY <1>2, <2>1, <3>1 DEF DequeuePop, Owns, Holds, Goto, TypeOK
    <3> QED BY <1>2, <2>1, <3>1
            DEF DequeuePop, NoJobLost, Open, Settled, Exists, redisVars
  <2>2. CASE \E j \in Jobs : /\ PopToInflight(j)
                             /\ Keep(w, [Idle EXCEPT !.job = j])
                             /\ Goto(w, "mark")
    <3>1. PICK j \in Jobs : /\ PopToInflight(j)
                            /\ Keep(w, [Idle EXCEPT !.job = j])
                            /\ Goto(w, "mark")
      BY <2>2
    <3>2. Owns(w, j)'
      BY <3>1 DEF Owns, Holds, Keep, Goto, TypeOK
    <3>3. ASSUME NEW v \in Workers, NEW i \in Jobs, Owns(v, i) PROVE Owns(v, i)'
      <4>1. v # w
        BY <1>2, <3>3 DEF DequeuePop, Owns
      <4> QED BY <3>1, <3>3, <4>1 DEF Owns, Holds, Keep, Goto, TypeOK
    <3>4. \A i \in Jobs \ {j} : queue'[i] = queue[i]
      BY <3>1 DEF PopToInflight, TypeOK, RedisTypeOK
    <3> QED BY <1>2, <3>1, <3>2, <3>3, <3>4
            DEF DequeuePop, PopToInflight, NoJobLost, Open, Settled, Exists
  <2> QED BY <1>2, <2>1, <2>2 DEF DequeuePop
<1>3. CASE DequeueMark(w)
  <2>1. ASSUME NEW v \in Workers, NEW i \in Jobs, Owns(v, i) PROVE Owns(v, i)'
    BY <1>3, <2>1 DEF DequeueMark, Owns, Holds, Goto, TypeOK
  <2> QED BY <1>3, <2>1
          DEF DequeueMark, MarkInflight, NoJobLost, Open, Settled, Exists
<1>4. CASE DequeueLoad(w)
  <2>1. PICK j \in Jobs : j = cur[w].job
    BY <1>4, HolderType DEF DequeueLoad
  <2>2. CASE Exists(j) /\ Keep(w, Loaded(cur[w], store[j])) /\ Goto(w, "run")
    <3>1. Owns(w, j)'
      BY <2>1, <2>2 DEF Owns, Holds, Keep, Goto, Loaded, TypeOK
    <3>2. ASSUME NEW v \in Workers, NEW i \in Jobs, Owns(v, i) PROVE Owns(v, i)'
      BY <2>1, <2>2, <3>1, <3>2 DEF Owns, Holds, Keep, Goto, TypeOK
    <3> QED BY <1>4, <3>2
            DEF DequeueLoad, NoJobLost, Open, Settled, Exists, redisVars
  <2>3. CASE ~Exists(j) /\ Goto(w, "ack") /\ UNCHANGED cur
    <3>1. ASSUME NEW v \in Workers, NEW i \in Jobs, i # j, Owns(v, i)
          PROVE  Owns(v, i)'
      BY <2>1, <2>3, <3>1 DEF Owns, Holds, Goto, TypeOK
    <3> QED BY <1>4, <2>3, <3>1
            DEF DequeueLoad, NoJobLost, Open, Settled, Exists, redisVars
  <2> QED BY <1>4, <2>1, <2>2, <2>3 DEF DequeueLoad
<1>5. ~DequeueFault(w)
  BY ReliableFaults DEF DequeueFault, Unsure
<1> QED BY <1>1, <1>2, <1>3, <1>4, <1>5 DEF Dequeue

LEMMA ProcessSafe ==
    ASSUME Reliable, TypeOK, NoJobLost, NEW w \in Workers,
           Progress(w) \/ SaveCheckpoint(w) \/ Finish(w) \/ SourceCleanup(w)
    PROVE  NoJobLost'
<1>1. PICK j \in Jobs : j = cur[w].job /\ cur[w] \in Local
  BY HolderType DEF Progress, SaveCheckpoint, Finish, SourceCleanup
<1>2. CASE Progress(w)
  <2>1. PICK status \in Status :
            /\ Keep(w, [cur[w] EXCEPT !.status = status])
            /\ SetJob(j, Payload([cur[w] EXCEPT !.status = status]))
    BY <1>1, <1>2, ReliableFaults DEF Progress, BestEffortUpdate
  <2> DEFINE job == [cur[w] EXCEPT !.status = status]
  <2>2. job \in Local /\ job.job = j
    BY <1>1
  <2>3. Keep(w, job) /\ SetJob(j, Payload(job)) /\ Goto(w, "run")
    BY <1>2, <2>1 DEF Progress, Goto, TypeOK
  <2> HIDE DEF job
  <2>4. Owns(w, j)'
    BY <2>2, <2>3 DEF Owns, Holds, Keep, Goto, TypeOK
  <2>5. \A i \in Jobs \ {j} :
            retry'[i] = retry[i] /\ store'[i] = store[i] /\ dead'[i] = dead[i]
    BY <2>3 DEF SetJob, TypeOK, RedisTypeOK
  <2> QED BY <1>1, <1>2, <2>2, <2>3, <2>4, <2>5, WorkerStepSafe
          DEF Progress, SetJob, Safe, Holds
<1>3. CASE SaveCheckpoint(w)
  BY <1>3 DEF SaveCheckpoint, SetChunkCheckpoint, localVars, NoJobLost, Open,
              Settled, Exists, Owns, Holds
<1>4. CASE Finish(w)
  <2>1. PICK o \in Outcomes(j) :
            /\ Keep(w, [cur[w] EXCEPT !.status = o.status, !.retryable = o.retryable])
            /\ SetJob(j, Payload([cur[w] EXCEPT !.status = o.status,
                                                !.retryable = o.retryable]))
    BY <1>1, <1>4, ReliableFaults DEF Finish, BestEffortUpdate
  <2> DEFINE job == [cur[w] EXCEPT !.status = o.status, !.retryable = o.retryable]
  <2>2. o.status \in {"completed", "failed"} /\ o.retryable \in BOOLEAN
    BY <2>1 DEF Outcomes, Success, Failure
  <2>3. job \in Local /\ job.job = j /\ job.status = o.status
    BY <1>1, <2>2
  <2>4. Keep(w, job) /\ SetJob(j, Payload(job)) /\ Goto(w, "cleanup")
    BY <1>4, <2>1 DEF Finish
  <2> HIDE DEF job
  <2>5. Open(j)' => Owns(w, j)'
    <3>1. CASE o.status = "completed"
      <4>1. store'[j].status = "completed"
        BY <2>3, <2>4, <3>1 DEF SetJob, Payload, TypeOK, RedisTypeOK
      <4> QED BY <4>1 DEF Open, Settled
    <3>2. CASE o.status = "failed"
      BY <2>3, <2>4, <3>2 DEF Owns, Holds, Keep, Goto, TypeOK
    <3> QED BY <2>2, <3>1, <3>2
  <2>6. \A i \in Jobs \ {j} :
            retry'[i] = retry[i] /\ store'[i] = store[i] /\ dead'[i] = dead[i]
    BY <2>4 DEF SetJob, TypeOK, RedisTypeOK
  <2> QED BY <1>1, <1>4, <2>3, <2>4, <2>5, <2>6, WorkerStepSafe
          DEF Finish, SetJob, Safe, Holds
<1>5. CASE SourceCleanup(w)
  <2>1. ASSUME NEW v \in Workers, NEW i \in Jobs, Owns(v, i) PROVE Owns(v, i)'
    BY <1>5, <2>1 DEF SourceCleanup, AfterProcess, Owns, Holds, Goto, TypeOK
  <2> QED BY <1>5, <2>1
          DEF SourceCleanup, NoJobLost, Open, Settled, Exists, redisVars
<1> QED BY <1>2, <1>3, <1>4, <1>5

LEMMA HandleFailedSafe ==
    ASSUME Reliable, TypeOK, NoJobLost, NEW w \in Workers, HandleFailed(w)
    PROVE  NoJobLost'
<1>1. PICK j \in Jobs : j = cur[w].job /\ cur[w] \in Local
  BY HolderType DEF HandleFailed, DecideRetry, ScheduleRetry, ScheduleRetryFault, Bury
<1>2. CASE DecideRetry(w)
  <2>1. PICK overloaded \in Overload :
          LET again == Retries(cur[w], overloaded)
              job   == Verdict(cur[w], again)
          IN  /\ Keep(w, job)
              /\ SetJob(job.job, Payload(job))
              /\ Goto(w, IF again THEN "requeue" ELSE "bury")
    BY <1>2, ReliableFaults DEF DecideRetry, Unsure
  <2> DEFINE again == Retries(cur[w], overloaded)
             job   == Verdict(cur[w], again)
  <2>2. job \in Local /\ job.job = j
    <3>1. again \in BOOLEAN
      BY <1>1 DEF Retries
    <3> HIDE DEF again
    <3> QED BY <1>1, <3>1, VerdictType
  <2>3. PICK step \in {"requeue", "bury"} : Goto(w, step)
    BY <2>1
  <2>4. Keep(w, job) /\ SetJob(j, Payload(job))
    BY <2>1, <2>2
  <2> HIDE DEF job
  <2>5. Owns(w, j)'
    BY <2>2, <2>3, <2>4 DEF Owns, Holds, Keep, Goto, TypeOK
  <2>6. \A i \in Jobs \ {j} :
            retry'[i] = retry[i] /\ store'[i] = store[i] /\ dead'[i] = dead[i]
    BY <2>4 DEF SetJob, TypeOK, RedisTypeOK
  <2> QED BY <1>1, <1>2, <2>2, <2>3, <2>4, <2>5, <2>6, WorkerStepSafe
          DEF DecideRetry, SetJob, Safe, Holds
<1>3. CASE ScheduleRetry(w)
  <2>1. Keep(w, cur[w]) /\ Goto(w, "clear")
    BY <1>3 DEF ScheduleRetry, Keep, TypeOK
  <2>2. retry'[j] # "none"
    BY <1>1, <1>3 DEF ScheduleRetry, Requeue, TypeOK, RedisTypeOK
  <2>3. \A i \in Jobs \ {j} :
            retry'[i] = retry[i] /\ store'[i] = store[i] /\ dead'[i] = dead[i]
    BY <1>1, <1>3 DEF ScheduleRetry, Requeue, TypeOK, RedisTypeOK
  <2> QED BY <1>1, <1>3, <2>1, <2>2, <2>3, WorkerStepSafe
          DEF ScheduleRetry, Requeue, Safe, Holds
<1>4. ~ScheduleRetryFault(w)
  BY ReliableFaults DEF ScheduleRetryFault
<1>5. CASE Bury(w)
  <2>1. DeadLetter(j) /\ Keep(w, cur[w]) /\ Goto(w, "clear")
    BY <1>1, <1>5, ReliableFaults DEF Bury, Unsure, Keep, TypeOK
  <2>2. dead'[j] > 0
    BY <2>1 DEF DeadLetter, TypeOK, RedisTypeOK
  <2>3. \A i \in Jobs \ {j} :
            retry'[i] = retry[i] /\ store'[i] = store[i] /\ dead'[i] = dead[i]
    BY <2>1 DEF DeadLetter, TypeOK, RedisTypeOK
  <2> QED BY <1>1, <1>5, <2>1, <2>2, <2>3, WorkerStepSafe
          DEF Bury, DeadLetter, Open, Settled, Holds
<1> QED BY <1>2, <1>3, <1>4, <1>5 DEF HandleFailed

LEMMA EndOfLoopSafe ==
    ASSUME Reliable, TypeOK, NoJobLost, NEW w \in Workers,
           CleanupCheckpoints(w) \/ AckJob(w)
    PROVE  NoJobLost'
<1>1. ASSUME NEW v \in Workers, NEW i \in Jobs, Owns(v, i) PROVE Owns(v, i)'
  <2>1. v # w
    BY <1>1 DEF CleanupCheckpoints, AckJob, Owns
  <2> QED BY <1>1, <2>1
          DEF CleanupCheckpoints, AckJob, Release, Goto, Keep, Owns, Holds, TypeOK
<1>2. UNCHANGED <<handler, queue, retry, store, dead>>
  BY ReliableFaults
     DEF CleanupCheckpoints, AckJob, ClearChunkCheckpoints, Ack, Unsure, redisVars
<1> QED BY <1>1, <1>2 DEF NoJobLost, Open, Settled, Exists

LEMMA EnvironmentSafe ==
    ASSUME Reliable, TypeOK, NoJobLost,
           \/ RecoverTick
           \/ \E j \in Jobs : \/ Create(j) \/ AgeMark(j) \/ RetryDue(j)
                              \/ OperatorReplay(j) \/ DayPasses(j)
           \/ \E w \in Workers : Crash(w) \/ Shutdown(w)
    PROVE  NoJobLost'
<1>1. UNCHANGED <<pc, cur>>
  BY ReliableFaults DEF RecoverTick, Create, AgeMark, RetryDue, OperatorReplay,
     DayPasses, Crash, Shutdown, localVars
<1>2. \A v \in Workers, i \in Jobs : Owns(v, i)' <=> Owns(v, i)
  BY <1>1 DEF Owns, Holds
<1>3. CASE RecoverTick
  <2>1. \A i \in Jobs : queue[i] > 0 => queue'[i] > 0
    BY <1>3 DEF RecoverTick, Sweep, MoveIds, One, TypeOK, RedisTypeOK
  <2>2. \A i \in Jobs : retry'[i] = retry[i]
    BY <1>3 DEF RecoverTick, Sweep, MoveIds, TypeOK, RedisTypeOK
  <2> QED BY <1>2, <1>3, <2>1, <2>2
          DEF RecoverTick, Sweep, MoveIds, localVars, NoJobLost, Open, Settled, Exists
<1>4. ASSUME NEW j \in Jobs, Create(j) PROVE NoJobLost'
  <2>1. EnqueueJob(j)
    BY <1>4, ReliableFaults DEF Create, Unsure
  <2>2. queue'[j] > 0
    BY <2>1 DEF EnqueueJob, TypeOK, RedisTypeOK
  <2>3. \A i \in Jobs \ {j} : queue'[i] = queue[i] /\ store'[i] = store[i]
    BY <2>1 DEF EnqueueJob, TypeOK, RedisTypeOK
  <2>4. handler' = [handler EXCEPT ![j] = "accepted"]
    BY <1>4, ReliableFaults DEF Create, Unsure
  <2>5. \A i \in Jobs \ {j} : handler'[i] = handler[i]
    BY <2>4 DEF TypeOK
  <2> QED BY <1>2, <2>1, <2>2, <2>3, <2>5
          DEF EnqueueJob, NoJobLost, Open, Settled, Exists
<1>5. ASSUME NEW j \in Jobs, AgeMark(j) PROVE NoJobLost'
  BY <1>2, <1>5 DEF AgeMark, GrowStale, NoJobLost, Open, Settled, Exists
<1>6. ASSUME NEW j \in Jobs, RetryDue(j) PROVE NoJobLost'
  <2>1. \A i \in Jobs : retry[i] # "none" => retry'[i] # "none"
    BY <1>6 DEF RetryDue, BecomeDue, TypeOK, RedisTypeOK
  <2> QED BY <1>2, <1>6, <2>1
          DEF RetryDue, BecomeDue, localVars, NoJobLost, Open, Settled, Exists
<1>7. ASSUME NEW j \in Jobs, OperatorReplay(j) PROVE NoJobLost'
  <2>1. queue'[j] > 0
    BY <1>7 DEF OperatorReplay, ReplayDead, TypeOK, RedisTypeOK
  <2>2. \A i \in Jobs \ {j} : /\ queue'[i] = queue[i]
                              /\ retry'[i] = retry[i]
                              /\ store'[i] = store[i]
                              /\ dead'[i] = dead[i]
    BY <1>7 DEF OperatorReplay, ReplayDead, TypeOK, RedisTypeOK
  <2> QED BY <1>2, <1>7, <2>1, <2>2
          DEF OperatorReplay, NoJobLost, Open, Settled, Exists
<1>8. ASSUME NEW j \in Jobs, DayPasses(j) PROVE NoJobLost'
  <2>1. CASE ExpireJob(j)
    <3>1. ~Exists(j)'
      BY <2>1 DEF ExpireJob, Exists, TypeOK, RedisTypeOK
    <3>2. \A i \in Jobs \ {j} : store'[i] = store[i]
      BY <2>1 DEF ExpireJob, TypeOK, RedisTypeOK
    <3> QED BY <1>2, <1>8, <2>1, <3>1, <3>2
            DEF DayPasses, ExpireJob, listVars, NoJobLost, Open, Settled, Exists
  <2>2. CASE UNCHANGED redisVars
    BY <1>2, <1>8, <2>2 DEF DayPasses, redisVars, NoJobLost, Open, Settled, Exists
  <2> QED BY <1>8, <2>1, <2>2 DEF DayPasses
<1>9. ~\E w \in Workers : Crash(w) \/ Shutdown(w)
  BY ReliableFaults DEF Crash, Shutdown
<1> QED BY <1>3, <1>4, <1>5, <1>6, <1>7, <1>8, <1>9

\* Workers that outlive their in-flight marks, due retries, replays and expiring
\* payloads do not lose a job: every accepted job that is neither completed nor
\* dead-lettered, nor expired, is queued, awaits a retry or is owned by a worker
\* that will decide it (Dequeue, handleFailedJob, RecoverStale, ReplayDead).
THEOREM NothingLost ==
    ASSUME Reliable
    PROVE  Spec => []NoJobLost
<1>1. Init => NoJobLost
  BY DEF Init, NoJobLost, Open
<1>2. TypeOK /\ NoJobLost /\ [Next]_vars => NoJobLost'
  <2> SUFFICES ASSUME TypeOK, NoJobLost, [Next]_vars PROVE NoJobLost'
    OBVIOUS
  <2>1. CASE Next
    BY <2>1, DequeueSafe, ProcessSafe, HandleFailedSafe, EndOfLoopSafe, EnvironmentSafe
       DEF Next, WorkerStep
  <2>2. CASE UNCHANGED vars
    BY <2>2 DEF vars, redisVars, localVars, NoJobLost, Open, Settled, Exists, Owns, Holds
  <2> QED BY <2>1, <2>2
<1> QED BY <1>1, <1>2, TypeCorrect, PTL DEF Spec
-------------------------------------------------------------------------------
(* A job is in one place at a time, as long as no fault happens.  The      *)
(* property is not inductive: a recovery would move an id that is still in *)
(* work if its mark could be stale, a worker that reports progress would   *)
(* write back whatever status it loaded, and a second Create would queue   *)
(* the job again.  Three facts exclude the three.                          *)

Calm == Faults = {}

\* SingleCustody of one job.
Alone(j) ==
    /\ queue[j] <= 1
    /\ queue[j] = 1 => /\ retry[j] = "none"
                       /\ \A w \in Workers : ~Owns(w, j)
                       /\ ~Settled(j)
    /\ retry[j] # "none" => (\A w \in Workers : ~Owns(w, j)) /\ ~Settled(j)
    /\ \A w \in Workers : Owns(w, j) =>
          /\ ~Settled(j)
          /\ \A v \in Workers : Owns(v, j) => v = w

\* A job with an in-flight mark is held by a worker, and the mark is fresh.
MarkIsHeld(j) == mark[j] # "none" => mark[j] = "fresh" /\ Held(j)

\* A job nobody asked for yet is in none of the lists.
NewIsNowhere(j) ==
    handler[j] = "new" => /\ queue[j] = 0 /\ retry[j] = "none" /\ dead[j] = 0
                          /\ \A w \in Workers : ~Owns(w, j)

\* A worker in process has not finished the job it works on.
RunsAreUnfinished ==
    \A w \in Workers : pc[w] = "run" => cur[w].status # "completed"

Custody(j) == Alone(j) /\ MarkIsHeld(j) /\ NewIsNowhere(j)
CustodyInv == RunsAreUnfinished /\ \A j \in Jobs : Custody(j)

LEMMA CalmFaults ==
    ASSUME Calm, NEW kind
    PROVE  ~Fault(kind)
BY DEF Calm, Fault

\* A step that adds no copy of a job, and does not settle it, keeps it alone.
LEMMA KeepsAlone ==
    ASSUME NEW j \in Jobs, Alone(j),
           queue'[j] = queue[j],
           retry'[j] # "none" => retry[j] # "none",
           Settled(j)' => Settled(j),
           \A v \in Workers : Owns(v, j)' => Owns(v, j)
    PROVE  Alone(j)'
BY DEF Alone

\* What a step does not touch stays in custody.
LEMMA UntouchedCustody ==
    ASSUME NEW j \in Jobs, Custody(j),
           queue'[j] = queue[j], retry'[j] # "none" => retry[j] # "none",
           dead'[j] = dead[j], store'[j] = store[j], handler'[j] = handler[j],
           mark'[j] \in {mark[j], "none"},
           Held(j) => Held(j)',
           \A v \in Workers : Owns(v, j)' => Owns(v, j)
    PROVE  Custody(j)'
<1>1. Settled(j)' => Settled(j)
  BY DEF Settled
<1>2. Alone(j)'
  BY <1>1, KeepsAlone DEF Custody
<1> QED BY <1>2 DEF Custody, MarkIsHeld, NewIsNowhere

\* A worker step that touches its own job only: it is enough to look at that job.
LEMMA WorkerStepCustody ==
    ASSUME TypeOK, CustodyInv, NEW w \in Workers, NEW j \in Jobs, Holds(w, j),
           NEW step \in Steps, NEW job \in Local, job.job = j,
           Goto(w, step), Keep(w, job), UNCHANGED handler,
           step = "run" => job.status # "completed",
           \A i \in Jobs \ {j} : /\ queue'[i] = queue[i]
                                 /\ retry'[i] = retry[i]
                                 /\ dead'[i] = dead[i]
                                 /\ store'[i] = store[i]
                                 /\ mark'[i] = mark[i],
           Owns(w, j),
           Alone(j)',
           mark'[j] \in {mark[j], "fresh"}
    PROVE  CustodyInv'
<1>1. RunsAreUnfinished'
  BY DEF CustodyInv, RunsAreUnfinished, Goto, Keep, TypeOK
<1>2. ASSUME NEW v \in Workers, v # w PROVE pc'[v] = pc[v] /\ cur'[v] = cur[v]
  BY <1>2 DEF Goto, Keep, TypeOK
<1>3. cur'[w] = job
  BY DEF Keep, TypeOK
<1>4. ASSUME NEW i \in Jobs PROVE Held(i) => Held(i)'
  BY <1>2, <1>3 DEF Held, Holds
<1>5. ASSUME NEW i \in Jobs, i # j PROVE Custody(i)'
  <2>1. ASSUME NEW v \in Workers, Owns(v, i)' PROVE Owns(v, i)
    <3>1. v # w
      BY <1>3, <1>5, <2>1 DEF Owns, Holds
    <3> QED BY <1>2, <2>1, <3>1, OthersOwn
  <2>2. Custody(i)
    BY DEF CustodyInv
  <2> QED BY <1>4, <1>5, <2>1, <2>2, UntouchedCustody
<1>6. Custody(j)'
  <2>1. Custody(j)
    BY DEF CustodyInv
  <2>2. Held(j)'
    BY <1>3 DEF Held, Holds
  <2>3. handler'[j] # "new"
    BY <2>1 DEF Custody, NewIsNowhere
  <2> QED BY <2>1, <2>2, <2>3 DEF Custody, MarkIsHeld, NewIsNowhere
<1> QED BY <1>1, <1>5, <1>6 DEF CustodyInv

\* A worker that owns its job, and goes on owning it without settling it or
\* giving it to a list, keeps it alone.
LEMMA OwnerKeepsAlone ==
    ASSUME TypeOK, CustodyInv, NEW w \in Workers, NEW j \in Jobs, Owns(w, j),
           queue'[j] = queue[j], retry'[j] = retry[j], dead'[j] = dead[j],
           store'[j].status # "completed",
           \A v \in Workers : v # w => (Owns(v, j)' => Owns(v, j))
    PROVE  Alone(j)'
<1>1. Alone(j)
  BY DEF CustodyInv, Custody
<1>2. ~Settled(j)'
  BY <1>1 DEF Alone, Settled
<1>3. \A v \in Workers : Owns(v, j)' => Owns(v, j)
  BY DEF Owns
<1> QED BY <1>1, <1>2, <1>3 DEF Alone

\* What a worker that owns j knows of it.
LEMMA OwnerKnows ==
    ASSUME TypeOK, CustodyInv, NEW w \in Workers, NEW j \in Jobs, Owns(w, j)
    PROVE  /\ queue[j] = 0 /\ retry[j] = "none" /\ dead[j] = 0
           /\ store[j].status # "completed"
           /\ \A v \in Workers : Owns(v, j) => v = w
<1>1. Alone(j)
  BY DEF CustodyInv, Custody
<1>2. ~Settled(j) /\ queue[j] # 1 /\ queue[j] <= 1 /\ retry[j] = "none"
  BY <1>1 DEF Alone
<1>3. queue[j] \in Nat /\ dead[j] \in Nat
  BY DEF TypeOK, RedisTypeOK
<1> QED BY <1>1, <1>2, <1>3 DEF Alone, Settled

\* A step that changes nothing the invariant speaks of but a program counter.
LEMMA QuietStepCustody ==
    ASSUME CustodyInv,
           UNCHANGED <<handler, queue, retry, dead, store, mark, cur>>,
           \A v \in Workers : pc'[v] = "run" => pc[v] = "run",
           \A v \in Workers, j \in Jobs : Owns(v, j)' => Owns(v, j)
    PROVE  CustodyInv'
<1>1. RunsAreUnfinished'
  BY DEF CustodyInv, RunsAreUnfinished
<1>2. ASSUME NEW j \in Jobs PROVE Custody(j)'
  <2>1. Custody(j)
    BY DEF CustodyInv
  <2>2. Held(j) => Held(j)'
    BY DEF Held, Holds
  <2> QED BY <2>1, <2>2, UntouchedCustody
<1> QED BY <1>1, <1>2 DEF CustodyInv

LEMMA DequeueCustody ==
    ASSUME Calm, TypeOK, CustodyInv, NEW w \in Workers, Dequeue(w)
    PROVE  CustodyInv'
<1>1. CASE DequeueSweep(w)
  <2>1. StaleIds = {}
    BY DEF StaleIds, CustodyInv, Custody, MarkIsHeld
  <2>2. /\ Sweep(TRUE) /\ Goto(w, "pop") /\ pc[w] = "poll"
        /\ UNCHANGED <<dead, store, handler, cur>>
    BY <1>1 DEF DequeueSweep, Sweep, MoveIds
  <2>3. mark' = mark
    <3>1. mark' = [j \in Jobs |-> IF mark[j] = "stale" THEN "none" ELSE mark[j]]
      BY <2>2 DEF Sweep, ClearStale
    <3>2. \A j \in Jobs : mark[j] # "stale"
      BY DEF CustodyInv, Custody, MarkIsHeld
    <3> QED BY <3>1, <3>2 DEF TypeOK, RedisTypeOK
  <2>4. \A j : \A v \in Workers : Owns(v, j)' <=> Owns(v, j)
    BY <2>2 DEF Owns, Holds, Goto, TypeOK
  <2>5. RunsAreUnfinished'
    BY <2>2 DEF CustodyInv, RunsAreUnfinished, Goto, TypeOK
  <2>6. ASSUME NEW j \in Jobs PROVE Custody(j)'
    <3>1. Custody(j) /\ (Held(j) => Held(j)')
      BY <2>2 DEF CustodyInv, Held, Holds
    <3>2. CASE retry[j] = "due"
      <4>1. queue'[j] = queue[j] + 1 /\ retry'[j] = "none"
        BY <2>1, <2>2, <3>2 DEF Sweep, MoveIds, One, DueIds, TypeOK, RedisTypeOK
      <4>2. queue[j] = 0 /\ ~Settled(j) /\ \A v \in Workers : ~Owns(v, j)
        <5>1. /\ retry[j] # "none" /\ queue[j] <= 1 /\ queue[j] # 1
              /\ ~Settled(j) /\ \A v \in Workers : ~Owns(v, j)
          BY <3>1, <3>2 DEF Custody, Alone
        <5>2. queue[j] \in Nat
          BY DEF TypeOK, RedisTypeOK
        <5> QED BY <5>1, <5>2
      <4>3. ~Settled(j)' /\ \A v \in Workers : ~Owns(v, j)'
        BY <2>2, <2>4, <4>2 DEF Settled
      <4>4. handler'[j] # "new"
        BY <2>2, <3>1, <3>2 DEF Custody, NewIsNowhere
      <4> QED BY <2>3, <3>1, <4>1, <4>2, <4>3, <4>4
              DEF Custody, Alone, MarkIsHeld, NewIsNowhere
    <3>3. CASE retry[j] # "due"
      <4>1. queue'[j] = queue[j] /\ retry'[j] = retry[j]
        BY <2>1, <2>2, <3>3 DEF Sweep, MoveIds, One, DueIds, TypeOK, RedisTypeOK
      <4> QED BY <2>2, <2>3, <2>4, <3>1, <4>1, UntouchedCustody
    <3> QED BY <3>2, <3>3
  <2> QED BY <2>5, <2>6 DEF CustodyInv
<1>2. CASE DequeuePop(w)
  <2>1. CASE UNCHANGED <<redisVars, cur>> /\ Goto(w, "poll")
    <3>1. \A v \in Workers, j \in Jobs : Owns(v, j)' => Owns(v, j)
      BY <1>2, <2>1 DEF DequeuePop, Owns, Holds, Goto, TypeOK
    <3>2. \A v \in Workers : pc'[v] = "run" => pc[v] = "run"
      BY <2>1 DEF Goto, TypeOK
    <3> QED BY <1>2, <2>1, <3>1, <3>2, QuietStepCustody DEF DequeuePop, redisVars
  <2>2. CASE \E j \in Jobs : /\ PopToInflight(j)
                             /\ Keep(w, [Idle EXCEPT !.job = j])
                             /\ Goto(w, "mark")
    <3>1. PICK j \in Jobs : /\ PopToInflight(j)
                            /\ Keep(w, [Idle EXCEPT !.job = j])
                            /\ Goto(w, "mark")
      BY <2>2
    <3>2. /\ UNCHANGED <<handler, retry, dead, store, mark>>
          /\ queue[j] > 0
          /\ queue' = [queue EXCEPT ![j] = @ - 1]
      BY <1>2, <3>1 DEF DequeuePop, PopToInflight
    <3>3. ASSUME NEW v \in Workers, v # w PROVE pc'[v] = pc[v] /\ cur'[v] = cur[v]
      BY <3>1, <3>3 DEF Goto, Keep, TypeOK
    <3>4. pc'[w] = "mark" /\ cur'[w].job = j
      BY <3>1 DEF Goto, Keep, TypeOK
    <3>5. RunsAreUnfinished'
      BY <3>3, <3>4 DEF CustodyInv, RunsAreUnfinished
    <3>6. ASSUME NEW i \in Jobs PROVE Held(i) => Held(i)'
      <4>1. cur[w].job = NoJob
        BY <1>2 DEF DequeuePop, TypeOK
      <4> QED BY <3>3, <4>1, ConstantsAssumption DEF Held, Holds, ConstantsAssumption
    <3>7. ASSUME NEW i \in Jobs, i # j PROVE Custody(i)'
      <4>1. queue'[i] = queue[i]
        BY <3>2, <3>7 DEF TypeOK, RedisTypeOK
      <4>2. ASSUME NEW v \in Workers, Owns(v, i)' PROVE Owns(v, i)
        <5>1. v # w
          BY <3>4, <3>7, <4>2 DEF Owns, Holds
        <5> QED BY <3>3, <4>2, <5>1, OthersOwn
      <4>3. Custody(i)
        BY DEF CustodyInv
      <4> QED BY <3>2, <3>6, <4>1, <4>2, <4>3, UntouchedCustody
    <3>8. Custody(j)'
      <4>1. Custody(j)
        BY DEF CustodyInv
      <4>2. queue[j] = 1 /\ handler[j] # "new"
        BY <3>2, <4>1 DEF Custody, Alone, NewIsNowhere, TypeOK, RedisTypeOK
      <4>3. retry[j] = "none" /\ ~Settled(j) /\ \A v \in Workers : ~Owns(v, j)
        BY <4>1, <4>2 DEF Custody, Alone
      <4>4. queue'[j] = 0 /\ ~Settled(j)'
        BY <3>2, <4>2, <4>3 DEF Settled, TypeOK, RedisTypeOK
      <4>5. \A v \in Workers : Owns(v, j)' => v = w
        BY <3>3, <4>3, OthersOwn
      <4>6. Held(j)'
        BY <3>4 DEF Held, Holds
      <4> QED BY <3>2, <4>1, <4>2, <4>3, <4>4, <4>5, <4>6
              DEF Custody, Alone, MarkIsHeld, NewIsNowhere
    <3> QED BY <3>5, <3>7, <3>8 DEF CustodyInv
  <2> QED BY <1>2, <2>1, <2>2 DEF DequeuePop
<1>3. CASE DequeueMark(w)
  <2>1. PICK j \in Jobs : j = cur[w].job /\ cur[w] \in Local
    BY <1>3, HolderType DEF DequeueMark
  <2>2. MarkInflight(j) /\ Goto(w, "load") /\ Keep(w, cur[w]) /\ UNCHANGED handler
    BY <1>3, <2>1 DEF DequeueMark, Keep, TypeOK
  <2>3. Owns(w, j)
    BY <1>3, <2>1 DEF DequeueMark, Owns, Holds
  <2>4. ASSUME NEW v \in Workers, v # w, Owns(v, j)' PROVE Owns(v, j)
    BY <1>3, <2>4 DEF DequeueMark, Owns, Holds, Goto, TypeOK
  <2>5. UNCHANGED <<queue, retry, dead, store>>
    BY <2>2 DEF MarkInflight
  <2>6. Alone(j)'
    BY <2>3, <2>4, <2>5, OwnerKnows, OwnerKeepsAlone
  <2>7. mark'[j] \in {mark[j], "fresh"} /\ \A i \in Jobs \ {j} : mark'[i] = mark[i]
    BY <2>2 DEF MarkInflight, TypeOK, RedisTypeOK
  <2> QED BY <2>1, <2>2, <2>3, <2>5, <2>6, <2>7, WorkerStepCustody DEF Holds
<1>4. CASE DequeueLoad(w)
  <2>1. PICK j \in Jobs : j = cur[w].job /\ cur[w] \in Local
    BY <1>4, HolderType DEF DequeueLoad
  <2>2. Owns(w, j)
    BY <1>4, <2>1 DEF DequeueLoad, Owns, Holds
  <2>3. CASE Exists(j) /\ Keep(w, Loaded(cur[w], store[j])) /\ Goto(w, "run")
    <3> DEFINE job == Loaded(cur[w], store[j])
    <3>1. store[j] \in JobRecord
      BY <2>1, <2>3 DEF Exists, TypeOK, RedisTypeOK
    <3>2. job \in Local /\ job.job = j /\ job.status = store[j].status
      BY <2>1, <3>1 DEF Loaded
    <3>3. job.status # "completed"
      BY <2>2, <3>2, OwnerKnows
    <3>4. Keep(w, job) /\ Goto(w, "run")
      BY <2>3
    <3> HIDE DEF job
    <3>5. ASSUME NEW v \in Workers, v # w, Owns(v, j)' PROVE Owns(v, j)
      <4>1. pc'[v] = pc[v] /\ cur'[v] = cur[v]
        BY <3>4, <3>5 DEF Goto, Keep, TypeOK
      <4> QED BY <3>5, <4>1, OthersOwn
    <3>6. UNCHANGED <<queue, retry, dead, store, mark, handler>>
      BY <1>4 DEF DequeueLoad, redisVars
    <3>7. Alone(j)'
      BY <2>2, <3>5, <3>6, OwnerKnows, OwnerKeepsAlone
    <3> QED BY <2>1, <2>2, <3>2, <3>3, <3>4, <3>6, <3>7, WorkerStepCustody DEF Holds
  <2>4. CASE ~Exists(j) /\ Goto(w, "ack") /\ UNCHANGED cur
    <3>1. \A v \in Workers, i \in Jobs : Owns(v, i)' => Owns(v, i)
      BY <1>4, <2>4 DEF DequeueLoad, Owns, Holds, Goto, TypeOK
    <3>2. \A v \in Workers : pc'[v] = "run" => pc[v] = "run"
      BY <2>4 DEF Goto, TypeOK
    <3> QED BY <1>4, <2>4, <3>1, <3>2, QuietStepCustody DEF DequeueLoad, redisVars
  <2> QED BY <1>4, <2>1, <2>3, <2>4 DEF DequeueLoad
<1>5. ~DequeueFault(w)
  BY CalmFaults DEF DequeueFault, Unsure
<1> QED BY <1>1, <1>2, <1>3, <1>4, <1>5 DEF Dequeue

LEMMA ProcessCustody ==
    ASSUME Calm, TypeOK, CustodyInv, NEW w \in Workers,
           Progress(w) \/ SaveCheckpoint(w) \/ Finish(w) \/ SourceCleanup(w)
    PROVE  CustodyInv'
<1>1. PICK j \in Jobs : j = cur[w].job /\ cur[w] \in Local
  BY HolderType DEF Progress, SaveCheckpoint, Finish, SourceCleanup
<1>2. CASE Progress(w)
  <2>1. PICK status \in Status :
            /\ status \in {"processing", cur[w].status}
            /\ Keep(w, [cur[w] EXCEPT !.status = status])
            /\ SetJob(j, Payload([cur[w] EXCEPT !.status = status]))
    BY <1>1, <1>2, CalmFaults DEF Progress, BestEffortUpdate
  <2> DEFINE job == [cur[w] EXCEPT !.status = status]
  <2>2. pc[w] = "run" /\ cur[w].status # "completed"
    BY <1>2 DEF Progress, CustodyInv, RunsAreUnfinished
  <2>3. job \in Local /\ job.job = j /\ job.status # "completed"
    BY <1>1, <2>1, <2>2
  <2>4. Keep(w, job) /\ SetJob(j, Payload(job)) /\ Goto(w, "run") /\ UNCHANGED handler
    BY <1>2, <2>1 DEF Progress, Goto, TypeOK
  <2> HIDE DEF job
  <2>5. UNCHANGED <<queue, retry, dead, mark>> /\ store' = [store EXCEPT ![j] = Payload(job)]
    BY <2>4 DEF SetJob
  <2>6. Owns(w, j)
    BY <1>1, <2>2 DEF Owns, Holds
  <2>7. ASSUME NEW v \in Workers, v # w, Owns(v, j)' PROVE Owns(v, j)
    <3>1. pc'[v] = pc[v] /\ cur'[v] = cur[v]
      BY <2>4, <2>7 DEF Goto, Keep, TypeOK
    <3> QED BY <2>7, <3>1, OthersOwn
  <2>8. store'[j].status # "completed"
    BY <2>3, <2>5 DEF Payload, TypeOK, RedisTypeOK
  <2>9. Alone(j)'
    BY <2>5, <2>6, <2>7, <2>8, OwnerKeepsAlone
  <2>10. \A i \in Jobs \ {j} : store'[i] = store[i]
    BY <2>5 DEF TypeOK, RedisTypeOK
  <2> QED BY <1>1, <2>3, <2>4, <2>5, <2>6, <2>9, <2>10, WorkerStepCustody DEF Holds
<1>3. CASE SaveCheckpoint(w)
  <2>1. /\ UNCHANGED <<handler, queue, retry, dead, store, mark, cur, pc>>
    BY <1>3 DEF SaveCheckpoint, SetChunkCheckpoint, localVars
  <2>2. \A v \in Workers, i \in Jobs : Owns(v, i)' => Owns(v, i)
    BY <2>1 DEF Owns, Holds
  <2> QED BY <2>1, <2>2, QuietStepCustody
<1>4. CASE Finish(w)
  <2>1. PICK o \in Outcomes(j) :
            /\ Keep(w, [cur[w] EXCEPT !.status = o.status, !.retryable = o.retryable])
            /\ SetJob(j, Payload([cur[w] EXCEPT !.status = o.status,
                                                !.retryable = o.retryable]))
    BY <1>1, <1>4, CalmFaults DEF Finish, BestEffortUpdate
  <2> DEFINE job == [cur[w] EXCEPT !.status = o.status, !.retryable = o.retryable]
  <2>2. o.status \in {"completed", "failed"} /\ o.retryable \in BOOLEAN
    BY <2>1 DEF Outcomes, Success, Failure
  <2>3. job \in Local /\ job.job = j /\ job.status = o.status
    BY <1>1, <2>2
  <2>4. /\ Keep(w, job) /\ SetJob(j, Payload(job)) /\ Goto(w, "cleanup")
        /\ UNCHANGED handler
    BY <1>4, <2>1 DEF Finish
  <2> HIDE DEF job
  <2>5. UNCHANGED <<queue, retry, dead, mark>> /\ store' = [store EXCEPT ![j] = Payload(job)]
    BY <2>4 DEF SetJob
  <2>6. Owns(w, j)
    BY <1>1, <1>4 DEF Finish, Owns, Holds
  <2>7. ASSUME NEW v \in Workers, v # w, Owns(v, j)' PROVE Owns(v, j)
    <3>1. pc'[v] = pc[v] /\ cur'[v] = cur[v]
      BY <2>4, <2>7 DEF Goto, Keep, TypeOK
    <3> QED BY <2>7, <3>1, OthersOwn
  <2>8. store'[j].status = o.status
    BY <2>3, <2>5 DEF Payload, TypeOK, RedisTypeOK
  <2>9. Alone(j)'
    <3>1. CASE o.status = "failed"
      BY <2>5, <2>6, <2>7, <2>8, <3>1, OwnerKeepsAlone
    <3>2. CASE o.status = "completed"
      <4>1. ~Owns(w, j)'
        BY <2>3, <2>4, <3>2 DEF Owns, Keep, Goto, TypeOK
      <4>2. \A v \in Workers : ~Owns(v, j)'
        BY <2>6, <2>7, <4>1, OwnerKnows
      <4>3. queue'[j] = 0 /\ retry'[j] = "none"
        BY <2>5, <2>6, OwnerKnows
      <4> QED BY <4>2, <4>3 DEF Alone
    <3> QED BY <2>2, <3>1, <3>2
  <2>10. \A i \in Jobs \ {j} : store'[i] = store[i]
    BY <2>5 DEF TypeOK, RedisTypeOK
  <2> QED BY <1>1, <2>3, <2>4, <2>5, <2>6, <2>9, <2>10, WorkerStepCustody DEF Holds
<1>5. CASE SourceCleanup(w)
  <2>1. UNCHANGED <<handler, queue, retry, dead, store, mark, cur>>
    BY <1>5 DEF SourceCleanup, redisVars
  <2>2. /\ \A v \in Workers, i \in Jobs : Owns(v, i)' => Owns(v, i)
        /\ \A v \in Workers : pc'[v] = "run" => pc[v] = "run"
    BY <1>5 DEF SourceCleanup, AfterProcess, Owns, Holds, Goto, TypeOK
  <2> QED BY <2>1, <2>2, QuietStepCustody
<1> QED BY <1>2, <1>3, <1>4, <1>5

LEMMA HandleFailedCustody ==
    ASSUME Calm, TypeOK, CustodyInv, NEW w \in Workers, HandleFailed(w)
    PROVE  CustodyInv'
<1>1. PICK j \in Jobs : j = cur[w].job /\ cur[w] \in Local
  BY HolderType DEF HandleFailed, DecideRetry, ScheduleRetry, ScheduleRetryFault, Bury
<1>2. Owns(w, j)
  BY <1>1 DEF HandleFailed, DecideRetry, ScheduleRetry, ScheduleRetryFault, Bury,
              Owns, Holds
<1>3. CASE DecideRetry(w)
  <2>1. PICK overloaded \in Overload :
          LET again == Retries(cur[w], overloaded)
              job   == Verdict(cur[w], again)
          IN  /\ Keep(w, job)
              /\ SetJob(job.job, Payload(job))
              /\ Goto(w, IF again THEN "requeue" ELSE "bury")
    BY <1>3, CalmFaults DEF DecideRetry, Unsure
  <2> DEFINE again == Retries(cur[w], overloaded)
             job   == Verdict(cur[w], again)
  <2>2. job \in Local /\ job.job = j /\ job.status # "completed"
    <3>1. again \in BOOLEAN
      BY <1>1 DEF Retries
    <3> HIDE DEF again
    <3>2. job.status \in {"pending", "failed"}
      BY <1>1, <3>1 DEF Verdict
    <3> QED BY <1>1, <3>1, <3>2, VerdictType
  <2>3. PICK step \in {"requeue", "bury"} : Goto(w, step)
    BY <2>1
  <2>4. Keep(w, job) /\ SetJob(j, Payload(job)) /\ UNCHANGED handler
    BY <1>3, <2>1, <2>2 DEF DecideRetry
  <2> HIDE DEF job
  <2>5. UNCHANGED <<queue, retry, dead, mark>> /\ store' = [store EXCEPT ![j] = Payload(job)]
    BY <2>4 DEF SetJob
  <2>6. ASSUME NEW v \in Workers, v # w, Owns(v, j)' PROVE Owns(v, j)
    <3>1. pc'[v] = pc[v] /\ cur'[v] = cur[v]
      BY <2>3, <2>4, <2>6 DEF Goto, Keep, TypeOK
    <3> QED BY <2>6, <3>1, OthersOwn
  <2>7. store'[j].status # "completed"
    BY <2>2, <2>5 DEF Payload, TypeOK, RedisTypeOK
  <2>8. Alone(j)'
    BY <1>2, <2>5, <2>6, <2>7, OwnerKeepsAlone
  <2>9. \A i \in Jobs \ {j} : store'[i] = store[i]
    BY <2>5 DEF TypeOK, RedisTypeOK
  <2> QED BY <1>1, <1>2, <2>2, <2>3, <2>4, <2>5, <2>8, <2>9, WorkerStepCustody
          DEF Holds
<1>4. CASE ScheduleRetry(w)
  <2>1. Requeue(j) /\ Keep(w, cur[w]) /\ Goto(w, "clear") /\ UNCHANGED handler
    BY <1>1, <1>4 DEF ScheduleRetry, Keep, TypeOK
  <2>2. UNCHANGED <<queue, dead, store, mark>> /\ \A i \in Jobs \ {j} : retry'[i] = retry[i]
    BY <2>1 DEF Requeue, TypeOK, RedisTypeOK
  <2>3. \A v \in Workers : ~Owns(v, j)'
    BY <1>1, <1>2, <2>1, OwnerKnows DEF Owns, Holds, Goto, Keep, TypeOK
  <2>4. ~Settled(j)' /\ queue'[j] = 0
    BY <1>2, <2>2, OwnerKnows DEF Settled
  <2>5. Alone(j)'
    BY <2>3, <2>4 DEF Alone
  <2> QED BY <1>1, <1>2, <2>1, <2>2, <2>5, WorkerStepCustody DEF Holds
<1>5. ~ScheduleRetryFault(w)
  BY CalmFaults DEF ScheduleRetryFault
<1>6. CASE Bury(w)
  <2>1. DeadLetter(j) /\ Keep(w, cur[w]) /\ Goto(w, "clear") /\ UNCHANGED handler
    BY <1>1, <1>6, CalmFaults DEF Bury, Unsure, Keep, TypeOK
  <2>2. /\ UNCHANGED <<queue, store, mark>>
        /\ \A i \in Jobs \ {j} : retry'[i] = retry[i] /\ dead'[i] = dead[i]
        /\ retry'[j] = "none"
    BY <2>1 DEF DeadLetter, TypeOK, RedisTypeOK
  <2>3. \A v \in Workers : ~Owns(v, j)'
    BY <1>1, <1>2, <2>1, OwnerKnows DEF Owns, Holds, Goto, Keep, TypeOK
  <2>4. queue'[j] = 0
    BY <1>2, <2>2, OwnerKnows
  <2>5. Alone(j)'
    BY <2>2, <2>3, <2>4 DEF Alone
  <2> QED BY <1>1, <1>2, <2>1, <2>2, <2>5, WorkerStepCustody DEF Holds
<1> QED BY <1>3, <1>4, <1>5, <1>6 DEF HandleFailed

LEMMA EndOfLoopCustody ==
    ASSUME Calm, TypeOK, CustodyInv, NEW w \in Workers,
           CleanupCheckpoints(w) \/ AckJob(w)
    PROVE  CustodyInv'
<1>1. PICK j \in Jobs : j = cur[w].job
  BY HolderType DEF CleanupCheckpoints, AckJob
<1>2. CASE CleanupCheckpoints(w)
  <2>1. UNCHANGED <<handler, queue, retry, dead, store, mark, cur>>
    BY <1>2, CalmFaults DEF CleanupCheckpoints, ClearChunkCheckpoints, redisVars
  <2>2. /\ \A v \in Workers, i \in Jobs : Owns(v, i)' => Owns(v, i)
        /\ \A v \in Workers : pc'[v] = "run" => pc[v] = "run"
    BY <1>2 DEF CleanupCheckpoints, Owns, Holds, Goto, TypeOK
  <2> QED BY <2>1, <2>2, QuietStepCustody
<1>3. CASE AckJob(w)
  <2>1. Ack(j) /\ Goto(w, "poll") /\ Keep(w, Idle) /\ UNCHANGED handler
    BY <1>1, <1>3, CalmFaults DEF AckJob, Unsure, Release
  <2>2. /\ UNCHANGED <<queue, retry, dead, store>>
        /\ mark'[j] = "none"
        /\ \A i \in Jobs \ {j} : mark'[i] = mark[i]
    BY <2>1 DEF Ack, TypeOK, RedisTypeOK
  <2>3. ASSUME NEW v \in Workers, v # w PROVE pc'[v] = pc[v] /\ cur'[v] = cur[v]
    BY <2>1, <2>3 DEF Goto, Keep, TypeOK
  <2>4. pc'[w] = "poll" /\ cur'[w].job = NoJob
    BY <2>1 DEF Goto, Keep, TypeOK
  <2>5. RunsAreUnfinished'
    BY <2>3, <2>4 DEF CustodyInv, RunsAreUnfinished
  <2>6. ASSUME NEW i \in Jobs PROVE Custody(i)'
    <3>1. Custody(i)
      BY DEF CustodyInv
    <3>2. ASSUME NEW v \in Workers, Owns(v, i)' PROVE Owns(v, i)
      <4>1. v # w
        BY <2>4, <3>2, ConstantsAssumption DEF Owns, Holds, ConstantsAssumption
      <4> QED BY <2>3, <3>2, <4>1, OthersOwn
    <3>3. CASE i = j
      <4>1. Alone(i)'
        BY <2>2, <3>1, <3>2, KeepsAlone DEF Custody, Settled
      <4> QED BY <2>1, <2>2, <3>1, <3>2, <3>3, <4>1
              DEF Custody, MarkIsHeld, NewIsNowhere
    <3>4. CASE i # j
      <4>1. Held(i) => Held(i)'
        BY <1>1, <2>3, <3>4 DEF Held, Holds
      <4> QED BY <2>1, <2>2, <3>1, <3>2, <3>4, <4>1, UntouchedCustody
    <3> QED BY <3>3, <3>4
  <2> QED BY <2>5, <2>6 DEF CustodyInv
<1> QED BY <1>2, <1>3

LEMMA EnvironmentCustody ==
    ASSUME Calm, TypeOK, CustodyInv,
           \/ RecoverTick
           \/ \E j \in Jobs : \/ Create(j) \/ AgeMark(j) \/ RetryDue(j)
                              \/ OperatorReplay(j) \/ DayPasses(j)
           \/ \E w \in Workers : Crash(w) \/ Shutdown(w)
    PROVE  CustodyInv'
<1>1. UNCHANGED <<pc, cur>>
  BY CalmFaults DEF RecoverTick, Create, AgeMark, RetryDue, OperatorReplay,
     DayPasses, Crash, Shutdown, localVars
<1>2. /\ RunsAreUnfinished'
      /\ \A v \in Workers, i \in Jobs : Owns(v, i)' <=> Owns(v, i)
      /\ \A i \in Jobs : Held(i)' <=> Held(i)
  BY <1>1 DEF CustodyInv, RunsAreUnfinished, Owns, Holds, Held
<1>3. \A i \in Jobs : Custody(i)
  BY DEF CustodyInv
<1>4. ~RecoverTick
  BY <1>3 DEF RecoverTick, Custody, MarkIsHeld
<1>5. ASSUME NEW j \in Jobs, Create(j) PROVE CustodyInv'
  <2>1. /\ EnqueueJob(j) /\ handler[j] = "new"
        /\ handler' = [handler EXCEPT ![j] = "accepted"]
    BY <1>5, CalmFaults DEF Create, Unsure
  <2>2. /\ UNCHANGED <<retry, dead, mark>>
        /\ queue' = [queue EXCEPT ![j] = @ + 1]
        /\ store' = [store EXCEPT ![j] = Fresh]
    BY <2>1 DEF EnqueueJob
  <2>3. ASSUME NEW i \in Jobs, i # j PROVE Custody(i)'
    <3>1. queue'[i] = queue[i] /\ store'[i] = store[i] /\ handler'[i] = handler[i]
      BY <2>1, <2>2, <2>3 DEF TypeOK, RedisTypeOK
    <3> QED BY <1>2, <1>3, <2>2, <3>1, UntouchedCustody
  <2>4. Custody(j)'
    <3>1. queue[j] = 0 /\ retry[j] = "none" /\ dead[j] = 0 /\ \A v \in Workers : ~Owns(v, j)
      BY <1>3, <2>1 DEF Custody, NewIsNowhere
    <3>2. /\ queue'[j] = 1 /\ handler'[j] # "new"
          /\ store'[j].status = "pending"
      BY <2>1, <2>2, <3>1 DEF TypeOK, RedisTypeOK
    <3>3. ~Settled(j)'
      BY <2>2, <3>1, <3>2 DEF Settled
    <3> QED BY <1>2, <1>3, <2>2, <3>1, <3>2, <3>3
            DEF Custody, Alone, MarkIsHeld, NewIsNowhere
  <2> QED BY <1>2, <2>3, <2>4 DEF CustodyInv
<1>6. ASSUME NEW j \in Jobs, AgeMark(j) PROVE CustodyInv'
  \* A held job would need a fault, and any other has no mark.
  BY <1>3, <1>6, CalmFaults DEF AgeMark, GrowStale, Custody, MarkIsHeld
<1>7. ASSUME NEW j \in Jobs, RetryDue(j) PROVE CustodyInv'
  <2>1. UNCHANGED <<handler, queue, dead, store, mark>>
    BY <1>7 DEF RetryDue, BecomeDue, localVars
  <2>2. \A i \in Jobs : retry'[i] # "none" => retry[i] # "none"
    BY <1>7 DEF RetryDue, BecomeDue, TypeOK, RedisTypeOK
  <2>3. ASSUME NEW i \in Jobs PROVE Custody(i)'
    BY <1>2, <1>3, <2>1, <2>2, UntouchedCustody
  <2> QED BY <1>2, <2>3 DEF CustodyInv
<1>8. ASSUME NEW j \in Jobs, OperatorReplay(j) PROVE CustodyInv'
  <2>1. ReplayDead(j) /\ UNCHANGED <<handler, mark>>
    BY <1>8 DEF OperatorReplay, ReplayDead
  <2>2. ASSUME NEW i \in Jobs, i # j PROVE Custody(i)'
    <3>1. /\ queue'[i] = queue[i] /\ retry'[i] = retry[i]
          /\ store'[i] = store[i] /\ dead'[i] = dead[i]
      BY <2>1, <2>2 DEF ReplayDead, TypeOK, RedisTypeOK
    <3> QED BY <1>2, <1>3, <2>1, <3>1, UntouchedCustody
  <2>3. Custody(j)'
    <3>1. dead[j] > 0 /\ Settled(j)
      BY <2>1 DEF ReplayDead, Settled
    <3>2. handler[j] # "new"
      BY <1>3, <3>1 DEF Custody, NewIsNowhere
    <3>3. /\ queue[j] <= 1 /\ queue[j] # 1 /\ queue[j] \in Nat
          /\ \A v \in Workers : ~Owns(v, j)
      BY <1>3, <3>1 DEF Custody, Alone, TypeOK, RedisTypeOK
    <3>4. /\ queue'[j] = 1 /\ retry'[j] = "none" /\ dead'[j] = 0
          /\ store'[j].status = "pending"
      BY <2>1, <3>3 DEF ReplayDead, TypeOK, RedisTypeOK
    <3>5. ~Settled(j)'
      BY <3>4 DEF Settled
    <3> QED BY <1>2, <1>3, <2>1, <3>2, <3>3, <3>4, <3>5
            DEF Custody, Alone, MarkIsHeld, NewIsNowhere
  <2> QED BY <1>2, <2>2, <2>3 DEF CustodyInv
<1>9. /\ ~\E j \in Jobs : DayPasses(j)
      /\ ~\E w \in Workers : Crash(w) \/ Shutdown(w)
  BY CalmFaults DEF DayPasses, Crash, Shutdown
<1> QED BY <1>4, <1>5, <1>6, <1>7, <1>8, <1>9

LEMMA CustodyInit == Init => CustodyInv
<1> SUFFICES ASSUME Init PROVE CustodyInv
  OBVIOUS
<1>1. \A w \in Workers, j \in Jobs : ~Owns(w, j)
  BY DEF Init, Owns
<1>2. \A j \in Jobs : queue[j] = 0 /\ retry[j] = "none" /\ dead[j] = 0 /\ mark[j] = "none"
  BY DEF Init, RedisInit
<1> QED BY <1>1, <1>2
        DEF Init, CustodyInv, Custody, Alone, MarkIsHeld, NewIsNowhere, RunsAreUnfinished

LEMMA CustodyStep ==
    ASSUME Calm
    PROVE  TypeOK /\ CustodyInv /\ [Next]_vars => CustodyInv'
<1> SUFFICES ASSUME TypeOK, CustodyInv, [Next]_vars PROVE CustodyInv'
  OBVIOUS
<1>1. CASE Next
  BY <1>1, DequeueCustody, ProcessCustody, HandleFailedCustody, EndOfLoopCustody,
     EnvironmentCustody DEF Next, WorkerStep
<1>2. CASE UNCHANGED vars
  <2>1. UNCHANGED <<handler, queue, retry, dead, store, mark, cur, pc>>
    BY <1>2 DEF vars, redisVars, localVars
  <2>2. \A v \in Workers, j \in Jobs : Owns(v, j)' => Owns(v, j)
    BY <2>1 DEF Owns, Holds
  <2> QED BY <2>1, <2>2, QuietStepCustody
<1> QED BY <1>1, <1>2

\* Without faults, and whatever the number of workers, due retries and
\* operator replays, a job is in one place at a time: queued once,
\* or waiting for a retry, or owned by exactly one worker, or settled.  Nothing
\* locks a job; the moves of Dequeue, Requeue, DeadLetter and ReplayDead do it.
THEOREM OnePlace ==
    ASSUME Calm
    PROVE  Spec => []SingleCustody
<1>1. CustodyInv => SingleCustody
  BY DEF CustodyInv, Custody, Alone, SingleCustody
<1> QED BY <1>1, CustodyInit, CustodyStep, TypeCorrect, PTL DEF Spec

-------------------------------------------------------------------------------
(* The checkpoints of a settled PDF go, as long as no fault happens: while *)
(* there are any, a worker that will clear them holds the job.  A run that *)
(* saves checkpoints owns its job, so by custody the job is not settled,   *)
(* whatever an earlier worker of the job still has to clear.               *)

\* The next checkpoint cleanup of w clears those of j.
Clears(w, j) ==
    /\ Holds(w, j)
    /\ \/ pc[w] = "cleanup" /\ cur[w].status = "completed"
       \/ pc[w] = "clear" /\ cur[w].status \in {"completed", "failed"}

Cleared(j) ==
    (Kind[j] = "pdf" /\ Settled(j) /\ j \in ckpt) => \E w \in Workers : Clears(w, j)

\* Only what has failed is buried, so that its cleanup clears.
BuriedFailed == \A w \in Workers : pc[w] = "bury" => cur[w].status = "failed"

ClearInv == BuriedFailed /\ \A j \in Jobs : Cleared(j)

\* A job that a step leaves as it was.
LeavesCleared(w, j) ==
    /\ Settled(j)' => Settled(j)
    /\ j \in ckpt' => j \in ckpt
    /\ Clears(w, j) => Clears(w, j)'

LEMMA WorkerStepClears ==
    ASSUME TypeOK, ClearInv, NEW w \in Workers, NEW step, NEW job,
           Goto(w, step), Keep(w, job), step = "bury" => job.status = "failed",
           \A i \in Jobs : Cleared(i)' \/ LeavesCleared(w, i)
    PROVE  ClearInv'
<1>1. ASSUME NEW v \in Workers, v # w PROVE pc'[v] = pc[v] /\ cur'[v] = cur[v]
  BY <1>1 DEF Goto, Keep, TypeOK
<1>2. pc'[w] = step /\ cur'[w] = job
  BY DEF Goto, Keep, TypeOK
<1>3. BuriedFailed'
  BY <1>1, <1>2 DEF ClearInv, BuriedFailed
<1>4. ASSUME NEW i \in Jobs, LeavesCleared(w, i) PROVE Cleared(i)'
  <2>1. ASSUME NEW v \in Workers, Clears(v, i) PROVE Clears(v, i)'
    <3>1. CASE v = w
      BY <1>4, <2>1, <3>1 DEF LeavesCleared
    <3>2. CASE v # w
      BY <1>1, <2>1, <3>2 DEF Clears, Holds
    <3> QED BY <3>1, <3>2
  <2>2. Cleared(i)
    BY DEF ClearInv
  <2> QED BY <1>4, <2>1, <2>2 DEF LeavesCleared, Cleared
<1> QED BY <1>3, <1>4 DEF ClearInv

\* A worker that owns its job and does not settle it.
LEMMA OwnerClears ==
    ASSUME TypeOK, CustodyInv, ClearInv, NEW w \in Workers, NEW j \in Jobs, Owns(w, j),
           Kind[j] = "pdf" => ~Settled(j)' \/ Clears(w, j)',
           NEW step, NEW job,
           Goto(w, step), Keep(w, job), step = "bury" => job.status = "failed",
           \A i \in Jobs \ {j} : /\ dead'[i] = dead[i] /\ store'[i] = store[i]
                                 /\ i \in ckpt' => i \in ckpt
    PROVE  ClearInv'
<1>1. Cleared(j)'
  BY DEF Cleared
<1>2. ASSUME NEW i \in Jobs \ {j} PROVE LeavesCleared(w, i)
  BY DEF LeavesCleared, Settled, Clears, Owns, Holds
<1> QED BY <1>1, <1>2, WorkerStepClears

LEMMA DequeueClears ==
    ASSUME Calm, TypeOK, CustodyInv, ClearInv, NEW w \in Workers, Dequeue(w)
    PROVE  ClearInv'
<1>1. UNCHANGED <<dead, store, ckpt>>
  BY CalmFaults DEF Dequeue, DequeueSweep, DequeuePop, DequeueMark, DequeueLoad,
     DequeueFault, Unsure, Sweep, MoveIds, PopToInflight, MarkInflight, redisVars
<1>2. pc[w] \in {"poll", "pop", "mark", "load"}
  BY DEF Dequeue, DequeueSweep, DequeuePop, DequeueMark, DequeueLoad, DequeueFault
<1>3. PICK step, job : step # "bury" /\ Goto(w, step) /\ Keep(w, job)
  <2>1. UNCHANGED cur => Keep(w, cur[w])
    BY DEF Keep, TypeOK
  <2>2. CASE DequeueSweep(w)
    BY <2>1, <2>2 DEF DequeueSweep
  <2>3. CASE DequeuePop(w)
    BY <2>1, <2>3 DEF DequeuePop
  <2>4. CASE DequeueMark(w)
    BY <2>1, <2>4 DEF DequeueMark
  <2>5. CASE DequeueLoad(w)
    BY <2>1, <2>5 DEF DequeueLoad
  <2>6. ~DequeueFault(w)
    BY CalmFaults DEF DequeueFault, Unsure
  <2> QED BY <2>2, <2>3, <2>4, <2>5, <2>6 DEF Dequeue
<1>4. \A i \in Jobs : LeavesCleared(w, i)
  BY <1>1, <1>2 DEF LeavesCleared, Settled, Clears
<1> QED BY <1>3, <1>4, WorkerStepClears

LEMMA ProcessClears ==
    ASSUME Calm, TypeOK, CustodyInv, ClearInv, NEW w \in Workers,
           Progress(w) \/ SaveCheckpoint(w) \/ Finish(w) \/ SourceCleanup(w)
    PROVE  ClearInv'
<1>1. PICK j \in Jobs : j = cur[w].job /\ cur[w] \in Local
  BY HolderType DEF Progress, SaveCheckpoint, Finish, SourceCleanup
<1>2. CASE Progress(w)
  <2>1. PICK status \in {"processing", cur[w].status} :
            /\ Keep(w, [cur[w] EXCEPT !.status = status])
            /\ SetJob(j, Payload([cur[w] EXCEPT !.status = status]))
    BY <1>1, <1>2, CalmFaults DEF Progress, BestEffortUpdate
  <2>2. Owns(w, j) /\ cur[w].status # "completed" /\ Goto(w, "run")
    BY <1>1, <1>2 DEF Progress, CustodyInv, RunsAreUnfinished, Owns, Holds, Goto, TypeOK
  <2>3. UNCHANGED <<dead, ckpt>> /\ \A i \in Jobs \ {j} : store'[i] = store[i]
    BY <2>1 DEF SetJob, TypeOK, RedisTypeOK
  <2>4. store'[j].status # "completed"
    BY <1>1, <2>1, <2>2 DEF SetJob, Payload, TypeOK, RedisTypeOK
  <2>5. ~Settled(j)'
    BY <2>2, <2>3, <2>4, OwnerKnows DEF Settled
  <2> QED BY <2>1, <2>2, <2>3, <2>5, OwnerClears
<1>3. CASE SaveCheckpoint(w)
  <2>1. /\ UNCHANGED <<dead, store, cur, pc>> /\ ckpt' = ckpt \cup {j}
        /\ Goto(w, "run") /\ Keep(w, cur[w])
    BY <1>1, <1>3 DEF SaveCheckpoint, SetChunkCheckpoint, localVars, Goto, Keep, TypeOK
  <2>2. Owns(w, j)
    BY <1>1, <1>3 DEF SaveCheckpoint, Owns, Holds
  <2>3. ~Settled(j)'
    BY <2>1, <2>2, OwnerKnows DEF Settled
  <2> QED BY <2>1, <2>2, <2>3, OwnerClears
<1>4. CASE Finish(w)
  <2>1. PICK o \in Outcomes(j) :
            /\ Keep(w, [cur[w] EXCEPT !.status = o.status, !.retryable = o.retryable])
            /\ SetJob(j, Payload([cur[w] EXCEPT !.status = o.status,
                                                !.retryable = o.retryable]))
    BY <1>1, <1>4, CalmFaults DEF Finish, BestEffortUpdate
  <2>2. Owns(w, j) /\ Goto(w, "cleanup")
    BY <1>1, <1>4 DEF Finish, Owns, Holds
  <2>3. UNCHANGED <<dead, ckpt>> /\ \A i \in Jobs \ {j} : store'[i] = store[i]
    BY <2>1 DEF SetJob, TypeOK, RedisTypeOK
  <2>4. store'[j].status = o.status /\ cur'[w].status = o.status /\ cur'[w].job = j
    BY <1>1, <2>1 DEF SetJob, Keep, Payload, TypeOK, RedisTypeOK
  <2>5. ~Settled(j)' \/ Clears(w, j)'
    BY <2>2, <2>3, <2>4, OwnerKnows DEF Settled, Clears, Holds, Goto, TypeOK
  <2> QED BY <2>1, <2>2, <2>3, <2>5, OwnerClears
<1>5. CASE SourceCleanup(w)
  <2>1. /\ UNCHANGED <<dead, store, ckpt>> /\ Keep(w, cur[w])
        /\ Goto(w, AfterProcess(cur[w])) /\ AfterProcess(cur[w]) # "bury"
    BY <1>5 DEF SourceCleanup, AfterProcess, redisVars, Keep, TypeOK
  <2>2. ASSUME NEW i \in Jobs, Clears(w, i) PROVE Clears(w, i)'
    BY <1>5, <2>1, <2>2 DEF SourceCleanup, AfterProcess, Clears, Holds, Goto, Keep, TypeOK
  <2>3. \A i \in Jobs : LeavesCleared(w, i)
    BY <2>1, <2>2 DEF LeavesCleared, Settled
  <2> QED BY <2>1, <2>3, WorkerStepClears
<1> QED BY <1>2, <1>3, <1>4, <1>5

LEMMA HandleFailedClears ==
    ASSUME Calm, TypeOK, CustodyInv, ClearInv, NEW w \in Workers, HandleFailed(w)
    PROVE  ClearInv'
<1>1. PICK j \in Jobs : j = cur[w].job /\ cur[w] \in Local
  BY HolderType DEF HandleFailed, DecideRetry, ScheduleRetry, ScheduleRetryFault, Bury
<1>2. Owns(w, j)
  BY <1>1 DEF HandleFailed, DecideRetry, ScheduleRetry, ScheduleRetryFault, Bury,
              Owns, Holds
<1>3. CASE DecideRetry(w)
  <2>1. PICK overloaded \in Overload :
          LET again == Retries(cur[w], overloaded)
              job   == Verdict(cur[w], again)
          IN  /\ Keep(w, job)
              /\ SetJob(job.job, Payload(job))
              /\ Goto(w, IF again THEN "requeue" ELSE "bury")
    BY <1>3, CalmFaults DEF DecideRetry, Unsure
  <2> DEFINE again == Retries(cur[w], overloaded)
             job   == Verdict(cur[w], again)
  <2>2. /\ job.job = j /\ job.status = IF again THEN "pending" ELSE "failed"
    BY <1>1 DEF Verdict
  <2>3. PICK step : Goto(w, step) /\ (step = "bury" => job.status = "failed")
    BY <2>1, <2>2
  <2>4. Keep(w, job) /\ SetJob(j, Payload(job)) /\ job.status # "completed"
    BY <2>1, <2>2
  <2> HIDE DEF job
  <2>5. UNCHANGED <<dead, ckpt>> /\ \A i \in Jobs \ {j} : store'[i] = store[i]
    BY <2>4 DEF SetJob, TypeOK, RedisTypeOK
  <2>6. store'[j].status # "completed"
    BY <2>4 DEF SetJob, Payload, TypeOK, RedisTypeOK
  <2>7. ~Settled(j)'
    BY <1>2, <2>5, <2>6, OwnerKnows DEF Settled
  <2> QED BY <1>2, <2>3, <2>4, <2>5, <2>7, OwnerClears
<1>4. CASE ScheduleRetry(w)
  <2>1. /\ UNCHANGED <<dead, store, ckpt>> /\ Keep(w, cur[w]) /\ Goto(w, "clear")
    BY <1>4 DEF ScheduleRetry, Requeue, Keep, TypeOK
  <2>2. ~Settled(j)'
    BY <1>2, <2>1, OwnerKnows DEF Settled
  <2> QED BY <1>2, <2>1, <2>2, OwnerClears
<1>5. CASE Bury(w)
  <2>1. DeadLetter(j) /\ Keep(w, cur[w]) /\ Goto(w, "clear")
    BY <1>1, <1>5, CalmFaults DEF Bury, Unsure, Keep, TypeOK
  <2>2. UNCHANGED <<store, ckpt>> /\ \A i \in Jobs \ {j} : dead'[i] = dead[i]
    BY <2>1 DEF DeadLetter, TypeOK, RedisTypeOK
  <2>3. Clears(w, j)'
    BY <1>1, <1>5, <2>1 DEF Bury, Clears, Holds, Goto, Keep, ClearInv, BuriedFailed, TypeOK
  <2> QED BY <1>2, <2>1, <2>2, <2>3, OwnerClears
<1>6. ~ScheduleRetryFault(w)
  BY CalmFaults DEF ScheduleRetryFault
<1> QED BY <1>3, <1>4, <1>5, <1>6 DEF HandleFailed

LEMMA EndOfLoopClears ==
    ASSUME Calm, TypeOK, ClearInv, NEW w \in Workers,
           CleanupCheckpoints(w) \/ AckJob(w)
    PROVE  ClearInv'
<1>1. UNCHANGED <<dead, store>> /\ ckpt' \subseteq ckpt
  BY CalmFaults DEF CleanupCheckpoints, ClearChunkCheckpoints, AckJob, Ack, Unsure, redisVars
<1>2. CASE CleanupCheckpoints(w)
  <2>1. Goto(w, "ack") /\ Keep(w, cur[w])
    BY <1>2 DEF CleanupCheckpoints, Keep, TypeOK
  <2>2. ASSUME NEW i \in Jobs, Clears(w, i) PROVE Cleared(i)'
    <3>1. cur[w].job = i /\ cur[w].status \in {"completed", "failed"}
      BY <2>2 DEF Clears, Holds
    <3>2. CASE Kind[i] = "pdf"
      BY <1>2, <3>1, <3>2, CalmFaults
         DEF CleanupCheckpoints, ClearsCheckpoints, ClearChunkCheckpoints, Cleared
    <3> QED BY <3>2 DEF Cleared
  <2>3. \A i \in Jobs : Cleared(i)' \/ LeavesCleared(w, i)
    BY <1>1, <2>2 DEF LeavesCleared, Settled
  <2> QED BY <2>1, <2>3, WorkerStepClears
<1>3. CASE AckJob(w)
  <2>1. Goto(w, "poll") /\ Keep(w, Idle) /\ pc[w] = "ack"
    BY <1>3 DEF AckJob, Release
  <2>2. \A i \in Jobs : LeavesCleared(w, i)
    BY <1>1, <2>1 DEF LeavesCleared, Settled, Clears
  <2> QED BY <2>1, <2>2, WorkerStepClears
<1> QED BY <1>2, <1>3

LEMMA EnvironmentClears ==
    ASSUME Calm, TypeOK, CustodyInv, ClearInv,
           \/ RecoverTick
           \/ \E j \in Jobs : \/ Create(j) \/ AgeMark(j) \/ RetryDue(j)
                              \/ OperatorReplay(j) \/ DayPasses(j)
           \/ \E w \in Workers : Crash(w) \/ Shutdown(w)
    PROVE  ClearInv'
<1>1. UNCHANGED <<pc, cur>>
  BY CalmFaults DEF RecoverTick, Create, AgeMark, RetryDue, OperatorReplay,
     DayPasses, Crash, Shutdown, localVars
<1>2. BuriedFailed' /\ \A w \in Workers, i \in Jobs : Clears(w, i) => Clears(w, i)'
  BY <1>1 DEF ClearInv, BuriedFailed, Clears, Holds
<1>3. ckpt' = ckpt
  BY CalmFaults DEF RecoverTick, Sweep, MoveIds, Create, EnqueueJob, Unsure, AgeMark,
     GrowStale, RetryDue, BecomeDue, OperatorReplay, ReplayDead, DayPasses, Crash, Shutdown
<1>4. ASSUME NEW i \in Jobs PROVE Settled(i)' => Settled(i)
  <2>1. CASE UNCHANGED <<dead, store>>
    BY <2>1 DEF Settled
  <2>2. ASSUME NEW j \in Jobs, Create(j) PROVE Settled(i)' => Settled(i)
    <3>1. store' = [store EXCEPT ![j] = Fresh] /\ UNCHANGED dead
      BY <2>2, CalmFaults DEF Create, EnqueueJob, Unsure
    <3> QED BY <3>1 DEF Settled, TypeOK, RedisTypeOK
  <2>3. ASSUME NEW j \in Jobs, OperatorReplay(j) PROVE Settled(i)' => Settled(i)
    <3>1. /\ store' = [store EXCEPT ![j] = Fresh]
          /\ dead' = [dead EXCEPT ![j] = 0]
      BY <2>3 DEF OperatorReplay, ReplayDead
    <3> QED BY <3>1 DEF Settled, TypeOK, RedisTypeOK
  <2> QED BY <2>1, <2>2, <2>3, CalmFaults
          DEF RecoverTick, Sweep, MoveIds, AgeMark, GrowStale, RetryDue, BecomeDue,
              DayPasses, Crash, Shutdown
<1>5. ASSUME NEW i \in Jobs PROVE Cleared(i)'
  BY <1>2, <1>3, <1>4 DEF ClearInv, Cleared
<1> QED BY <1>2, <1>5 DEF ClearInv

LEMMA ClearStep ==
    ASSUME Calm
    PROVE  TypeOK /\ CustodyInv /\ ClearInv /\ [Next]_vars => ClearInv'
<1> SUFFICES ASSUME TypeOK, CustodyInv, ClearInv, [Next]_vars PROVE ClearInv'
  OBVIOUS
<1>1. CASE Next
  BY <1>1, DequeueClears, ProcessClears, HandleFailedClears, EndOfLoopClears,
     EnvironmentClears DEF Next, WorkerStep
<1>2. CASE UNCHANGED vars
  BY <1>2 DEF vars, redisVars, localVars, ClearInv, BuriedFailed, Cleared, Settled,
              Clears, Holds
<1> QED BY <1>1, <1>2

\* Without faults a settled PDF that no worker holds has no checkpoints, for any number
\* of workers and replays: the run that settles a job clears what it and any run before
\* it have saved, and nothing saves checkpoints of a job that is settled
\* (cleanupTerminalChunkCheckpoints).
THEOREM CheckpointsCleared ==
    ASSUME Calm
    PROVE  Spec => []CheckpointsGo
<1>1. ClearInv => CheckpointsGo
  BY DEF ClearInv, Cleared, CheckpointsGo, Clears, Held
<1>2. Init => ClearInv
  BY DEF Init, RedisInit, ClearInv, BuriedFailed, Cleared
<1> QED BY <1>1, <1>2, CustodyInit, CustodyStep, ClearStep, TypeCorrect, PTL DEF Spec

-------------------------------------------------------------------------------
(* The queue implements JobLifecycle, as long as no fault happens.  The    *)
(* mapping reads the counted tries from the stored payload, but            *)
(* handleFailedJob counts in the worker's copy: the two must agree while a *)
(* worker decides.  And a job that somebody asked for must have a payload, *)
(* or Dequeue would drop it.                                               *)

Counting == {"run", "cleanup", "fail"}
Decided  == {"requeue", "bury"}

\* The payload of j and the copy of the worker that owns it.
Agreed(j) ==
    /\ handler[j] = "new" <=> store[j] = NoRecord
    /\ \A w \in Workers : Owns(w, j) =>
          /\ pc[w] \in Counting => cur[w].attempt = store[j].attempt
          /\ pc[w] = "requeue" => store[j].attempt \in 1..(MaxAttempts - 1)
          /\ pc[w] = "bury" => store[j].attempt > 0
AgreedInv == \A j \in Jobs : Agreed(j)

\* What the mapping makes of one job.
SameLife(j) == Place(j)' = Place(j) /\ Tries(j)' = Tries(j)
Moves(j, from, to) == Place(j) = from /\ Place(j)' = to

JobStep(j) ==
    \/ SameLife(j)
    \/ Moves(j, "absent", "queued") /\ Tries(j)' = Tries(j)
    \/ Moves(j, "queued", "working") /\ Tries(j)' = Tries(j)
    \/ Moves(j, "working", "completed") /\ Tries(j)' = Tries(j)
    \/ /\ Moves(j, "working", "delayed")
       /\ Tries(j)' = Tries(j) + 1
       /\ Tries(j) + 1 < MaxAttempts
    \/ Moves(j, "working", "dead") /\ Tries(j)' = Tries(j) + 1
    \/ Moves(j, "dead", "queued") /\ Tries(j)' = 0

LifeStep == [Lifecycle!Next]_(Lifecycle!lifeVars)

LEMMA JobStepIsLifeStep ==
    ASSUME NEW j \in Jobs, JobStep(j), \A i \in Jobs \ {j} : SameLife(i)
    PROVE  LifeStep
<1> DEFINE P  == [i \in Jobs |-> Place(i)]
           T  == [i \in Jobs |-> Tries(i)]
<1>1. P' = [P EXCEPT ![j] = Place(j)'] /\ T' = [T EXCEPT ![j] = Tries(j)']
  BY DEF SameLife
<1>2. P[j] = Place(j) /\ T[j] = Tries(j)
  OBVIOUS
<1>3. CASE SameLife(j)
  <2>1. P' = P /\ T' = T
    BY <1>3 DEF SameLife
  <2> QED BY <2>1 DEF LifeStep, Lifecycle!lifeVars
<1>4. ASSUME Tries(j)' = Tries(j) PROVE T' = T
  BY <1>4 DEF SameLife
<1>5. CASE Moves(j, "absent", "queued") /\ Tries(j)' = Tries(j)
  <2>1. Lifecycle!Accept(j)
    BY <1>1, <1>2, <1>4, <1>5 DEF Lifecycle!Accept, Lifecycle!Move, Moves
  <2> QED BY <2>1 DEF LifeStep, Lifecycle!Next
<1>6. CASE Moves(j, "queued", "working") /\ Tries(j)' = Tries(j)
  <2>1. Lifecycle!Take(j)
    BY <1>1, <1>2, <1>4, <1>6 DEF Lifecycle!Take, Lifecycle!Move, Moves
  <2> QED BY <2>1 DEF LifeStep, Lifecycle!Next
<1>7. CASE Moves(j, "working", "completed") /\ Tries(j)' = Tries(j)
  <2>1. Lifecycle!Complete(j)
    BY <1>1, <1>2, <1>4, <1>7 DEF Lifecycle!Complete, Lifecycle!Move, Moves
  <2> QED BY <2>1 DEF LifeStep, Lifecycle!Next, Lifecycle!Settle
<1>8. CASE /\ Moves(j, "working", "delayed")
           /\ Tries(j)' = Tries(j) + 1
           /\ Tries(j) + 1 < MaxAttempts
  <2>1. Lifecycle!Delay(j)
    BY <1>1, <1>2, <1>8
       DEF Lifecycle!Delay, Lifecycle!Move, Lifecycle!CountTry, Moves
  <2> QED BY <2>1 DEF LifeStep, Lifecycle!Next
<1>9. CASE Moves(j, "working", "dead") /\ Tries(j)' = Tries(j) + 1
  <2>1. Lifecycle!Bury(j)
    BY <1>1, <1>2, <1>9
       DEF Lifecycle!Bury, Lifecycle!Move, Lifecycle!CountTry, Moves
  <2> QED BY <2>1 DEF LifeStep, Lifecycle!Next, Lifecycle!Settle
<1>10. CASE Moves(j, "dead", "queued") /\ Tries(j)' = 0
  <2>1. Lifecycle!Replay(j)
    BY <1>1, <1>2, <1>10 DEF Lifecycle!Replay, Lifecycle!Move, Moves
  <2> QED BY <2>1 DEF LifeStep, Lifecycle!Next
<1> QED BY <1>3, <1>5, <1>6, <1>7, <1>8, <1>9, <1>10 DEF JobStep

\* What a step does not touch of a job: its lists, its payload, its owners.
Untouched(j) ==
    /\ queue'[j] = queue[j] /\ retry'[j] = retry[j] /\ dead'[j] = dead[j]
    /\ store'[j] = store[j] /\ handler'[j] = handler[j]
    /\ \A v \in Workers : /\ Owns(v, j)' <=> Owns(v, j)
                          /\ Holds(v, j)' <=> Holds(v, j)
                          /\ Holds(v, j) => pc'[v] = pc[v] /\ cur'[v] = cur[v]

LEMMA UntouchedLife ==
    ASSUME NEW j \in Jobs, Untouched(j), Agreed(j)
    PROVE  Agreed(j)' /\ SameLife(j)
<1>1. Agreed(j)'
  BY DEF Untouched, Agreed, Owns
<1>2. Place(j)' = Place(j)
  BY DEF Untouched, Place
<1>3. Tries(j)' = Tries(j)
  BY DEF Untouched, Tries
<1> QED BY <1>1, <1>2, <1>3 DEF SameLife

\* A worker step touches the job it holds before or after, and no other.
LEMMA WorkerTouchesOne ==
    ASSUME TypeOK, NEW w \in Workers, NEW j \in Jobs, cur[w].job \in {j, NoJob},
           NEW step \in Steps, NEW job \in Local, job.job \in {j, NoJob},
           Goto(w, step), Keep(w, job), UNCHANGED handler,
           \A i \in Jobs \ {j} : /\ queue'[i] = queue[i]
                                 /\ retry'[i] = retry[i]
                                 /\ dead'[i] = dead[i]
                                 /\ store'[i] = store[i]
    PROVE  \A i \in Jobs \ {j} : Untouched(i)
<1> SUFFICES ASSUME NEW i \in Jobs, i # j PROVE Untouched(i)
  OBVIOUS
<1>1. i # NoJob
  BY ConstantsAssumption DEF ConstantsAssumption
<1>2. ~Holds(w, i) /\ ~Holds(w, i)'
  BY <1>1 DEF Holds, Keep, TypeOK
<1>3. ASSUME NEW v \in Workers, v # w PROVE pc'[v] = pc[v] /\ cur'[v] = cur[v]
  BY <1>3 DEF Goto, Keep, TypeOK
<1> QED BY <1>2, <1>3 DEF Untouched, Owns, Holds

\* Where the mapping puts a job that a worker owns, before and after a step.
LEMMA OwnedLife ==
    ASSUME TypeOK, CustodyInv, NEW w \in Workers, NEW j \in Jobs, Owns(w, j)
    PROVE  /\ Place(j) = "working"
           /\ pc[w] \in Decided => Tries(j) = store[j].attempt - 1
           /\ pc[w] \notin Decided => Tries(j) = store[j].attempt
<1>1. dead[j] = 0 /\ \A v \in Workers : Owns(v, j) => v = w
  BY OwnerKnows
<1>2. Place(j) = "working"
  BY <1>1 DEF Place
<1>3. \A v \in Workers : Holds(v, j) /\ pc[v] \in Decided => v = w
  BY <1>1 DEF Owns, Decided
<1>4. Holds(w, j)
  BY DEF Owns
<1> QED BY <1>2, <1>3, <1>4 DEF Tries, Decided

LEMMA OwnedLifeNext ==
    ASSUME TypeOK', CustodyInv', NEW w \in Workers, NEW j \in Jobs, Owns(w, j)'
    PROVE  /\ Place(j)' = "working"
           /\ pc'[w] \in Decided => Tries(j)' = store'[j].attempt - 1
           /\ pc'[w] \notin Decided => Tries(j)' = store'[j].attempt
<1>1. Alone(j)'
  BY DEF CustodyInv, Custody
<1>2. dead'[j] = 0 /\ \A v \in Workers : Owns(v, j)' => v = w
  <2>1. ~Settled(j)' /\ \A v \in Workers : Owns(v, j)' => v = w
    BY <1>1 DEF Alone
  <2>2. dead'[j] \in Nat
    BY DEF TypeOK, RedisTypeOK
  <2> QED BY <2>1, <2>2 DEF Settled
<1>3. Place(j)' = "working"
  BY <1>2 DEF Place
<1>4. \A v \in Workers : Holds(v, j)' /\ pc'[v] \in Decided => v = w
  BY <1>2 DEF Owns, Decided
<1>5. Holds(w, j)'
  BY DEF Owns
<1> QED BY <1>3, <1>4, <1>5 DEF Tries, Decided

\* A job that no worker owns is where the store says.
LEMMA LooseLife ==
    ASSUME NEW j \in Jobs, \A v \in Workers : ~Owns(v, j)
    PROVE  /\ Tries(j) = store[j].attempt
           /\ dead[j] > 0 => Place(j) = "dead"
           /\ ~(dead[j] > 0) /\ queue[j] > 0 => Place(j) = "queued"
           /\ ~(dead[j] > 0) /\ ~(queue[j] > 0) =>
                  Place(j) = IF retry[j] # "none" THEN "delayed"
                             ELSE IF store[j].status = "completed" THEN "completed"
                             ELSE "absent"
<1>1. \A v \in Workers : ~(Holds(v, j) /\ pc[v] \in Decided)
  BY DEF Owns, Decided
<1>2. Tries(j) = store[j].attempt
  BY <1>1 DEF Tries, Decided
<1> QED BY <1>2 DEF Place

LEMMA LooseLifeNext ==
    ASSUME NEW j \in Jobs, \A v \in Workers : ~Owns(v, j)'
    PROVE  /\ Tries(j)' = store'[j].attempt
           /\ dead'[j] > 0 => Place(j)' = "dead"
           /\ ~(dead'[j] > 0) /\ queue'[j] > 0 => Place(j)' = "queued"
           /\ ~(dead'[j] > 0) /\ ~(queue'[j] > 0) =>
                  Place(j)' = IF retry'[j] # "none" THEN "delayed"
                              ELSE IF store'[j].status = "completed" THEN "completed"
                              ELSE "absent"
<1>1. \A v \in Workers : ~(Holds(v, j) /\ pc[v] \in Decided)'
  BY DEF Owns, Decided
<1>2. Tries(j)' = store'[j].attempt
  BY <1>1 DEF Tries, Decided
<1> QED BY <1>2 DEF Place

\* The steps of one job: what the others do not notice.
LEMMA OneJobLife ==
    ASSUME NEW j \in Jobs, AgreedInv, \A i \in Jobs \ {j} : Untouched(i),
           Agreed(j)', JobStep(j)
    PROVE  AgreedInv' /\ LifeStep
<1>1. \A i \in Jobs \ {j} : Agreed(i)' /\ SameLife(i)
  BY UntouchedLife DEF AgreedInv
<1>2. AgreedInv'
  BY <1>1 DEF AgreedInv
<1> QED BY <1>1, <1>2, JobStepIsLifeStep

\* A worker that owns its job and goes on owning it: the job stays in work, and
\* its tries are those it read.
LEMMA OwnerStaysLife ==
    ASSUME TypeOK, CustodyInv, AgreedInv, TypeOK', CustodyInv',
           NEW w \in Workers, NEW j \in Jobs,
           Owns(w, j), Owns(w, j)',
           Tries(j)' = Tries(j), Agreed(j)',
           \A i \in Jobs \ {j} : Untouched(i)
    PROVE  AgreedInv' /\ LifeStep
<1>1. Place(j) = "working" /\ Place(j)' = "working"
  BY OwnedLife, OwnedLifeNext
<1>2. JobStep(j)
  BY <1>1 DEF JobStep, SameLife
<1> QED BY <1>2, OneJobLife

LEMMA DequeueLife ==
    ASSUME Calm, TypeOK, CustodyInv, AgreedInv, TypeOK', CustodyInv',
           NEW w \in Workers, Dequeue(w)
    PROVE  AgreedInv' /\ LifeStep
<1>1. CASE DequeueSweep(w)
  <2>1. StaleIds = {}
    BY DEF StaleIds, CustodyInv, Custody, MarkIsHeld
  <2>2. /\ Sweep(TRUE) /\ Goto(w, "pop") /\ pc[w] = "poll"
        /\ UNCHANGED <<dead, store, handler, cur>>
    BY <1>1 DEF DequeueSweep, Sweep, MoveIds
  <2>3. \A j \in Jobs : ~Holds(w, j)
    BY <2>2, ConstantsAssumption DEF Holds, TypeOK, ConstantsAssumption
  <2>4. \A v \in Workers : v # w => pc'[v] = pc[v]
    BY <2>2 DEF Goto, TypeOK
  <2>5. ASSUME NEW j \in Jobs, retry[j] # "due" PROVE Untouched(j)
    <3>1. queue'[j] = queue[j] /\ retry'[j] = retry[j]
      BY <2>1, <2>2, <2>5 DEF Sweep, MoveIds, One, DueIds, TypeOK, RedisTypeOK
    <3> QED BY <2>2, <2>3, <2>4, <3>1 DEF Untouched, Owns, Holds
  <2>6. ASSUME NEW j \in Jobs, retry[j] = "due"
        PROVE  /\ Agreed(j)'
               /\ Moves(j, "delayed", "queued")
               /\ Tries(j)' = Tries(j)
    <3>1. queue'[j] = queue[j] + 1
      BY <2>1, <2>2, <2>6 DEF Sweep, MoveIds, One, DueIds, TypeOK, RedisTypeOK
    <3>2. Alone(j)
      BY DEF CustodyInv, Custody
    <3>3. /\ queue[j] = 0 /\ dead[j] = 0 /\ \A v \in Workers : ~Owns(v, j)
      <4>1. ~Settled(j) /\ queue[j] # 1 /\ queue[j] <= 1 /\ \A v \in Workers : ~Owns(v, j)
        BY <2>6, <3>2 DEF Alone
      <4>2. queue[j] \in Nat /\ dead[j] \in Nat
        BY DEF TypeOK, RedisTypeOK
      <4> QED BY <4>1, <4>2 DEF Settled
    <3>4. \A v \in Workers : ~Owns(v, j)'
      BY <2>2, <2>3, <2>4, <3>3 DEF Owns, Holds
    <3>5. Place(j) = "delayed" /\ Tries(j) = store[j].attempt
      BY <2>6, <3>3, LooseLife
    <3>6. Place(j)' = "queued" /\ Tries(j)' = store'[j].attempt
      BY <2>2, <3>1, <3>3, <3>4, LooseLifeNext
    <3>7. Agreed(j)'
      BY <2>2, <3>4 DEF AgreedInv, Agreed
    <3> QED BY <2>2, <3>5, <3>6, <3>7 DEF Moves
  <2>7. \A j \in Jobs : Agreed(j) /\ (Untouched(j) => Agreed(j)' /\ SameLife(j))
    BY UntouchedLife DEF AgreedInv
  <2>8. AgreedInv'
    BY <2>5, <2>6, <2>7 DEF AgreedInv
  <2>9. Lifecycle!Promote(DueIds)
    <3> DEFINE P  == [i \in Jobs |-> Place(i)]
               T  == [i \in Jobs |-> Tries(i)]
    <3>1. \A j \in DueIds : P[j] = "delayed"
      BY <2>6 DEF DueIds, Moves
    <3>2. ASSUME NEW j \in Jobs
          PROVE  /\ Place(j)' = IF j \in DueIds THEN "queued" ELSE P[j]
                 /\ Tries(j)' = T[j]
      BY <2>5, <2>6, <2>7 DEF DueIds, Moves, SameLife
    <3>3. P' = [j \in Jobs |-> IF j \in DueIds THEN "queued" ELSE P[j]]
      BY <3>2
    <3>4. T' = T
      BY <3>2
    <3> QED BY <3>1, <3>3, <3>4 DEF Lifecycle!Promote
  <2>10. Lifecycle!Next
    BY <2>9 DEF Lifecycle!Next, DueIds
  <2> QED BY <2>8, <2>10 DEF LifeStep
<1>2. CASE DequeuePop(w)
  <2>1. CASE UNCHANGED <<redisVars, cur>> /\ Goto(w, "poll")
    <3>1. \A j \in Jobs : ~Holds(w, j)
      BY <1>2, ConstantsAssumption DEF DequeuePop, Holds, TypeOK, ConstantsAssumption
    <3>2. \A v \in Workers : v # w => pc'[v] = pc[v]
      BY <2>1 DEF Goto, TypeOK
    <3>3. \A j \in Jobs : Untouched(j)
      BY <1>2, <2>1, <3>1, <3>2 DEF DequeuePop, redisVars, Untouched, Owns, Holds
    <3>4. \A j \in Jobs : Agreed(j)' /\ SameLife(j)
      BY <3>3, UntouchedLife DEF AgreedInv
    <3>5. UNCHANGED <<[j \in Jobs |-> Place(j)], [j \in Jobs |-> Tries(j)]>>
      BY <3>4 DEF SameLife
    <3> QED BY <3>4, <3>5 DEF AgreedInv, LifeStep, Lifecycle!lifeVars
  <2>2. CASE \E j \in Jobs : /\ PopToInflight(j)
                             /\ Keep(w, [Idle EXCEPT !.job = j])
                             /\ Goto(w, "mark")
    <3>1. PICK j \in Jobs : /\ PopToInflight(j)
                            /\ Keep(w, [Idle EXCEPT !.job = j])
                            /\ Goto(w, "mark")
      BY <2>2
    <3>2. /\ UNCHANGED <<handler, retry, dead, store>>
          /\ queue[j] > 0
          /\ queue' = [queue EXCEPT ![j] = @ - 1]
      BY <1>2, <3>1 DEF DequeuePop, PopToInflight
    <3>3. pc'[w] = "mark" /\ cur'[w].job = j /\ cur[w].job = NoJob
      BY <1>2, <3>1 DEF DequeuePop, Goto, Keep, TypeOK
    <3>4. \A i \in Jobs \ {j} : Untouched(i)
      <4>1. \A i \in Jobs \ {j} : queue'[i] = queue[i]
        BY <3>2 DEF TypeOK, RedisTypeOK
      <4>2. [Idle EXCEPT !.job = j] \in Local /\ [Idle EXCEPT !.job = j].job = j
        OBVIOUS
      <4> QED BY <3>1, <3>2, <3>3, <4>1, <4>2, WorkerTouchesOne
    <3>5. Alone(j)
      BY DEF CustodyInv, Custody
    <3>6. queue[j] = 1 /\ ~Settled(j) /\ \A v \in Workers : ~Owns(v, j)
      BY <3>2, <3>5 DEF Alone, TypeOK, RedisTypeOK
    <3>7. Owns(w, j)'
      BY <3>3 DEF Owns, Holds
    <3>8. Place(j) = "queued" /\ Tries(j) = store[j].attempt
      BY <3>2, <3>6, LooseLife DEF Settled
    <3>9. Place(j)' = "working" /\ Tries(j)' = store'[j].attempt
      BY <3>3, <3>7, OwnedLifeNext DEF Decided
    <3>10. Agreed(j)'
      <4>1. \A v \in Workers : Owns(v, j)' => v = w
        BY <3>7 DEF CustodyInv, Custody, Alone
      <4>2. handler'[j] = "new" <=> store'[j] = NoRecord
        BY <3>2 DEF AgreedInv, Agreed
      <4> QED BY <3>3, <4>1, <4>2 DEF Agreed, Counting
    <3>11. JobStep(j)
      BY <3>2, <3>8, <3>9 DEF JobStep, Moves
    <3> QED BY <3>4, <3>10, <3>11, OneJobLife
  <2> QED BY <1>2, <2>1, <2>2 DEF DequeuePop
<1>3. CASE DequeueMark(w)
  <2>1. PICK j \in Jobs : j = cur[w].job /\ cur[w] \in Local
    BY <1>3, HolderType DEF DequeueMark
  <2>2. MarkInflight(j) /\ Goto(w, "load") /\ Keep(w, cur[w]) /\ UNCHANGED handler
    BY <1>3, <2>1 DEF DequeueMark, Keep, TypeOK
  <2>3. UNCHANGED <<queue, retry, dead, store>>
    BY <2>2 DEF MarkInflight
  <2>4. pc[w] = "mark" /\ pc'[w] = "load" /\ Owns(w, j) /\ Owns(w, j)'
    BY <1>3, <2>1, <2>2 DEF DequeueMark, Owns, Holds, Goto, Keep, TypeOK
  <2>5. \A i \in Jobs \ {j} : Untouched(i)
    BY <2>1, <2>2, <2>3, WorkerTouchesOne
  <2>6. Tries(j)' = Tries(j)
    BY <2>3, <2>4, OwnedLife, OwnedLifeNext DEF Decided
  <2>7. Agreed(j)'
    <3>1. \A v \in Workers : Owns(v, j)' => v = w
      BY <2>4 DEF CustodyInv, Custody, Alone
    <3>2. handler'[j] = "new" <=> store'[j] = NoRecord
      BY <2>2, <2>3 DEF AgreedInv, Agreed
    <3> QED BY <2>4, <3>1, <3>2 DEF Agreed, Counting
  <2> QED BY <2>4, <2>5, <2>6, <2>7, OwnerStaysLife
<1>4. CASE DequeueLoad(w)
  <2>1. PICK j \in Jobs : j = cur[w].job /\ cur[w] \in Local
    BY <1>4, HolderType DEF DequeueLoad
  <2>2. pc[w] = "load" /\ Owns(w, j)
    BY <1>4, <2>1 DEF DequeueLoad, Owns, Holds
  \* A job in a worker's hands was asked for, so it has a payload.
  <2>3. Exists(j)
    <3>1. handler[j] # "new"
      BY <2>2 DEF CustodyInv, Custody, NewIsNowhere
    <3> QED BY <3>1 DEF AgreedInv, Agreed, Exists
  <2>4. Keep(w, Loaded(cur[w], store[j])) /\ Goto(w, "run")
    BY <1>4, <2>1, <2>3 DEF DequeueLoad
  <2> DEFINE job == Loaded(cur[w], store[j])
  <2>5. job \in Local /\ job.job = j /\ job.attempt = store[j].attempt
    <3>1. store[j] \in JobRecord
      BY <2>3 DEF Exists, TypeOK, RedisTypeOK
    <3> QED BY <2>1, <3>1 DEF Loaded
  <2>6. Keep(w, job)
    BY <2>4
  <2> HIDE DEF job
  <2>7. UNCHANGED <<queue, retry, dead, store, handler>>
    BY <1>4 DEF DequeueLoad, redisVars
  <2>8. pc'[w] = "run" /\ cur'[w] = job
    BY <2>4, <2>6 DEF Goto, Keep, TypeOK
  <2>9. Owns(w, j)'
    BY <2>5, <2>8 DEF Owns, Holds
  <2>10. \A i \in Jobs \ {j} : Untouched(i)
    BY <2>1, <2>4, <2>5, <2>6, <2>7, WorkerTouchesOne
  <2>11. Tries(j)' = Tries(j)
    BY <2>2, <2>7, <2>8, <2>9, OwnedLife, OwnedLifeNext DEF Decided
  <2>12. Agreed(j)'
    <3>1. \A v \in Workers : Owns(v, j)' => v = w
      BY <2>9 DEF CustodyInv, Custody, Alone
    <3>2. handler'[j] = "new" <=> store'[j] = NoRecord
      BY <2>7 DEF AgreedInv, Agreed
    <3> QED BY <2>5, <2>7, <2>8, <3>1, <3>2 DEF Agreed
  <2> QED BY <2>2, <2>9, <2>10, <2>11, <2>12, OwnerStaysLife
<1>5. ~DequeueFault(w)
  BY CalmFaults DEF DequeueFault, Unsure
<1> QED BY <1>1, <1>2, <1>3, <1>4, <1>5 DEF Dequeue

\* A write of the payload by the owner of a job.
LEMMA WriteOwnsOthers ==
    ASSUME TypeOK, NEW w \in Workers, NEW j \in Jobs, Holds(w, j),
           NEW step \in Steps, NEW job \in Local, job.job = j,
           Goto(w, step), Keep(w, job), UNCHANGED handler, SetJob(j, Payload(job))
    PROVE  /\ \A i \in Jobs \ {j} : Untouched(i)
           /\ UNCHANGED <<queue, retry, dead>>
           /\ store'[j] = Payload(job)
           /\ store'[j] # NoRecord
           /\ pc'[w] = step /\ cur'[w] = job
<1>1. UNCHANGED <<queue, retry, dead>> /\ store' = [store EXCEPT ![j] = Payload(job)]
  BY DEF SetJob
<1>2. store'[j] = Payload(job) /\ \A i \in Jobs \ {j} : store'[i] = store[i]
  BY <1>1 DEF TypeOK, RedisTypeOK
<1>3. store'[j] # NoRecord
  BY <1>2, PayloadType
<1>4. pc'[w] = step /\ cur'[w] = job
  BY DEF Goto, Keep, TypeOK
<1>5. \A i \in Jobs \ {j} : Untouched(i)
  BY <1>1, <1>2, WorkerTouchesOne DEF Holds
<1> QED BY <1>1, <1>2, <1>3, <1>4, <1>5

LEMMA ProcessLife ==
    ASSUME Calm, TypeOK, CustodyInv, AgreedInv, TypeOK', CustodyInv',
           NEW w \in Workers,
           Progress(w) \/ SaveCheckpoint(w) \/ Finish(w) \/ SourceCleanup(w)
    PROVE  AgreedInv' /\ LifeStep
<1>1. PICK j \in Jobs : j = cur[w].job /\ cur[w] \in Local
  BY HolderType DEF Progress, SaveCheckpoint, Finish, SourceCleanup
<1>2. handler[j] = "new" <=> store[j] = NoRecord
  BY DEF AgreedInv, Agreed
<1>3. CASE Progress(w)
  <2>1. PICK status \in Status :
            /\ Keep(w, [cur[w] EXCEPT !.status = status])
            /\ SetJob(j, Payload([cur[w] EXCEPT !.status = status]))
    BY <1>1, <1>3, CalmFaults DEF Progress, BestEffortUpdate
  <2> DEFINE job == [cur[w] EXCEPT !.status = status]
  <2>2. job \in Local /\ job.job = j /\ job.attempt = cur[w].attempt
    BY <1>1, <2>1
  <2>3. /\ Keep(w, job) /\ SetJob(j, Payload(job)) /\ Goto(w, "run")
        /\ pc[w] = "run" /\ UNCHANGED handler /\ Holds(w, j)
    BY <1>1, <1>3, <2>1 DEF Progress, Goto, TypeOK, Holds
  <2> HIDE DEF job
  <2>4. /\ \A i \in Jobs \ {j} : Untouched(i)
        /\ store'[j] = Payload(job) /\ store'[j] # NoRecord
        /\ pc'[w] = "run" /\ cur'[w] = job
    BY <2>2, <2>3, WriteOwnsOthers
  <2>5. Owns(w, j) /\ Owns(w, j)'
    BY <2>2, <2>3, <2>4 DEF Owns, Holds
  <2>6. cur[w].attempt = store[j].attempt /\ store[j] # NoRecord /\ handler[j] # "new"
    BY <1>2, <2>3, <2>5 DEF AgreedInv, Agreed, Counting, CustodyInv, Custody, NewIsNowhere
  <2>7. store'[j].attempt = job.attempt
    BY <2>4 DEF Payload
  <2>8. Tries(j)' = Tries(j)
    BY <2>2, <2>3, <2>4, <2>5, <2>6, <2>7, OwnedLife, OwnedLifeNext DEF Decided
  <2>9. Agreed(j)'
    <3>1. \A v \in Workers : Owns(v, j)' => v = w
      BY <2>5 DEF CustodyInv, Custody, Alone
    <3> QED BY <2>3, <2>4, <2>6, <2>7, <3>1 DEF Agreed
  <2> QED BY <2>4, <2>5, <2>8, <2>9, OwnerStaysLife
<1>4. CASE SaveCheckpoint(w)
  <2>1. UNCHANGED <<handler, queue, retry, dead, store, cur, pc>>
    BY <1>4 DEF SaveCheckpoint, SetChunkCheckpoint, localVars
  <2>2. \A i \in Jobs : Untouched(i)
    BY <2>1 DEF Untouched, Owns, Holds
  <2>3. \A i \in Jobs : Agreed(i)' /\ SameLife(i)
    BY <2>2, UntouchedLife DEF AgreedInv
  <2>4. JobStep(j)
    BY <2>3 DEF JobStep
  <2> QED BY <2>2, <2>3, <2>4, OneJobLife
<1>5. CASE Finish(w)
  <2>1. PICK o \in Outcomes(j) :
            /\ Keep(w, [cur[w] EXCEPT !.status = o.status, !.retryable = o.retryable])
            /\ SetJob(j, Payload([cur[w] EXCEPT !.status = o.status,
                                                !.retryable = o.retryable]))
    BY <1>1, <1>5, CalmFaults DEF Finish, BestEffortUpdate
  <2> DEFINE job == [cur[w] EXCEPT !.status = o.status, !.retryable = o.retryable]
  <2>2. o.status \in {"completed", "failed"} /\ o.retryable \in BOOLEAN
    BY <2>1 DEF Outcomes, Success, Failure
  <2>3. /\ job \in Local /\ job.job = j /\ job.attempt = cur[w].attempt
        /\ job.status = o.status
    BY <1>1, <2>2
  <2>4. /\ Keep(w, job) /\ SetJob(j, Payload(job)) /\ Goto(w, "cleanup")
        /\ pc[w] = "run" /\ UNCHANGED handler /\ Holds(w, j)
    BY <1>1, <1>5, <2>1 DEF Finish, Holds
  <2> HIDE DEF job
  <2>5. /\ \A i \in Jobs \ {j} : Untouched(i)
        /\ UNCHANGED <<queue, retry, dead>>
        /\ store'[j] = Payload(job) /\ store'[j] # NoRecord
        /\ pc'[w] = "cleanup" /\ cur'[w] = job
    BY <2>3, <2>4, WriteOwnsOthers
  <2>6. Owns(w, j)
    BY <2>4 DEF Owns, Holds
  <2>7. cur[w].attempt = store[j].attempt /\ store[j] # NoRecord /\ handler[j] # "new"
    BY <1>2, <2>4, <2>6 DEF AgreedInv, Agreed, Counting, CustodyInv, Custody, NewIsNowhere
  <2>8. store'[j].attempt = job.attempt /\ store'[j].status = o.status
    BY <2>3, <2>5 DEF Payload
  <2>9. CASE o.status = "failed"
    <3>1. Owns(w, j)'
      BY <2>3, <2>5, <2>9 DEF Owns, Holds
    <3>2. Tries(j)' = Tries(j)
      BY <2>3, <2>4, <2>5, <2>6, <2>7, <2>8, <3>1, OwnedLife, OwnedLifeNext DEF Decided
    <3>3. Agreed(j)'
      <4>1. \A v \in Workers : Owns(v, j)' => v = w
        BY <3>1 DEF CustodyInv, Custody, Alone
      <4> QED BY <2>4, <2>5, <2>7, <2>8, <4>1 DEF Agreed
    <3> QED BY <2>5, <2>6, <3>1, <3>2, <3>3, OwnerStaysLife
  <2>10. CASE o.status = "completed"
    <3>1. \A v \in Workers : Owns(v, j) => v = w
      BY <2>6, OwnerKnows
    <3>2. \A v \in Workers : ~Owns(v, j)'
      <4>1. ~Owns(w, j)'
        BY <2>3, <2>5, <2>10 DEF Owns
      <4>2. ASSUME NEW v \in Workers, v # w PROVE ~Owns(v, j)'
        <5>1. pc'[v] = pc[v] /\ cur'[v] = cur[v]
          BY <2>4, <4>2 DEF Goto, Keep, TypeOK
        <5> QED BY <3>1, <4>2, <5>1, OthersOwn
      <4> QED BY <4>1, <4>2
    <3>3. queue[j] = 0 /\ retry[j] = "none" /\ dead[j] = 0
      BY <2>6, OwnerKnows
    <3>4. Place(j)' = "completed" /\ Tries(j)' = store'[j].attempt
      BY <2>5, <2>8, <2>10, <3>2, <3>3, LooseLifeNext
    <3>5. Place(j) = "working" /\ Tries(j) = store[j].attempt
      BY <2>4, <2>6, OwnedLife DEF Decided
    <3>6. JobStep(j)
      BY <2>3, <2>7, <2>8, <3>4, <3>5 DEF JobStep, Moves
    <3>7. Agreed(j)'
      BY <2>4, <2>5, <2>7, <3>2 DEF Agreed
    <3> QED BY <2>5, <3>6, <3>7, OneJobLife
  <2> QED BY <2>2, <2>9, <2>10
<1>6. CASE SourceCleanup(w)
  <2>1. UNCHANGED <<handler, queue, retry, dead, store, cur>>
    BY <1>6 DEF SourceCleanup, redisVars
  <2>2. /\ pc[w] = "cleanup" /\ Holds(w, j)
        /\ Goto(w, AfterProcess(cur[w])) /\ Keep(w, cur[w])
    BY <1>1, <1>6, <2>1 DEF SourceCleanup, Holds, Keep, TypeOK
  <2>3. PICK step \in {"fail", "clear"} :
            /\ step = "fail" <=> cur[w].status = "failed"
            /\ Goto(w, step)
    BY <2>2 DEF AfterProcess
  <2>4. \A i \in Jobs \ {j} : Untouched(i)
    BY <1>1, <2>1, <2>2, <2>3, WorkerTouchesOne
  <2>5. pc'[w] = step /\ cur'[w] = cur[w]
    BY <2>1, <2>3 DEF Goto, TypeOK
  <2>6. CASE step = "fail"
    <3>1. Owns(w, j) /\ Owns(w, j)'
      BY <2>2, <2>3, <2>5, <2>6 DEF Owns, Holds
    <3>2. Tries(j)' = Tries(j)
      BY <2>1, <2>2, <2>5, <2>6, <3>1, OwnedLife, OwnedLifeNext DEF Decided
    <3>3. Agreed(j)'
      <4>1. \A v \in Workers : Owns(v, j)' => v = w
        BY <3>1 DEF CustodyInv, Custody, Alone
      <4>2. cur[w].attempt = store[j].attempt
        BY <2>2, <3>1 DEF AgreedInv, Agreed, Counting
      <4> QED BY <1>2, <2>1, <2>5, <2>6, <4>1, <4>2 DEF Agreed
    <3> QED BY <2>4, <3>1, <3>2, <3>3, OwnerStaysLife
  <2>7. CASE step = "clear"
    <3>1. \A v \in Workers : v # w => pc'[v] = pc[v]
      BY <2>3 DEF Goto, TypeOK
    <3>2. ~Owns(w, j) /\ ~Owns(w, j)'
      BY <2>2, <2>3, <2>5, <2>7 DEF Owns
    <3>3. \A v \in Workers : Owns(v, j)' <=> Owns(v, j)
      BY <2>1, <3>1, <3>2 DEF Owns, Holds
    <3>4. Place(j)' = Place(j)
      BY <2>1, <3>3 DEF Place
    <3>5. Tries(j)' = Tries(j)
      BY <2>1, <2>2, <2>5, <2>7, <3>1 DEF Tries, Holds
    <3>6. Agreed(j)'
      BY <2>1, <3>1, <3>2, <3>3 DEF AgreedInv, Agreed
    <3>7. JobStep(j)
      BY <3>4, <3>5 DEF JobStep, SameLife
    <3> QED BY <2>4, <3>6, <3>7, OneJobLife
  <2> QED BY <2>3, <2>6, <2>7
<1> QED BY <1>3, <1>4, <1>5, <1>6

\* A worker gives its job up: nobody owns it afterwards.
LEMMA OwnerGivesUp ==
    ASSUME TypeOK, CustodyInv, NEW w \in Workers, NEW j \in Jobs, Owns(w, j),
           ~Owns(w, j)',
           \A v \in Workers : v # w => pc'[v] = pc[v] /\ cur'[v] = cur[v]
    PROVE  \A v \in Workers : ~Owns(v, j)'
<1>1. \A v \in Workers : Owns(v, j) => v = w
  BY OwnerKnows
<1> QED BY <1>1, OthersOwn

LEMMA HandleFailedLife ==
    ASSUME Calm, TypeOK, CustodyInv, AgreedInv, TypeOK', CustodyInv',
           NEW w \in Workers, HandleFailed(w)
    PROVE  AgreedInv' /\ LifeStep
<1>1. PICK j \in Jobs : j = cur[w].job /\ cur[w] \in Local
  BY HolderType DEF HandleFailed, DecideRetry, ScheduleRetry, ScheduleRetryFault, Bury
<1>2. Owns(w, j) /\ Holds(w, j)
  BY <1>1 DEF HandleFailed, DecideRetry, ScheduleRetry, ScheduleRetryFault, Bury,
              Owns, Holds
<1>3. handler[j] # "new" /\ store[j] # NoRecord /\ store[j].attempt \in Nat
  BY <1>2 DEF AgreedInv, Agreed, CustodyInv, Custody, NewIsNowhere, TypeOK, RedisTypeOK
<1>4. dead[j] = 0 /\ queue[j] = 0 /\ retry[j] = "none"
  BY <1>2, OwnerKnows
<1>5. CASE DecideRetry(w)
  <2>1. PICK overloaded \in Overload :
          LET again == Retries(cur[w], overloaded)
              job   == Verdict(cur[w], again)
          IN  /\ Keep(w, job)
              /\ SetJob(job.job, Payload(job))
              /\ Goto(w, IF again THEN "requeue" ELSE "bury")
    BY <1>5, CalmFaults DEF DecideRetry, Unsure
  <2> DEFINE again == Retries(cur[w], overloaded)
             job   == Verdict(cur[w], again)
  <2>2. again \in BOOLEAN
    BY <1>1 DEF Retries
  <2>3. again => cur[w].attempt + 1 < MaxAttempts
    <3>1. Budget(overloaded) \in {MaxAttempts, MaxAttempts - 1}
      BY DEF Budget
    <3>2. again => cur[w].attempt + 1 < Budget(overloaded)
      BY DEF Retries
    <3>3. MaxAttempts \in Nat /\ cur[w].attempt \in Nat
      BY <1>1, ConstantsAssumption DEF ConstantsAssumption
    <3> HIDE DEF again
    <3> QED BY <3>1, <3>2, <3>3
  <2> HIDE DEF again
  <2>4. job \in Local /\ job.job = j /\ job.attempt = cur[w].attempt + 1
    <3>1. job.attempt = cur[w].attempt + 1
      BY <1>1, <2>2 DEF Verdict
    <3> QED BY <1>1, <2>2, <3>1, VerdictType
  <2>5. PICK step \in Decided : Goto(w, step) /\ (step = "requeue" => again)
    BY <2>1, <2>2 DEF again, Decided
  <2>6. /\ Keep(w, job) /\ SetJob(j, Payload(job)) /\ UNCHANGED handler
        /\ pc[w] = "fail"
    BY <1>5, <2>1, <2>4 DEF DecideRetry, again
  <2> HIDE DEF job
  <2>7. /\ \A i \in Jobs \ {j} : Untouched(i)
        /\ store'[j] = Payload(job) /\ store'[j] # NoRecord
        /\ pc'[w] = step /\ cur'[w] = job
    BY <1>2, <2>4, <2>5, <2>6, WriteOwnsOthers DEF Decided
  <2>8. store'[j].attempt = job.attempt
    BY <2>7 DEF Payload
  <2>9. cur[w].attempt = store[j].attempt
    BY <1>2, <2>6 DEF AgreedInv, Agreed, Counting
  <2>10. Owns(w, j)'
    BY <2>4, <2>5, <2>7 DEF Owns, Holds, Decided
  <2>11. Tries(j) = store[j].attempt /\ Tries(j)' = store'[j].attempt - 1
    BY <1>2, <2>6, <2>7, <2>10, OwnedLife, OwnedLifeNext DEF Decided
  <2>12. Tries(j)' = Tries(j)
    BY <1>3, <2>4, <2>8, <2>9, <2>11
  <2>13. Agreed(j)'
    <3>1. \A v \in Workers : Owns(v, j)' => v = w
      BY <2>10 DEF CustodyInv, Custody, Alone
    <3>2. store'[j].attempt = store[j].attempt + 1
      BY <2>4, <2>8, <2>9
    <3>3. pc'[w] = "requeue" => store[j].attempt + 1 < MaxAttempts
      BY <2>3, <2>5, <2>7, <2>9
    <3>4. pc'[w] = "requeue" => store'[j].attempt \in 1..(MaxAttempts - 1)
      <4>1. PICK n \in Nat : n = store[j].attempt
        BY <1>3
      <4>2. MaxAttempts \in Nat
        BY ConstantsAssumption DEF ConstantsAssumption
      <4> QED BY <3>2, <3>3, <4>1, <4>2
    <3>5. store'[j].attempt > 0
      <4>1. PICK n \in Nat : n = store[j].attempt
        BY <1>3
      <4> QED BY <3>2, <4>1
    <3>6. pc'[w] \notin Counting
      BY <2>5, <2>7 DEF Counting, Decided
    <3> QED BY <1>3, <2>6, <2>7, <3>1, <3>4, <3>5, <3>6 DEF Agreed
  <2> QED BY <1>2, <2>7, <2>10, <2>12, <2>13, OwnerStaysLife
<1>6. CASE ScheduleRetry(w)
  <2>1. /\ Requeue(j) /\ Keep(w, cur[w]) /\ Goto(w, "clear") /\ UNCHANGED handler
        /\ pc[w] = "requeue"
    BY <1>1, <1>6 DEF ScheduleRetry, Keep, TypeOK
  <2>2. /\ UNCHANGED <<queue, dead, store>>
        /\ \A i \in Jobs \ {j} : retry'[i] = retry[i]
        /\ retry'[j] = "waiting"
    BY <2>1 DEF Requeue, TypeOK, RedisTypeOK
  <2>3. \A i \in Jobs \ {j} : Untouched(i)
    BY <1>1, <2>1, <2>2, WorkerTouchesOne
  <2>4. \A v \in Workers : ~Owns(v, j)'
    <3>1. ~Owns(w, j)' /\ \A v \in Workers : v # w => pc'[v] = pc[v] /\ cur'[v] = cur[v]
      BY <2>1 DEF Owns, Goto, Keep, TypeOK
    <3> QED BY <1>2, <3>1, OwnerGivesUp
  <2>5. Place(j) = "working" /\ Tries(j) = store[j].attempt - 1
    BY <1>2, <2>1, OwnedLife DEF Decided
  <2>6. Place(j)' = "delayed" /\ Tries(j)' = store[j].attempt
    BY <1>4, <2>2, <2>4, LooseLifeNext
  <2>7. store[j].attempt \in 1..(MaxAttempts - 1)
    BY <1>2, <2>1 DEF AgreedInv, Agreed
  <2>8. Tries(j)' = Tries(j) + 1 /\ Tries(j) + 1 < MaxAttempts
    <3>1. MaxAttempts \in Nat
      BY ConstantsAssumption DEF ConstantsAssumption
    <3> QED BY <1>3, <2>5, <2>6, <2>7, <3>1
  <2>9. JobStep(j)
    BY <2>5, <2>6, <2>8 DEF JobStep, Moves
  <2>10. Agreed(j)'
    BY <1>3, <2>1, <2>2, <2>4 DEF Agreed
  <2> QED BY <2>3, <2>9, <2>10, OneJobLife
<1>7. ~ScheduleRetryFault(w)
  BY CalmFaults DEF ScheduleRetryFault
<1>8. CASE Bury(w)
  <2>1. /\ DeadLetter(j) /\ Keep(w, cur[w]) /\ Goto(w, "clear") /\ UNCHANGED handler
        /\ pc[w] = "bury"
    BY <1>1, <1>8, CalmFaults DEF Bury, Unsure, Keep, TypeOK
  <2>2. /\ UNCHANGED <<queue, store>>
        /\ \A i \in Jobs \ {j} : retry'[i] = retry[i] /\ dead'[i] = dead[i]
        /\ dead'[j] > 0
    BY <2>1 DEF DeadLetter, TypeOK, RedisTypeOK
  <2>3. \A i \in Jobs \ {j} : Untouched(i)
    BY <1>1, <2>1, <2>2, WorkerTouchesOne
  <2>4. \A v \in Workers : ~Owns(v, j)'
    <3>1. ~Owns(w, j)' /\ \A v \in Workers : v # w => pc'[v] = pc[v] /\ cur'[v] = cur[v]
      BY <2>1 DEF Owns, Goto, Keep, TypeOK
    <3> QED BY <1>2, <3>1, OwnerGivesUp
  <2>5. Place(j) = "working" /\ Tries(j) = store[j].attempt - 1
    BY <1>2, <2>1, OwnedLife DEF Decided
  <2>6. Place(j)' = "dead" /\ Tries(j)' = store[j].attempt
    BY <2>2, <2>4, LooseLifeNext
  <2>7. JobStep(j)
    BY <1>3, <2>5, <2>6 DEF JobStep, Moves
  <2>8. Agreed(j)'
    BY <1>3, <2>1, <2>2, <2>4 DEF Agreed
  <2> QED BY <2>3, <2>7, <2>8, OneJobLife
<1> QED BY <1>5, <1>6, <1>7, <1>8 DEF HandleFailed

LEMMA EndOfLoopLife ==
    ASSUME Calm, TypeOK, CustodyInv, AgreedInv, NEW w \in Workers,
           CleanupCheckpoints(w) \/ AckJob(w)
    PROVE  AgreedInv' /\ LifeStep
<1>1. PICK j \in Jobs : j = cur[w].job /\ cur[w] \in Local
  BY HolderType DEF CleanupCheckpoints, AckJob
<1>2. UNCHANGED <<handler, queue, retry, dead, store>>
  BY CalmFaults DEF CleanupCheckpoints, ClearChunkCheckpoints, AckJob, Ack, Unsure, redisVars
<1>3. /\ pc[w] \in {"clear", "ack"}
      /\ \E step \in {"poll", "ack"} : \E job \in {Idle, cur[w]} :
             Goto(w, step) /\ Keep(w, job)
  BY <1>1 DEF CleanupCheckpoints, AckJob, Release, Keep, TypeOK
<1>4. PICK step \in {"poll", "ack"}, job \in {Idle, cur[w]} : Goto(w, step) /\ Keep(w, job)
  BY <1>3
<1>5. \A i \in Jobs \ {j} : Untouched(i)
  <2>1. job \in Local /\ job.job \in {j, NoJob}
    <3>1. Idle \in Local /\ Idle.job = NoJob
      OBVIOUS
    <3>2. CASE job = Idle
      BY <3>1, <3>2
    <3>3. CASE job = cur[w]
      BY <1>1, <3>3
    <3> QED BY <1>4, <3>2, <3>3
  <2> QED BY <1>1, <1>2, <1>4, <2>1, WorkerTouchesOne
<1>6. /\ ~Owns(w, j) /\ ~Owns(w, j)'
      /\ pc[w] \notin Decided /\ pc'[w] \notin Decided
  BY <1>3, <1>4 DEF Owns, Goto, TypeOK, Decided
<1>7. \A v \in Workers : v # w => pc'[v] = pc[v] /\ cur'[v] = cur[v]
  BY <1>4 DEF Goto, Keep, TypeOK
<1>8. \A v \in Workers : Owns(v, j)' <=> Owns(v, j)
  BY <1>6, <1>7, OthersOwn
<1>9. Place(j)' = Place(j)
  BY <1>2, <1>8 DEF Place
<1>10. Tries(j)' = Tries(j)
  <2>1. \A v \in Workers : (Holds(v, j) /\ pc[v] \in Decided)'
                               <=> Holds(v, j) /\ pc[v] \in Decided
    BY <1>6, <1>7 DEF Holds
  <2> QED BY <1>2, <2>1 DEF Tries, Decided
<1>11. Agreed(j)'
  <2>1. \A v \in Workers : Owns(v, j)' => Owns(v, j) /\ pc'[v] = pc[v] /\ cur'[v] = cur[v]
    BY <1>6, <1>7, <1>8
  <2> QED BY <1>2, <2>1 DEF AgreedInv, Agreed
<1>12. JobStep(j)
  BY <1>9, <1>10 DEF JobStep, SameLife
<1> QED BY <1>5, <1>11, <1>12, OneJobLife

LEMMA EnvironmentLife ==
    ASSUME Calm, TypeOK, CustodyInv, AgreedInv,
           \/ RecoverTick
           \/ \E j \in Jobs : \/ Create(j) \/ AgeMark(j) \/ RetryDue(j)
                              \/ OperatorReplay(j) \/ DayPasses(j)
           \/ \E w \in Workers : Crash(w) \/ Shutdown(w)
    PROVE  AgreedInv' /\ LifeStep
<1>1. UNCHANGED <<pc, cur>>
  BY CalmFaults DEF RecoverTick, Create, AgeMark, RetryDue, OperatorReplay,
     DayPasses, Crash, Shutdown, localVars
<1>2. \A v \in Workers, i \in Jobs : /\ Owns(v, i)' <=> Owns(v, i)
                                     /\ Holds(v, i)' <=> Holds(v, i)
  BY <1>1 DEF Owns, Holds
<1>3. \A i \in Jobs : Custody(i) /\ Agreed(i)
  BY DEF CustodyInv, AgreedInv
<1>4. ~RecoverTick
  BY <1>3 DEF RecoverTick, Custody, MarkIsHeld
<1>5. ASSUME NEW j \in Jobs, Create(j) PROVE AgreedInv' /\ LifeStep
  <2>1. /\ EnqueueJob(j) /\ handler[j] = "new"
        /\ handler' = [handler EXCEPT ![j] = "accepted"]
    BY <1>5, CalmFaults DEF Create, Unsure
  <2>2. /\ UNCHANGED <<retry, dead>>
        /\ queue' = [queue EXCEPT ![j] = @ + 1]
        /\ store' = [store EXCEPT ![j] = Fresh]
    BY <2>1 DEF EnqueueJob
  <2>3. ASSUME NEW i \in Jobs \ {j} PROVE Untouched(i)
    <3>1. queue'[i] = queue[i] /\ store'[i] = store[i] /\ handler'[i] = handler[i]
      BY <2>1, <2>2 DEF TypeOK, RedisTypeOK
    <3> QED BY <1>1, <1>2, <2>2, <3>1 DEF Untouched
  <2>4. /\ queue[j] = 0 /\ retry[j] = "none" /\ dead[j] = 0 /\ store[j] = NoRecord
        /\ \A v \in Workers : ~Owns(v, j)
    BY <1>3, <2>1 DEF Custody, NewIsNowhere, Agreed
  <2>5. queue'[j] = 1 /\ handler'[j] = "accepted" /\ store'[j] = Fresh
    BY <2>1, <2>2, <2>4 DEF TypeOK, RedisTypeOK
  <2>6. Place(j) = "absent" /\ Tries(j) = 0
    BY <2>4, LooseLife
  <2>7. Place(j)' = "queued" /\ Tries(j)' = 0
    BY <1>2, <2>2, <2>4, <2>5, LooseLifeNext
  <2>8. JobStep(j) /\ Agreed(j)'
    <3>1. JobStep(j)
      BY <2>6, <2>7 DEF JobStep, Moves
    <3>2. \A v \in Workers : ~Owns(v, j)'
      BY <1>2, <2>4
    <3> QED BY <2>5, <3>1, <3>2 DEF Agreed
  <2> QED BY <2>3, <2>8, OneJobLife
<1>6. ~\E j \in Jobs : AgeMark(j)
  \* A held job would need a fault, and any other has no mark.
  BY <1>3, CalmFaults DEF AgeMark, GrowStale, Custody, MarkIsHeld
<1>7. ASSUME NEW j \in Jobs, RetryDue(j) PROVE AgreedInv' /\ LifeStep
  <2>1. /\ UNCHANGED <<handler, queue, dead, store>>
        /\ retry[j] # "none" /\ retry'[j] # "none"
        /\ \A i \in Jobs \ {j} : retry'[i] = retry[i]
    BY <1>7 DEF RetryDue, BecomeDue, localVars, TypeOK, RedisTypeOK
  <2>2. \A i \in Jobs \ {j} : Untouched(i)
    BY <1>1, <1>2, <2>1 DEF Untouched
  <2>3. Place(j)' = Place(j)
    BY <1>2, <2>1 DEF Place
  <2>4. Tries(j)' = Tries(j)
    BY <1>1, <1>2, <2>1 DEF Tries
  <2>5. Agreed(j)'
    BY <1>1, <1>2, <1>3, <2>1 DEF Agreed
  <2>6. JobStep(j)
    BY <2>3, <2>4 DEF JobStep, SameLife
  <2> QED BY <2>2, <2>5, <2>6, OneJobLife
<1>8. ASSUME NEW j \in Jobs, OperatorReplay(j) PROVE AgreedInv' /\ LifeStep
  <2>1. ReplayDead(j) /\ UNCHANGED handler
    BY <1>8 DEF OperatorReplay
  <2>2. ASSUME NEW i \in Jobs \ {j} PROVE Untouched(i)
    <3>1. /\ queue'[i] = queue[i] /\ retry'[i] = retry[i]
          /\ store'[i] = store[i] /\ dead'[i] = dead[i]
      BY <2>1 DEF ReplayDead, TypeOK, RedisTypeOK
    <3> QED BY <1>1, <1>2, <2>1, <3>1 DEF Untouched
  <2>3. dead[j] > 0 /\ Settled(j) /\ \A v \in Workers : ~Owns(v, j)
    BY <1>3, <2>1 DEF ReplayDead, Settled, Custody, Alone
  <2>4. dead'[j] = 0 /\ queue'[j] > 0 /\ store'[j] = Fresh
    BY <2>1 DEF ReplayDead, TypeOK, RedisTypeOK
  <2>5. Place(j) = "dead"
    BY <2>3, LooseLife
  <2>6. Place(j)' = "queued" /\ Tries(j)' = 0
    BY <1>2, <2>3, <2>4, LooseLifeNext
  <2>7. JobStep(j)
    BY <2>5, <2>6 DEF JobStep, Moves
  <2>8. Agreed(j)'
    <3>1. handler[j] # "new"
      BY <1>3, <2>3 DEF Custody, NewIsNowhere
    <3>2. \A v \in Workers : ~Owns(v, j)'
      BY <1>2, <2>3
    <3> QED BY <2>1, <2>4, <3>1, <3>2 DEF Agreed
  <2> QED BY <2>2, <2>7, <2>8, OneJobLife
<1>9. /\ ~\E j \in Jobs : DayPasses(j)
      /\ ~\E w \in Workers : Crash(w) \/ Shutdown(w)
  BY CalmFaults DEF DayPasses, Crash, Shutdown
<1> QED BY <1>4, <1>5, <1>6, <1>7, <1>8, <1>9

LEMMA LifeInit == Init => AgreedInv /\ Lifecycle!Init
<1> SUFFICES ASSUME Init PROVE AgreedInv /\ Lifecycle!Init
  OBVIOUS
<1>1. \A w \in Workers, j \in Jobs : ~Owns(w, j)
  BY DEF Init, Owns
<1>2. \A j \in Jobs : /\ queue[j] = 0 /\ retry[j] = "none" /\ dead[j] = 0
                      /\ store[j] = NoRecord /\ handler[j] = "new"
  BY DEF Init, RedisInit
<1>3. AgreedInv
  BY <1>1, <1>2 DEF AgreedInv, Agreed
<1>4. ASSUME NEW j \in Jobs PROVE Place(j) = "absent" /\ Tries(j) = 0
  <2>1. ~(dead[j] > 0) /\ ~(queue[j] > 0)
    BY <1>2
  <2>2. store[j].status = "absent" /\ store[j].attempt = 0
    BY <1>2
  <2> QED BY <1>1, <1>2, <2>1, <2>2, LooseLife
<1>5. Lifecycle!Init
  BY <1>4 DEF Lifecycle!Init
<1> QED BY <1>3, <1>5

LEMMA LifeStepCorrect ==
    ASSUME Calm
    PROVE  TypeOK /\ TypeOK' /\ CustodyInv /\ CustodyInv' /\ AgreedInv /\ [Next]_vars
               => AgreedInv' /\ LifeStep
<1> SUFFICES ASSUME TypeOK, TypeOK', CustodyInv, CustodyInv', AgreedInv, [Next]_vars
             PROVE  AgreedInv' /\ LifeStep
  OBVIOUS
<1>1. CASE Next
  BY <1>1, DequeueLife, ProcessLife, HandleFailedLife, EndOfLoopLife, EnvironmentLife
     DEF Next, WorkerStep
<1>2. CASE UNCHANGED vars
  <2>1. UNCHANGED <<handler, queue, retry, dead, store, cur, pc>>
    BY <1>2 DEF vars, redisVars, localVars
  <2>2. \A i \in Jobs : Untouched(i)
    BY <2>1 DEF Untouched, Owns, Holds
  <2>3. \A i \in Jobs : Agreed(i)' /\ SameLife(i)
    BY <2>2, UntouchedLife DEF AgreedInv
  <2>4. UNCHANGED <<[j \in Jobs |-> Place(j)], [j \in Jobs |-> Tries(j)]>>
    BY <2>3 DEF SameLife
  <2> QED BY <2>3, <2>4 DEF AgreedInv, LifeStep, Lifecycle!lifeVars
<1> QED BY <1>1, <1>2

\* Without faults every behaviour of the queue is one of the life cycle: a job
\* moves only from place to place as JobLifecycle says, whatever the commands
\* of the workers in between, each failed try is counted once, and a job is
\* delayed only while its budget lasts (Dequeue, handleFailedJob, ReplayDead).
\* The safety part of ImplementsLifecycle; that a job ends is left to TLC.
THEOREM LifecycleCorrect ==
    ASSUME Calm
    PROVE  Spec => Lifecycle!Spec
<1>1. LifeStep <=> [Lifecycle!Next]_(Lifecycle!lifeVars)
  BY DEF LifeStep
<1> QED BY <1>1, CustodyInit, CustodyStep, LifeInit, LifeStepCorrect, TypeCorrect, PTL
        DEF Spec, Lifecycle!Spec

-------------------------------------------------------------------------------
(* When faults happen, by counting: how many workers have a job in memory, *)
(* how many of them still owe it an outcome, and how many entries of its   *)
(* id the lists have.                                                      *)

Holders(j) == {w \in Workers : Holds(w, j)}
Owners(j)  == {w \in Workers : Owns(w, j)}

Bit(b) == IF b THEN 1 ELSE 0

-------------------------------------------------------------------------------
(* Counting workers.                                                       *)

LEMMA Counts ==
    ASSUME IsFiniteSet(Workers), NEW j
    PROVE  /\ Cardinality(Holders(j)) \in Nat
           /\ Cardinality(Owners(j)) \in Nat
           /\ Cardinality(Owners(j)) <= Cardinality(Holders(j))
           /\ Held(j) <=> Cardinality(Holders(j)) > 0
<1>1. Holders(j) \subseteq Workers /\ Owners(j) \subseteq Holders(j)
  BY DEF Holders, Owners, Owns
<1>2. IsFiniteSet(Holders(j))
  BY <1>1, FS_Subset
<1>3. /\ IsFiniteSet(Owners(j))
      /\ Cardinality(Owners(j)) <= Cardinality(Holders(j))
  BY <1>1, <1>2, FS_Subset
<1>4. Cardinality(Holders(j)) \in Nat /\ Cardinality(Owners(j)) \in Nat
  BY <1>2, <1>3, FS_CardinalityType
<1>5. Cardinality(Holders(j)) = 0 <=> Holders(j) = {}
  BY <1>2, FS_EmptySet
<1>6. Held(j) <=> Holders(j) # {}
  BY DEF Held, Holders
<1> QED BY <1>3, <1>4, <1>5, <1>6

LEMMA OneOut ==
    ASSUME NEW S, NEW T, NEW w, IsFiniteSet(S), IsFiniteSet(T),
           S \ {w} = T \ {w}
    PROVE  Cardinality(T) = Cardinality(S) - Bit(w \in S) + Bit(w \in T)
<1>1. /\ Cardinality(S) \in Nat /\ Cardinality(T) \in Nat
  BY FS_CardinalityType
<1>2. Cardinality(S \ {w}) = IF w \in S THEN Cardinality(S) - 1 ELSE Cardinality(S)
  BY FS_RemoveElement
<1>3. Cardinality(T \ {w}) = IF w \in T THEN Cardinality(T) - 1 ELSE Cardinality(T)
  BY FS_RemoveElement
<1> QED BY <1>1, <1>2, <1>3 DEF Bit

\* A step of worker w: the others stay where they are.
OnlyMoves(w) == \A v \in Workers \ {w} : pc'[v] = pc[v] /\ cur'[v] = cur[v]

LEMMA StepCounts ==
    ASSUME IsFiniteSet(Workers), NEW w \in Workers, NEW j, OnlyMoves(w)
    PROVE  /\ Cardinality(Holders(j))' =
                Cardinality(Holders(j)) - Bit(Holds(w, j)) + Bit(Holds(w, j)')
           /\ Cardinality(Owners(j))' =
                Cardinality(Owners(j)) - Bit(Owns(w, j)) + Bit(Owns(w, j)')
           /\ Cardinality(Holders(j))' \in Nat
           /\ Cardinality(Owners(j))' \in Nat
           /\ Cardinality(Owners(j))' <= Cardinality(Holders(j))'
           /\ Held(j)' <=> Cardinality(Holders(j))' > 0
           /\ Owns(w, j)' => Cardinality(Owners(j))' > 0
<1>1. \A v \in Workers \ {w} : Holds(v, j)' <=> Holds(v, j)
  BY DEF OnlyMoves, Holds
<1>2. \A v \in Workers \ {w} : Owns(v, j)' <=> Owns(v, j)
  BY DEF OnlyMoves, Owns, Holds
<1>3. /\ IsFiniteSet(Holders(j)) /\ IsFiniteSet(Holders(j)')
      /\ IsFiniteSet(Owners(j)) /\ IsFiniteSet(Owners(j)')
  <2>1. /\ Holders(j) \subseteq Workers /\ Holders(j)' \subseteq Workers
        /\ Owners(j) \subseteq Workers /\ Owners(j)' \subseteq Workers
    BY DEF Holders, Owners
  <2> QED BY <2>1, FS_Subset
<1>4. Holders(j) \ {w} = Holders(j)' \ {w} /\ Owners(j) \ {w} = Owners(j)' \ {w}
  BY <1>1, <1>2 DEF Holders, Owners
<1>5. /\ w \in Holders(j) <=> Holds(w, j)
      /\ w \in Holders(j)' <=> Holds(w, j)'
      /\ w \in Owners(j) <=> Owns(w, j)
      /\ w \in Owners(j)' <=> Owns(w, j)'
  BY DEF Holders, Owners
<1>6. Cardinality(Holders(j)') =
        Cardinality(Holders(j)) - Bit(w \in Holders(j)) + Bit(w \in Holders(j)')
  BY <1>3, <1>4, OneOut
<1>7. Cardinality(Owners(j)') =
        Cardinality(Owners(j)) - Bit(w \in Owners(j)) + Bit(w \in Owners(j)')
  BY <1>3, <1>4, OneOut
<1>8. Owners(j)' \subseteq Holders(j)'
  BY DEF Holders, Owners, Owns
<1>9. /\ Cardinality(Holders(j)') \in Nat
      /\ Cardinality(Owners(j)') \in Nat
      /\ Cardinality(Owners(j)') <= Cardinality(Holders(j)')
  BY <1>3, <1>8, FS_CardinalityType, FS_Subset
<1>10. Held(j)' <=> Cardinality(Holders(j)') > 0
  <2>1. Held(j)' <=> Holders(j)' # {}
    BY DEF Held, Holds, Holders
  <2>2. Cardinality(Holders(j)') = 0 <=> Holders(j)' = {}
    BY <1>3, FS_EmptySet
  <2> QED BY <1>9, <2>1, <2>2
<1>11. Owns(w, j)' => Cardinality(Owners(j)') > 0
  <2>1. Cardinality(Owners(j)') = 0 <=> Owners(j)' = {}
    BY <1>3, FS_EmptySet
  <2> QED BY <1>5, <1>9, <2>1
<1> QED BY <1>5, <1>6, <1>7, <1>9, <1>10, <1>11 DEF Bit

\* What each command leaves alone.
Outside(k) ==
    \A i \in Jobs \ {k} :
        /\ queue'[i] = queue[i] /\ inflight'[i] = inflight[i]
        /\ mark'[i] = mark[i] /\ retry'[i] = retry[i]
        /\ dead'[i] = dead[i] /\ store'[i] = store[i]

LEMMA OpOutside ==
    ASSUME TypeOK, NEW k \in Jobs,
           \/ EnqueueJob(k) \/ ExpireJob(k)
           \/ \E record \in JobRecord : SetJob(k, record)
           \/ SetChunkCheckpoint(k) \/ ClearChunkCheckpoints(k)
           \/ PopToInflight(k) \/ MarkInflight(k) \/ AckRemove(k) \/ Ack(k)
           \/ Requeue(k) \/ DeadLetterPush(k) \/ DeadLetter(k) \/ ReplayDead(k)
           \/ GrowStale(k) \/ BecomeDue(k)
           \/ UNCHANGED redisVars
    PROVE  Outside(k)
BY DEF Outside, TypeOK, RedisTypeOK, EnqueueJob, ExpireJob, SetJob, SetChunkCheckpoint,
       ClearChunkCheckpoints, PopToInflight, MarkInflight, AckRemove, Ack, Requeue,
       DeadLetterPush, DeadLetter, ReplayDead, GrowStale, BecomeDue, redisVars, listVars

-------------------------------------------------------------------------------
(* Every fault adds at most one copy.  A copy is an entry that a worker     *)
(* will take from the queue or the retries, a worker that owes an outcome,  *)
(* or an entry that RecoverStale will find once its mark is old enough.     *)

Orphan(j) ==
    \/ mark[j] = "stale"
    \/ mark[j] = "fresh" /\ Cardinality(Holders(j)) = 0

Bounded(j) ==
    queue[j] + Bit(retry[j] # "none") + Cardinality(Owners(j)) + Bit(Orphan(j))
        <= 1 + faults + replays

Unborn(j) ==
    handler[j] = "new" =>
        /\ queue[j] = 0 /\ retry[j] = "none" /\ mark[j] = "none" /\ dead[j] = 0
        /\ Cardinality(Holders(j)) = 0

CopiesInv == \A j \in Jobs : Bounded(j) /\ Unborn(j)

\* A step of a worker concerns its own job only.
LEMMA OwnJobCopies ==
    ASSUME IsFiniteSet(Workers), TypeOK, CopiesInv,
           NEW w \in Workers, NEW k \in Jobs,
           Holds(w, k), cur'[w].job \in {k, NoJob}, OnlyMoves(w), Outside(k),
           UNCHANGED <<handler, replays>>, faults' \in {faults, faults + 1},
           Bounded(k)'
    PROVE  CopiesInv'
<1> SUFFICES ASSUME NEW j \in Jobs PROVE (Bounded(j) /\ Unborn(j))'
  BY DEF CopiesInv
<1>1. Bounded(j) /\ Unborn(j)
  BY DEF CopiesInv
<1>2. handler[k] # "new"
  <2>1. Cardinality(Holders(k)) > 0
    BY Counts DEF Held
  <2> QED BY <2>1 DEF CopiesInv, Unborn
<1>3. CASE j = k
  BY <1>2, <1>3 DEF Unborn
<1>4. CASE j # k
  <2>1. ~Holds(w, j) /\ ~Holds(w, j)' /\ ~Owns(w, j) /\ ~Owns(w, j)'
    BY <1>4, ConstantsAssumption DEF Holds, Owns, ConstantsAssumption
  <2>2. /\ Cardinality(Holders(j))' = Cardinality(Holders(j))
        /\ Cardinality(Owners(j))' = Cardinality(Owners(j))
    BY <2>1, StepCounts, Counts DEF Bit
  <2>3. /\ queue'[j] = queue[j] /\ retry'[j] = retry[j]
        /\ mark'[j] = mark[j] /\ dead'[j] = dead[j]
    BY <1>4 DEF Outside
  <2>4. faults \in Nat /\ replays \in Nat /\ queue[j] \in Nat
    BY DEF TypeOK, RedisTypeOK
  <2> QED BY <1>1, <2>2, <2>3, <2>4, Counts DEF Bounded, Orphan, Unborn, Bit
<1> QED BY <1>3, <1>4

\* The numbers of Bounded.
LEMMA CopyTypes ==
    ASSUME IsFiniteSet(Workers), TypeOK, NEW j \in Jobs
    PROVE  /\ queue[j] \in Nat /\ inflight[j] \in Nat
           /\ faults \in Nat /\ replays \in Nat
           /\ Cardinality(Holders(j)) \in Nat /\ Cardinality(Owners(j)) \in Nat
           /\ Cardinality(Owners(j)) <= Cardinality(Holders(j))
           /\ retry[j] \in {"none", "waiting", "due"}
           /\ mark[j] \in {"none", "fresh", "stale"}
BY Counts DEF TypeOK, RedisTypeOK

\* A worker that keeps its job, or gives it up with a fault, adds no copy unless it
\* gives the job to another list instead.
LEMMA HolderCopies ==
    ASSUME IsFiniteSet(Workers), TypeOK, CopiesInv,
           NEW w \in Workers, NEW k \in Jobs,
           Holds(w, k), OnlyMoves(w), queue'[k] = queue[k], replays' = replays,
           mark'[k] \in {mark[k], "none", "fresh"},
           \/ Holds(w, k)' /\ faults' \in {faults, faults + 1}
           \/ mark'[k] = "none" /\ faults' \in {faults, faults + 1}
           \/ faults' = faults + 1,
           \/ /\ Owns(w, k)' => Owns(w, k)
              /\ retry'[k] # "none" => retry[k] # "none"
           \/ Owns(w, k) /\ ~Owns(w, k)'
    PROVE  Bounded(k)'
<1>1. Bounded(k)
  BY DEF CopiesInv
<1>2. /\ Cardinality(Holders(k))' =
           Cardinality(Holders(k)) - Bit(Holds(w, k)) + Bit(Holds(w, k)')
      /\ Cardinality(Owners(k))' =
           Cardinality(Owners(k)) - Bit(Owns(w, k)) + Bit(Owns(w, k)')
      /\ Cardinality(Holders(k))' \in Nat /\ Cardinality(Owners(k))' \in Nat
  BY StepCounts
<1>3. Cardinality(Holders(k)) > 0
  BY Counts DEF Held
<1>4. Bit(retry[k] # "none")' + Cardinality(Owners(k))'
        <= Bit(retry[k] # "none") + Cardinality(Owners(k))
  BY <1>2, CopyTypes DEF Bit
<1>5. Bit(Orphan(k))' <= Bit(Orphan(k)) + (faults' - faults)
  BY <1>2, <1>3, CopyTypes DEF Bit, Orphan
<1>6. /\ Bit(retry[k] # "none") \in Nat /\ Bit(retry[k] # "none")' \in Nat
      /\ Bit(Orphan(k)) \in Nat /\ Bit(Orphan(k))' \in Nat
  BY DEF Bit
<1>7. queue[k] \in Nat /\ faults \in Nat /\ replays \in Nat /\ faults' \in Nat
      /\ Cardinality(Owners(k)) \in Nat
  BY CopyTypes
<1> QED BY <1>1, <1>2, <1>4, <1>5, <1>6, <1>7 DEF Bounded

\* Both together: all that is left to show for a step of a worker that holds a job.
LEMMA HolderStepCopies ==
    ASSUME IsFiniteSet(Workers), TypeOK, CopiesInv,
           NEW w \in Workers, NEW k \in Jobs,
           Holds(w, k), cur'[w].job \in {k, NoJob}, OnlyMoves(w), Outside(k),
           UNCHANGED <<handler, replays, queue>>,
           faults' \in {faults, faults + 1},
           mark'[k] \in {mark[k], "none", "fresh"},
           Holds(w, k)' \/ mark'[k] = "none" \/ faults' = faults + 1,
           \/ /\ Owns(w, k)' => Owns(w, k)
              /\ retry'[k] # "none" => retry[k] # "none"
           \/ Owns(w, k) /\ ~Owns(w, k)'
    PROVE  CopiesInv'
<1>1. Bounded(k)'
  BY HolderCopies
<1> QED BY <1>1, OwnJobCopies

LEMMA MoveFacts ==
    ASSUME TypeOK, NEW w \in Workers, NEW step \in Steps, NEW job \in Local,
           Goto(w, step), Keep(w, job)
    PROVE  /\ OnlyMoves(w)
           /\ pc'[w] = step /\ cur'[w] = job
BY DEF TypeOK, Goto, Keep, OnlyMoves

LEMMA GotoFacts ==
    ASSUME TypeOK, NEW w \in Workers, NEW step \in Steps,
           Goto(w, step), UNCHANGED cur
    PROVE  /\ OnlyMoves(w)
           /\ pc'[w] = step /\ cur'[w] = cur[w]
BY DEF TypeOK, Goto, OnlyMoves

\* A sweep moves ids and takes their marks; no worker moves with it, or one that
\* holds nothing.
LEMMA SweepCopies ==
    ASSUME IsFiniteSet(Workers), TypeOK, CopiesInv,
           NEW promote \in BOOLEAN, Sweep(promote),
           UNCHANGED <<handler, cur, faults, replays>>,
           \A j \in Jobs : \A v \in Workers : Owns(v, j)' <=> Owns(v, j)
    PROVE  CopiesInv'
<1> SUFFICES ASSUME NEW j \in Jobs PROVE (Bounded(j) /\ Unborn(j))'
  BY DEF CopiesInv
<1>1. Bounded(j) /\ Unborn(j)
  BY DEF CopiesInv
<1>2. Holders(j)' = Holders(j) /\ Owners(j)' = Owners(j)
  BY DEF Holders, Owners, Holds
<1>3. /\ queue'[j] = queue[j] + One(j, StaleIds)
                              + One(j, IF promote THEN DueIds ELSE {})
      /\ retry'[j] = IF j \in (IF promote THEN DueIds ELSE {}) THEN "none" ELSE retry[j]
      /\ mark'[j] = IF mark[j] = "stale" THEN "none" ELSE mark[j]
      /\ dead' = dead
  BY DEF Sweep, MoveIds, ClearStale
<1>4. Bit(Orphan(j))' + One(j, StaleIds) <= Bit(Orphan(j))
  BY <1>2, <1>3, CopyTypes DEF Bit, Orphan, One, StaleIds
<1>5. Bit(retry[j] # "none")' + One(j, IF promote THEN DueIds ELSE {})
        <= Bit(retry[j] # "none")
  BY <1>3, CopyTypes DEF Bit, One, DueIds
<1>6. /\ Bit(Orphan(j))' \in Nat /\ Bit(Orphan(j)) \in Nat
      /\ Bit(retry[j] # "none")' \in Nat /\ Bit(retry[j] # "none") \in Nat
      /\ One(j, StaleIds) \in Nat /\ One(j, IF promote THEN DueIds ELSE {}) \in Nat
  BY DEF Bit, One
<1>7. Bounded(j)'
  BY <1>1, <1>2, <1>3, <1>4, <1>5, <1>6, CopyTypes DEF Bounded
<1>8. Unborn(j)'
  <2>1. ASSUME handler[j] = "new"
        PROVE  One(j, StaleIds) = 0 /\ One(j, IF promote THEN DueIds ELSE {}) = 0
    BY <1>1, <2>1 DEF Unborn, One, StaleIds, DueIds
  <2> QED BY <1>1, <1>2, <1>3, <2>1 DEF Unborn
<1> QED BY <1>7, <1>8

LEMMA DequeueCopies ==
    ASSUME IsFiniteSet(Workers), TypeOK, CopiesInv, NEW w \in Workers, Dequeue(w)
    PROVE  CopiesInv'
<1>1. CASE DequeueSweep(w)
  <2>1. \A j \in Jobs : \A v \in Workers : Owns(v, j)' <=> Owns(v, j)
    BY <1>1 DEF DequeueSweep, Owns, Holds, Goto, TypeOK
  <2> QED BY <1>1, <2>1, SweepCopies DEF DequeueSweep
<1>2. CASE DequeuePop(w)
  <2>1. CASE Goto(w, "poll") /\ UNCHANGED <<redisVars, cur>>
    <3>1. ASSUME NEW j \in Jobs
          PROVE  Holders(j)' = Holders(j) /\ Owners(j)' = Owners(j)
      BY <1>2, <2>1 DEF DequeuePop, Holders, Owners, Owns, Holds, Goto, TypeOK
    <3>2. UNCHANGED <<queue, mark, retry, dead, handler, faults, replays>>
      BY <1>2, <2>1 DEF DequeuePop, redisVars
    <3>3. ASSUME NEW j \in Jobs PROVE Bounded(j)' /\ Unborn(j)'
      <4>1. Bounded(j) /\ Unborn(j)
        BY DEF CopiesInv
      <4> QED BY <3>1, <3>2, <4>1 DEF Bounded, Orphan, Unborn, Bit
    <3> QED BY <3>3 DEF CopiesInv
  <2>2. ASSUME NEW k \in Jobs, PopToInflight(k), Keep(w, [Idle EXCEPT !.job = k]),
               Goto(w, "mark")
        PROVE  CopiesInv'
    <3> SUFFICES ASSUME NEW j \in Jobs PROVE (Bounded(j) /\ Unborn(j))'
      BY DEF CopiesInv
    <3>1. Bounded(j) /\ Unborn(j)
      BY DEF CopiesInv
    <3>2. OnlyMoves(w) /\ pc'[w] = "mark" /\ cur'[w].job = k
      BY <2>2 DEF Goto, Keep, OnlyMoves, TypeOK
    <3>3. cur[w].job = NoJob
      BY <1>2 DEF DequeuePop, TypeOK
    <3>4. UNCHANGED <<handler, faults, replays, retry, mark, dead>>
      BY <1>2, <2>2 DEF DequeuePop, PopToInflight
    <3>5. ~Holds(w, j) /\ ~Owns(w, j)
      BY <3>3, ConstantsAssumption DEF Holds, Owns, ConstantsAssumption
    <3>6. CASE j = k
      <4>1. queue'[j] = queue[j] - 1 /\ queue[j] > 0
        BY <2>2, <3>6 DEF PopToInflight, TypeOK, RedisTypeOK
      <4>2. Holds(w, j)' /\ Owns(w, j)'
        BY <3>2, <3>6 DEF Holds, Owns
      <4>3. /\ Cardinality(Holders(j))' = Cardinality(Holders(j)) + 1
            /\ Cardinality(Owners(j))' = Cardinality(Owners(j)) + 1
        BY <3>2, <3>5, <4>2, StepCounts, CopyTypes DEF Bit
      <4>4. Bit(Orphan(j))' <= Bit(Orphan(j))
        BY <3>4, <4>3, CopyTypes DEF Bit, Orphan
      <4>5. /\ Bit(Orphan(j)) \in Nat /\ Bit(Orphan(j))' \in Nat
            /\ Bit(retry[j] # "none") \in Nat
            /\ Bit(retry[j] # "none")' = Bit(retry[j] # "none")
        BY <3>4 DEF Bit
      <4>6. Bounded(j)'
        BY <3>1, <3>4, <4>1, <4>3, <4>4, <4>5, CopyTypes DEF Bounded
      <4>7. handler[j] # "new"
        BY <3>1, <4>1 DEF Unborn
      <4> QED BY <3>4, <4>6, <4>7 DEF Unborn
    <3>7. CASE j # k
      <4>1. queue'[j] = queue[j]
        BY <2>2, <3>7 DEF PopToInflight, TypeOK, RedisTypeOK
      <4>2. ~Holds(w, j)' /\ ~Owns(w, j)'
        BY <3>2, <3>7 DEF Holds, Owns
      <4>3. /\ Cardinality(Holders(j))' = Cardinality(Holders(j))
            /\ Cardinality(Owners(j))' = Cardinality(Owners(j))
        BY <3>2, <3>5, <4>2, StepCounts, CopyTypes DEF Bit
      <4> QED BY <3>1, <3>4, <4>1, <4>3 DEF Bounded, Orphan, Unborn, Bit
    <3> QED BY <3>6, <3>7
  <2> QED BY <1>2, <2>1, <2>2 DEF DequeuePop
<1>3. CASE DequeueMark(w)
  <2>1. PICK k \in Jobs : cur[w] \in Local /\ cur[w].job = k /\ Holds(w, k)
    BY <1>3, HolderType DEF DequeueMark, Holds
  <2>2. Outside(k)
    BY <1>3, <2>1, OpOutside DEF DequeueMark
  <2>3. OnlyMoves(w) /\ pc'[w] = "load" /\ cur'[w] = cur[w] /\ pc[w] = "mark"
    BY <1>3, GotoFacts DEF DequeueMark
  <2>4. mark'[k] = "fresh" /\ UNCHANGED <<queue, retry>>
    BY <1>3, <2>1 DEF DequeueMark, MarkInflight, TypeOK, RedisTypeOK
  <2>5. faults \in Nat /\ UNCHANGED <<handler, faults, replays>>
    BY <1>3 DEF DequeueMark, TypeOK
  <2>6. Holds(w, k)' /\ Owns(w, k)
    BY <2>1, <2>3 DEF Holds, Owns
  <2> QED BY <2>1, <2>2, <2>3, <2>4, <2>5, <2>6, HolderStepCopies
<1>4. CASE DequeueLoad(w)
  <2>1. PICK k \in Jobs : cur[w] \in Local /\ cur[w].job = k /\ Holds(w, k)
    BY <1>4, HolderType DEF DequeueLoad, Holds
  <2>2. Outside(k) /\ UNCHANGED <<queue, mark, retry>>
    BY <1>4, <2>1, OpOutside DEF DequeueLoad, redisVars
  <2>3. OnlyMoves(w) /\ cur'[w].job = k /\ pc[w] = "load"
    <3>1. pc[w] = "load" /\ \E step \in {"run", "ack"} : Goto(w, step)
      BY <1>4 DEF DequeueLoad
    <3>2. CASE UNCHANGED cur
      BY <2>1, <3>1, <3>2 DEF Goto, OnlyMoves, TypeOK
    <3>3. CASE Keep(w, Loaded(cur[w], store[cur[w].job]))
      <4>1. Loaded(cur[w], store[cur[w].job]).job = cur[w].job
        BY <2>1 DEF Loaded
      <4> QED BY <2>1, <3>1, <3>3, <4>1 DEF Goto, Keep, OnlyMoves, TypeOK
    <3> QED BY <1>4, <3>1, <3>2, <3>3 DEF DequeueLoad
  <2>4. faults \in Nat /\ UNCHANGED <<handler, faults, replays>>
    BY <1>4 DEF DequeueLoad, TypeOK
  <2>5. Holds(w, k)' /\ Owns(w, k)
    BY <2>1, <2>3 DEF Holds, Owns
  <2> QED BY <2>1, <2>2, <2>3, <2>4, <2>5, HolderStepCopies
<1>5. CASE DequeueFault(w)
  <2>1. PICK k \in Jobs : cur[w] \in Local /\ cur[w].job = k /\ Holds(w, k)
    BY <1>5, HolderType DEF DequeueFault, Holds
  <2>2. Outside(k)
    BY <1>5, <2>1, OpOutside DEF DequeueFault, Unsure
  <2>3. OnlyMoves(w) /\ cur'[w].job = NoJob /\ pc[w] \in {"mark", "load"}
    BY <1>5 DEF DequeueFault, Release, Goto, Keep, OnlyMoves, TypeOK
  <2>4. UNCHANGED <<queue, retry>> /\ mark'[k] \in {mark[k], "fresh"}
    BY <1>5, <2>1 DEF DequeueFault, Unsure, MarkInflight, redisVars, TypeOK, RedisTypeOK
  <2>5. UNCHANGED <<handler, replays>> /\ faults' = faults + 1
    BY <1>5 DEF DequeueFault, Unsure, Fault
  <2>6. ~Owns(w, k)' /\ Owns(w, k)
    BY <2>1, <2>3, ConstantsAssumption DEF Holds, Owns, ConstantsAssumption
  <2> QED BY <2>1, <2>2, <2>3, <2>4, <2>5, <2>6, HolderStepCopies
<1> QED BY <1>1, <1>2, <1>3, <1>4, <1>5 DEF Dequeue

LEMMA ProcessCopies ==
    ASSUME IsFiniteSet(Workers), TypeOK, CopiesInv, NEW w \in Workers,
           Progress(w) \/ SaveCheckpoint(w) \/ Finish(w) \/ SourceCleanup(w)
    PROVE  CopiesInv'
<1>1. PICK k \in Jobs : cur[w] \in Local /\ cur[w].job = k /\ Holds(w, k)
  BY HolderType DEF Progress, SaveCheckpoint, Finish, SourceCleanup, Holds
<1>2. faults \in Nat /\ UNCHANGED <<handler, replays>>
  BY DEF Progress, SaveCheckpoint, Finish, SourceCleanup, TypeOK, localVars
<1>3. CASE Progress(w)
  <2>1. PICK status \in Status :
            /\ Keep(w, [cur[w] EXCEPT !.status = status])
            /\ BestEffortUpdate(k, Payload([cur[w] EXCEPT !.status = status]))
    BY <1>1, <1>3 DEF Progress
  <2>2. pc[w] = "run" /\ pc' = pc
    BY <1>3 DEF Progress
  <2>3. OnlyMoves(w) /\ cur'[w].job = k
    BY <1>1, <2>1, <2>2 DEF Keep, OnlyMoves, TypeOK
  <2>4. [cur[w] EXCEPT !.status = status] \in Local
    BY <1>1
  <2>5. /\ Outside(k) /\ UNCHANGED <<queue, mark, retry>>
        /\ faults' \in {faults, faults + 1}
    BY <1>1, <2>1, <2>4, PayloadType, OpOutside
       DEF BestEffortUpdate, SetJob, redisVars, NoFault, Fault
  <2>6. Holds(w, k)' /\ Owns(w, k)
    BY <1>1, <2>2, <2>3 DEF Holds, Owns
  <2> QED BY <1>1, <1>2, <2>3, <2>5, <2>6, HolderStepCopies
<1>4. CASE SaveCheckpoint(w)
  <2>1. UNCHANGED <<pc, cur, faults, queue, mark, retry>>
    BY <1>4 DEF SaveCheckpoint, SetChunkCheckpoint, localVars
  <2>2. Outside(k) /\ OnlyMoves(w)
    BY <1>1, <1>4, <2>1, OpOutside DEF SaveCheckpoint, OnlyMoves
  <2>3. Holds(w, k)' /\ (Owns(w, k)' => Owns(w, k)) /\ cur'[w].job = k
    BY <1>1, <2>1 DEF Holds, Owns
  <2> QED BY <1>1, <1>2, <2>1, <2>2, <2>3, HolderStepCopies
<1>5. CASE Finish(w)
  <2>1. PICK o \in Outcomes(k) :
            /\ Keep(w, [cur[w] EXCEPT !.status = o.status, !.retryable = o.retryable])
            /\ BestEffortUpdate(k, Payload([cur[w] EXCEPT !.status = o.status,
                                                          !.retryable = o.retryable]))
    BY <1>1, <1>5 DEF Finish
  <2> DEFINE job == [cur[w] EXCEPT !.status = o.status, !.retryable = o.retryable]
  <2>2. o.status \in Status /\ o.retryable \in BOOLEAN
    BY <2>1 DEF Outcomes, Success, Failure
  <2>3. job \in Local /\ job.job = k
    BY <1>1, <2>2
  <2>4. Keep(w, job) /\ BestEffortUpdate(k, Payload(job))
    BY <2>1
  <2> HIDE DEF job
  <2>5. pc[w] = "run" /\ Goto(w, "cleanup")
    BY <1>5 DEF Finish
  <2>6. OnlyMoves(w) /\ cur'[w].job = k
    BY <2>3, <2>4, <2>5, MoveFacts
  <2>7. /\ Outside(k) /\ UNCHANGED <<queue, mark, retry>>
        /\ faults' \in {faults, faults + 1}
    BY <1>1, <2>3, <2>4, PayloadType, OpOutside
       DEF BestEffortUpdate, SetJob, redisVars, NoFault, Fault
  <2>8. Holds(w, k)' /\ Owns(w, k)
    BY <1>1, <2>5, <2>6 DEF Holds, Owns
  <2> QED BY <1>1, <1>2, <2>6, <2>7, <2>8, HolderStepCopies
<1>6. CASE SourceCleanup(w)
  <2>1. pc[w] = "cleanup" /\ Goto(w, AfterProcess(cur[w])) /\ UNCHANGED <<redisVars, cur, faults>>
    BY <1>6 DEF SourceCleanup
  <2>2. AfterProcess(cur[w]) = IF cur[w].status = "failed" THEN "fail" ELSE "clear"
    BY DEF AfterProcess
  <2>3. OnlyMoves(w) /\ pc'[w] = AfterProcess(cur[w])
    BY <2>1, <2>2, GotoFacts
  <2>4. Outside(k) /\ UNCHANGED <<queue, mark, retry>>
    BY <1>1, <2>1, OpOutside DEF redisVars
  <2>5. Holds(w, k)' /\ (Owns(w, k)' => Owns(w, k)) /\ cur'[w].job = k
    BY <1>1, <2>1, <2>2, <2>3 DEF Holds, Owns
  <2> QED BY <1>1, <1>2, <2>1, <2>3, <2>4, <2>5, HolderStepCopies
<1> QED BY <1>3, <1>4, <1>5, <1>6

LEMMA HandleFailedCopies ==
    ASSUME IsFiniteSet(Workers), TypeOK, CopiesInv, NEW w \in Workers, HandleFailed(w)
    PROVE  CopiesInv'
<1>1. PICK k \in Jobs : cur[w] \in Local /\ cur[w].job = k /\ Holds(w, k)
  BY HolderType DEF HandleFailed, DecideRetry, ScheduleRetry, ScheduleRetryFault, Bury, Holds
<1>2. faults \in Nat /\ UNCHANGED <<handler, replays>>
  BY DEF HandleFailed, DecideRetry, ScheduleRetry, ScheduleRetryFault, Bury, TypeOK
<1>3. Owns(w, k)
  BY <1>1 DEF HandleFailed, DecideRetry, ScheduleRetry, ScheduleRetryFault, Bury, Owns
<1>4. CASE DecideRetry(w)
  <2>1. PICK overloaded \in Overload :
          LET again == Retries(cur[w], overloaded)
              job   == Verdict(cur[w], again)
          IN  /\ Keep(w, job)
              /\ \/ /\ SetJob(job.job, Payload(job))
                    /\ NoFault
                    /\ Goto(w, IF again THEN "requeue" ELSE "bury")
                 \/ /\ Unsure(SetJob(job.job, Payload(job)))
                    /\ Goto(w, "clear")
    BY <1>4 DEF DecideRetry
  <2> DEFINE again == Retries(cur[w], overloaded)
             job   == Verdict(cur[w], again)
  <2>2. again \in BOOLEAN
    BY <1>1 DEF Retries
  <2>3. job \in Local /\ job.job = k
    <3> HIDE DEF again
    <3> QED BY <1>1, <2>2, VerdictType
  <2>4. /\ Keep(w, job)
        /\ \/ SetJob(k, Payload(job)) /\ NoFault
           \/ Unsure(SetJob(k, Payload(job)))
        /\ \E step \in {"requeue", "bury", "clear"} : Goto(w, step)
    BY <2>1, <2>3
  <2> HIDE DEF job
  <2>5. OnlyMoves(w) /\ cur'[w].job = k
    BY <2>3, <2>4, MoveFacts
  <2>6. /\ Outside(k) /\ UNCHANGED <<queue, mark, retry>>
        /\ faults' \in {faults, faults + 1}
    BY <1>1, <2>3, <2>4, PayloadType, OpOutside
       DEF Unsure, SetJob, redisVars, NoFault, Fault
  <2>7. Holds(w, k)'
    BY <2>5 DEF Holds
  <2> QED BY <1>1, <1>2, <1>3, <2>5, <2>6, <2>7, HolderStepCopies
<1>5. CASE ScheduleRetry(w)
  <2>1. OnlyMoves(w) /\ pc'[w] = "clear" /\ cur'[w].job = k
    BY <1>1, <1>5, GotoFacts DEF ScheduleRetry
  <2>2. Outside(k) /\ UNCHANGED <<queue, mark, faults>>
    BY <1>1, <1>5, OpOutside DEF ScheduleRetry, Requeue
  <2>3. Holds(w, k)' /\ ~Owns(w, k)'
    BY <2>1 DEF Holds, Owns
  <2> QED BY <1>1, <1>2, <1>3, <2>1, <2>2, <2>3, HolderStepCopies
<1>6. CASE ScheduleRetryFault(w)
  <2> DEFINE job == [cur[w] EXCEPT !.status = "failed"]
  <2>1. job \in Local /\ job.job = k
    BY <1>1
  <2>2. OnlyMoves(w) /\ pc'[w] = "clear" /\ cur'[w].job = k
    BY <1>6, <2>1, MoveFacts DEF ScheduleRetryFault
  <2>3. /\ retry' \in {retry, [retry EXCEPT ![k] = "waiting"]}
        /\ store' \in {store, [store EXCEPT ![k] = Payload(job)]}
        /\ UNCHANGED <<queue, inflight, mark, dead>>
        /\ faults' = faults + 1
    BY <1>1, <1>6 DEF ScheduleRetryFault, Fault
  <2>4. Outside(k)
    <3> HIDE DEF job
    <3> QED BY <1>1, <2>3 DEF Outside, TypeOK, RedisTypeOK
  <2>5. Holds(w, k)' /\ ~Owns(w, k)'
    BY <2>2 DEF Holds, Owns
  <2> QED BY <1>1, <1>2, <1>3, <2>2, <2>3, <2>4, <2>5, HolderStepCopies
<1>7. CASE Bury(w)
  <2>1. OnlyMoves(w) /\ pc'[w] = "clear" /\ cur'[w].job = k
    BY <1>1, <1>7, GotoFacts DEF Bury
  <2>2. Outside(k)
    BY <1>1, <1>7, OpOutside DEF Bury, Unsure
  <2>3. UNCHANGED <<queue, mark>> /\ faults' \in {faults, faults + 1}
    BY <1>7 DEF Bury, Unsure, Fault, NoFault, DeadLetter, DeadLetterPush, redisVars
  <2>4. Holds(w, k)' /\ ~Owns(w, k)'
    BY <2>1 DEF Holds, Owns
  <2> QED BY <1>1, <1>2, <1>3, <2>1, <2>2, <2>3, <2>4, HolderStepCopies
<1> QED BY <1>4, <1>5, <1>6, <1>7 DEF HandleFailed

LEMMA EndOfLoopCopies ==
    ASSUME IsFiniteSet(Workers), TypeOK, CopiesInv, NEW w \in Workers,
           CleanupCheckpoints(w) \/ AckJob(w)
    PROVE  CopiesInv'
<1>1. PICK k \in Jobs : cur[w] \in Local /\ cur[w].job = k /\ Holds(w, k)
  BY HolderType DEF CleanupCheckpoints, AckJob, Holds
<1>2. faults \in Nat /\ UNCHANGED <<handler, replays>>
  BY DEF CleanupCheckpoints, AckJob, TypeOK
<1>3. CASE CleanupCheckpoints(w)
  <2>1. OnlyMoves(w) /\ pc'[w] = "ack" /\ cur'[w].job = k
    BY <1>1, <1>3, GotoFacts DEF CleanupCheckpoints
  <2>2. Outside(k)
    BY <1>1, <1>3, OpOutside DEF CleanupCheckpoints
  <2>3. UNCHANGED <<queue, mark, retry>> /\ faults' \in {faults, faults + 1}
    BY <1>3 DEF CleanupCheckpoints, ClearChunkCheckpoints, redisVars, NoFault, Fault
  <2>4. Holds(w, k)' /\ ~Owns(w, k)'
    BY <2>1 DEF Holds, Owns
  <2> QED BY <1>1, <1>2, <2>1, <2>2, <2>3, <2>4, HolderStepCopies
<1>4. CASE AckJob(w)
  <2>1. OnlyMoves(w) /\ cur'[w].job = NoJob
    BY <1>4 DEF AckJob, Release, Goto, Keep, OnlyMoves, TypeOK
  <2>2. Outside(k)
    BY <1>1, <1>4, OpOutside DEF AckJob, Unsure
  <2>3. UNCHANGED <<queue, retry>>
    BY <1>4 DEF AckJob, Unsure, Ack, AckRemove, redisVars
  <2>4. \/ mark'[k] = "none" /\ faults' = faults
        \/ mark'[k] \in {mark[k], "none"} /\ faults' = faults + 1
    BY <1>1, <1>4
       DEF AckJob, Unsure, Ack, AckRemove, redisVars, NoFault, Fault, TypeOK, RedisTypeOK
  <2>5. ~Owns(w, k)'
    BY <1>1, <2>1, ConstantsAssumption DEF Holds, Owns, ConstantsAssumption
  <2> QED BY <1>1, <1>2, <2>1, <2>2, <2>3, <2>4, <2>5, HolderStepCopies
<1> QED BY <1>3, <1>4

\* A step of the environment that concerns one job.
LEMMA EnvironmentJobCopies ==
    ASSUME IsFiniteSet(Workers), TypeOK, CopiesInv, NEW k \in Jobs,
           Outside(k), UNCHANGED <<pc, cur>>,
           \A j \in Jobs \ {k} : handler'[j] = handler[j],
           faults' \in {faults, faults + 1}, replays' \in {replays, replays + 1},
           Bounded(k)', Unborn(k)'
    PROVE  CopiesInv'
<1> SUFFICES ASSUME NEW j \in Jobs \ {k} PROVE (Bounded(j) /\ Unborn(j))'
  BY DEF CopiesInv
<1>1. Bounded(j) /\ Unborn(j)
  BY DEF CopiesInv
<1>2. Holders(j)' = Holders(j) /\ Owners(j)' = Owners(j)
  BY DEF Holders, Owners, Owns, Holds
<1>3. /\ queue'[j] = queue[j] /\ retry'[j] = retry[j]
      /\ mark'[j] = mark[j] /\ dead'[j] = dead[j]
  BY DEF Outside
<1> QED BY <1>1, <1>2, <1>3, CopyTypes DEF Bounded, Orphan, Unborn, Bit

LEMMA EnvironmentCopies ==
    ASSUME IsFiniteSet(Workers), TypeOK, CopiesInv,
           \/ RecoverTick
           \/ \E j \in Jobs : \/ Create(j) \/ AgeMark(j) \/ RetryDue(j)
                              \/ OperatorReplay(j) \/ DayPasses(j)
           \/ \E w \in Workers : Crash(w) \/ Shutdown(w)
    PROVE  CopiesInv'
<1>1. CASE RecoverTick
  <2>1. \A j \in Jobs : \A v \in Workers : Owns(v, j)' <=> Owns(v, j)
    BY <1>1 DEF RecoverTick, localVars, Owns, Holds
  <2> QED BY <1>1, <2>1, SweepCopies DEF RecoverTick, localVars
<1>2. ASSUME NEW k \in Jobs,
             Create(k) \/ AgeMark(k) \/ RetryDue(k) \/ OperatorReplay(k) \/ DayPasses(k)
      PROVE  CopiesInv'
  <2>1. UNCHANGED <<pc, cur>>
    BY <1>2 DEF Create, AgeMark, RetryDue, OperatorReplay, DayPasses, localVars
  <2>2. Holders(k)' = Holders(k) /\ Owners(k)' = Owners(k)
    BY <2>1 DEF Holders, Owners, Owns, Holds
  <2>3. Bounded(k) /\ Unborn(k)
    BY DEF CopiesInv
  <2>4. Outside(k)
    BY <1>2, OpOutside
       DEF Create, Unsure, AgeMark, RetryDue, OperatorReplay, DayPasses
  <2>5. \A j \in Jobs \ {k} : handler'[j] = handler[j]
    BY <1>2 DEF Create, AgeMark, RetryDue, OperatorReplay, DayPasses, localVars, TypeOK
  <2>6. faults' \in {faults, faults + 1} /\ replays' \in {replays, replays + 1}
    BY <1>2 DEF Create, Unsure, AgeMark, RetryDue, OperatorReplay, DayPasses,
                NoFault, Fault, localVars
  <2>7. Held(k) <=> Cardinality(Holders(k)) > 0
    BY Counts
  <2>8. Bounded(k)' /\ Unborn(k)'
    <3>1. CASE Create(k)
      <4>1. handler[k] = "new" /\ handler'[k] # "new" /\ replays' = replays
        BY <3>1 DEF Create, TypeOK
      <4>2. /\ queue'[k] \in {queue[k], queue[k] + 1}
            /\ retry' = retry /\ mark' = mark
        BY <3>1 DEF Create, Unsure, EnqueueJob, SetJob, redisVars, TypeOK, RedisTypeOK
      <4>3. Cardinality(Owners(k)) = 0
        BY <2>3, <4>1, CopyTypes DEF Unborn
      <4> QED BY <2>2, <2>3, <2>6, <4>1, <4>2, <4>3, CopyTypes
              DEF Bounded, Orphan, Unborn, Bit
    <3>2. CASE AgeMark(k)
      <4>1. /\ mark[k] = "fresh" /\ mark'[k] = "stale"
            /\ UNCHANGED <<queue, retry, dead, handler, replays>>
        BY <3>2 DEF AgeMark, GrowStale, TypeOK, RedisTypeOK
      <4>2. faults' = IF Held(k) THEN faults + 1 ELSE faults
        BY <3>2 DEF AgeMark, Fault, NoFault
      <4> QED BY <2>2, <2>3, <2>7, <4>1, <4>2, CopyTypes
              DEF Bounded, Orphan, Unborn, Bit
    <3>3. CASE RetryDue(k)
      <4>1. /\ retry[k] = "waiting" /\ retry'[k] = "due"
            /\ UNCHANGED <<queue, mark, dead, handler, faults, replays>>
        BY <3>3 DEF RetryDue, BecomeDue, localVars, TypeOK, RedisTypeOK
      <4> QED BY <2>2, <2>3, <4>1 DEF Bounded, Orphan, Unborn, Bit
    <3>4. CASE OperatorReplay(k)
      <4>1. /\ queue'[k] = queue[k] + 1 /\ retry'[k] = "none" /\ dead[k] > 0
            /\ UNCHANGED <<mark, handler, faults>> /\ replays' = replays + 1
        BY <3>4 DEF OperatorReplay, ReplayDead, TypeOK, RedisTypeOK
      <4>2. handler[k] # "new"
        BY <2>3, <4>1 DEF Unborn
      <4> QED BY <2>2, <2>3, <4>1, <4>2, CopyTypes DEF Bounded, Orphan, Unborn, Bit
    <3>5. CASE DayPasses(k)
      <4>1. UNCHANGED <<queue, retry, mark, dead, handler, replays>>
        BY <3>5 DEF DayPasses, ExpireJob, listVars, redisVars
      <4> QED BY <2>2, <2>3, <2>6, <4>1, CopyTypes DEF Bounded, Orphan, Unborn, Bit
    <3> QED BY <1>2, <3>1, <3>2, <3>3, <3>4, <3>5
  <2> QED BY <2>1, <2>4, <2>5, <2>6, <2>8, EnvironmentJobCopies
<1>3. ASSUME NEW w \in Workers, Crash(w) \/ Shutdown(w) PROVE CopiesInv'
  <2>1. cur[w].job # NoJob
    BY <1>3 DEF Crash, Shutdown, TypeOK
  <2>2. PICK k \in Jobs : cur[w].job = k /\ Holds(w, k)
    BY <2>1 DEF TypeOK, Holds
  <2>3. OnlyMoves(w) /\ cur'[w].job = NoJob
    BY <1>3 DEF Crash, Shutdown, Release, Goto, Keep, OnlyMoves, TypeOK
  <2>4. UNCHANGED <<redisVars, handler, replays>> /\ faults' = faults + 1
    BY <1>3 DEF Crash, Shutdown, Fault
  <2>5. Outside(k)
    BY <2>4, OpOutside
  <2>6. ~Owns(w, k)'
    BY <2>3, ConstantsAssumption DEF Holds, Owns, ConstantsAssumption
  <2> QED BY <2>2, <2>3, <2>4, <2>5, <2>6, HolderStepCopies DEF redisVars
<1> QED BY <1>1, <1>2, <1>3

LEMMA InitCopies ==
    ASSUME IsFiniteSet(Workers), Init
    PROVE  CopiesInv
<1> SUFFICES ASSUME NEW j \in Jobs PROVE Bounded(j) /\ Unborn(j)
  BY DEF CopiesInv
<1>1. Holders(j) = {} /\ Owners(j) = {}
  BY ConstantsAssumption DEF Init, Holders, Owners, Owns, Holds, ConstantsAssumption
<1>2. Cardinality(Holders(j)) = 0 /\ Cardinality(Owners(j)) = 0
  BY <1>1, FS_EmptySet
<1> QED BY <1>2 DEF Init, RedisInit, Bounded, Unborn, Orphan, Bit

\* Under every kind of fault, a job has at most one copy for its creation, one for
\* each fault and one for each replay: recovery, late Acks, lost replies and workers
\* that overtake each other move copies, and only a fault adds one.
THEOREM DuplicatesCorrect ==
    ASSUME IsFiniteSet(Workers)
    PROVE  Spec => []DuplicatesBounded
<1>1. Init => CopiesInv
  BY InitCopies
<1>2. TypeOK /\ CopiesInv /\ [Next]_vars => CopiesInv'
  <2> SUFFICES ASSUME TypeOK, CopiesInv, [Next]_vars PROVE CopiesInv'
    OBVIOUS
  <2>1. CASE Next
    BY <2>1, DequeueCopies, ProcessCopies, HandleFailedCopies, EndOfLoopCopies,
       EnvironmentCopies
       DEF Next, WorkerStep
  <2>2. CASE UNCHANGED vars
    <3>1. ASSUME NEW j \in Jobs
          PROVE  Holders(j)' = Holders(j) /\ Owners(j)' = Owners(j)
      BY <2>2 DEF vars, localVars, Holders, Owners, Owns, Holds
    <3> QED BY <2>2, <3>1
            DEF vars, redisVars, localVars, CopiesInv, Bounded, Unborn, Orphan, Bit
  <2> QED BY <2>1, <2>2
<1>3. TypeOK /\ CopiesInv => DuplicatesBounded
  <2> SUFFICES ASSUME TypeOK, CopiesInv, NEW j \in Jobs
               PROVE  Copies(j) <= 1 + faults + replays
    BY DEF DuplicatesBounded
  <2>1. Bounded(j)
    BY DEF CopiesInv
  <2>2. Copies(j) = queue[j] + Bit(retry[j] # "none") + Cardinality(Owners(j))
    BY CopyTypes DEF Copies, Owners, Bit
  <2>3. Bit(Orphan(j)) \in Nat /\ Bit(retry[j] # "none") \in Nat
    BY DEF Bit
  <2> QED BY <2>1, <2>2, <2>3, CopyTypes DEF Bounded
<1> QED BY <1>1, <1>2, <1>3, TypeCorrect, PTL DEF Spec

-------------------------------------------------------------------------------
(* Workers may die at any step: Redis still has every unsettled job.  The   *)
(* in-flight list has an entry for each worker with the job in memory, and  *)
(* one more for a mark that a sweep will act on; and an unsettled job has   *)
(* an entry that no worker about to acknowledge it will remove.             *)

Survivable == Faults \cap {"redis", "slow"} = {}

Covered(j) ==
    /\ inflight[j] >= Cardinality(Holders(j)) + Bit(mark[j] = "stale")
    /\ mark[j] # "none" => inflight[j] > 0
    /\ Open(j) /\ Exists(j) =>
          \/ queue[j] > 0
          \/ retry[j] # "none"
          \/ inflight[j] + Cardinality(Owners(j)) > Cardinality(Holders(j))

CoverInv == \A j \in Jobs : Covered(j)

LEMMA SurvivableFaults ==
    ASSUME Survivable
    PROVE  ~Fault("redis") /\ ~Fault("slow")
BY DEF Survivable, Fault

\* A step of a worker concerns its own job only.
LEMMA OwnJobCover ==
    ASSUME IsFiniteSet(Workers), TypeOK, CoverInv,
           NEW w \in Workers, NEW k \in Jobs,
           Holds(w, k), cur'[w].job \in {k, NoJob}, OnlyMoves(w), Outside(k),
           UNCHANGED handler, Covered(k)'
    PROVE  CoverInv'
<1> SUFFICES ASSUME NEW j \in Jobs \ {k} PROVE Covered(j)'
  BY DEF CoverInv
<1>1. Covered(j)
  BY DEF CoverInv
<1>2. ~Holds(w, j) /\ ~Holds(w, j)' /\ ~Owns(w, j) /\ ~Owns(w, j)'
  BY ConstantsAssumption DEF Holds, Owns, ConstantsAssumption
<1>3. /\ Cardinality(Holders(j))' = Cardinality(Holders(j))
      /\ Cardinality(Owners(j))' = Cardinality(Owners(j))
  BY <1>2, StepCounts, Counts DEF Bit
<1>4. /\ queue'[j] = queue[j] /\ inflight'[j] = inflight[j] /\ retry'[j] = retry[j]
      /\ mark'[j] = mark[j] /\ dead'[j] = dead[j] /\ store'[j] = store[j]
  BY DEF Outside
<1> QED BY <1>1, <1>3, <1>4 DEF Covered, Open, Settled, Exists, Bit

\* A worker that keeps its job.  If it ceases to owe an outcome, it has settled the
\* job or scheduled a retry.
LEMMA KeepCover ==
    ASSUME IsFiniteSet(Workers), TypeOK, CoverInv,
           NEW w \in Workers, NEW k \in Jobs,
           Holds(w, k), cur'[w].job = k, OnlyMoves(w), Outside(k),
           UNCHANGED <<handler, queue, inflight>>,
           mark'[k] \in {mark[k], "fresh"},
           \/ Owns(w, k)'
           \/ retry'[k] # "none"
           \/ Settled(k)'
           \/ ~Exists(k)'
           \/ /\ ~Owns(w, k)
              /\ retry'[k] = retry[k] /\ store'[k] = store[k] /\ dead'[k] = dead[k]
    PROVE  CoverInv'
<1>1. Covered(k)
  BY DEF CoverInv
<1>2. Holds(w, k)'
  BY DEF Holds
<1>3. /\ Cardinality(Holders(k))' = Cardinality(Holders(k))
      /\ Cardinality(Owners(k))' =
           Cardinality(Owners(k)) - Bit(Owns(w, k)) + Bit(Owns(w, k)')
      /\ Cardinality(Owners(k))' \in Nat
  BY <1>2, StepCounts, CopyTypes DEF Bit
<1>4. Cardinality(Holders(k)) > 0
  BY Counts DEF Held
<1>5. /\ inflight'[k] >= Cardinality(Holders(k))' + Bit(mark[k] = "stale")'
      /\ mark'[k] # "none" => inflight'[k] > 0
  BY <1>1, <1>3, <1>4, CopyTypes DEF Covered, Bit
<1>6. ASSUME Open(k)', Exists(k)'
      PROVE  \/ queue'[k] > 0
             \/ retry'[k] # "none"
             \/ inflight'[k] + Cardinality(Owners(k))' > Cardinality(Holders(k))'
  <2>1. CASE Owns(w, k)'
    <3>1. Cardinality(Owners(k))' > 0
      BY <2>1, StepCounts
    <3>2. inflight'[k] >= Cardinality(Holders(k))'
      BY <1>5, <1>3, CopyTypes DEF Bit
    <3> QED BY <1>3, <3>1, <3>2, CopyTypes
  <2>2. CASE /\ ~Owns(w, k)
             /\ retry'[k] = retry[k] /\ store'[k] = store[k] /\ dead'[k] = dead[k]
    <3>1. Open(k) /\ Exists(k)
      BY <1>6, <2>2 DEF Open, Settled, Exists
    <3>2. Cardinality(Owners(k))' >= Cardinality(Owners(k))
      BY <1>3, <2>2, CopyTypes DEF Bit
    <3> QED BY <1>1, <1>3, <2>2, <3>1, <3>2, CopyTypes DEF Covered
  <2> QED BY <1>6, <2>1, <2>2 DEF Open
<1> QED BY <1>5, <1>6, OwnJobCover DEF Covered

\* A worker that loses its job, with no trace in Redis or with its Ack.
LEMMA ReleaseCover ==
    ASSUME IsFiniteSet(Workers), TypeOK, CoverInv,
           NEW w \in Workers, NEW k \in Jobs,
           Holds(w, k), cur'[w].job = NoJob, OnlyMoves(w), Outside(k),
           UNCHANGED <<handler, queue, retry, dead, store>>,
           \/ UNCHANGED <<inflight, mark>>
           \/ /\ ~Owns(w, k)
              /\ inflight'[k] = IF inflight[k] > 0 THEN inflight[k] - 1 ELSE 0
              /\ mark'[k] = "none"
    PROVE  CoverInv'
<1>1. Covered(k)
  BY DEF CoverInv
<1>2. ~Holds(w, k)' /\ ~Owns(w, k)'
  BY ConstantsAssumption DEF Holds, Owns, ConstantsAssumption
<1>3. /\ Cardinality(Holders(k))' = Cardinality(Holders(k)) - 1
      /\ Cardinality(Owners(k))' = Cardinality(Owners(k)) - Bit(Owns(w, k))
      /\ Cardinality(Holders(k))' \in Nat
      /\ Cardinality(Owners(k))' \in Nat
  BY <1>2, StepCounts, CopyTypes DEF Bit
<1>4. inflight[k] >= Cardinality(Holders(k)) /\ inflight[k] > 0
  BY <1>1, <1>3, CopyTypes DEF Covered, Bit
<1>5. CASE UNCHANGED <<inflight, mark>>
  <2>1. /\ inflight'[k] >= Cardinality(Holders(k))' + Bit(mark[k] = "stale")'
        /\ mark'[k] # "none" => inflight'[k] > 0
    BY <1>1, <1>3, <1>4, <1>5, CopyTypes DEF Covered, Bit
  <2>2. inflight'[k] + Cardinality(Owners(k))' - Cardinality(Holders(k))'
          >= inflight[k] + Cardinality(Owners(k)) - Cardinality(Holders(k))
    BY <1>3, <1>5, CopyTypes DEF Bit
  <2>3. Open(k)' /\ Exists(k)' => Open(k) /\ Exists(k)
    BY DEF Open, Settled, Exists
  <2>4. Covered(k)'
    BY <1>1, <1>3, <1>5, <2>1, <2>2, <2>3, CopyTypes DEF Covered
  <2> QED BY <2>4, OwnJobCover
<1>6. CASE /\ ~Owns(w, k)
           /\ inflight'[k] = IF inflight[k] > 0 THEN inflight[k] - 1 ELSE 0
           /\ mark'[k] = "none"
  <2>1. inflight'[k] = inflight[k] - 1
    BY <1>4, <1>6
  <2>2. Cardinality(Owners(k))' = Cardinality(Owners(k))
    BY <1>3, <1>6, CopyTypes DEF Bit
  <2>3. Open(k)' /\ Exists(k)' => Open(k) /\ Exists(k)
    BY DEF Open, Settled, Exists
  <2>4. Covered(k)'
    BY <1>1, <1>3, <1>4, <1>6, <2>1, <2>2, <2>3, CopyTypes DEF Covered, Bit
  <2> QED BY <2>4, OwnJobCover
<1> QED BY <1>5, <1>6

LEMMA SweepCover ==
    ASSUME IsFiniteSet(Workers), TypeOK, CoverInv,
           NEW promote \in BOOLEAN, Sweep(promote),
           UNCHANGED <<handler, cur>>,
           \A j \in Jobs : \A v \in Workers : Owns(v, j)' <=> Owns(v, j)
    PROVE  CoverInv'
<1> SUFFICES ASSUME NEW j \in Jobs PROVE Covered(j)'
  BY DEF CoverInv
<1>1. Covered(j)
  BY DEF CoverInv
<1>2. Holders(j)' = Holders(j) /\ Owners(j)' = Owners(j)
  BY DEF Holders, Owners, Holds
<1>3. /\ inflight'[j] = inflight[j] - One(j, StaleIds)
      /\ queue'[j] = queue[j] + One(j, StaleIds)
                              + One(j, IF promote THEN DueIds ELSE {})
      /\ retry'[j] = IF j \in (IF promote THEN DueIds ELSE {}) THEN "none" ELSE retry[j]
      /\ mark'[j] = IF mark[j] = "stale" THEN "none" ELSE mark[j]
      /\ dead' = dead /\ store' = store
  BY DEF Sweep, MoveIds, ClearStale
<1>4. /\ j \in StaleIds <=> mark[j] = "stale"
      /\ One(j, StaleIds) = Bit(mark[j] = "stale")
  BY <1>1, CopyTypes DEF StaleIds, Covered, One, Bit
<1>5. One(j, IF promote THEN DueIds ELSE {}) \in {0, 1}
  BY DEF One
<1>6. j \in (IF promote THEN DueIds ELSE {}) => queue'[j] > 0
  BY <1>3, <1>4, CopyTypes DEF One, Bit
<1>7. mark[j] = "stale" => queue'[j] > 0
  BY <1>3, <1>4, <1>5, CopyTypes DEF Bit
<1>8. /\ inflight'[j] >= Cardinality(Holders(j))' + Bit(mark[j] = "stale")'
      /\ mark'[j] # "none" => inflight'[j] > 0
  BY <1>1, <1>2, <1>3, <1>4, CopyTypes DEF Covered, Bit
<1>9. Open(j)' /\ Exists(j)' => Open(j) /\ Exists(j)
  BY <1>3 DEF Open, Settled, Exists
<1>10. CASE mark[j] = "stale" \/ j \in (IF promote THEN DueIds ELSE {})
  BY <1>6, <1>7, <1>8, <1>10 DEF Covered
<1>11. CASE mark[j] # "stale" /\ j \notin (IF promote THEN DueIds ELSE {})
  <2>1. inflight'[j] = inflight[j] /\ queue'[j] >= queue[j] /\ retry'[j] = retry[j]
    BY <1>3, <1>4, <1>5, <1>11, CopyTypes DEF Bit
  <2>2. queue'[j] \in Int
    BY <1>3, <1>5, <1>4, CopyTypes DEF Bit
  <2> QED BY <1>1, <1>2, <1>8, <1>9, <2>1, <2>2, CopyTypes DEF Covered
<1> QED BY <1>10, <1>11

LEMMA DequeueCover ==
    ASSUME IsFiniteSet(Workers), Survivable, TypeOK, CoverInv,
           NEW w \in Workers, Dequeue(w)
    PROVE  CoverInv'
<1>1. CASE DequeueSweep(w)
  <2>1. \A j \in Jobs : \A v \in Workers : Owns(v, j)' <=> Owns(v, j)
    BY <1>1 DEF DequeueSweep, Owns, Holds, Goto, TypeOK
  <2> QED BY <1>1, <2>1, SweepCover DEF DequeueSweep
<1>2. CASE DequeuePop(w)
  <2>1. CASE Goto(w, "poll") /\ UNCHANGED <<redisVars, cur>>
    <3>1. UNCHANGED <<queue, inflight, mark, retry, dead, store, handler>>
      BY <1>2, <2>1 DEF DequeuePop, redisVars
    <3>2. ASSUME NEW j \in Jobs PROVE Covered(j)'
      <4>1. Holders(j)' = Holders(j) /\ Owners(j)' = Owners(j)
        BY <1>2, <2>1 DEF DequeuePop, Holders, Owners, Owns, Holds, Goto, TypeOK
      <4>2. Covered(j)
        BY DEF CoverInv
      <4> QED BY <3>1, <4>1, <4>2 DEF Covered, Open, Settled, Exists, Bit
    <3> QED BY <3>2 DEF CoverInv
  <2>2. ASSUME NEW k \in Jobs, PopToInflight(k), Keep(w, [Idle EXCEPT !.job = k]),
               Goto(w, "mark")
        PROVE  CoverInv'
    <3> SUFFICES ASSUME NEW j \in Jobs PROVE Covered(j)'
      BY DEF CoverInv
    <3>1. Covered(j)
      BY DEF CoverInv
    <3>2. OnlyMoves(w) /\ pc'[w] = "mark" /\ cur'[w].job = k
      BY <2>2 DEF Goto, Keep, OnlyMoves, TypeOK
    <3>3. cur[w].job = NoJob
      BY <1>2 DEF DequeuePop, TypeOK
    <3>4. UNCHANGED <<handler, retry, mark, dead, store>>
      BY <1>2, <2>2 DEF DequeuePop, PopToInflight
    <3>5. ~Holds(w, j) /\ ~Owns(w, j)
      BY <3>3, ConstantsAssumption DEF Holds, Owns, ConstantsAssumption
    <3>6. CASE j = k
      <4>1. inflight'[j] = inflight[j] + 1
        BY <2>2, <3>6 DEF PopToInflight, TypeOK, RedisTypeOK
      <4>2. Holds(w, j)' /\ Owns(w, j)'
        BY <3>2, <3>6 DEF Holds, Owns
      <4>3. /\ Cardinality(Holders(j))' = Cardinality(Holders(j)) + 1
            /\ Cardinality(Owners(j))' = Cardinality(Owners(j)) + 1
        BY <3>2, <3>5, <4>2, StepCounts, CopyTypes DEF Bit
      <4> QED BY <3>1, <3>4, <4>1, <4>3, CopyTypes DEF Covered, Bit
    <3>7. CASE j # k
      <4>1. queue'[j] = queue[j] /\ inflight'[j] = inflight[j]
        BY <2>2, <3>7 DEF PopToInflight, TypeOK, RedisTypeOK
      <4>2. ~Holds(w, j)' /\ ~Owns(w, j)'
        BY <3>2, <3>7 DEF Holds, Owns
      <4>3. /\ Cardinality(Holders(j))' = Cardinality(Holders(j))
            /\ Cardinality(Owners(j))' = Cardinality(Owners(j))
        BY <3>2, <3>5, <4>2, StepCounts, CopyTypes DEF Bit
      <4> QED BY <3>1, <3>4, <4>1, <4>3 DEF Covered, Open, Settled, Exists, Bit
    <3> QED BY <3>6, <3>7
  <2> QED BY <1>2, <2>1, <2>2 DEF DequeuePop
<1>3. CASE DequeueMark(w)
  <2>1. PICK k \in Jobs : cur[w] \in Local /\ cur[w].job = k /\ Holds(w, k)
    BY <1>3, HolderType DEF DequeueMark, Holds
  <2>2. Outside(k)
    BY <1>3, <2>1, OpOutside DEF DequeueMark
  <2>3. OnlyMoves(w) /\ pc'[w] = "load" /\ cur'[w].job = k
    BY <1>3, <2>1, GotoFacts DEF DequeueMark
  <2>4. mark'[k] = "fresh" /\ UNCHANGED <<queue, inflight, handler>>
    BY <1>3, <2>1 DEF DequeueMark, MarkInflight, TypeOK, RedisTypeOK
  <2>5. Owns(w, k)'
    BY <2>3 DEF Holds, Owns
  <2> QED BY <2>1, <2>2, <2>3, <2>4, <2>5, KeepCover
<1>4. CASE DequeueLoad(w)
  <2>1. PICK k \in Jobs : cur[w] \in Local /\ cur[w].job = k /\ Holds(w, k)
    BY <1>4, HolderType DEF DequeueLoad, Holds
  <2>2. Outside(k) /\ UNCHANGED <<queue, inflight, mark, store, handler>>
    BY <1>4, <2>1, OpOutside DEF DequeueLoad, redisVars
  <2>3. CASE Exists(k)
    <3>1. Loaded(cur[w], store[cur[w].job]).job = k
      BY <2>1 DEF Loaded
    <3>2. Goto(w, "run") /\ Keep(w, Loaded(cur[w], store[cur[w].job]))
      BY <1>4, <2>1, <2>3 DEF DequeueLoad
    <3>3. OnlyMoves(w) /\ cur'[w].job = k /\ pc'[w] = "run"
      BY <3>1, <3>2 DEF Goto, Keep, OnlyMoves, TypeOK
    <3>4. Owns(w, k)'
      BY <3>3 DEF Holds, Owns
    <3> QED BY <2>1, <2>2, <3>3, <3>4, KeepCover
  <2>4. CASE ~Exists(k)
    <3>1. Goto(w, "ack") /\ UNCHANGED cur
      BY <1>4, <2>1, <2>4 DEF DequeueLoad
    <3>2. OnlyMoves(w) /\ cur'[w].job = k
      BY <2>1, <3>1, GotoFacts
    <3>3. ~Exists(k)'
      BY <2>2, <2>4 DEF Exists
    <3> QED BY <2>1, <2>2, <3>2, <3>3, KeepCover
  <2> QED BY <2>3, <2>4
<1>5. CASE DequeueFault(w)
  BY <1>5, SurvivableFaults DEF DequeueFault, Unsure
<1> QED BY <1>1, <1>2, <1>3, <1>4, <1>5 DEF Dequeue

LEMMA ProcessCover ==
    ASSUME IsFiniteSet(Workers), Survivable, TypeOK, CoverInv, NEW w \in Workers,
           Progress(w) \/ SaveCheckpoint(w) \/ Finish(w) \/ SourceCleanup(w)
    PROVE  CoverInv'
<1>1. PICK k \in Jobs : cur[w] \in Local /\ cur[w].job = k /\ Holds(w, k)
  BY HolderType DEF Progress, SaveCheckpoint, Finish, SourceCleanup, Holds
<1>2. UNCHANGED handler
  BY DEF Progress, SaveCheckpoint, Finish, SourceCleanup, localVars
<1>3. CASE Progress(w)
  <2>1. PICK status \in Status :
            /\ Keep(w, [cur[w] EXCEPT !.status = status])
            /\ BestEffortUpdate(k, Payload([cur[w] EXCEPT !.status = status]))
    BY <1>1, <1>3 DEF Progress
  <2>2. pc[w] = "run" /\ pc' = pc
    BY <1>3 DEF Progress
  <2>3. OnlyMoves(w) /\ cur'[w].job = k
    BY <1>1, <2>1, <2>2 DEF Keep, OnlyMoves, TypeOK
  <2>4. [cur[w] EXCEPT !.status = status] \in Local
    BY <1>1
  <2>5. Outside(k) /\ UNCHANGED <<queue, inflight, mark, retry>>
    BY <1>1, <2>1, <2>4, PayloadType, OpOutside DEF BestEffortUpdate, SetJob, redisVars
  <2>6. Owns(w, k)'
    BY <2>2, <2>3 DEF Holds, Owns
  <2> QED BY <1>1, <1>2, <2>3, <2>5, <2>6, KeepCover
<1>4. CASE SaveCheckpoint(w)
  <2>1. UNCHANGED <<pc, cur, queue, inflight, mark>> /\ pc[w] = "run"
    BY <1>4 DEF SaveCheckpoint, SetChunkCheckpoint, localVars
  <2>2. Outside(k) /\ OnlyMoves(w)
    BY <1>1, <1>4, <2>1, OpOutside DEF SaveCheckpoint, OnlyMoves
  <2>3. Owns(w, k)' /\ cur'[w].job = k
    BY <1>1, <2>1 DEF Holds, Owns
  <2> QED BY <1>1, <1>2, <2>1, <2>2, <2>3, KeepCover
<1>5. CASE Finish(w)
  <2>1. PICK o \in Outcomes(k) :
            /\ Keep(w, [cur[w] EXCEPT !.status = o.status, !.retryable = o.retryable])
            /\ BestEffortUpdate(k, Payload([cur[w] EXCEPT !.status = o.status,
                                                          !.retryable = o.retryable]))
    BY <1>1, <1>5 DEF Finish
  <2> DEFINE job == [cur[w] EXCEPT !.status = o.status, !.retryable = o.retryable]
  <2>2. o.status \in {"completed", "failed"} /\ o.retryable \in BOOLEAN
    BY <2>1 DEF Outcomes, Success, Failure
  <2>3. job \in Local /\ job.job = k /\ job.status = o.status
    BY <1>1, <2>2
  <2>4. Keep(w, job) /\ BestEffortUpdate(k, Payload(job))
    BY <2>1
  <2> HIDE DEF job
  <2>5. Goto(w, "cleanup")
    BY <1>5 DEF Finish
  <2>6. OnlyMoves(w) /\ pc'[w] = "cleanup" /\ cur'[w] = job
    BY <2>3, <2>4, <2>5, MoveFacts
  <2>7. SetJob(k, Payload(job))
    BY <2>4, SurvivableFaults DEF BestEffortUpdate
  <2>8. Outside(k) /\ UNCHANGED <<queue, inflight, mark>>
    BY <1>1, <2>3, <2>7, PayloadType, OpOutside DEF SetJob
  <2>9. Owns(w, k)' \/ Settled(k)'
    <3>1. CASE job.status = "failed"
      BY <2>3, <2>6, <3>1 DEF Holds, Owns
    <3>2. CASE job.status = "completed"
      <4>1. store'[k].status = "completed"
        BY <2>7, <3>2 DEF SetJob, Payload, TypeOK, RedisTypeOK
      <4> QED BY <4>1 DEF Settled
    <3> QED BY <2>2, <2>3, <3>1, <3>2
  <2> QED BY <1>1, <1>2, <2>3, <2>6, <2>8, <2>9, KeepCover
<1>6. CASE SourceCleanup(w)
  <2>1. /\ pc[w] = "cleanup" /\ Goto(w, AfterProcess(cur[w]))
        /\ UNCHANGED <<redisVars, cur>>
    BY <1>6 DEF SourceCleanup
  <2>2. AfterProcess(cur[w]) = IF cur[w].status = "failed" THEN "fail" ELSE "clear"
    BY DEF AfterProcess
  <2>3. OnlyMoves(w) /\ pc'[w] = AfterProcess(cur[w]) /\ cur'[w].job = k
    BY <1>1, <2>1, <2>2, GotoFacts
  <2>4. Outside(k) /\ UNCHANGED <<queue, inflight, mark, retry, store, dead>>
    BY <1>1, <2>1, OpOutside DEF redisVars
  <2>5. Owns(w, k)' \/ ~Owns(w, k)
    BY <1>1, <2>1, <2>2, <2>3 DEF Holds, Owns
  <2> QED BY <1>1, <1>2, <2>3, <2>4, <2>5, KeepCover
<1> QED BY <1>3, <1>4, <1>5, <1>6

LEMMA HandleFailedCover ==
    ASSUME IsFiniteSet(Workers), Survivable, TypeOK, CoverInv,
           NEW w \in Workers, HandleFailed(w)
    PROVE  CoverInv'
<1>1. PICK k \in Jobs : cur[w] \in Local /\ cur[w].job = k /\ Holds(w, k)
  BY HolderType DEF HandleFailed, DecideRetry, ScheduleRetry, ScheduleRetryFault, Bury, Holds
<1>2. UNCHANGED handler
  BY DEF HandleFailed, DecideRetry, ScheduleRetry, ScheduleRetryFault, Bury
<1>3. CASE DecideRetry(w)
  <2>1. PICK overloaded \in Overload :
          LET again == Retries(cur[w], overloaded)
              job   == Verdict(cur[w], again)
          IN  /\ Keep(w, job)
              /\ SetJob(job.job, Payload(job))
              /\ Goto(w, IF again THEN "requeue" ELSE "bury")
    BY <1>3, SurvivableFaults DEF DecideRetry, Unsure
  <2> DEFINE again == Retries(cur[w], overloaded)
             job   == Verdict(cur[w], again)
  <2>2. again \in BOOLEAN
    BY <1>1 DEF Retries
  <2>3. job \in Local /\ job.job = k
    <3> HIDE DEF again
    <3> QED BY <1>1, <2>2, VerdictType
  <2>4. /\ Keep(w, job) /\ SetJob(k, Payload(job))
        /\ \E step \in {"requeue", "bury"} : Goto(w, step)
    BY <2>1, <2>3
  <2> HIDE DEF job
  <2>5. OnlyMoves(w) /\ cur'[w].job = k /\ pc'[w] \in {"requeue", "bury"}
    BY <2>3, <2>4, MoveFacts
  <2>6. Outside(k) /\ UNCHANGED <<queue, inflight, mark>>
    BY <1>1, <2>3, <2>4, PayloadType, OpOutside DEF SetJob
  <2>7. Owns(w, k)'
    BY <2>5 DEF Holds, Owns
  <2> QED BY <1>1, <1>2, <2>5, <2>6, <2>7, KeepCover
<1>4. CASE ScheduleRetry(w)
  <2>1. OnlyMoves(w) /\ cur'[w].job = k
    BY <1>1, <1>4, GotoFacts DEF ScheduleRetry
  <2>2. Outside(k) /\ UNCHANGED <<queue, inflight, mark>> /\ retry'[k] # "none"
    BY <1>1, <1>4, OpOutside DEF ScheduleRetry, Requeue, TypeOK, RedisTypeOK
  <2> QED BY <1>1, <1>2, <2>1, <2>2, KeepCover
<1>5. CASE ScheduleRetryFault(w)
  BY <1>5, SurvivableFaults DEF ScheduleRetryFault
<1>6. CASE Bury(w)
  <2>1. OnlyMoves(w) /\ cur'[w].job = k
    BY <1>1, <1>6, GotoFacts DEF Bury
  <2>2. DeadLetter(k)
    BY <1>1, <1>6, SurvivableFaults DEF Bury, Unsure
  <2>3. Outside(k) /\ UNCHANGED <<queue, inflight, mark>>
    BY <2>2, OpOutside DEF DeadLetter
  <2>4. Settled(k)'
    BY <2>2 DEF DeadLetter, Settled, TypeOK, RedisTypeOK
  <2> QED BY <1>1, <1>2, <2>1, <2>3, <2>4, KeepCover
<1> QED BY <1>3, <1>4, <1>5, <1>6 DEF HandleFailed

LEMMA EndOfLoopCover ==
    ASSUME IsFiniteSet(Workers), Survivable, TypeOK, CoverInv, NEW w \in Workers,
           CleanupCheckpoints(w) \/ AckJob(w)
    PROVE  CoverInv'
<1>1. PICK k \in Jobs : cur[w] \in Local /\ cur[w].job = k /\ Holds(w, k)
  BY HolderType DEF CleanupCheckpoints, AckJob, Holds
<1>2. ~Owns(w, k) /\ UNCHANGED handler
  BY DEF CleanupCheckpoints, AckJob, Owns
<1>3. CASE CleanupCheckpoints(w)
  <2>1. OnlyMoves(w) /\ cur'[w].job = k
    BY <1>1, <1>3, GotoFacts DEF CleanupCheckpoints
  <2>2. Outside(k)
    BY <1>1, <1>3, OpOutside DEF CleanupCheckpoints
  <2>3. UNCHANGED <<queue, inflight, mark, retry, store, dead>>
    BY <1>3 DEF CleanupCheckpoints, ClearChunkCheckpoints, redisVars
  <2> QED BY <1>1, <1>2, <2>1, <2>2, <2>3, KeepCover
<1>4. CASE AckJob(w)
  <2>1. OnlyMoves(w) /\ cur'[w].job = NoJob
    BY <1>4 DEF AckJob, Release, Goto, Keep, OnlyMoves, TypeOK
  <2>2. Ack(k)
    BY <1>1, <1>4, SurvivableFaults DEF AckJob, Unsure
  <2>3. Outside(k)
    BY <2>2, OpOutside
  <2>4. /\ UNCHANGED <<queue, retry, dead, store>>
        /\ inflight'[k] = IF inflight[k] > 0 THEN inflight[k] - 1 ELSE 0
        /\ mark'[k] = "none"
    BY <2>2 DEF Ack, TypeOK, RedisTypeOK
  <2> QED BY <1>1, <1>2, <2>1, <2>3, <2>4, ReleaseCover
<1> QED BY <1>3, <1>4

LEMMA EnvironmentCover ==
    ASSUME IsFiniteSet(Workers), Survivable, TypeOK, CoverInv,
           \/ RecoverTick
           \/ \E j \in Jobs : \/ Create(j) \/ AgeMark(j) \/ RetryDue(j)
                              \/ OperatorReplay(j) \/ DayPasses(j)
           \/ \E w \in Workers : Crash(w) \/ Shutdown(w)
    PROVE  CoverInv'
<1>1. CASE RecoverTick
  <2>1. \A j \in Jobs : \A v \in Workers : Owns(v, j)' <=> Owns(v, j)
    BY <1>1 DEF RecoverTick, localVars, Owns, Holds
  <2> QED BY <1>1, <2>1, SweepCover DEF RecoverTick, localVars
<1>2. ASSUME NEW k \in Jobs,
             Create(k) \/ AgeMark(k) \/ RetryDue(k) \/ OperatorReplay(k) \/ DayPasses(k)
      PROVE  CoverInv'
  <2> SUFFICES ASSUME NEW j \in Jobs PROVE Covered(j)'
    BY DEF CoverInv
  <2>1. Covered(j) /\ (Held(j) <=> Cardinality(Holders(j)) > 0)
    BY Counts DEF CoverInv
  <2>2. Holders(j)' = Holders(j) /\ Owners(j)' = Owners(j)
    <3>1. UNCHANGED <<pc, cur>>
      BY <1>2 DEF Create, AgeMark, RetryDue, OperatorReplay, DayPasses, localVars
    <3> QED BY <3>1 DEF Holders, Owners, Owns, Holds
  <2>3. CASE j # k
    <3>1. Outside(k)
      BY <1>2, OpOutside
         DEF Create, Unsure, AgeMark, RetryDue, OperatorReplay, DayPasses
    <3>2. handler'[j] = handler[j]
      BY <1>2, <2>3
         DEF Create, AgeMark, RetryDue, OperatorReplay, DayPasses, localVars, TypeOK
    <3> QED BY <2>1, <2>2, <2>3, <3>1, <3>2
            DEF Outside, Covered, Open, Settled, Exists, Bit
  <2>4. CASE j = k
    <3>1. CASE Create(k)
      <4>1. EnqueueJob(k)
        BY <3>1, SurvivableFaults DEF Create, Unsure
      <4>2. UNCHANGED <<inflight, mark>> /\ queue'[k] = queue[k] + 1
        BY <4>1 DEF EnqueueJob, TypeOK, RedisTypeOK
      <4> QED BY <2>1, <2>2, <2>4, <4>2, CopyTypes DEF Covered, Bit
    <3>2. CASE AgeMark(k)
      <4>1. ~Held(k)
        BY <3>2, SurvivableFaults DEF AgeMark
      <4>2. Cardinality(Holders(k)) = 0
        BY <2>1, <2>4, <4>1, CopyTypes
      <4>3. mark[k] = "fresh" /\ UNCHANGED <<queue, inflight, retry, dead, store, handler>>
        BY <3>2 DEF AgeMark, GrowStale
      <4> QED BY <2>1, <2>2, <2>4, <4>2, <4>3, CopyTypes
              DEF Covered, Open, Settled, Exists, Bit
    <3>3. CASE RetryDue(k)
      <4>1. /\ retry'[k] = "due"
            /\ UNCHANGED <<queue, inflight, mark, dead, store, handler>>
        BY <3>3 DEF RetryDue, BecomeDue, localVars, TypeOK, RedisTypeOK
      <4> QED BY <2>1, <2>2, <2>4, <4>1 DEF Covered, Bit
    <3>4. CASE OperatorReplay(k)
      <4>1. UNCHANGED <<inflight, mark>> /\ queue'[k] = queue[k] + 1
        BY <3>4 DEF OperatorReplay, ReplayDead, TypeOK, RedisTypeOK
      <4> QED BY <2>1, <2>2, <2>4, <4>1, CopyTypes DEF Covered, Bit
    <3>5. CASE DayPasses(k)
      <4>1. UNCHANGED <<queue, inflight, mark, retry, dead, handler>>
        BY <3>5 DEF DayPasses, ExpireJob, listVars, redisVars
      <4>2. Exists(k)' => store'[k] = store[k]
        BY <3>5 DEF DayPasses, ExpireJob, Exists, redisVars, TypeOK, RedisTypeOK
      <4> QED BY <2>1, <2>2, <2>4, <4>1, <4>2 DEF Covered, Open, Settled, Exists, Bit
    <3> QED BY <1>2, <3>1, <3>2, <3>3, <3>4, <3>5
  <2> QED BY <2>3, <2>4
<1>3. ASSUME NEW w \in Workers, Crash(w) \/ Shutdown(w) PROVE CoverInv'
  <2>1. cur[w].job # NoJob
    BY <1>3 DEF Crash, Shutdown, TypeOK
  <2>2. PICK k \in Jobs : cur[w].job = k /\ Holds(w, k)
    BY <2>1 DEF TypeOK, Holds
  <2>3. OnlyMoves(w) /\ cur'[w].job = NoJob
    BY <1>3 DEF Crash, Shutdown, Release, Goto, Keep, OnlyMoves, TypeOK
  <2>4. UNCHANGED <<redisVars, handler>>
    BY <1>3 DEF Crash, Shutdown
  <2>5. Outside(k)
    BY <2>4, OpOutside
  <2> QED BY <2>2, <2>3, <2>4, <2>5, ReleaseCover DEF redisVars
<1> QED BY <1>1, <1>2, <1>3

LEMMA InitCover ==
    ASSUME IsFiniteSet(Workers), Init
    PROVE  CoverInv
<1> SUFFICES ASSUME NEW j \in Jobs PROVE Covered(j)
  BY DEF CoverInv
<1>1. Holders(j) = {}
  BY ConstantsAssumption DEF Init, Holders, Holds, ConstantsAssumption
<1>2. Cardinality(Holders(j)) = 0
  BY <1>1, FS_EmptySet
<1> QED BY <1>2 DEF Init, RedisInit, Covered, Open, Bit

\* However many workers die or are told to stop, and at whatever step, an accepted,
\* unsettled job is still in one of the lists or in a worker's memory (assuming that
\* Redis answers and no worker outlives its mark).
THEOREM ForgottenNever ==
    ASSUME IsFiniteSet(Workers), Survivable
    PROVE  Spec => []NeverForgotten
<1>1. Init => CoverInv
  BY InitCover
<1>2. TypeOK /\ CoverInv /\ [Next]_vars => CoverInv'
  <2> SUFFICES ASSUME TypeOK, CoverInv, [Next]_vars PROVE CoverInv'
    OBVIOUS
  <2>1. CASE Next
    BY <2>1, DequeueCover, ProcessCover, HandleFailedCover, EndOfLoopCover,
       EnvironmentCover
       DEF Next, WorkerStep
  <2>2. CASE UNCHANGED vars
    <3>1. UNCHANGED <<queue, inflight, mark, retry, dead, store, handler, pc, cur>>
      BY <2>2 DEF vars, redisVars, localVars
    <3>2. ASSUME NEW j \in Jobs PROVE Covered(j)'
      <4>1. Holders(j)' = Holders(j) /\ Owners(j)' = Owners(j)
        BY <3>1 DEF Holders, Owners, Owns, Holds
      <4>2. Covered(j)
        BY DEF CoverInv
      <4> QED BY <3>1, <4>1, <4>2 DEF Covered, Open, Settled, Exists, Bit
    <3> QED BY <3>2 DEF CoverInv
  <2> QED BY <2>1, <2>2
<1>3. TypeOK /\ CoverInv => NeverForgotten
  <2> SUFFICES ASSUME TypeOK, CoverInv, NEW j \in Jobs, Open(j), Exists(j)
               PROVE  queue[j] > 0 \/ inflight[j] > 0 \/ retry[j] # "none" \/ Held(j)
    BY DEF NeverForgotten
  <2>1. Covered(j)
    BY DEF CoverInv
  <2>2. \/ queue[j] > 0
        \/ retry[j] # "none"
        \/ inflight[j] + Cardinality(Owners(j)) > Cardinality(Holders(j))
    BY <2>1 DEF Covered
  <2> QED BY <2>2, CopyTypes
<1> QED BY <1>1, <1>2, <1>3, TypeCorrect, PTL DEF Spec
===============================================================================
