------------------------------ MODULE RedisStore ------------------------------
(***************************************************************************)
(* The Redis side of the job queue (src/backend/jobs/store.go): the work   *)
(* list, the in-flight list with its sorted set of dequeue times, the      *)
(* sorted set of delayed retries, the dead-letter list with its hash of    *)
(* reasons, the job payloads and the chunk checkpoints.  Every operator    *)
(* below is one Redis command, Lua script or pipeline; a Go method that    *)
(* sends several is several operators, and the modules that use this       *)
(* module interleave them.  A pipeline is not a transaction, but its few   *)
(* commands leave in one write and the server runs what it has read of one *)
(* client without a break: it is one operator too, and the prefix of it    *)
(* that a broken connection may leave behind is another.                   *)
(*                                                                         *)
(* Data abstraction.  A list of job ids is a bag: no property tells the    *)
(* order of the ids apart, and LREM removes by value.  The score of a      *)
(* sorted-set member is replaced by what a script compares it with: an     *)
(* in-flight mark is "fresh" or, once the 10 minutes of defaultRecoverTTL  *)
(* have passed, "stale"; a delayed retry is "waiting" or "due".            *)
(***************************************************************************)
EXTENDS Naturals

CONSTANT Jobs                     \* the ids of the jobs

VARIABLES
    queue,      \* queue[j]: occurrences of j in loklingo:jobs:queue
    inflight,   \* inflight[j]: occurrences of j in loklingo:jobs:inflight
    mark,       \* mark[j]: j's entry in loklingo:jobs:inflight:zset
    retry,      \* retry[j]: j's entry in loklingo:jobs:retry:zset
    dead,       \* dead[j]: occurrences of j in loklingo:jobs:dead:queue
    deadMeta,   \* ids with a reason in loklingo:jobs:dead:meta
    store,      \* store[j]: the payload under loklingo:job:<j>
    ckpt        \* ids with some loklingo:job:<j>:chunk:* key

listVars  == <<queue, inflight, mark, retry, dead, deadMeta>>
redisVars == <<queue, inflight, mark, retry, dead, deadMeta, store, ckpt>>

Status    == {"pending", "processing", "completed", "failed"}
JobRecord == [status: Status, attempt: Nat, deadLettered: BOOLEAN]
NoRecord  == [status |-> "absent", attempt |-> 0, deadLettered |-> FALSE]
Fresh     == [status |-> "pending", attempt |-> 0, deadLettered |-> FALSE]

RedisTypeOK ==
    /\ queue \in [Jobs -> Nat]
    /\ inflight \in [Jobs -> Nat]
    /\ mark \in [Jobs -> {"none", "fresh", "stale"}]
    /\ retry \in [Jobs -> {"none", "waiting", "due"}]
    /\ dead \in [Jobs -> Nat]
    /\ deadMeta \in SUBSET Jobs
    /\ store \in [Jobs -> JobRecord \cup {NoRecord}]
    /\ ckpt \in SUBSET Jobs

RedisInit ==
    /\ queue = [j \in Jobs |-> 0]
    /\ inflight = [j \in Jobs |-> 0]
    /\ mark = [j \in Jobs |-> "none"]
    /\ retry = [j \in Jobs |-> "none"]
    /\ dead = [j \in Jobs |-> 0]
    /\ deadMeta = {}
    /\ store = [j \in Jobs |-> NoRecord]
    /\ ckpt = {}

Exists(j) == store[j] # NoRecord

-------------------------------------------------------------------------------
(* Payloads and checkpoints.                                               *)

\* SET loklingo:job:<j>: the whole payload is overwritten, whoever wrote last.
SetJob(j, record) ==
    /\ store' = [store EXCEPT ![j] = record]
    /\ UNCHANGED <<queue, inflight, mark, retry, dead, deadMeta, ckpt>>

\* The 24 h TTL of a payload and of its checkpoints runs out.
ExpireJob(j) ==
    /\ store' = [store EXCEPT ![j] = NoRecord]
    /\ ckpt' = ckpt \ {j}
    /\ UNCHANGED listVars

SetChunkCheckpoint(j) ==
    /\ ckpt' = ckpt \cup {j}
    /\ UNCHANGED <<queue, inflight, mark, retry, dead, deadMeta, store>>

ClearChunkCheckpoints(j) ==
    /\ ckpt' = ckpt \ {j}
    /\ UNCHANGED <<queue, inflight, mark, retry, dead, deadMeta, store>>

-------------------------------------------------------------------------------
(* The work list and the in-flight bookkeeping.                            *)

\* Enqueue's pipeline: SET the payload, LPUSH the id.
EnqueueJob(j) ==
    /\ store' = [store EXCEPT ![j] = Fresh]
    /\ queue' = [queue EXCEPT ![j] = @ + 1]
    /\ UNCHANGED <<inflight, mark, retry, dead, deadMeta, ckpt>>

One(j, ids) == IF j \in ids THEN 1 ELSE 0

\* The ids that a sweep removes from the in-flight list, pushes to the queue and
\* promotes from the delayed retries.
MoveIds(removed, pushed, due) ==
    /\ inflight' = [j \in Jobs |-> inflight[j] - One(j, removed)]
    /\ queue' = [j \in Jobs |-> queue[j] + One(j, pushed) + One(j, due)]
    /\ retry' = [j \in Jobs |-> IF j \in due THEN "none" ELSE retry[j]]
    /\ UNCHANGED <<dead, deadMeta, store, ckpt>>

\* Stale members of the in-flight set whose LREM finds an entry.
StaleIds     == {j \in Jobs : mark[j] = "stale" /\ inflight[j] > 0}
DueIds       == {j \in Jobs : retry[j] = "due"}
ClearStale   == mark' = [j \in Jobs |-> IF mark[j] = "stale" THEN "none" ELSE mark[j]]

\* Seeded fault: RecoverStale without its LPUSH.
SweepLosesIds(promote) ==
    MoveIds(StaleIds, {}, IF promote THEN DueIds ELSE {}) /\ ClearStale
\* Seeded fault: RecoverStale without its ZREM.
SweepKeepsMark(promote) ==
    MoveIds(StaleIds, StaleIds, IF promote THEN DueIds ELSE {}) /\ UNCHANGED mark
\* Seeded fault: Dequeue without promoteDueRetries.
SweepWithoutRetries(promote) == MoveIds(StaleIds, StaleIds, {}) /\ ClearStale

\* The Lua of RecoverStale (one LREM per stale member, LPUSH only if LREM found
\* one, ZREM always) followed by the Lua of promoteDueRetries when promote.
\* Dequeue runs both, the recovery ticker only the first; the two scripts
\* commute, so a Dequeue's pair is one step.
Sweep(promote) ==
    MoveIds(StaleIds, StaleIds, IF promote THEN DueIds ELSE {}) /\ ClearStale

\* Seeded fault: BRPOP instead of BRPOPLPUSH.
PopOnly(j) ==
    /\ queue[j] > 0
    /\ queue' = [queue EXCEPT ![j] = @ - 1]
    /\ UNCHANGED <<inflight, mark, retry, dead, deadMeta, store, ckpt>>

\* BRPOPLPUSH queue inflight.
PopToInflight(j) ==
    /\ queue[j] > 0
    /\ queue' = [queue EXCEPT ![j] = @ - 1]
    /\ inflight' = [inflight EXCEPT ![j] = @ + 1]
    /\ UNCHANGED <<mark, retry, dead, deadMeta, store, ckpt>>

\* ZADD inflight:zset, a command of its own after the pop.
MarkInflight(j) ==
    /\ mark' = [mark EXCEPT ![j] = "fresh"]
    /\ UNCHANGED <<queue, inflight, retry, dead, deadMeta, store, ckpt>>

\* LREM inflight 1, the first command of Ack's pipeline.
AckRemove(j) ==
    /\ inflight' = [inflight EXCEPT ![j] = IF @ > 0 THEN @ - 1 ELSE 0]
    /\ UNCHANGED <<queue, mark, retry, dead, deadMeta, store, ckpt>>

\* Seeded fault: a counter that Ack decrements, for the list it looks through.
AckUnchecked(j) ==
    /\ inflight' = [inflight EXCEPT ![j] = @ - 1]
    /\ mark' = [mark EXCEPT ![j] = "none"]
    /\ UNCHANGED <<queue, retry, dead, deadMeta, store, ckpt>>

\* Ack's pipeline: LREM inflight 1, ZREM inflight:zset.
Ack(j) ==
    /\ inflight' = [inflight EXCEPT ![j] = IF @ > 0 THEN @ - 1 ELSE 0]
    /\ mark' = [mark EXCEPT ![j] = "none"]
    /\ UNCHANGED <<queue, retry, dead, deadMeta, store, ckpt>>

-------------------------------------------------------------------------------
(* Retries and dead letters.                                               *)

\* Seeded fault: the immediate LPUSH of Requeue without its return.
RequeueFallsThrough(j) ==
    /\ retry' = [retry EXCEPT ![j] = "waiting"]
    /\ queue' = [queue EXCEPT ![j] = @ + 1]
    /\ UNCHANGED <<inflight, mark, dead, deadMeta, store, ckpt>>

\* Requeue with a positive delay, the only way the worker calls it.
Requeue(j) ==
    /\ retry' = [retry EXCEPT ![j] = "waiting"]
    /\ UNCHANGED <<queue, inflight, mark, dead, deadMeta, store, ckpt>>

\* LPUSH dead, the first command of DeadLetter's pipeline.
DeadLetterPush(j) ==
    /\ dead' = [dead EXCEPT ![j] = @ + 1]
    /\ UNCHANGED <<queue, inflight, mark, retry, deadMeta, store, ckpt>>

\* DeadLetter's pipeline: LPUSH dead, HSET the reason, ZREM retry.
DeadLetter(j) ==
    /\ dead' = [dead EXCEPT ![j] = @ + 1]
    /\ deadMeta' = deadMeta \cup {j}
    /\ retry' = [retry EXCEPT ![j] = "none"]
    /\ UNCHANGED <<queue, inflight, mark, store, ckpt>>

\* Seeded fault: ReplayDead without its LPUSH.
ReplayWithoutPush(j) ==
    /\ Exists(j)
    /\ dead[j] > 0
    /\ dead' = [dead EXCEPT ![j] = 0]
    /\ deadMeta' = deadMeta \ {j}
    /\ retry' = [retry EXCEPT ![j] = "none"]
    /\ store' = [store EXCEPT ![j] = Fresh]
    /\ UNCHANGED <<queue, inflight, mark, ckpt>>

\* ReplayDead: refused unless the payload exists and LREM finds the id; the
\* script drops every dead-letter and retry trace, resets the payload and
\* pushes the id.  The payload is read one command earlier, but every field
\* kept here is overwritten.
ReplayDead(j) ==
    /\ Exists(j)
    /\ dead[j] > 0
    /\ dead' = [dead EXCEPT ![j] = 0]
    /\ deadMeta' = deadMeta \ {j}
    /\ retry' = [retry EXCEPT ![j] = "none"]
    /\ store' = [store EXCEPT ![j] = Fresh]
    /\ queue' = [queue EXCEPT ![j] = @ + 1]
    /\ UNCHANGED <<inflight, mark, ckpt>>

-------------------------------------------------------------------------------
(* Time.                                                                   *)

\* The entry of j in the in-flight set becomes older than defaultRecoverTTL.
GrowStale(j) ==
    /\ mark[j] = "fresh"
    /\ mark' = [mark EXCEPT ![j] = "stale"]
    /\ UNCHANGED <<queue, inflight, retry, dead, deadMeta, store, ckpt>>

\* The back-off of a delayed retry runs out.
BecomeDue(j) ==
    /\ retry[j] = "waiting"
    /\ retry' = [retry EXCEPT ![j] = "due"]
    /\ UNCHANGED <<queue, inflight, mark, dead, deadMeta, store, ckpt>>
===============================================================================
