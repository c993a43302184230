# LokLingo in TLA+

Specifications, model checks and proofs of the parts of LokLingo in which
several processes, goroutines or clients meet: the Redis job queue with its
workers, retries and dead letters, the life of an upload from its request to its
download, the OCR of a document over several providers, the parallel, adaptive,
resumable translation of its text, the orchestrator that translates the pieces,
and the clients that watch a job meanwhile. Paths below are relative to the repository
(`src/`); `worker.go`, `store.go` and `job.go` are those of `backend/jobs`.

## 1. The system

| Part | Code | State it keeps | Operations |
|---|---|---|---|
| Job store | `store.go`, `job.go` | in Redis: work list, in-flight list and sorted set, delayed-retry set, dead-letter list and reasons, job payloads (24 h), chunk checkpoints (24 h), cached translations (30 d) | Enqueue, Dequeue (sweep, pop, mark, read), Update, Ack, RecoverStale, Requeue, DeadLetter, ReplayDead, Set/Get/ClearChunkCheckpoint, Set/GetCached, QueueStats |
| Worker | `worker.go` | one in-memory job, its goroutines and semaphores | Run, process, handleFailedJob, deferred source cleanup, checkpoint cleanup |
| Job API | `backend/handlers/jobs.go` | uploaded files, output files | create text, image and PDF jobs; status, event stream, download; dead-letter list and replay |
| Synchronous API | `backend/handlers/translate.go` | a slot of the in-flight gate | translate a text; translate an image by enqueueing a job and polling it |
| Orchestrator | `backend/services` | health score per provider | try providers in order of health, retry, fail over, notify |
| OCR chain | `backend/internal/services/ocr_provider_chain.go`, `ocr_client.go` | per request: a goroutine, a temporary copy and a channel for each provider | ask OCR providers in order, each under a deadline, within a budget of fallbacks; send a document in several ways, with retries |
| PDF and image services | `backend/internal/services`, `.../overlay` | the output file | extract text, draw overlays, encode and copy |
| Observability | `backend/internal/observability`, `pglog` | counters, ring of events | record, report, log to Postgres |
| Frontend | `frontend/src` | jobs in the browser, one row each | upload, poll and listen at once, replay, remove |
| OCR engines | `ocr-service`, `ocr-vlm` | – | OCR over HTTP |

How they interact. An API handler saves the upload and enqueues the job (one
Redis pipeline). A worker loops: recover stale in-flight ids and promote due
retries, move an id from the work list to the in-flight list, mark it with the
time, read the payload, process it, decide retry or dead letter if it failed,
clear checkpoints, acknowledge. While a worker processes, its goroutines write
progress and checkpoints to the same Redis keys that clients poll, and the
orchestrator calls back into the job through a stage notifier. In front of the
translation the worker extracts text or asks the OCR chain, behind it it draws an
image. A row of the panel polls its job every few seconds and has an event stream
open on it, which is itself a polling goroutine of the backend; a synchronous image
request enqueues a job and polls it while it holds a slot of the in-flight gate. An
operator moves dead-lettered jobs back to the work list. Every worker is a loop in a backend
process (`main.go:110`); replicas share nothing but Redis and the upload volume.

What is hard about it, and what must hold:

* *Custody of a job.* No lock or lease protects a job, only the order of Redis
  commands; several workers, a recovery sweep, due retries and replays move the
  same id. No accepted job may be lost, none be at two places at once, every one
  must end.
* *Failure.* Workers die or are shut down at any command, replies get lost,
  payloads and marks expire, a worker outlives its mark. What a fault may cost
  must be bounded, and recovery must find what was abandoned.
* *Files and budgets.* Source files, output files, attempt counters and the
  verdict live in different places and are changed by different steps, several of
  which ignore that another failed; they must agree with each other for every retry,
  and for the client who is told that its job is completed.
* *Watching.* A payload is rewritten while two readers of one row race; late answers
  overwrite newer ones. A row must come to show how its job ended, streams and
  requests must end, and a gate must not lose slots.
* *One document in many pieces.* Units of pages are packed into chunks across
  page borders, chunk boundaries move while the job runs, failed chunks are split
  or degraded, goroutines finish in any order, and a later run resumes from
  checkpoints. The published document must be whole and in order.
* *OCR.* A provider that is late goes on in its goroutine while the chain asks the
  next one. Its answer must not be taken for another's, its copy must not stay, and
  what it still sends counts.
* *Providers.* Calls run side by side and share the health scores that order the
  providers; retries, pauses, failover and the caller's deadline interleave. No
  fallback may be skipped or provider pestered, and every call must return.
* *Limits.* Concurrency and chunk size adapt to load and latency; they must stay
  within bounds and never reach zero.

## 2. Modules

| Module | What it is | Code |
|---|---|---|
| `RedisStore` | Redis structures; one operator per command, script or pipeline | `store.go` |
| `JobQueue` | API, workers, operator, clock and faults over `RedisStore`; invariants and liveness | `worker.go` 128–230, 801–904; `store.go`; `handlers/jobs.go` |
| `JobLifecycle` | abstract: the life of a job, without Redis or workers | – |
| `JobQueueClaims` | what a test says of the queue and the code does not do | – |
| `JobQueueProofs` | proofs about `JobQueue`: types, custody, nothing lost, the life cycle; under faults: copies, nothing forgotten | – |
| `JobRun` | one job from its upload to its download: request, every way `process` ends, verdict, files | `handlers/jobs.go` 327–602; `worker.go` 603–639, 801–1534; `overlay/render.go` 208–252; `jobs/translate.go` 53–74 |
| `JobRunProofs` | proofs about `JobRun` | – |
| `JobWatch` | clients of a job: polling and streaming row, synchronous image request, gate | `handlers/jobs.go` 128–302; `PdfJobsPanel.tsx` 62–133; `api/translate.ts` 68–97; `handlers/translate.go` 112–203; `middleware/inflight_gate.go` |
| `JobWatchProofs` | proofs about `JobWatch` | – |
| `AdaptiveLimits` | effective concurrency; shrinking word range | `worker.go` 430–449, 713–752 |
| `Chunking` | pages to units to chunks | `worker.go` 367–428 |
| `ChunkingProofs` | what `Chunking` computes, and induction for it | – |
| `ChunkLoop` | the adaptive loop over a document, sequentially | `worker.go` 1539–1704 |
| `ChunkLoopProofs` | proofs about `ChunkLoop` and `AdaptiveLimits` | – |
| `ChunkPipeline` | the same loop with its goroutines, checkpoints, cache, faults and resumption | `worker.go` 317–365, 492–601, 1280–1345, 1497–1824 |
| `ChunkPipelineProofs` | proofs about `ChunkPipeline` | – |
| `OcrChain` | one OCR request over several providers: order, budget, deadlines, goroutines, ways and retries of the client | `ocr_provider_chain.go`, `ocr_client.go` 150–541 |
| `OcrChainProofs` | proofs about `OcrChain` | – |
| `Orchestrator` | concurrent calls over several providers: order by health, retries, failover, scores | `services/orchestrator.go`; `services/providers` |
| `Failover` | abstract: what a caller of the orchestrator is promised | – |
| `OrchestratorProofs` | proofs about `Orchestrator` | – |
| `MC*` | values of the constants for TLC | – |

`JobQueue` EXTENDS `RedisStore`; `ChunkLoop` and `ChunkPipeline` EXTEND
`Chunking`, which EXTENDS `AdaptiveLimits`. `JobQueue` treats the translation of
a job as one state (`"run"`) that may write progress and checkpoints any number
of times and end any way. `JobRun` opens that state up into the steps of `process`
with their files and outcomes; of these, the OCR is `OcrChain` and the translation of
a text is `ChunkPipeline`, each of whose calls may succeed, notify or fail, which is
what `Orchestrator` makes of the providers. Seen from there, the queue is "the job
is delivered again". `JobWatch` sees of all this only the payloads a worker writes.
An operator introduced as a seeded fault is a plausible bug, used to show that a
property can fail; no specification uses it.

### RedisStore and JobQueue

`pc[w]` names the next command of worker `w`, `cur[w]` its in-memory `*Job`:

| `pc` | code |
|---|---|
| `poll`, `pop`, `mark`, `load` | `Dequeue`: sweep, BRPOPLPUSH, ZADD, GET |
| `run` | `process`, with `Progress`, `SaveCheckpoint`, `Finish` |
| `cleanup` | the deferred function of `process` (lines 892–910) |
| `fail`, `requeue`, `bury` | `handleFailedJob`: Update of the verdict, Requeue, DeadLetter |
| `clear`, `ack` | checkpoint cleanup and Ack |

Abstractions. A list of ids is a bag (nothing depends on its order, LREM removes
by value). A score is what the scripts compare it with: a mark is fresh or
stale, a retry waiting or due. A pipeline is one step, because its commands reach
the server together, but a failing call may have had its effect, none, or that
of a prefix of its pipeline (`Unsure`). Payload fields are the status, the
attempt counter and whether `DeadLetteredAt` is set. The two scripts of a
Dequeue commute and are one step. Faults are counted and bounded by `MaxFaults`,
replays by `MaxReplays`; `Faults` says which kinds may happen:

| kind | meaning |
|---|---|
| `crash` | a worker process dies between any two commands and restarts |
| `shutdown` | SIGTERM during a translation: every later store call fails on the cancelled context |
| `redis` | a command fails, or only its reply is lost |
| `slow` | a job stays in work beyond the ten minutes of its mark |
| `expire` | a day passes: the payload expires, or the hourly cleanup removes its PDF |

### JobRun

`request` is how far the creating handler has come (save, page guard, enqueue),
`stored` the payload in Redis, `job` the worker's copy of it, `at` its next step:

| `at` | code |
|---|---|
| `start`, `extract`, `ocr` | the branches of `process` up to the text: mode, page count, text layer, OCR |
| `translate`, `translating` | cache, then the chunks of a text or the blocks of an image |
| `render`, `rerender` | `overlay.Render` in the mode asked for, then as an overlay |
| `encode`, `reencode`, `shrink` | writing the file; a large JPEG once more in place |
| `undrawn`, `copy`, `copying`, `uncopied` | passing an image on as it is, by a copy of its source |
| `finish` | the last Update of an image |
| `cleanup`, `verdict`, `requeue`, `done` | the deferred cleanup, `handleFailedJob`, Requeue, Ack |

A text is `"own"` or a `"translation"`. What a payload brings along from an earlier
run becomes `"earlier"` when the next one starts (`Aged`), except the text of a text job,
which is its upload's; so a property can tell what a run has found itself
from what it has merely not replaced. An output file is `partial` (created, not yet
written), `whole` or `spoiled` (its second encoding failed and nobody looked).
An error is what `classifyJobError` makes of it. Every Update may fail
(`Store`, `Lost`), and fails once the context is cancelled; a crash is possible at
every step; `disk` faults are failing writes and copies. The queue is one flag,
`waiting`. The ghost `again` names what the properties have to except: a job
delivered again before its failure was judged, and one left with a status Redis has
not got. One job and one worker at a time: that the queue can give a job to two
workers is `JobQueue`'s matter.

### JobWatch

`stored[c]` is the payload of the job of client `c`, reduced to its status and
whether a failure is final: `failing` is the failed that is stored before the
verdict, `retry` the pending after it, `dead` the final failure, `gone` an expired
payload. A row has three concurrent parts: `poll` (a timer, a request, its answer),
`source` with `wire` (the browser's EventSource and events on their way) and
`stream` (the goroutine of the backend, which polls Redis itself); each writes what
the row shows without looking at the others. A synchronous request is `out`,
`inside` the gate, at a `poll` or a `sleep`, and `back` with a status code; it holds
one of `slots` in between. Faults are a read that fails, a connection that breaks or
is refused, and a synchronous request that is cancelled (status 408). One goroutine
stands for those of all connections of a row: an old one may tick beside the new
for a while, but writes to a connection that is gone. The ghost `deaf` marks a row for
which nothing reads any more: the last of its two readers took a `failing` for final,
which is the divergence below, or was refused when polling had ended already.

### OcrChain

`pc` is the caller's (`read` the document, `next` provider, `wait` for its channel
or deadline, `done`, `failed`), `work[p].at` that of the goroutine of provider `p`:
`open` the copy, `await` a response, `pause` before a retry, `deliver` into the
channel of one slot, `ended`. `file[p]` is the provider's temporary copy, which the
caller removes when the turn ends, although the goroutine may not have opened it
yet. A document is sent in one of four ways: by its path in the directory shared with
the service, as a multipart upload, as JSON, or as an image; a way has its retries,
and some statuses make the client take the next way. A status is one of the classes
the client tells apart, an answer what is left of it once decoded: a `text`, pages
that are all empty (`hollow`, which counts as success), a `blank` text or an error.

### Chunking, ChunkLoop and ChunkPipeline

A page is its number of words and a unit a numbered part of it, so that order,
loss and repetition are visible and text is not. The chunk a call translates is
the sequence of its units; a translated unit is the unit itself with a flag that
tells it from source text kept for a failed chunk.

`ChunkLoop` is one goroutine's view: `Round` chunks the rest, takes a batch, and
shrinks the range when a chunk was slow. `ChunkPipeline` has the coordinator
(`Start`, `StartBatch`, `Collect`, `Conclude`, `CacheDocument`, `StoreResult`)
and, per chunk, a goroutine: `Lookup` (checkpoint), `Enter` (per-job semaphore),
`Acquire` (the worker's semaphore), `Answer` (the call returns; `translateChunk`'s
recursion is the list `todo`), `Notify`/`Marshal`/`SetStage` (stage notifier),
`Count`/`SetProgress`/`Counted` (under `progressMu`), `SaveCheckpoint`. An image
is one batch without checkpoints or counters, a text has no counters. `Crash`
keeps the payload, the checkpoints and the cache and starts a new run, which may
get another width, so that it meets checkpoints of other chunks.

Abstractions: a goroutine notifies at most once (more add no new order of
marshal and write, only longer ones); the wait for a slot of `globalLLMSem` by a
fallback call, which has no deadline of its own, may end like that of a call
with one, with the same result as a failing call; a completed job is not
delivered again. What surrounds the translation is `JobRun`.

### Orchestrator

`pc[c]` names the next step of the goroutine `c` that calls `Translate`:

| `pc` | code |
|---|---|
| `order` | `orderedProvidersByHealth`: one score after the other, a lock for each |
| `next` | the head of the loop over providers |
| `try`, `send`, `wait`, `sleep` | `tryProviderWithRetry`: the check of the context before an attempt, between check and request, the request, the pause after it |
| `verdict`, `won` | the provider has failed for good or succeeded; its score is to be moved |
| `idle`, `answered`, `failed` | not called yet, returned a text, returned an error |

The sorted list of a call is the set of providers it has not taken yet with the
scores it read; the head of the list is the best of the set. A request ends in
success, in `busy` (statuses 429, 502, 503, 504, a timeout, a refused
connection), in `rejected` (any other error) or, when the context has ended, in
the context's error. A deadline reads as transient and a cancellation as
permanent, as in `isOrchestratorTransientError`. Scores are integers in parts of
0.05, each split into `Unit` more: with `Unit` = 2500 the blend (39 parts of the
old score and 11 of the target in 50) is exact for the two times a run rates a
provider, and beyond that rounds down where the code has a float64. The ghosts
`tries`, `refused`, `moved` and `late` remember the requests sent, the permanent
errors, the providers another call has rated since this one read their scores, and the
requests that left after the context had ended. Left out: the length
of pauses, metrics counters, `SnapshotProviderHealth` (which only reads) and the
notices to the stage notifier, whose effect on the job `ChunkPipeline` has.

`Failover` has neither health nor retries nor other callers: a call starts with
every provider, gives one up at a time, and answers while one is left or fails
when none is, or when its context has ended. `ImplementsFailover` maps the rest
of a call's list and the provider it is trying to the providers left.

## 3. Runs

A run exercises at least two workers, goroutines or clients wherever the code has them.

| Run | Question | Instance |
|---|---|---|
| `JobQueue_healthy` | Without faults, does every interleaving keep a job in one place, lose none, and does every job end and leave no checkpoints? Does the queue implement `JobLifecycle`? | a PDF and an image, 2 workers, 2 attempts, overload comes and goes, 1 replay |
| `JobQueue_crash` | Workers die or are shut down at any step: does Redis still know every job, and does recovery bring it back? | a PDF, 2 workers, 2 faults, 1 replay |
| `JobQueue_faults` | All kinds of fault together: what is the most a fault may duplicate? | a PDF, 2 workers, 2 faults, 1 replay |
| `JobRun_uploads` | Is what a client is told complete there for it, does a run complete with nothing of an earlier one, does a retry have its source, and do PDFs leave the disk? | text, PDF and image in each of their modes, 3 attempts, 2 faults of any kind, 1 replay |
| `JobWatch_clients` | Does a row come to show how its job ended, do streams and requests end, and does the gate count? | 1 row, or 2 requests at 1 slot; 2 attempts, 3 faults, 2 events on the wire |
| `OcrChain_calls` | Whatever answers late: are requests and fallbacks within budget, is the answer the right provider's, does a copy exist exactly while it is waited for, and does all of it end? | 4 requests: two, three and four providers in turn, a budget of 0, every way of the client |
| `ChunkLoop_plan` | Are words handed out once and in order, is the range within its limits, and does more load never mean more goroutines? | documents of up to 3 pages on both sides of each constant, 2 configurations, 5 loads, 3 widths, the real constants |
| `ChunkPipeline_run` | Whatever goroutines, failures, splits, notifications, cancellation and crashes do: is what is published whole, are checkpoints exact, is progress current, the result last, and does the run end? | text, PDF and image of five units in three chunks, width 1 or 2, one LLM slot, 2 faults of any kind |
| `Orchestrator_calls` | Do overlapping calls keep to the retry budget, skip no fallback, ask the healthiest next, send no more than one request in an ended context, and return? Does the orchestrator implement `Failover`? | 2 calls, by two goroutines or one after the other, 2 providers, 1 retry, one context may end |

Why these bounds are enough for the cases at stake: two workers and one or two
ids make every race over an id possible; two attempts give a retry and a dead
letter; two faults let a second fault meet the recovery of the first; a page that
spans two chunks, a chunk that spans three pages (it can be split twice) and a
rest that is chunked anew give every kind of border. `ChunkLoop` uses the real
floor and ceiling. A crash or cancellation at every step of every goroutine is
within the two faults of `ChunkPipeline_run`. In `JobRun` a second fault meets
what the first has left on disk or in Redis, three attempts have a retry after a
retry, and a replay follows a dead letter. One row has all three of its parts; its
wire holds an event behind another, and three faults are a break, a refused
connection and a poll that fails. In `OcrChain` there are at most four providers,
so the chain that is walked to its end has every one of its goroutines. Two calls let
the ratings of one fall between any two steps of the other and, one after the other,
give an order by health that differs from that of registration; two providers have a
first and a last, one retry a first and a last attempt. More calls, providers,
retries, workers, faults, attempts and slots are covered by the proofs, where there
is one.

Fairness. `JobQueue`'s `FairSpec`: weak fairness of a worker's steps (the loop of
`Run` has no exit but its context, and every call to Redis or a provider has a
deadline), of time for a retry (`RetryDue`) and for the mark of an abandoned job
(`AgeMark` with no fault). Requests, operators, faults and the recovery ticker
owe nothing: Dequeue sweeps by itself. `ChunkPipeline`: weak fairness of the
coordinator and of each goroutine; a call returns because
`translateWithRetry` bounds its retries and the HTTP client has a timeout.
`JobRun`: only time and the hourly
sweep of stale uploads (`Age`, `Sweep`). `JobWatch`: timers fire, goroutines run and
messages arrive; workers, clients and faults owe nothing, so a request returns
although no worker takes its job. `OcrChain`: the caller, its deadline and the local
steps of goroutines; the OCR service owes nothing, and `CallReturns` holds although
it hangs. `GoroutinesEnd` assumes in its statement that a response comes, which the
timeout of the HTTP client sees to (`ocr_client.go:81`). `Orchestrator`: weak fairness of
each call's steps, since a request ends by the timeout of its HTTP client
(`openai_chat.go:41`) and a pause by its timer; nobody owes a call or the end of
a context. A worker that waits for work goes on sweeping, so the queue
is checked for deadlock. Everything else ends: a loop, a run of the pipeline, calls
and requests that have returned, a job that is over and its clients. Deadlock checking
is off there, and that an end is a proper one is the business of the liveness properties.

### Where the code and its documentation part

Each of these runs ends in a counterexample, on purpose:

| Run | Claim | What happens |
|---|---|---|
| `JobQueue_endless_retries` | a failing job runs out of attempts (`worker_pdf_test.go:1286`) | a crash before Ack leaves two copies that undo each other's counter, and the job is retried for ever |
| `JobRun_source` | transient failures are retried (`README.md:398`) | the source of a PDF is deleted after the failed try (`worker.go:900`); the retry cannot read it |
| `JobWatch_premature` | the stream goes on until the job has reached a terminal state (`handlers/jobs.go:148`) | a failed try is stored as failed before it is stored as pending (`worker.go:826`); a stream that reads in between ends |

Met while modelling and not run. In the queue:

* a worker that dies between BRPOPLPUSH and ZADD leaves an id in the in-flight list
  that RecoverStale cannot see (`store.go:194`, `258`); the run with crashes
  excepts it by asking for a mark;
* one failing command in `handleFailedJob`, and a job is acknowledged as failed and in
  no list (`worker.go:868`; `README.md:399` says such jobs are dead-lettered);
* an image that was dead-lettered by a worker that died before Ack comes back with
  `DeadLetteredAt` set (only ReplayDead resets it, `store.go:374`); if the next try
  fails transiently, the cleanup removes its source (`worker.go:903`) and then
  the job is scheduled for a retry that cannot read it: `RetryKeepsSource` excepts it;
* a worker that was overtaken after its mark went stale acknowledges all the same
  (`store.go:249`): it removes an in-flight entry and the mark that belong to the
  worker that has the job now, so that nobody notices if this one dies
  (`ForgottenNever` excepts marks that go stale under a live worker for this reason);
* a job in work for more than ten minutes is handed out again, although the pop is
  said to keep its id in-flight until Ack (`store.go:185`), and a completed job that is
  delivered again may turn failed; two workers on one image write the same output file.

In the run of a job:

* an image that fails for good keeps its source, because the cleanup looks at
  `DeadLetteredAt` before `handleFailedJob` sets it (`worker.go:903`), and the image of
  a request whose Enqueue fails stays too: no sweep looks for images;
* a shutdown during a PDF removes its source although its failure could not be stored
  (`worker.go:892`);
* errors of the second encoding of a large JPEG are ignored (`render.go:242`), so a
  spoiled file may be served;
* a PDF whose OCR finds nothing is completed with an empty text when it is to be
  translated, but fails when only OCR was asked for; a job passed on without
  translation keeps the stage and progress of before;
* pages of chunks found as checkpoints are not counted in `processed_pages`
  (`worker.go:1580`, `job.go:85`); the notifier marshals the job outside its mutex
  (`worker.go:1810`), which is why `ProgressIsCurrent` excepts its writes;
* `TRANSLATE_CHUNK_MAX_WORDS` is no hard cap (a chunk below its minimum takes one
  more unit, `worker.go:417`), and an idle queue raises the parallelism of a job above
  `TRANSLATE_CONCURRENCY` (`worker.go:749`).

In the OCR chain:

* temporary copies are made in the system's directory (`ocr_provider_chain.go:522`),
  which lies outside the directory shared with the service by default, so the copy-free
  transfer of `README.md:188` does not happen;
* the tesseract provider asks the service for engine "paddle" (`171`), the options of a
  correction pass are dropped on the way (`227`), pages that are all empty count as a
  success, and the check at `277` is never reached;
* the result of an image names an engine (`611`) that
  `docs/plans/unlimited-ocr-integration.md:312` describes otherwise.

In the panel, `RowConverges` excepts the rows that are `deaf`, which keep what they have
shown last, for good. Besides the divergence above, this is a row whose polling has
ended when its connection breaks and is refused: `PdfJobsPanel.tsx:122–125` only notes that
then, and an event from before the end may have been shown last.

In the orchestrator, a comment says that providers are tried in the order of registration (`orchestrator.go:42`), but
they are ordered by health; a transient failure raises the score of a provider
below 0.35; the end of the caller's context is charged to the provider in turn,
also when it was sent nothing; retries are counted in the metrics for permanent
errors and last attempts too, and timeouts of a last attempt twice; and
`SnapshotProviderHealth` reads the scores anew after sorting by them, so what it
reports may be out of order.

## 4. Proofs

`JobQueueProofs`, for any jobs, workers, budgets and bounds:

* `TypeCorrect`: `Spec => []TypeOK` under every kind of fault. `TypeOK` is
  inductive; the work is in the counters that are decremented (pop, sweep, Ack)
  and in the correspondence of `pc` and `cur`.
* `NothingLost`: `Spec => []NoJobLost`, assuming `Reliable` (no crash, shutdown
  or Redis fault; marks may go stale under a live worker and payloads may
  expire). `NoJobLost` itself is inductive together with `TypeOK`: an action
  concerns one job, `OtherJobsSafe` carries the others over, and each action that
  takes the job from one place is shown to put it in another.
* `OnePlace`: `Spec => []SingleCustody`, assuming `Calm` (no fault at all).
  `SingleCustody` is not inductive: that Ack leaves the next holder's entry alone
  and that a sweep does not recover a job in work follow from where marks and
  held ids are. `CustodyInv` adds that the job a worker is running is stored as
  unfinished, that a mark implies a holder, and that a job not yet created is
  nowhere; `Alone` states custody per job.
* `CheckpointsCleared`: `Spec => []CheckpointsGo`, assuming `Calm`: as long as a settled
  PDF has checkpoints, some worker that holds it still has their clearing before it
  (`ClearInv`). A run that saves checkpoints owns its job, which by custody is then
  not settled, whatever an earlier worker has still to clear.
* `LifecycleCorrect`: `Spec => Lifecycle!Spec`, assuming `Calm`: the queue implements
  `JobLifecycle`, but for that a job ends. The mapping reads where a job is from the
  lists and from who owns it, and its counted tries from the stored payload, while
  `handleFailedJob` counts in the worker's copy: `AgreedInv` says that the two agree
  while a worker decides, and that a job somebody asked for has a payload. Each action
  of the queue is then a step of one job's life (`SameLife` for the others) or none.

The same module, under faults and for any finite number of workers:

* `DuplicatesCorrect` (`[]DuplicatesBounded`) under every kind of fault. The copies of a
  job are counted over the queue, the retries and the workers that own it; the
  inductive `Bounded` also counts a mark whose in-flight id is about to be
  recovered (`Orphan`), because a sweep turns it into a copy that no new fault pays for.
  `StepCounts` says how the step of one worker changes the number of holders.
* `ForgottenNever` (`[]NeverForgotten`), assuming `Survivable` (no Redis fault and no
  worker that outlives its mark; crashes, shutdowns and expiries are allowed). That a
  job is somewhere is not inductive, since Ack takes an in-flight entry
  that might be another's: `CoverInv` bounds entries from below by holders and
  stale marks, and says that an unsettled job is queued, delayed, or has an entry
  beyond those of the workers about to Ack.

`JobRunProofs`, for any uploads, attempts, faults and replays:

* `ServedCorrect` (`[]CompletedIsServed`), `LeftoverCorrect` (`[]NothingLeftOver`) and
  `SourceCorrect` (`[]RetryKeepsSource`). The invariant `Inv` says, step by step, what the
  worker's copy, the stored payload and the files have in common: `ShapeOK` (what a step
  may find), `CleanOK` (texts and messages), `OwnOK` (from which step on a text,
  a translation or a result is this run's and no earlier one's), `ServedOK` (the output of a completed
  image) and `KeptOK` (the source of an image). `RunKeeps` carries it over any step of
  `process` whose new payload, file and result are `Lawful` for the step it goes to, so
  that each branch has only that to show.
* `TypeCorrect` (`[]TypeOK`), by a second invariant. Attempts are not bounded by
  `MaxAttempts`: an image that was buried and comes back is tried once more for each
  fault that brought it back (`TriedOK`).

`JobWatchProofs`, for any requests and number of slots:

* `GateCorrect` (`[]GateHolds`): the cardinality of the requests inside, with
  one lemma for entering, staying and returning.
* `TypeCorrect` (`[]TypeOK`, by proof alone): `WatchInv` adds what each reader can have got (`StreamOK`)
  and that a job still to be tried has tries left (`TriesOK`).

`OcrChainProofs`, for any requests and budgets:

* `TypeCorrect`, `BudgetCorrect` (`[]WithinBudget`), `ExhaustionCorrect`
  (`[]FailsOnlyExhausted`), `OwnCorrect` (`[]AnswerIsOwn`) and `CopyCorrect`
  (`[]CopyWhileWaiting`). The invariant `Inv` needs that the order is a permutation of
  the providers (`OrderPermutes`, from `MoveKeepsPermutation`), how many requests
  each way accounts for (`SentOK`), that providers after the current one have not
  begun and those before it have a verdict (`TurnsOK`), and that the number of
  goroutines is at most that of fallbacks and one (`StartedOK`).

`ChunkingProofs`, for any document and any range:

* `ChunksAreCut`: the chunks of `buildTextChunks` are its units, cut into consecutive
  pieces with a unit at least. `Cut(seqs, units, a, b)` says that of sequences that cover
  a part of the units; cuts compose, split and flatten (`CutConcat`, `CutSplit`, `FlattenCut`), which is all that
  the loop and the pipeline need of them.
* What comes with it: the units of a page are consecutive and numbered from one
  (`UnitsByPage`), and what stands for all units keeps the pages (`StandsPages`).

Definitions recur over the units here, and sequences are flattened by a fold. The
proofs go by induction all the same: not by the library's theorem, which takes an operator,
but for sets (`SetInduction`), from the least element that the well-founded order of the
naturals has, and a recursive function exists and has its equation by
`Iteration`.

`ChunkLoopProofs`, for any documents, loads, configurations, floor and ceiling:

* `RangeCorrect` (`[]RangeStaysValid`) and `RangeShrinks` (`RangeOnlyShrinks`, which only
  the proof shows), by the inductive `RangeInv`, from `FourFifthsBounds` (integer division) and
  `ReducedBounds`.
* `WidthCorrect` (`[]HeavierNeverWider`), from `WidthFallsWithLoad`, a case
  analysis of the thresholds for all pairs of loads.
* `NothingIsSkipped` (`[]NothingSkipped`): the chunks handed out are a cut of the
  document up to where the rest begins (`HandedOut`).
* `RestGetsShorter` (`RestShrinks`, by proof alone): a round takes a unit at least, so
  the loop has no more rounds than units, which is why it ends.

`ChunkPipelineProofs`, for any document, configuration, widths and faults. The shapes of
all variables (`Shapes`) and the shape of a goroutine's step (`WorkShape`) come first; then:

* `ResultStays` (`ResultIsLastWrite`): a goroutine is only alive in a batch, and nothing is
  completed before the last batch is over (`PhaseInv`).
* `CheckpointsCorrect` (`[]CheckpointsAreTranslations`): what a goroutine has translated
  is a first part of its chunk, and its list of what is left is a cut of the others,
  however often it is split (`RoutinesOK`); it saves a checkpoint only when nothing is left.
* `ProgressCorrect` (`ProgressIsCurrent`): a goroutine that marshals to store progress holds
  `progressMu`, and what it has marshalled is still the count of the job (`HoldsLock`).
* `DocumentCorrect` (`[]DocumentIsWhole`): the results stand for the first units of the
  document, source text included where a chunk was degraded, the rest is the others, and the
  batch goes on where the results end (`ResultsInv`). What is put together by pages from
  results that stand for all units is whole (`WholeAssembled`).
* `TypeCorrect` (`[]TypeOK`), of which the bounds of the counters are the hard part: no
  page counts more units than it has, and no more pages are processed than there are. The
  invariant `CountInv` speaks of the set of units counted so far, by their places in the
  document: whatever goroutine counts next, its unit is not among them (`Ahead`).

`OrchestratorProofs`, for any callers, number of providers, retries and `Unit`:

* `TypeCorrect` and `ScoresCorrect` (`[]ScoresBounded`), by proof alone. A blend lies between the
  score and the target (`BlendBounds`, integer division), so with the targets as
  bounds the clamp never acts.
* `BudgetCorrect` (`[]WithinBudget`) and `ExhaustionCorrect`
  (`[]FailsOnlyExhausted`). The inductive invariant is `CallsOK`: for each call, the
  providers in the rest of its list are untouched, the current one has been sent
  as many requests as its attempts say, and every other one has refused or used up
  its retries, unless the context has ended. A step of a call keeps that of the
  others (`OthersKept`) and its own (`OwnStep`).
* `SuccessCorrect` (`SuccessNeverLowers`), by proof alone, from the bounds of scores.
* `OrderCorrect` (`HealthiestNext`): what a call has read of a provider in the rest of its
  list is still its score unless another call has rated it since (`SeenOK`), because
  the call's own ratings are of providers it has taken out.
* `LateCorrect` (`[]OneLateAtMost`): a call that has sent a request in an ended context is
  not between check and request, and no later check lets it through (`LateOK`).
* `FailoverCorrect` (`Spec => ImplementsFailover`): a step changes one entry of the
  mapping (`OneEntry`) and is a step of `Failover` or a stutter (`FailoverStep`).

The theorems rest on the named assumptions about constants
(`ConstantsAssumption`, `LimitsAssumption`, `LoopAssumption`, `PipelineAssumption`,
`OrchestratorAssumption`, `ChainAssumption`, `RunAssumption`, `WatchAssumption`), which the runs evaluate; what a
theorem assumes beyond them (`Reliable`, `Calm`, `Survivable`, `IsFiniteSet(Workers)`)
stands in its statement.

Every invariant and every action property of the passing runs is proved, under the
assumptions stated. Model-checked
only are the properties that need fairness (`EverySettles`, the liveness part of
`ImplementsLifecycle`, `AbandonedRecovered`, `RunEnds`, `CallsReturn`, `CallReturns`,
`GoroutinesEnd`, `RowConverges`, `StreamEnds`, `RequestReturns`, `PdfGoes`), since liveness and
ENABLED are outside the prover. No module with a theorem reaches a RECURSIVE operator,
because the prover loses its SMT backend there: recursion is written as functions.

## 5. Plan

Done: the queue and its abstract specification, the run of a job with its files, the
clients that watch it, the OCR chain, the adaptive loop, the chunk pipeline and
the orchestrator, with the theorems above. What would come next:

1. An abstract `DocumentTranslation` (units are untranslated, translated or
   kept, then published) implemented by `ChunkPipeline`.
2. Proofs of what the liveness properties rest on, as `RestShrinks` is for the loop: that each
   step of a run, a call or a goroutine is one towards its end.
3. `JobRun` with two workers on one job, for the output file they share.
4. The text request of the synchronous API, whose cache `ChunkPipeline` has.

There are about a dozen runs and forty properties: when a module needs more, the
narrowest of the counterexample runs and the properties that a refinement or a
theorem implies give way.

## 6. Not modelled

Parsing of PDFs and of provider answers, fonts and pixels of an overlay, HTTP formats and
validation, metrics and their endpoints, the Postgres event log, configuration
parsing, the OCR engines, scripts and tools, and the presentation part of the
frontend: sequential code without a protocol, or reading that nothing depends on.
Their outcomes, where something depends on them, are in `JobRun` (extraction, OCR,
drawing, encoding and copying with their errors) and `OcrChain` (the statuses and
answers of the service). Durations are not modelled: only the order of events, and
that deadlines exist. `PROJECT.json` lists every part with the reason.
