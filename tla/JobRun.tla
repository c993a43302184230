-------------------------------- MODULE JobRun --------------------------------
(***************************************************************************)
(* One job from its upload to its download: the handler that saves and        *)
(* enqueues it (src/backend/handlers/jobs.go), the worker's `process` with    *)
(* every way it ends and the verdict on a failure (src/backend/jobs/          *)
(* worker.go), the files they share, and the download of the result.          *)
(*                                                                           *)
(* The queue is reduced to `waiting`: the id is where a worker will find it   *)
(* (JobQueue has the lists).  What happens to the chunks of a text is         *)
(* ChunkPipeline's, what happens inside the OCR client is OcrChain's; here    *)
(* both are one step with the outcomes `process` tells apart.                 *)
(***************************************************************************)
EXTENDS Naturals

CONSTANTS
    Uploads,       \* the uploads considered: [kind, mode, forced]
    MaxAttempts,   \* Job.MaxAttempts
    Faults,        \* the kinds of fault that may happen
    MaxFaults,     \* bound: faults in a behaviour
    MaxReplays     \* bound: operator replays in a behaviour

Kinds == {"text", "pdf", "image"}
Modes == {"overlay", "layout", "ocr_only"}
FaultKinds == {"crash", "shutdown", "redis", "disk"}

ASSUME RunAssumption ==
    /\ Uploads \subseteq [kind : Kinds, mode : Modes, forced : BOOLEAN]
    /\ MaxAttempts \in Nat \ {0}
    /\ Faults \subseteq FaultKinds
    /\ {MaxFaults, MaxReplays} \subseteq Nat

VARIABLES
    up,        \* the upload of this behaviour
    request,   \* how far the request that creates the job has come
    source,    \* the uploaded file is on disk
    old,       \* it has been there for a day
    output,    \* the file the job's result is drawn into
    stored,    \* the stored payload
    waiting,   \* the id waits in a list for a worker
    at,        \* the next step of the worker, "idle" without the job
    job,       \* the worker's copy of the payload
    won,       \* what the translation of an image has yielded
    stopped,   \* the context of the worker is cancelled
    again,     \* ghost: "failed" once a job without its verdict was delivered again,
               \* "behind" once a worker left a job with a status not stored
    faults,
    replays

disk == <<source, old, output>>
run  == <<at, job, won, stopped>>
vars == <<up, request, disk, stored, waiting, run, again, faults, replays>>

None   == "none"
Words  == {None, "own", "translation"}
Errors == {None, "transient", "lasting"}

\* What the properties tell apart of a Job.  "earlier" is what a run before the last
\* delivery has left.
Payload == [status : {None, "pending", "processing", "completed", "failed"},
            error : Errors, attempt : 0..MaxAttempts + MaxFaults, buried : BOOLEAN,
            text : {None, "own", "earlier"}, translated : Words \cup {"earlier"},
            output : {None, "own", "earlier"}]

Nothing == [status |-> None, error |-> None, attempt |-> 0, buried |-> FALSE,
            text |-> None, translated |-> None, output |-> None]

Fresh == [status |-> "pending", error |-> None, attempt |-> 0, buried |-> FALSE,
          text |-> IF up.kind = "text" THEN "own" ELSE None,
          translated |-> None, output |-> None]

Steps == {"idle", "start", "extract", "ocr", "translate", "translating", "render",
          "rerender", "encode", "reencode", "shrink", "undrawn", "copy", "copying", "uncopied",
          "finish", "cleanup", "verdict", "requeue", "done"}

TypeOK ==
    /\ up \in Uploads
    /\ request \in {"new", "saved", "accepted", "refused", "failed", "lost"}
    /\ {source, old, waiting, stopped} \subseteq BOOLEAN
    /\ again \subseteq {"failed", "behind"}
    /\ output \in {None, "partial", "spoiled", "whole"}
    /\ stored \in Payload
    /\ at \in Steps
    /\ job \in Payload
    /\ at = "idle" <=> job = Nothing
    /\ won \in Words
    /\ faults \in 0..MaxFaults
    /\ replays \in 0..MaxReplays

Init ==
    /\ up \in Uploads
    /\ request = "new"
    /\ source = FALSE /\ old = FALSE /\ output = None
    /\ stored = Nothing /\ waiting = FALSE
    /\ at = "idle" /\ job = Nothing /\ won = None
    /\ stopped = FALSE /\ again = {} /\ faults = 0 /\ replays = 0

Is(kind) == up.kind = kind

Fault(kind) ==
    /\ kind \in Faults
    /\ faults < MaxFaults
    /\ faults' = faults + 1
NoFault == UNCHANGED faults

\* No update gets through once the worker's context is cancelled.
Lost == UNCHANGED stored /\ IF stopped THEN NoFault ELSE Fault("redis")

\* Update whose error is only logged.
Store(payload) ==
    \/ ~ stopped /\ stored' = payload /\ NoFault
    \/ Lost

-------------------------------------------------------------------------------
(* The request.                                                            *)

\* The upload is valid and written to the directory of its kind.
Save ==
    /\ request = "new"
    /\ \/ request' = "saved" /\ source' = (up.kind # "text") /\ NoFault
       \/ up.kind # "text" /\ request' = "failed" /\ UNCHANGED source /\ Fault("disk")
    /\ UNCHANGED <<up, old, output, stored, waiting, run, again, replays>>

\* A PDF with too many pages, or whose pages cannot be counted, is removed again.
Refuse ==
    /\ request = "saved"
    /\ Is("pdf")
    /\ request' = "refused"
    /\ source' = FALSE
    /\ UNCHANGED <<up, old, output, stored, waiting, run, again, faults, replays>>

\* When Enqueue fails the request does, and the file stays where it is.
Enqueue ==
    /\ request = "saved"
    /\ \/ /\ request' = "accepted"
          /\ stored' = Fresh
          /\ waiting' = TRUE
          /\ NoFault
       \/ /\ request' = "failed"
          /\ UNCHANGED <<stored, waiting>>
          /\ Fault("redis")
    /\ UNCHANGED <<up, disk, run, again, replays>>

HandlerDies ==
    /\ request = "saved"
    /\ request' = "lost"
    /\ Fault("crash")
    /\ UNCHANGED <<up, disk, stored, waiting, run, again, replays>>

-------------------------------------------------------------------------------
(* How a run ends.                                                         *)

Goto(step, payload) == at' = step /\ job' = payload

Fail(error) ==
    LET failed == [job EXCEPT !.status = "failed", !.error = error]
    IN Goto("cleanup", failed) /\ Store(failed)

Complete(payload) ==
    LET completed == [payload EXCEPT !.status = "completed"]
    IN Goto("cleanup", completed) /\ Store(completed)

\* setJobStage: the payload is stored as it is in memory.
Stage(step, payload) == Goto(step, payload) /\ Store(payload)

\* A failed call may say something classifyJobError takes for transient; that there
\* is no such file is not.
SomeError == IF source THEN {"transient", "lasting"} ELSE {"lasting"}

-------------------------------------------------------------------------------
(* The run up to the text.                                                 *)

\* Texts and result a payload has when a run starts are an earlier run's; only the
\* text of a text job is its upload's.
Left(word) == IF word = None THEN None ELSE "earlier"

Aged(payload) ==
    [payload EXCEPT !.text = IF Is("text") THEN @ ELSE Left(@),
                    !.translated = Left(@), !.output = Left(@)]

\* A worker takes the job and reads its payload.
Deliver ==
    /\ at = "idle"
    /\ waiting
    /\ waiting' = FALSE
    /\ Goto("start", Aged(stored))
    /\ UNCHANGED <<won, stopped>>
    /\ UNCHANGED <<up, request, disk, stored, again, faults, replays>>

Processing(payload) == [payload EXCEPT !.status = "processing"]

\* With a text at hand the mode decides; only images have every mode.
WithText(payload) ==
    IF up.mode = "overlay"
    THEN Goto("translate", payload) /\ UNCHANGED stored /\ NoFault
    ELSE LET failed == [payload EXCEPT !.status = "failed", !.error = "lasting"]
         IN Goto("cleanup", failed) /\ Store(failed)

StartText ==
    /\ Is("text")
    /\ WithText(job)

\* A PDF is measured, then read, or shown to the OCR service at once.
StartPdf ==
    /\ Is("pdf")
    /\ \/ Fail("lasting")
       \/ up.mode = "ocr_only" /\ Goto("ocr", job) /\ UNCHANGED stored /\ NoFault
       \/ up.mode # "ocr_only" /\ Stage("extract", job)

StartImage ==
    /\ Is("image")
    /\ Stage("ocr", Processing(job))

Start ==
    /\ at = "start"
    /\ StartText \/ StartPdf \/ StartImage
    /\ UNCHANGED <<up, request, disk, waiting, won, stopped, again, replays>>

\* The text of a PDF, unless there is none, it cannot be read, or OCR is forced.
Extract ==
    /\ at = "extract"
    /\ \/ /\ source /\ ~ up.forced
          /\ WithText([job EXCEPT !.text = "own"])
       \/ Goto("ocr", job) /\ UNCHANGED stored /\ NoFault
    /\ UNCHANGED <<up, request, disk, waiting, won, stopped, again, replays>>

OcrFails ==
    \E error \in SomeError : Fail(error)

\* Pages without text fail an OCR job but not a translation.
PdfPages ==
    /\ Is("pdf") /\ source
    /\ \E text \in {None, "own"} :
          IF up.mode = "ocr_only"
          THEN IF text = None THEN Fail("lasting")
               ELSE Complete([job EXCEPT !.text = text, !.translated = text])
          ELSE WithText([job EXCEPT !.text = text])

\* Seeded fault: the texts are not cleared.
TextsKept(payload) == [payload EXCEPT !.error = None]

Cleared(payload) ==
    [payload EXCEPT !.text = None, !.translated = None, !.error = None]

\* Without text an image is passed on as it is; its stage is stored before its texts
\* are cleared.
ImageBlocks ==
    /\ Is("image") /\ source
    /\ \/ IF up.mode = "ocr_only"
          THEN Complete([Cleared(job) EXCEPT !.output = None])
          ELSE Goto("copy", Cleared(job)) /\ Store(job)
       \/ IF up.mode = "ocr_only"
          THEN Complete([job EXCEPT !.text = "own", !.translated = "own",
                                    !.output = None])
          ELSE Stage("translate", job)

Ocr ==
    /\ at = "ocr"
    /\ OcrFails \/ PdfPages \/ ImageBlocks
    /\ UNCHANGED <<up, request, disk, waiting, won, stopped, again, replays>>

-------------------------------------------------------------------------------
(* The translation and what is made of it.                                 *)

\* Chunks that have failed keep their own words, and so does what was cached of them.
CompleteDocument ==
    \E words \in IF job.text = None THEN {None} ELSE {"own", "translation"} :
        Complete([job EXCEPT !.translated = words])

\* A text or a PDF may be in the cache, and ends the run then.
Translate ==
    /\ at = "translate"
    /\ \/ Stage("translating", Processing(job))
       \/ ~ Is("image") /\ CompleteDocument
    /\ UNCHANGED <<up, request, disk, waiting, won, stopped, again, replays>>

\* Only the end of the worker fails the run.  An image whose segments yield no words
\* is passed on as it is.
Translated ==
    /\ at = "translating"
    /\ \/ stopped /\ Fail("lasting") /\ UNCHANGED won
       \/ ~ Is("image") /\ CompleteDocument /\ UNCHANGED won
       \/ /\ Is("image")
          /\ Goto("copy", [job EXCEPT !.text = "own", !.translated = "own",
                                      !.error = None])
          /\ UNCHANGED <<stored, won>>
          /\ NoFault
       \/ /\ Is("image")
          /\ won' \in {"own", "translation"}
          /\ Stage("render", job)
    /\ UNCHANGED <<up, request, disk, waiting, stopped, again, replays>>

drawing == <<up, request, source, old, waiting, won, stopped, again, replays>>

\* A step of the drawing that stores nothing.
Quietly(step) == Goto(step, job) /\ UNCHANGED stored

\* The image is read and drawn, and the file of the result created.
Draw ==
    /\ source
    /\ output' = "partial"
    /\ Quietly(IF at = "render" THEN "encode" ELSE "reencode")

\* A layout that cannot be drawn is drawn as an overlay.
Undrawn ==
    /\ UNCHANGED output
    /\ Quietly(IF at \in {"render", "encode"} /\ up.mode = "layout" THEN "rerender"
               ELSE "undrawn")

Render ==
    /\ at \in {"render", "rerender"}
    /\ Draw \/ Undrawn
    /\ NoFault
    /\ UNCHANGED drawing

\* A JPEG that has come out large is written once more.
Encode ==
    /\ at \in {"encode", "reencode"}
    /\ \/ output' = "whole" /\ Quietly("finish") /\ NoFault
       \/ output' = "partial" /\ Quietly("shrink") /\ NoFault
       \/ Undrawn /\ Fault("disk")
    /\ UNCHANGED drawing

\* The errors of the second encoding are dropped.
Shrink ==
    /\ at = "shrink"
    /\ \/ output' = "whole" /\ NoFault
       \/ output' = "spoiled" /\ Fault("disk")
    /\ Quietly("finish")
    /\ UNCHANGED drawing

\* An image that cannot be drawn at all is passed on as it is.
PassOn ==
    /\ at = "undrawn"
    /\ Stage("copy", job)
    /\ UNCHANGED output
    /\ UNCHANGED drawing

Copy ==
    /\ at = "copy"
    /\ IF source THEN output' = "partial" /\ Quietly("copying")
                 ELSE UNCHANGED output /\ Quietly("uncopied")
    /\ NoFault
    /\ UNCHANGED drawing

\* Seeded fault: the error of the copy is not looked at.
AfterBadCopy == "finish"

AfterFailedCopy == "uncopied"

Copied ==
    /\ at = "copying"
    /\ \/ output' = "whole" /\ Quietly("finish") /\ NoFault
       \/ UNCHANGED output /\ Quietly(AfterFailedCopy) /\ Fault("disk")
    /\ UNCHANGED drawing

NotCopied ==
    /\ at = "uncopied"
    /\ Fail("lasting")
    /\ UNCHANGED output
    /\ UNCHANGED drawing

\* The texts of an image whose translation has yielded something go with the file.
Finish ==
    /\ at = "finish"
    /\ Complete(IF won = None THEN [job EXCEPT !.output = "own"]
                ELSE [job EXCEPT !.text = "own", !.translated = won, !.output = "own"])
    /\ UNCHANGED output
    /\ UNCHANGED drawing

-------------------------------------------------------------------------------
(* After the run.                                                          *)

\* Seeded fault: the source goes after a failure too.
RemovesAlways(payload) == payload.status \in {"completed", "failed"}

\* The deferred removal comes before the verdict.
Removes(payload) ==
    \/ payload.status = "completed"
    \/ payload.status = "failed" /\ (Is("pdf") \/ payload.buried)

Cleanup ==
    /\ at = "cleanup"
    /\ source' = (source /\ ~ Removes(job))
    /\ Goto(IF job.status = "failed" THEN "verdict" ELSE "done", job)
    /\ UNCHANGED <<up, request, old, output, stored, waiting, won, stopped, again, faults, replays>>

ForRetry(payload) ==
    [payload EXCEPT !.status = "pending", !.attempt = @ + 1, !.error = None]

\* Seeded fault: whatever is transient is tried again.
AlwaysRetried(payload, most) == payload.error = "transient"

Retried(payload, most) == payload.error = "transient" /\ payload.attempt + 1 < most

Buried(payload) == [payload EXCEPT !.attempt = @ + 1, !.buried = TRUE]

\* One try less when the queue is overloaded.  A verdict that cannot be stored is
\* given up, in memory it stands.
Verdict ==
    /\ at = "verdict"
    /\ \E most \in {MaxAttempts, IF MaxAttempts > 1 THEN MaxAttempts - 1 ELSE 1} :
          LET retried == Retried(job, most)
              judged  == IF retried THEN ForRetry(job) ELSE Buried(job)
          IN \/ /\ ~ stopped
                /\ Goto(IF retried THEN "requeue" ELSE "done", judged)
                /\ stored' = judged
                /\ NoFault
             \/ Goto("done", judged) /\ Lost
    /\ UNCHANGED <<up, request, disk, waiting, won, stopped, again, replays>>

\* A retry that cannot be scheduled fails the job for good, without a dead letter.
Requeue ==
    /\ at = "requeue"
    /\ \/ ~ stopped /\ Quietly("done") /\ waiting' = TRUE /\ NoFault
       \/ stopped /\ Quietly("done") /\ UNCHANGED waiting /\ NoFault
       \/ /\ ~ stopped
          /\ Goto("done", [job EXCEPT !.status = "failed", !.error = "transient"])
          /\ stored' \in {job', stored}
          /\ UNCHANGED waiting
          /\ Fault("redis")
    /\ UNCHANGED <<up, request, disk, won, stopped, again, replays>>

Behind == IF stored.status = job.status THEN {} ELSE {"behind"}

Leave == Goto("idle", Nothing) /\ won' = None /\ stopped' = FALSE

Ack ==
    /\ at = "done"
    /\ ~ stopped
    /\ Leave
    /\ again' = again \cup Behind
    /\ UNCHANGED <<up, request, disk, stored, waiting, faults, replays>>

\* A job that was not acknowledged is put back by RecoverStale.
Recovered ==
    /\ Leave
    /\ waiting' = TRUE
    /\ again' = again \cup Behind \cup ({stored.status} \cap {"failed"})
    /\ UNCHANGED <<up, request, disk, stored, replays>>

Stopped == at = "done" /\ stopped /\ Recovered /\ NoFault

Crash == at # "idle" /\ Recovered /\ Fault("crash")

Shutdown ==
    /\ at # "idle"
    /\ ~ stopped
    /\ stopped' = TRUE
    /\ Fault("shutdown")
    /\ UNCHANGED <<up, request, disk, stored, waiting, at, job, won, again, replays>>

\* ReplayDead: a dead letter starts afresh, with the texts and files it has.
Replay ==
    /\ at = "idle" /\ ~ waiting
    /\ stored.buried
    /\ replays < MaxReplays
    /\ replays' = replays + 1
    /\ stored' = [stored EXCEPT !.status = "pending", !.error = None, !.attempt = 0,
                                !.buried = FALSE]
    /\ waiting' = TRUE
    /\ UNCHANGED <<up, request, disk, run, again, faults>>

-------------------------------------------------------------------------------
(* Housekeeping and the download.                                          *)

Age ==
    /\ source /\ ~ old
    /\ old' = TRUE
    /\ UNCHANGED <<up, request, source, output, stored, waiting, run, again, faults, replays>>

\* Seeded fault: the suffix is tested the wrong way round.
StaleOthers == old /\ ~ Is("pdf")

\* cleanStaleUploads looks through the upload directory for old files named .pdf.
Stale == old /\ Is("pdf")

Sweep ==
    /\ source
    /\ Stale
    /\ source' = FALSE
    /\ UNCHANGED <<up, request, old, output, stored, waiting, run, again, faults, replays>>

\* What DownloadJobOutput answers.
Download ==
    CASE stored.status # "completed" \/ stored.output = None -> 404
      [] output = None -> 404
      [] OTHER -> 200

-------------------------------------------------------------------------------
Next ==
    \/ Save \/ Refuse \/ Enqueue \/ HandlerDies
    \/ Deliver \/ Start \/ Extract \/ Ocr
    \/ Translate \/ Translated \/ Render \/ Encode \/ Shrink \/ PassOn
    \/ Copy \/ Copied \/ NotCopied \/ Finish
    \/ Cleanup \/ Verdict \/ Requeue \/ Ack \/ Stopped \/ Crash \/ Shutdown \/ Replay
    \/ Age \/ Sweep

Spec == Init /\ [][Next]_vars

\* The hourly sweep goes on, and a day passes.
FairSpec == Spec /\ WF_vars(Age) /\ WF_vars(Sweep)

-------------------------------------------------------------------------------
(* Properties.                                                             *)

Stored(status) == stored.status = status

\* A client that is told its image is translated can download it, and gets a whole
\* file, whatever fell back to what and wherever a worker died before.  Excepted are
\* a file whose second encoding failed, and a job whose status in Redis is not that of
\* its worker, because an update was lost.
CompletedIsServed ==
    Stored("completed") /\ Is("image") /\ up.mode # "ocr_only"
        /\ "behind" \notin again /\ (at = "idle" \/ job.status = "completed") =>
        Download = 200 /\ output \in {"whole", "spoiled"}

\* Each run starts from the payload the last one stored, with its texts, its result
\* and its error.  A run that ends completed has no text, translation or result but
\* those of its own: it clears what it finds none of.  A completed job has a
\* translation exactly if it has a text, and no message of an earlier failure, unless
\* a worker died before it had judged that failure.
NothingLeftOver ==
    /\ at \in {"cleanup", "done"} /\ job.status = "completed" =>
          "earlier" \notin {job.text, job.translated, job.output}
    /\ Stored("completed") =>
          /\ stored.text = None <=> stored.translated = None
          /\ stored.error = None \/ "failed" \in again

\* An image that is to be tried again still has its source, also when a worker has
\* died.  Excepted are updates that were lost, and a dead letter that came back
\* before its Ack: its date is kept, so a failure removes the source and retries.
RetryKeepsSource ==
    waiting /\ Is("image") /\ Stored("pending") /\ stored.attempt > 0
        /\ ~ stored.buried /\ "behind" \notin again => source

\* The file of a PDF goes in the end, also when its request failed half-way.
PdfGoes == (Is("pdf") /\ source) ~> ~ source

\* Claimed: transient failures are retried, and a source is kept until its job is
\* terminal, so that of a job which a worker will take once more is there.
RedeliveredHasSource ==
    waiting /\ ~ Is("text") /\ ~ old /\ stored.status \in {"pending", "processing"}
        => source
===============================================================================
