------------------------------ MODULE JobRunProofs ------------------------------
(*************************************************************************)
(* What holds of JobRun for any uploads, attempts, kinds and numbers of  *)
(* faults and replays: what a completed job serves, what it keeps of     *)
(* earlier runs, that a retry of an image has its source, and the types. *)
(* None of the properties is inductive. Inv adds what each step of a run *)
(* knows of the payload in memory and of the one in Redis (ShapeOK),     *)
(* where messages of earlier failures can be (CleanOK), from which step  *)
(* on a text is this run's (OwnOK), and who may still need the source    *)
(* (KeptOK). The types are a second invariant, which takes the first as  *)
(* given: it bounds the attempts by the step the run is at.              *)
(*************************************************************************)
EXTENDS JobRun, TLAPS

\* A payload, with any number of attempts.
Payloads == [status : {None, "pending", "processing", "completed", "failed"},
             error : Errors, attempt : Nat, buried : BOOLEAN,
             text : {None, "own", "earlier"}, translated : Words \cup {"earlier"},
             output : {None, "own", "earlier"}]

DrawingSteps == {"render", "rerender", "encode", "reencode", "shrink", "undrawn"}
FileSteps    == DrawingSteps \cup {"copy", "copying", "uncopied", "finish"}
Running      == {"start", "extract", "ocr", "translate", "translating"} \cup FileSteps

Served(file) == file \in {"whole", "spoiled"}

\* There is a result exactly if there is a text.
Even(payload) == payload.text = None <=> payload.translated = None

Drawn == Is("image") /\ up.mode # "ocr_only"

\* No message, as long as no failed job was delivered again.
Clear(payload) == payload.error = None \/ "failed" \in again

Typed ==
    /\ up \in Uploads
    /\ stored \in Payloads /\ job \in Payloads
    /\ at \in Steps
    /\ won \in Words
    /\ source \in BOOLEAN /\ waiting \in BOOLEAN

\* What the steps of a run know.
ShapeOK ==
    /\ request \in {"new", "saved"} => stored = Nothing /\ at = "idle" /\ ~ waiting
    /\ waiting => at \in {"idle", "done"}
    /\ at = "start" => job = Aged(stored)
    /\ Is("image") /\ at \in Running \ {"start"} => job.status = "processing"
    /\ at \in FileSteps => Is("image")
    /\ at = "extract" => ~ Is("image")
    /\ at = "finish" => Served(output)
    /\ at \in DrawingSteps => won # None
    /\ at \in {"copy", "copying", "finish"} /\ won = None => Even(job)
    /\ at = "cleanup" => job.status \in {"completed", "failed"}
    /\ at = "verdict" => job.status = "failed"
    /\ at = "requeue" => stored = job /\ job.status = "pending" /\ job.error = None
    /\ at \notin {"idle", "done"} => stored.buried = job.buried

\* Where messages of earlier failures can be, and what a completed payload holds.
CleanOK ==
    /\ at \in Running => Clear(job)
    /\ stored.status = "failed" \/ Clear(stored)
    /\ waiting => Clear(stored)
    /\ stored.status = "completed" => Even(stored)

ServedOK ==
    Drawn /\ stored.status = "completed" =>
        /\ stored.output # None
        /\ "behind" \notin again /\ (at = "idle" \/ job.status = "completed")
              => Served(output)

\* An image without its source is not on its way to a retry.
KeptOK ==
    Is("image") =>
        /\ at \in {"cleanup", "verdict"} /\ job.status = "failed"
              /\ job.error = "transient" /\ ~ job.buried => source
        /\ at = "requeue" => source \/ job.buried
        /\ ~ source /\ "behind" \notin again /\ stored.status = "pending"
              /\ stored.attempt > 0 /\ ~ stored.buried
              => at = "done" /\ job.status # "pending" /\ ~ waiting

\* The texts are those of this run.
NotLeft(payload) == "earlier" \notin {payload.text, payload.translated}

\* The text of a text job is its upload's, and only images have a file as result.
Proper(payload) ==
    /\ Is("text") => payload.text # "earlier"
    /\ ~ Drawn => payload.output = None

\* From which step on a run has only what is its own.
OwnOK ==
    /\ Proper(stored) /\ Proper(job)
    /\ at \in {"translate", "translating"} /\ ~ Is("image") => job.text # "earlier"
    /\ at \in {"translate", "translating"} \cup FileSteps /\ Is("image") => Drawn
    /\ at \in {"copy", "copying", "finish"} /\ won = None => NotLeft(job)
    /\ at \in {"cleanup", "done"} /\ job.status = "completed" =>
          NotLeft(job) /\ job.output # "earlier"

Inv == Typed /\ ShapeOK /\ CleanOK /\ ServedOK /\ KeptOK /\ OwnOK

\* Ageing changes neither the state of a job nor whether it has a text or a result.
LEMMA AgedFacts ==
    ASSUME NEW p \in Payloads
    PROVE  /\ Aged(p) \in Payloads
           /\ Aged(p).status = p.status /\ Aged(p).error = p.error
           /\ Aged(p).attempt = p.attempt /\ Aged(p).buried = p.buried
           /\ (Even(Aged(p)) <=> Even(p))
           /\ (Aged(p).output = None <=> p.output = None)
           /\ Proper(p) => Proper(Aged(p))
<1> DEFINE a == Aged(p)
           t == IF Is("text") THEN p.text ELSE Left(p.text)
           w == Left(p.translated)
           f == Left(p.output)
<1>1. /\ t \in {None, "own", "earlier"} /\ w \in {None, "earlier"}
      /\ f \in {None, "earlier"}
      /\ (t = None <=> p.text = None)
      /\ (w = None <=> p.translated = None)
      /\ (f = None <=> p.output = None)
      /\ Is("text") => t = p.text
  BY DEF Left, Payloads, None
<1>2. a = [p EXCEPT !.text = t, !.translated = w, !.output = f]
  BY DEF Aged
<1> HIDE DEF a, t, w, f
<1>3. /\ a \in Payloads /\ a.status = p.status /\ a.error = p.error
      /\ a.attempt = p.attempt /\ a.buried = p.buried
      /\ a.text = t /\ a.translated = w /\ a.output = f
  BY <1>1, <1>2 DEF Payloads, Words
<1>4. Even(a) <=> Even(p)
  BY <1>1, <1>3 DEF Even
<1>5. Proper(p) => Proper(a)
  BY <1>1, <1>3 DEF Proper
<1> QED
  BY <1>1, <1>3, <1>4, <1>5 DEF a

-------------------------------------------------------------------------------
LEMMA InitInv == Init => Inv
<1> SUFFICES ASSUME Init PROVE Inv
  OBVIOUS
<1> USE DEF Init
<1>1. Nothing \in Payloads
  BY DEF Nothing, Payloads, Errors, Words
<1>2. Typed
  BY <1>1 DEF Typed, Steps, Words
<1>3. ShapeOK
  BY DEF ShapeOK, Running, FileSteps, DrawingSteps, Nothing
<1>4. CleanOK
  BY DEF CleanOK, Clear, Even, Running, FileSteps, DrawingSteps, Nothing
<1>5. ServedOK
  BY DEF ServedOK, Nothing, None
<1>6. KeptOK
  BY DEF KeptOK, Nothing, None
<1>7. OwnOK
  BY DEF OwnOK, Proper, NotLeft, Nothing, None, FileSteps, DrawingSteps
<1> QED
  BY <1>2, <1>3, <1>4, <1>5, <1>6, <1>7 DEF Inv

-------------------------------------------------------------------------------
(* The run.                                                                *)

\* What a step of a run may make of the job, its next step, the file and the result.
Lawful(payload, step, file, result) ==
    /\ payload \in Payloads /\ payload.buried = job.buried /\ Proper(payload)
    /\ result \in Words
    /\ step \in (Running \ {"start"}) \cup {"cleanup"}
    /\ step # "cleanup" =>
         /\ Clear(payload)
         /\ Is("image") => payload.status = "processing"
         /\ step \in FileSteps => Is("image")
         /\ step = "extract" => ~ Is("image")
         /\ step = "finish" => Served(file)
         /\ step \in DrawingSteps => result # None
         /\ step \in {"copy", "copying", "finish"} /\ result = None =>
               Even(payload) /\ NotLeft(payload)
         /\ step \in {"translate", "translating"} /\ ~ Is("image") =>
               payload.text # "earlier"
         /\ step \in {"translate", "translating"} \cup FileSteps /\ Is("image") => Drawn
    /\ step = "cleanup" =>
         \/ payload.status = "failed" /\ (payload.error = "transient" => source)
         \/ /\ payload.status = "completed"
            /\ Clear(payload) /\ Even(payload) /\ NotLeft(payload)
            /\ Drawn => payload.output = "own" /\ Served(file)

\* A run stores what ends it, a payload in processing, the job as it was delivered, or
\* nothing.
Stores == \/ stored' = stored
          \/ stored' = job' /\ at' = "cleanup"
          \/ stored' = job' /\ at = "start" /\ job' = job
          \/ /\ stored' \in {job, job'} /\ at' # "cleanup"
             /\ stored'.status = "processing"

LEMMA RunKeeps ==
    ASSUME Inv, at \in Running, Stores, Lawful(job', at', output', won'),
           UNCHANGED <<up, request, source, waiting, again>>
    PROVE  Inv'
<1> USE DEF Inv
<1>1. Typed'
  BY DEF Typed, Stores, Lawful, Steps, Running, FileSteps, DrawingSteps
<1>2. /\ ~ waiting /\ request \notin {"new", "saved"} /\ at \notin {"idle", "done"}
      /\ at' \notin {"idle", "done", "verdict", "requeue", "start"}
  BY DEF ShapeOK, Lawful, Running, FileSteps, DrawingSteps
<1>3. ShapeOK'
  <2>1. at' = "cleanup" => at' \notin Running
    BY DEF Running, FileSteps, DrawingSteps
  <2>2. stored'.buried = job'.buried
    BY <1>2 DEF ShapeOK, Stores, Lawful
  <2> QED
    BY <1>2, <2>1, <2>2 DEF ShapeOK, Lawful, Is, Even, Served, Running, FileSteps,
                            DrawingSteps
<1>8. at = "start" => /\ job.status = stored.status /\ job.error = stored.error
                     /\ job.attempt = stored.attempt /\ job.buried = stored.buried
                     /\ (Even(job) <=> Even(stored))
                     /\ (job.output = None <=> stored.output = None)
  BY AgedFacts DEF ShapeOK, Typed
<1>4. CleanOK'
  BY <1>2, <1>8 DEF CleanOK, ShapeOK, Lawful, Stores, Clear, Even, Running, FileSteps,
                    DrawingSteps
<1>5. ServedOK'
  BY <1>2, <1>8 DEF ServedOK, ShapeOK, Lawful, Stores, Drawn, Is, Served, Running,
                    FileSteps, DrawingSteps, None
<1>6. KeptOK'
  BY <1>2, <1>8 DEF KeptOK, ShapeOK, Lawful, Stores, Is, Running, FileSteps,
                    DrawingSteps
<1>7. OwnOK'
  BY <1>2 DEF OwnOK, Lawful, Stores, Proper, NotLeft, Drawn, Is, Running, FileSteps,
              DrawingSteps, None
<1> QED
  BY <1>1, <1>3, <1>4, <1>5, <1>6, <1>7

\* What the steps of a run leave alone.
RunFrame == UNCHANGED <<up, request, source, waiting, again>>

LEMMA StoreFacts ==
    ASSUME NEW payload, Store(payload)
    PROVE  stored' = stored \/ stored' = payload
  BY DEF Store, Lost

\* A run that fails may have found a transient error only if the source is there.
LEMMA FailKeeps ==
    ASSUME Inv, at \in Running, NEW error \in {"transient", "lasting"}, Fail(error),
           error = "transient" => source, won' = won, RunFrame
    PROVE  Inv'
<1> DEFINE failed == [job EXCEPT !.status = "failed", !.error = error]
<1>1. /\ at' = "cleanup" /\ job' = failed
      /\ stored' = stored \/ stored' = failed
  BY StoreFacts DEF Fail, Goto
<1>2. /\ failed \in Payloads /\ failed.status = "failed" /\ failed.error = error
      /\ failed.buried = job.buried /\ Proper(failed)
  BY DEF Inv, Typed, Payloads, Errors, OwnOK, Proper
<1> HIDE DEF failed
<1>3. Lawful(job', at', output', won')
  BY <1>1, <1>2 DEF Lawful, Inv, Typed
<1>4. Stores
  BY <1>1 DEF Stores
<1> QED
  BY <1>3, <1>4, RunKeeps DEF RunFrame

\* A run completes with an even payload and, for a drawn image, with its file.
LEMMA CompleteKeeps ==
    ASSUME Inv, at \in Running, NEW payload \in Payloads, Complete(payload),
           payload.buried = job.buried, Clear(payload), Even(payload),
           NotLeft(payload),
           IF Drawn THEN payload.output = "own" /\ Served(output')
           ELSE payload.output = None,
           won' = won, RunFrame
    PROVE  Inv'
<1> DEFINE completed == [payload EXCEPT !.status = "completed"]
<1>1. /\ at' = "cleanup" /\ job' = completed
      /\ stored' = stored \/ stored' = completed
  BY StoreFacts DEF Complete, Goto
<1>2. /\ completed \in Payloads /\ completed.status = "completed"
      /\ completed.buried = payload.buried /\ completed.error = payload.error
      /\ completed.text = payload.text /\ completed.translated = payload.translated
      /\ completed.output = payload.output
  BY DEF Payloads
<1> HIDE DEF completed
<1>3. Lawful(job', at', output', won')
  BY <1>1, <1>2 DEF Lawful, Inv, Typed, Clear, Even, NotLeft, Proper
<1>4. Stores
  BY <1>1 DEF Stores
<1> QED
  BY <1>3, <1>4, RunKeeps DEF RunFrame

\* With a text at hand the run goes on or fails.
LEMMA WithTextKeeps ==
    ASSUME Inv, at \in Running, ~ Is("image"), NEW payload \in Payloads,
           WithText(payload), payload.buried = job.buried, Clear(payload),
           payload.text # "earlier", payload.output = job.output, won' = won, RunFrame
    PROVE  Inv'
<1>0. Proper(payload)
  BY DEF Inv, OwnOK, Proper
<1>1. CASE up.mode = "overlay"
  <2>1. at' = "translate" /\ job' = payload /\ stored' = stored
    BY <1>1 DEF WithText, Goto
  <2>2. Lawful(job', at', output', won')
    BY <1>0, <2>1 DEF Lawful, Inv, Typed, Running, FileSteps, DrawingSteps, Clear
  <2> QED
    BY <2>1, <2>2, RunKeeps DEF Stores, RunFrame
<1>2. CASE up.mode # "overlay"
  <2> DEFINE failed == [payload EXCEPT !.status = "failed", !.error = "lasting"]
  <2>1. /\ at' = "cleanup" /\ job' = failed
        /\ stored' = stored \/ stored' = failed
    BY <1>2, StoreFacts DEF WithText, Goto
  <2>2. /\ failed \in Payloads /\ failed.status = "failed" /\ failed.error = "lasting"
        /\ failed.buried = job.buried /\ Proper(failed)
    BY <1>0 DEF Payloads, Errors, Proper
  <2> HIDE DEF failed
  <2>3. Lawful(job', at', output', won') /\ Stores
    BY <2>1, <2>2 DEF Lawful, Stores, Inv, Typed
  <2> QED
    BY <2>3, RunKeeps DEF RunFrame
<1> QED
  BY <1>1, <1>2

LEMMA StartInv == ASSUME Inv, Start PROVE Inv'
<1>1. /\ at = "start" /\ at \in Running /\ won' = won /\ RunFrame
      /\ StartText \/ StartPdf \/ StartImage
      /\ UNCHANGED output
  BY DEF Start, Running, RunFrame, disk
<1>2. job \in Payloads /\ Clear(job) /\ Proper(job)
  BY <1>1 DEF Inv, Typed, CleanOK, OwnOK
<1>3. CASE StartText
  BY <1>1, <1>2, <1>3, WithTextKeeps DEF StartText, Is, Proper
<1>4. CASE StartPdf
  <2>1. CASE Fail("lasting")
    BY <1>1, <2>1, FailKeeps
  <2>2. CASE ~ Fail("lasting")
    <3>1. /\ job' = job /\ at' \in {"ocr", "extract"} /\ ~ Is("image")
          /\ stored' = stored \/ stored' = job
      BY <1>4, <2>2, StoreFacts DEF StartPdf, Stage, Goto, Is
    <3>2. Lawful(job', at', output', won')
      BY <1>2, <3>1, <1>1 DEF Lawful, Inv, Typed, Running, FileSteps, DrawingSteps, Clear
    <3> QED
      BY <1>1, <3>1, <3>2, RunKeeps DEF Stores, RunFrame
  <2> QED
    BY <2>1, <2>2
<1>5. CASE StartImage
  <2> DEFINE p == Processing(job)
  <2>1. /\ at' = "ocr" /\ job' = p
        /\ stored' = stored \/ stored' = p
    BY <1>5, StoreFacts DEF StartImage, Stage, Goto
  <2>2. /\ p \in Payloads /\ p.status = "processing" /\ p.buried = job.buried
        /\ p.error = job.error
    BY <1>2 DEF Processing, Payloads
  <2>4. Proper(p)
    BY <1>2 DEF Processing, Payloads, Proper
  <2> HIDE DEF p
  <2>3. Lawful(job', at', output', won') /\ Stores
    BY <1>1, <1>2, <1>5, <2>1, <2>2, <2>4 DEF Lawful, Stores, Inv, Typed, Running, FileSteps,
                                  DrawingSteps, Clear, StartImage
  <2> QED
    BY <1>1, <2>3, RunKeeps DEF RunFrame
<1> QED
  BY <1>1, <1>3, <1>4, <1>5

LEMMA ExtractInv == ASSUME Inv, Extract PROVE Inv'
<1>1. /\ at = "extract" /\ at \in Running /\ won' = won /\ RunFrame /\ UNCHANGED output
  BY DEF Extract, Running, RunFrame, disk
<1>2. job \in Payloads /\ Clear(job) /\ Proper(job)
  BY <1>1 DEF Inv, Typed, CleanOK, OwnOK
<1>3. CASE Goto("ocr", job) /\ stored' = stored
  <2>1. Lawful(job', at', output', won')
    BY <1>1, <1>2, <1>3 DEF Lawful, Inv, Typed, ShapeOK, Running, FileSteps,
                            DrawingSteps, Goto, Clear
  <2> QED
    BY <1>1, <1>3, <2>1, RunKeeps DEF Stores, RunFrame
<1>4. CASE WithText([job EXCEPT !.text = "own"])
  <2>1. /\ [job EXCEPT !.text = "own"] \in Payloads
        /\ [job EXCEPT !.text = "own"].buried = job.buried
        /\ Clear([job EXCEPT !.text = "own"])
        /\ [job EXCEPT !.text = "own"].text = "own"
        /\ [job EXCEPT !.text = "own"].output = job.output
    BY <1>2 DEF Payloads, Clear
  <2>2. ~ Is("image")
    BY <1>1 DEF Inv, ShapeOK
  <2> QED
    BY <1>1, <1>4, <2>1, <2>2, WithTextKeeps
<1> QED
  BY <1>3, <1>4 DEF Extract

LEMMA OcrInv == ASSUME Inv, Ocr PROVE Inv'
<1>1. /\ at = "ocr" /\ at \in Running /\ won' = won /\ RunFrame /\ UNCHANGED output
  BY DEF Ocr, Running, RunFrame, disk
<1>2. job \in Payloads /\ Clear(job) /\ source \in BOOLEAN /\ Proper(job)
  BY <1>1 DEF Inv, Typed, CleanOK, OwnOK
<1>3. CASE OcrFails
  <2>1. PICK error \in SomeError : Fail(error)
    BY <1>3 DEF OcrFails
  <2>2. error \in {"transient", "lasting"} /\ (error = "transient" => source)
    BY <2>1 DEF SomeError
  <2> QED
    BY <1>1, <2>1, <2>2, FailKeeps
<1>4. CASE PdfPages
  <2>1. PICK text \in {None, "own"} :
          IF up.mode = "ocr_only"
          THEN IF text = None THEN Fail("lasting")
               ELSE Complete([job EXCEPT !.text = text, !.translated = text])
          ELSE WithText([job EXCEPT !.text = text])
    BY <1>4 DEF PdfPages
  <2>2. ~ Is("image") /\ ~ Drawn
    BY <1>4 DEF PdfPages, Is, Drawn
  <2>3. CASE up.mode = "ocr_only" /\ text = None
    BY <1>1, <2>1, <2>3, FailKeeps
  <2>4. CASE up.mode = "ocr_only" /\ text # None
    <3> DEFINE p == [job EXCEPT !.text = text, !.translated = text]
    <3>1. /\ p \in Payloads /\ p.text = text /\ p.translated = text
          /\ p.buried = job.buried /\ p.error = job.error /\ p.output = job.output
      BY <1>2 DEF Payloads, Words
    <3>2. Complete(p)
      BY <2>1, <2>4
    <3> HIDE DEF p
    <3>3. NotLeft(p) /\ p.output = None
      BY <1>2, <2>2, <3>1 DEF NotLeft, Proper, None
    <3> QED
      BY <1>1, <1>2, <2>2, <3>1, <3>2, <3>3, CompleteKeeps DEF Clear, Even
  <2>5. CASE up.mode # "ocr_only"
    <3> DEFINE p == [job EXCEPT !.text = text]
    <3>1. /\ p \in Payloads /\ p.buried = job.buried /\ p.error = job.error
          /\ p.text # "earlier" /\ p.output = job.output
      BY <1>2 DEF Payloads, None
    <3>2. WithText(p)
      BY <2>1, <2>5
    <3> HIDE DEF p
    <3> QED
      BY <1>1, <1>2, <2>2, <3>1, <3>2, WithTextKeeps DEF Clear
  <2> QED
    BY <2>3, <2>4, <2>5
<1>5. CASE ImageBlocks
  <2>1. Is("image") /\ job.status = "processing"
    BY <1>1, <1>5 DEF ImageBlocks, Inv, ShapeOK
  <2> DEFINE c == Cleared(job)
             d == [c EXCEPT !.output = None]
             e == [job EXCEPT !.text = "own", !.translated = "own", !.output = None]
  <2>2. /\ c \in Payloads /\ c.text = None /\ c.translated = None /\ c.error = None
        /\ c.buried = job.buried /\ c.status = job.status /\ c.output = job.output
    BY <1>2 DEF Cleared, Payloads, Words, Errors
  <2> HIDE DEF c
  <2>3. /\ d \in Payloads /\ d.text = None /\ d.translated = None /\ d.error = None
        /\ d.buried = job.buried /\ d.output = None
    BY <2>2 DEF Payloads
  <2>4. /\ e \in Payloads /\ e.text = "own" /\ e.translated = "own"
        /\ e.error = job.error /\ e.buried = job.buried /\ e.output = None
    BY <1>2 DEF Payloads, Words
  <2> HIDE DEF d, e
  <2>10. Proper(c) /\ NotLeft(c) /\ NotLeft(d) /\ NotLeft(e)
    BY <1>2, <2>2, <2>3, <2>4 DEF Proper, NotLeft, None
  <2>5. \/ up.mode = "ocr_only" /\ (Complete(d) \/ Complete(e))
        \/ Drawn /\ Goto("copy", c) /\ Store(job)
        \/ Drawn /\ Stage("translate", job)
    BY <1>5 DEF ImageBlocks, c, d, e, Drawn
  <2>6. CASE up.mode = "ocr_only" /\ Complete(d)
    BY <1>1, <2>3, <2>6, <2>10, CompleteKeeps DEF Clear, Even, Drawn
  <2>7. CASE up.mode = "ocr_only" /\ Complete(e)
    BY <1>1, <1>2, <2>4, <2>7, <2>10, CompleteKeeps DEF Clear, Even, Drawn, None
  <2>8. CASE Drawn /\ Goto("copy", c) /\ Store(job)
    <3>1. /\ at' = "copy" /\ job' = c /\ (stored' = stored \/ stored' = job)
      BY <2>8, StoreFacts DEF Goto
    <3>2. Lawful(job', at', output', won') /\ Stores
      BY <1>1, <1>2, <2>1, <2>2, <2>8, <2>10, <3>1
         DEF Lawful, Stores, Inv, Typed, Running, FileSteps, DrawingSteps, Clear, Even
    <3> QED
      BY <1>1, <3>2, RunKeeps DEF RunFrame
  <2>9. CASE Drawn /\ Stage("translate", job)
    <3>1. /\ at' = "translate" /\ job' = job /\ (stored' = stored \/ stored' = job)
      BY <2>9, StoreFacts DEF Stage, Goto
    <3>2. Lawful(job', at', output', won') /\ Stores
      BY <1>1, <1>2, <2>1, <2>9, <3>1 DEF Lawful, Stores, Inv, Typed, Running, FileSteps,
                                          DrawingSteps, Clear
    <3> QED
      BY <1>1, <3>2, RunKeeps DEF RunFrame
  <2> QED
    BY <2>5, <2>6, <2>7, <2>8, <2>9
<1> QED
  BY <1>1, <1>3, <1>4, <1>5 DEF Ocr

LEMMA CompleteDocumentInv ==
    ASSUME Inv, at \in {"translate", "translating"}, ~ Is("image"), CompleteDocument,
           won' = won, RunFrame
    PROVE  Inv'
<1>1. /\ job \in Payloads /\ Clear(job) /\ job.text # "earlier" /\ job.output = None
      /\ at \in Running
  BY DEF Inv, Typed, CleanOK, OwnOK, Proper, Drawn, Running
<1>2. PICK words \in IF job.text = None THEN {None} ELSE {"own", "translation"} :
         Complete([job EXCEPT !.translated = words])
  BY DEF CompleteDocument
<1> DEFINE p == [job EXCEPT !.translated = words]
<1>3. /\ p \in Payloads /\ p.text = job.text /\ p.translated = words
      /\ p.error = job.error /\ p.buried = job.buried /\ p.output = job.output
  BY <1>1, <1>2 DEF Payloads, Words
<1>4. Even(p) /\ NotLeft(p)
  BY <1>1, <1>2, <1>3 DEF Even, NotLeft, None
<1>5. Complete(p)
  BY <1>2
<1> HIDE DEF p
<1> QED
  BY <1>1, <1>3, <1>4, <1>5, CompleteKeeps DEF Drawn, Clear

LEMMA TranslateInv == ASSUME Inv, Translate PROVE Inv'
<1>1. /\ at = "translate" /\ at \in Running /\ won' = won /\ RunFrame /\ UNCHANGED output
  BY DEF Translate, Running, RunFrame, disk
<1>2. /\ job \in Payloads /\ Clear(job) /\ Proper(job)
      /\ Is("image") \/ job.text # "earlier"
      /\ Is("image") => Drawn
  BY <1>1 DEF Inv, Typed, CleanOK, OwnOK
<1>3. CASE Stage("translating", Processing(job))
  <2> DEFINE p == Processing(job)
  <2>1. at' = "translating" /\ job' = p /\ (stored' = stored \/ stored' = p)
    BY <1>3, StoreFacts DEF Stage, Goto
  <2>2. /\ p \in Payloads /\ p.status = "processing" /\ p.buried = job.buried
        /\ p.error = job.error /\ p.text = job.text /\ p.output = job.output
    BY <1>2 DEF Processing, Payloads
  <2>4. Proper(p)
    BY <1>2, <2>2 DEF Proper
  <2> HIDE DEF p
  <2>3. Lawful(job', at', output', won') /\ Stores
    BY <1>1, <1>2, <2>1, <2>2, <2>4 DEF Lawful, Stores, Inv, Typed, Running, FileSteps,
                                        DrawingSteps, Clear
  <2> QED
    BY <1>1, <2>3, RunKeeps DEF RunFrame
<1>4. CASE ~ Is("image") /\ CompleteDocument
  BY <1>1, <1>4, CompleteDocumentInv
<1> QED
  BY <1>3, <1>4 DEF Translate

LEMMA TranslatedInv == ASSUME Inv, Translated PROVE Inv'
<1>1. at = "translating" /\ at \in Running /\ RunFrame /\ UNCHANGED output
  BY DEF Translated, Running, RunFrame, disk
<1>2. /\ job \in Payloads /\ Clear(job) /\ won \in Words /\ Proper(job)
      /\ Is("image") => Drawn
  BY <1>1 DEF Inv, Typed, CleanOK, OwnOK
<1>3. CASE Fail("lasting") /\ won' = won
  BY <1>1, <1>3, FailKeeps
<1>4. CASE ~ Is("image") /\ CompleteDocument /\ won' = won
  BY <1>1, <1>4, CompleteDocumentInv
<1>5. CASE /\ Is("image")
           /\ Goto("copy", [job EXCEPT !.text = "own", !.translated = "own",
                                       !.error = None])
           /\ UNCHANGED <<stored, won>>
  <2> DEFINE p == [job EXCEPT !.text = "own", !.translated = "own", !.error = None]
  <2>1. at' = "copy" /\ job' = p /\ stored' = stored /\ won' = won
    BY <1>5 DEF Goto
  <2>2. /\ p \in Payloads /\ p.status = job.status /\ p.buried = job.buried
        /\ p.error = None /\ p.text = "own" /\ p.translated = "own"
        /\ p.output = job.output
    BY <1>2 DEF Payloads, Words, Errors
  <2>3. job.status = "processing"
    BY <1>1, <1>5 DEF Inv, ShapeOK
  <2> HIDE DEF p
  <2>5. Proper(p) /\ NotLeft(p)
    BY <1>2, <2>2 DEF Proper, NotLeft, None
  <2>4. Lawful(job', at', output', won') /\ Stores
    BY <1>1, <1>2, <1>5, <2>1, <2>2, <2>3, <2>5
       DEF Lawful, Stores, Running, FileSteps, DrawingSteps, Clear, Even, None
  <2> QED
    BY <1>1, <2>4, RunKeeps DEF RunFrame
<1>6. CASE /\ Is("image")
           /\ won' \in {"own", "translation"}
           /\ Stage("render", job)
  <2>1. at' = "render" /\ job' = job /\ (stored' = stored \/ stored' = job)
    BY <1>6, StoreFacts DEF Stage, Goto
  <2>2. job.status = "processing"
    BY <1>1, <1>6 DEF Inv, ShapeOK
  <2>3. won' \in Words /\ won' # None
    BY <1>6 DEF Words, None
  <2>4. Lawful(job', at', output', won') /\ Stores
    BY <1>1, <1>2, <1>6, <2>1, <2>2, <2>3
       DEF Lawful, Stores, Running, FileSteps, DrawingSteps, Clear
  <2> QED
    BY <1>1, <2>4, RunKeeps DEF RunFrame
<1> QED
  BY <1>3, <1>4, <1>5, <1>6 DEF Translated

\* A step between the steps of the file changes the job neither in memory nor,
\* beyond its stage, in Redis.
LEMMA FileKeeps ==
    ASSUME Inv, at \in FileSteps, at' \in FileSteps, job' = job,
           stored' = stored \/ stored' = job, won' = won, RunFrame,
           at' = "finish" => Served(output'),
           at' \in DrawingSteps => at \in DrawingSteps,
           at' \in {"copy", "copying", "finish"} =>
              at \in DrawingSteps \cup {"copy", "copying"}
    PROVE  Inv'
<1>1. /\ job \in Payloads /\ won \in Words /\ Clear(job) /\ at \in Running
      /\ Is("image") /\ job.status = "processing" /\ Proper(job) /\ Drawn
  BY DEF Inv, Typed, ShapeOK, CleanOK, OwnOK, Running, FileSteps, DrawingSteps
<1>2. at \in DrawingSteps => won # None
  BY DEF Inv, ShapeOK
<1>3. at \in {"copy", "copying"} /\ won = None => Even(job) /\ NotLeft(job)
  BY DEF Inv, ShapeOK, OwnOK
<1>4. Lawful(job', at', output', won')
  <2>1. /\ at' \in Running \ {"start"}
        /\ at' \notin {"cleanup", "extract", "translate", "translating"}
    BY DEF Running, FileSteps, DrawingSteps
  <2>2. at' \in {"copy", "copying", "finish"} /\ won' = None => Even(job) /\ NotLeft(job)
    BY <1>2, <1>3
  <2> QED
    BY <1>1, <1>2, <2>1, <2>2 DEF Lawful, Clear, Even, NotLeft
<1>5. Stores
  BY <1>1 DEF Stores, FileSteps, DrawingSteps
<1> QED
  BY <1>1, <1>4, <1>5, RunKeeps DEF RunFrame

LEMMA DrawingFrame == ASSUME UNCHANGED drawing PROVE won' = won /\ RunFrame
  BY DEF drawing, RunFrame

LEMMA FileInv ==
    ASSUME Inv, Render \/ Encode \/ Shrink \/ PassOn \/ Copy \/ Copied
    PROVE  Inv'
<1>1. won' = won /\ RunFrame
  BY DrawingFrame DEF Render, Encode, Shrink, PassOn, Copy, Copied
<1> USE DEF Quietly, Goto, FileSteps, DrawingSteps
<1>2. CASE Render
  BY <1>1, <1>2, FileKeeps DEF Render, Draw, Undrawn
<1>3. CASE Encode
  BY <1>1, <1>3, FileKeeps DEF Encode, Undrawn, Served
<1>4. CASE Shrink
  BY <1>1, <1>4, FileKeeps DEF Shrink, Served
<1>5. CASE PassOn
  BY <1>1, <1>5, FileKeeps, StoreFacts DEF PassOn, Stage
<1>6. CASE Copy
  BY <1>1, <1>6, FileKeeps DEF Copy
<1>7. CASE Copied
  BY <1>1, <1>7, FileKeeps DEF Copied, Served, AfterFailedCopy
<1> QED
  BY <1>2, <1>3, <1>4, <1>5, <1>6, <1>7

LEMMA NotCopiedInv == ASSUME Inv, NotCopied PROVE Inv'
<1>1. at \in Running /\ won' = won /\ RunFrame /\ Fail("lasting")
  BY DrawingFrame DEF NotCopied, Running, FileSteps
<1> QED
  BY <1>1, FailKeeps

LEMMA FinishInv == ASSUME Inv, Finish PROVE Inv'
<1>1. at = "finish" /\ at \in Running /\ won' = won /\ RunFrame /\ UNCHANGED output
  BY DrawingFrame DEF Finish, Running, FileSteps
<1>2. /\ job \in Payloads /\ Clear(job) /\ won \in Words /\ Served(output')
      /\ won = None => Even(job) /\ NotLeft(job)
      /\ Drawn
  BY <1>1 DEF Inv, Typed, ShapeOK, CleanOK, OwnOK, FileSteps
<1>3. CASE won = None
  <2> DEFINE p == [job EXCEPT !.output = "own"]
  <2>1. /\ p \in Payloads /\ p.text = job.text /\ p.translated = job.translated
        /\ p.error = job.error /\ p.buried = job.buried /\ p.output = "own"
    BY <1>2 DEF Payloads
  <2>2. Complete(p)
    BY <1>3 DEF Finish
  <2> HIDE DEF p
  <2> QED
    BY <1>1, <1>2, <1>3, <2>1, <2>2, CompleteKeeps DEF Clear, Even, NotLeft
<1>4. CASE won # None
  <2> DEFINE p == [job EXCEPT !.text = "own", !.translated = won, !.output = "own"]
  <2>1. /\ p \in Payloads /\ p.text = "own" /\ p.translated = won
        /\ p.error = job.error /\ p.buried = job.buried /\ p.output = "own"
    BY <1>2 DEF Payloads
  <2>2. Complete(p)
    BY <1>4 DEF Finish
  <2> HIDE DEF p
  <2> QED
    BY <1>1, <1>2, <1>4, <2>1, <2>2, CompleteKeeps DEF Clear, Even, NotLeft, None, Words
<1> QED
  BY <1>3, <1>4

-------------------------------------------------------------------------------
(* Before and after the run.                                               *)

payloads == <<stored, job>>

\* A request that has not enqueued its job has nothing but its file.
LEMMA RequestInv ==
    ASSUME Inv, request \in {"new", "saved"},
           UNCHANGED <<up, payloads, waiting, at, won, output, again>>,
           source' \in BOOLEAN,
           request' \in {"saved", "failed", "refused", "lost"}
    PROVE  Inv'
<1>1. /\ stored = Nothing /\ at = "idle" /\ ~ waiting
      /\ stored' = stored /\ job' = job
  BY DEF Inv, ShapeOK, payloads
<1> USE DEF Inv
<1>2. Typed'
  BY <1>1 DEF Typed
<1>3. ShapeOK'
  BY <1>1 DEF ShapeOK, Is, Even, Served, Running, FileSteps, DrawingSteps
<1>4. CleanOK' /\ ServedOK'
  BY <1>1 DEF CleanOK, Clear, Even, ServedOK, Drawn, Is, Served
<1>5. KeptOK'
  BY <1>1 DEF KeptOK, Nothing, None, Is
<1>6. OwnOK'
  BY <1>1 DEF OwnOK, Proper, Drawn, Is, FileSteps, DrawingSteps
<1> QED
  BY <1>2, <1>3, <1>4, <1>5, <1>6

LEMMA EnqueueInv == ASSUME Inv, Enqueue PROVE Inv'
<1>1. /\ UNCHANGED <<up, source, output, at, job, won, again>> /\ request = "saved"
      /\ at = "idle" /\ source \in BOOLEAN
  BY DEF Enqueue, disk, run, Inv, ShapeOK, Typed
<1>2. CASE request' = "failed" /\ UNCHANGED <<stored, waiting>>
  BY <1>1, <1>2, RequestInv DEF payloads
<1>3. CASE request' = "accepted" /\ stored' = Fresh /\ waiting' = TRUE
  <2> USE DEF Inv
  <2>1. /\ Fresh \in Payloads /\ Fresh.status = "pending" /\ Fresh.error = None
        /\ Fresh.attempt = 0 /\ Proper(Fresh)
    BY DEF Fresh, Payloads, Errors, Words, Is, Proper, None
  <2> HIDE DEF Fresh
  <2>2. Typed'
    BY <1>1, <1>3, <2>1 DEF Typed
  <2>3. ShapeOK'
    BY <1>1, <1>3 DEF ShapeOK, Running, FileSteps, DrawingSteps
  <2>4. CleanOK' /\ ServedOK' /\ KeptOK'
    BY <1>1, <1>3, <2>1 DEF CleanOK, Clear, ServedOK, KeptOK, Running, FileSteps,
                           DrawingSteps
  <2>5. OwnOK'
    BY <1>1, <1>3, <2>1 DEF OwnOK, Proper, Drawn, Is, FileSteps, DrawingSteps
  <2> QED
    BY <2>2, <2>3, <2>4, <2>5
<1> QED
  BY <1>2, <1>3 DEF Enqueue

LEMMA DeliverInv == ASSUME Inv, Deliver PROVE Inv'
<1> USE DEF Inv
<1>1. /\ at = "idle" /\ waiting /\ waiting' = FALSE /\ at' = "start"
      /\ job' = Aged(stored) /\ stored \in Payloads
      /\ UNCHANGED <<won, up, request, source, output, stored, again>>
  BY DEF Deliver, Goto, disk, Typed
<1>7. /\ job' \in Payloads /\ job'.status = stored.status /\ job'.error = stored.error
      /\ job'.buried = stored.buried
      /\ Proper(stored) => Proper(job')
  BY <1>1, AgedFacts
<1>2. Typed'
  BY <1>1, <1>7 DEF Typed, Steps
<1>3. ShapeOK'
  BY <1>1, <1>7 DEF ShapeOK, Is, Left, Aged, Running, FileSteps, DrawingSteps
<1>4. CleanOK'
  BY <1>1, <1>7 DEF CleanOK, Clear, Even
<1>5. ServedOK'
  BY <1>1, <1>7 DEF ServedOK, Drawn, Is, Served
<1>6. KeptOK'
  BY <1>1 DEF KeptOK, Is
<1>8. OwnOK'
  BY <1>1, <1>7 DEF OwnOK, Proper, Drawn, Is, FileSteps, DrawingSteps
<1> QED
  BY <1>2, <1>3, <1>4, <1>5, <1>6, <1>8

LEMMA CleanupInv == ASSUME Inv, Cleanup PROVE Inv'
<1> USE DEF Inv
<1>1. /\ at = "cleanup" /\ job' = job
      /\ at' = (IF job.status = "failed" THEN "verdict" ELSE "done")
      /\ UNCHANGED <<won, up, request, output, stored, waiting, again>>
      /\ source' = (source /\ ~ Removes(job)) /\ source' \in BOOLEAN
  BY DEF Cleanup, Goto
<1>2. ~ waiting /\ job.status \in {"completed", "failed"} /\ stored.buried = job.buried
  BY <1>1 DEF ShapeOK
<1>3. Typed'
  BY <1>1 DEF Typed, Steps
<1>4. ShapeOK'
  BY <1>1, <1>2 DEF ShapeOK, Running, FileSteps, DrawingSteps
<1>5. CleanOK'
  BY <1>1, <1>2 DEF CleanOK, Clear, Even, Running, FileSteps, DrawingSteps
<1>6. ServedOK'
  BY <1>1 DEF ServedOK, Drawn, Is, Served
<1>7. KeptOK'
  <2> SUFFICES ASSUME Is("image") PROVE KeptOK'
    BY <1>1 DEF KeptOK, Is
  <2>1. Removes(job) <=> job.status = "completed" \/ (job.status = "failed" /\ job.buried)
    BY DEF Removes, Is
  <2>2. CASE job.status = "completed"
    BY <1>1, <1>2, <2>2 DEF KeptOK
  <2>3. CASE job.status = "failed" /\ job.buried
    BY <1>1, <1>2, <2>3 DEF KeptOK
  <2>4. CASE job.status = "failed" /\ ~ job.buried
    <3>1. source' = source
      BY <1>1, <2>1, <2>4 DEF Typed
    <3> QED
      BY <1>1, <1>2, <2>4, <3>1 DEF KeptOK
  <2> QED
    BY <1>2, <2>2, <2>3, <2>4
<1>8. OwnOK'
  BY <1>1, <1>2 DEF OwnOK, Proper, NotLeft, Drawn, Is, FileSteps, DrawingSteps
<1> QED
  BY <1>3, <1>4, <1>5, <1>6, <1>7, <1>8

LEMMA JudgedFacts ==
    ASSUME NEW p \in Payloads
    PROVE  /\ ForRetry(p) \in Payloads /\ ForRetry(p).status = "pending"
           /\ ForRetry(p).error = None /\ ForRetry(p).buried = p.buried
           /\ Buried(p) \in Payloads /\ Buried(p).status = p.status /\ Buried(p).buried
           /\ Proper(p) => Proper(ForRetry(p)) /\ Proper(Buried(p))
<1> DEFINE n == p.attempt + 1
<1>1. n \in Nat
  BY DEF Payloads
<1>2. /\ ForRetry(p) = [p EXCEPT !.status = "pending", !.attempt = n, !.error = None]
      /\ Buried(p) = [p EXCEPT !.attempt = n, !.buried = TRUE]
  BY DEF ForRetry, Buried
<1> HIDE DEF n
<1> QED
  BY <1>1, <1>2 DEF Payloads, Errors, Proper

LEMMA VerdictInv == ASSUME Inv, Verdict PROVE Inv'
<1> USE DEF Inv
<1>1. /\ at = "verdict" /\ UNCHANGED <<won, up, request, source, output, waiting, again>>
  BY DEF Verdict, disk
<1>2. ~ waiting /\ job.status = "failed" /\ stored.buried = job.buried /\ job \in Payloads
      /\ source \in BOOLEAN
  BY <1>1 DEF ShapeOK, Typed
<1>3. PICK judged \in {ForRetry(job), Buried(job)} :
        /\ judged = ForRetry(job) => job.error = "transient"
        /\ job' = judged
        /\ \/ /\ stored' = judged
              /\ at' = (IF judged = ForRetry(job) THEN "requeue" ELSE "done")
           \/ stored' = stored /\ at' = "done"
  <2>1. ForRetry(job) # Buried(job)
    <3>1. ForRetry(job).status = "pending" /\ Buried(job).status = "failed"
      BY <1>2, JudgedFacts
    <3> QED
      BY <3>1
  <2>2. PICK most \in {MaxAttempts, IF MaxAttempts > 1 THEN MaxAttempts - 1 ELSE 1} :
          LET retried == Retried(job, most)
              judged  == IF retried THEN ForRetry(job) ELSE Buried(job)
          IN \/ /\ ~ stopped
                /\ Goto(IF retried THEN "requeue" ELSE "done", judged)
                /\ stored' = judged
                /\ NoFault
             \/ Goto("done", judged) /\ Lost
    BY DEF Verdict
  <2>3. CASE Retried(job, most)
    BY <2>1, <2>2, <2>3 DEF Goto, Lost, Retried
  <2>4. CASE ~ Retried(job, most)
    BY <2>1, <2>2, <2>4 DEF Goto, Lost
  <2> QED
    BY <2>3, <2>4
<1>4. CASE judged = ForRetry(job)
  <2>1. /\ judged \in Payloads /\ judged.status = "pending" /\ judged.error = None
        /\ judged.buried = job.buried /\ Proper(judged)
    BY <1>2, <1>4, JudgedFacts DEF OwnOK
  <2>2. Is("image") => source \/ job.buried
    BY <1>1, <1>2, <1>3, <1>4 DEF KeptOK
  <2>3. Typed'
    BY <1>1, <1>3, <2>1 DEF Typed, Steps
  <2>4. ShapeOK'
    BY <1>1, <1>2, <1>3, <1>4, <2>1 DEF ShapeOK, Running, FileSteps, DrawingSteps
  <2>5. CleanOK' /\ ServedOK'
    BY <1>1, <1>2, <1>3, <1>4, <2>1 DEF CleanOK, ServedOK, Clear, Even, Drawn, Is, Served,
                                       Running, FileSteps, DrawingSteps
  <2>6. KeptOK'
    BY <1>1, <1>2, <1>3, <1>4, <2>1, <2>2 DEF KeptOK, Is
  <2>7. OwnOK'
    BY <1>1, <1>3, <2>1 DEF OwnOK, Proper, Drawn, Is, FileSteps, DrawingSteps
  <2> QED
    BY <2>3, <2>4, <2>5, <2>6, <2>7
<1>5. CASE judged = Buried(job)
  <2>1. /\ judged \in Payloads /\ judged.status = "failed" /\ judged.buried
        /\ at' = "done" /\ Proper(judged)
    <3>1. /\ Buried(job) \in Payloads /\ Buried(job).status = "failed"
          /\ Buried(job).buried /\ Proper(Buried(job))
      BY <1>2, JudgedFacts DEF OwnOK
    <3>2. ForRetry(job).status = "pending"
      BY <1>2, JudgedFacts
    <3> QED
      BY <1>3, <1>5, <3>1, <3>2
  <2>2. Typed'
    BY <1>1, <1>3, <2>1 DEF Typed, Steps
  <2>3. ShapeOK'
    BY <1>1, <1>2, <1>3, <2>1 DEF ShapeOK, Running, FileSteps, DrawingSteps
  <2>4. CleanOK' /\ ServedOK'
    BY <1>1, <1>2, <1>3, <2>1 DEF CleanOK, ServedOK, Clear, Even, Drawn, Is, Served,
                                 Running, FileSteps, DrawingSteps
  <2>5. KeptOK'
    BY <1>1, <1>2, <1>3, <2>1 DEF KeptOK, Is
  <2>6. OwnOK'
    BY <1>1, <1>3, <2>1 DEF OwnOK, Proper, Drawn, Is, FileSteps, DrawingSteps
  <2> QED
    BY <2>2, <2>3, <2>4, <2>5, <2>6
<1> QED
  BY <1>3, <1>4, <1>5

LEMMA RequeueInv == ASSUME Inv, Requeue PROVE Inv'
<1> USE DEF Inv
<1>1. /\ at = "requeue" /\ at' = "done"
      /\ UNCHANGED <<won, up, request, source, output, again>>
  BY DEF Requeue, Quietly, Goto, disk
<1>2. /\ ~ waiting /\ stored = job /\ job.status = "pending" /\ job.error = None
      /\ job \in Payloads /\ (Is("image") => source \/ job.buried)
  BY <1>1 DEF ShapeOK, Typed, KeptOK
<1>3. CASE job' = job /\ stored' = stored /\ waiting' \in BOOLEAN
  <2>1. Typed' /\ ShapeOK'
    BY <1>1, <1>2, <1>3 DEF Typed, ShapeOK, Steps, Running, FileSteps, DrawingSteps
  <2>2. CleanOK' /\ ServedOK' /\ KeptOK'
    BY <1>1, <1>2, <1>3 DEF CleanOK, ServedOK, KeptOK, Clear, Is, Running, FileSteps,
                           DrawingSteps
  <2>3. OwnOK'
    BY <1>1, <1>2, <1>3 DEF OwnOK, Proper, Drawn, Is, FileSteps, DrawingSteps
  <2> QED
    BY <2>1, <2>2, <2>3
<1>4. CASE /\ job' = [job EXCEPT !.status = "failed", !.error = "transient"]
           /\ stored' \in {job', stored} /\ waiting' = waiting
  <2>1. /\ job' \in Payloads /\ job'.status = "failed" /\ job'.buried = job.buried
        /\ job'.text = job.text /\ job'.output = job.output
    BY <1>2, <1>4 DEF Payloads, Errors
  <2>2. Typed' /\ ShapeOK'
    BY <1>1, <1>2, <1>4, <2>1 DEF Typed, ShapeOK, Steps, Running, FileSteps, DrawingSteps
  <2>3. CleanOK' /\ ServedOK' /\ KeptOK'
    BY <1>1, <1>2, <1>4, <2>1 DEF CleanOK, ServedOK, KeptOK, Clear, Is, Running,
                                 FileSteps, DrawingSteps
  <2>4. OwnOK'
    BY <1>1, <1>2, <1>4, <2>1 DEF OwnOK, Proper, Drawn, Is, FileSteps, DrawingSteps
  <2> QED
    BY <2>2, <2>3, <2>4
<1> QED
  <2>1. waiting \in BOOLEAN
    BY DEF Typed
  <2> QED
    BY <1>3, <1>4, <2>1 DEF Requeue, Quietly, Goto

\* A worker leaves its job, acknowledged or to be recovered.
LEMMA LeaveInv ==
    ASSUME Inv, Leave, UNCHANGED <<up, request, source, output, stored>>, at # "idle",
           \/ at = "done" /\ waiting' = waiting /\ again' = again \cup Behind
           \/ /\ waiting' = TRUE
              /\ again' = again \cup Behind \cup ({stored.status} \cap {"failed"})
    PROVE  Inv'
<1> USE DEF Inv
<1>1. at' = "idle" /\ job' = Nothing /\ won' = None
  BY DEF Leave, Goto
<1>2. Nothing \in Payloads /\ Nothing.status = None
  BY DEF Nothing, Payloads, Errors, Words
<1>3. Typed'
  BY <1>1, <1>2 DEF Typed, Steps, Words
<1>4. ShapeOK'
  <2>1. request \notin {"new", "saved"}
    BY DEF ShapeOK
  <2> QED
    BY <1>1, <2>1 DEF ShapeOK, Running, FileSteps, DrawingSteps
<1>5. /\ "failed" \in again => "failed" \in again'
      /\ "behind" \in again => "behind" \in again'
      /\ stored.status # job.status => "behind" \in again'
      /\ waiting' /\ ~ waiting /\ stored.status = "failed" => "failed" \in again'
  <2>1. stored.status # job.status => "behind" \in Behind
    BY DEF Behind
  <2>2. stored.status = "failed" => "failed" \in {stored.status} \cap {"failed"}
    OBVIOUS
  <2> HIDE DEF Behind
  <2>3. CASE at = "done" /\ waiting' = waiting /\ again' = again \cup Behind
    BY <2>1, <2>3
  <2>4. CASE /\ waiting' = TRUE
             /\ again' = again \cup Behind \cup ({stored.status} \cap {"failed"})
    BY <2>1, <2>2, <2>4
  <2> QED
    BY <2>3, <2>4
<1> HIDE DEF Leave
<1>6. CleanOK'
  BY <1>1, <1>5 DEF CleanOK, Clear, Even, Running, FileSteps, DrawingSteps
<1>7. ServedOK'
  BY <1>1, <1>2, <1>5 DEF ServedOK, Drawn, Is, Served, None
<1>8. KeptOK'
  BY <1>1, <1>5 DEF KeptOK, Is
<1>9. OwnOK'
  BY <1>1 DEF OwnOK, Proper, Drawn, Is, FileSteps, DrawingSteps, Nothing, None
<1> QED
  BY <1>3, <1>4, <1>6, <1>7, <1>8, <1>9

LEMMA ReplayInv == ASSUME Inv, Replay PROVE Inv'
<1> USE DEF Inv
<1> DEFINE p == [stored EXCEPT !.status = "pending", !.error = None, !.attempt = 0,
                               !.buried = FALSE]
<1>1. /\ at = "idle" /\ ~ waiting /\ waiting' = TRUE /\ stored' = p /\ stored.buried
      /\ UNCHANGED <<won, job, at, up, request, source, output, again>>
  BY DEF Replay, run, disk
<1>2. /\ p \in Payloads /\ p.status = "pending" /\ p.error = None /\ p.attempt = 0
      /\ Proper(p)
  BY DEF Typed, Payloads, Errors, OwnOK, Proper
<1> HIDE DEF p
<1>3. request \notin {"new", "saved"}
  BY <1>1 DEF ShapeOK, Nothing
<1>4. Typed' /\ ShapeOK'
  BY <1>1, <1>2, <1>3 DEF Typed, ShapeOK, Running, FileSteps, DrawingSteps
<1>5. CleanOK' /\ ServedOK' /\ KeptOK'
  BY <1>1, <1>2 DEF CleanOK, ServedOK, KeptOK, Clear, Is, Running, FileSteps, DrawingSteps
<1>6. OwnOK'
  BY <1>1, <1>2 DEF OwnOK, Proper, Drawn, Is, FileSteps, DrawingSteps
<1> QED
  BY <1>4, <1>5, <1>6

\* Without effect on what the invariant is about, but that the sweep takes PDFs.
LEMMA OtherInv ==
    ASSUME Inv,
           UNCHANGED <<up, request, stored, job, at, won, waiting, output, again>>,
           source' = source \/ (Is("pdf") /\ source' = FALSE)
    PROVE  Inv'
<1> USE DEF Inv
<1>1. Is("pdf") => ~ Is("image")
  BY DEF Is
<1>2. Typed' /\ ShapeOK'
  BY DEF Typed, ShapeOK, Is, Even, Served, Aged, Left
<1>3. CleanOK' /\ ServedOK'
  BY DEF CleanOK, Clear, Even, ServedOK, Drawn, Is, Served
<1>4. KeptOK'
  BY <1>1 DEF KeptOK, Is
<1>5. OwnOK'
  BY DEF OwnOK, Proper, NotLeft, Drawn, Is
<1> QED
  BY <1>2, <1>3, <1>4, <1>5

-------------------------------------------------------------------------------
(* The theorems.                                                           *)

LEMMA InvStep == Inv /\ [Next]_vars => Inv'
<1> SUFFICES ASSUME Inv, [Next]_vars PROVE Inv'
  OBVIOUS
<1>1. CASE UNCHANGED vars
  BY <1>1, OtherInv DEF vars, disk, run
<1>2. CASE Save \/ Refuse \/ HandlerDies
  <2>1. /\ request \in {"new", "saved"}
        /\ request' \in {"saved", "failed", "refused", "lost"}
        /\ UNCHANGED <<up, stored, job, waiting, at, won, output, again>>
        /\ source' \in BOOLEAN
    BY <1>2 DEF Save, Refuse, HandlerDies, run, disk, Inv, Typed
  <2> QED
    BY <2>1, RequestInv DEF payloads
<1>3. CASE \/ Deliver \/ Start \/ Extract \/ Ocr
           \/ Translate \/ Translated \/ Render \/ Encode \/ Shrink \/ PassOn
           \/ Copy \/ Copied \/ NotCopied \/ Finish
  BY <1>3, DeliverInv, StartInv, ExtractInv, OcrInv, TranslateInv, TranslatedInv,
     FileInv, NotCopiedInv, FinishInv
<1>4. CASE Cleanup \/ Verdict \/ Requeue \/ Replay \/ Enqueue
  BY <1>4, CleanupInv, VerdictInv, RequeueInv, ReplayInv, EnqueueInv
<1>5. CASE Ack
  BY <1>5, LeaveInv DEF Ack, disk
<1>6. CASE Stopped \/ Crash
  BY <1>6, LeaveInv DEF Stopped, Crash, Recovered, disk
<1>7. CASE Shutdown \/ Age \/ Sweep
  BY <1>7, OtherInv DEF Shutdown, Age, Sweep, Stale, disk, run
<1> QED
  BY <1>1, <1>2, <1>3, <1>4, <1>5, <1>6, <1>7 DEF Next

\* The inductive invariant holds in every reachable state.
THEOREM InvCorrect == Spec => []Inv
<1> QED
  BY InitInv, InvStep, PTL DEF Spec

\* A job that is stored as completed serves a whole file, for any number of faults.
THEOREM ServedCorrect == Spec => []CompletedIsServed
<1>1. ASSUME Inv PROVE CompletedIsServed
  <2> SUFFICES ASSUME Stored("completed"), Is("image"), up.mode # "ocr_only",
                      "behind" \notin again, at = "idle" \/ job.status = "completed"
               PROVE  Download = 200 /\ output \in {"whole", "spoiled"}
    BY DEF CompletedIsServed
  <2>1. stored.output # None /\ output \in {"whole", "spoiled"} /\ stored.status = "completed"
    BY <1>1 DEF Inv, ServedOK, Drawn, Served, Stored
  <2>2. Download = 200
    BY <2>1 DEF Download, None
  <2> QED
    BY <2>1, <2>2
<1> QED
  BY <1>1, InvCorrect, PTL

\* For any uploads, attempts and faults: a run that ends completed has only texts and
\* a result of its own, although it starts from what earlier ones have left.
THEOREM LeftoverCorrect == Spec => []NothingLeftOver
<1>1. Inv => NothingLeftOver
  BY DEF Inv, CleanOK, OwnOK, NotLeft, Clear, Even, NothingLeftOver, Stored
<1> QED
  BY <1>1, InvCorrect, PTL

\* The retry of an image has its source, for any number of faults and attempts.
THEOREM SourceCorrect == Spec => []RetryKeepsSource
<1>1. Inv => RetryKeepsSource
  BY DEF Inv, Typed, KeptOK, RetryKeepsSource, Stored
<1> QED
  BY <1>1, InvCorrect, PTL

-------------------------------------------------------------------------------
(* Types.                                                                  *)

\* Faults that are not those of a run still under way, which its Shutdown was.
Spent == IF stopped THEN faults - 1 ELSE faults

RestTyped ==
    /\ request \in {"new", "saved", "accepted", "refused", "failed", "lost"}
    /\ old \in BOOLEAN /\ stopped \in BOOLEAN
    /\ again \subseteq {"failed", "behind"}
    /\ output \in {None, "partial", "spoiled", "whole"}
    /\ faults \in 0..MaxFaults
    /\ replays \in 0..MaxReplays

\* The attempts of a job pass MaxAttempts only when a job that was buried comes back,
\* and each time it does a fault has been spent.
TriedOK ==
    /\ stopped => faults > 0
    /\ stored.attempt <= MaxAttempts + Spent
    /\ job.attempt <= MaxAttempts + Spent
    /\ waiting => stored.attempt < MaxAttempts + Spent
    /\ at \notin {"idle", "done"} => job.attempt < MaxAttempts + Spent
    /\ waiting \/ at # "idle" => stored.status # None
    /\ at # "idle" => job.status # None
    /\ at = "idle" => job = Nothing

TypeInv == RestTyped /\ TriedOK

LEMMA Bounds ==
    /\ MaxAttempts \in Nat \ {0} /\ MaxFaults \in Nat /\ MaxReplays \in Nat
    /\ 0 \in 0..MaxFaults /\ 0 \in 0..MaxReplays
<1>1. MaxAttempts \in Nat \ {0} /\ MaxFaults \in Nat /\ MaxReplays \in Nat
  BY RunAssumption
<1> QED
  BY <1>1

LEMMA InitTypeInv == Init => TypeInv
<1> SUFFICES ASSUME Init PROVE TypeInv
  OBVIOUS
<1>1. RestTyped
  BY Bounds DEF Init, RestTyped
<1>2. TriedOK
  BY Bounds DEF Init, TriedOK, Spent, Nothing
<1> QED
  BY <1>1, <1>2 DEF TypeInv

FaultsGrow == faults' \in 0..MaxFaults /\ faults' >= faults

\* Within a run nothing that is spent comes back.
LEMMA SpentGrows ==
    ASSUME RestTyped, TriedOK, FaultsGrow, stopped' = stopped
    PROVE  /\ Spent \in Nat /\ Spent' \in Nat /\ Spent <= Spent'
           /\ (stopped => faults > 0)'
<1>1. faults \in Nat /\ faults' \in Nat /\ faults' >= faults /\ stopped \in BOOLEAN
  BY Bounds DEF RestTyped, FaultsGrow
<1>2. CASE stopped
  <2>1. Spent = faults - 1 /\ Spent' = faults' - 1 /\ faults > 0
    BY <1>2, Zenon DEF TriedOK, Spent
  <2>2. PICK f, g \in Nat : f = faults /\ g = faults'
    BY <1>1
  <2>3. f - 1 \in Nat /\ g - 1 \in Nat /\ f - 1 <= g - 1 /\ g > 0
    <3>1. f <= g /\ f > 0
      BY <1>1, <2>1, <2>2
    <3> QED
      BY <3>1
  <2> QED
    BY <2>1, <2>2, <2>3
<1>3. CASE ~ stopped
  BY <1>1, <1>3 DEF Spent
<1> QED
  BY <1>2, <1>3

LEMMA FaultFacts ==
    ASSUME faults \in 0..MaxFaults
    PROVE  /\ NoFault => FaultsGrow
           /\ \A kind : Fault(kind) => FaultsGrow /\ faults' = faults + 1
  BY Bounds DEF NoFault, Fault, FaultsGrow

\* What a step of a run keeps of its payload: the attempts, and that there is one.
Same(payload) == payload.attempt = job.attempt /\ payload.status # None

RunEffect ==
    /\ at' \in Steps \ {"idle", "done"}
    /\ Same(job')
    /\ stored' = stored \/ Same(stored')
    /\ FaultsGrow
    /\ output' \in {None, "partial", "spoiled", "whole"}
    /\ UNCHANGED <<request, old, waiting, stopped, again, replays>>

LEMMA RunEffectKeeps ==
    ASSUME Inv, TypeInv, at \in Running, RunEffect
    PROVE  TypeInv'
<1>1. at \notin {"idle", "done"} /\ ~ waiting
  BY DEF Inv, ShapeOK, Running, FileSteps, DrawingSteps
<1>2. RestTyped'
  BY DEF TypeInv, RestTyped, RunEffect, FaultsGrow
<1>3. stored.attempt \in Nat /\ job.attempt \in Nat
  BY DEF Inv, Typed, Payloads
<1>4. Spent \in Nat /\ Spent' \in Nat /\ Spent <= Spent'
  BY SpentGrows DEF TypeInv, RunEffect
<1>5. TriedOK'
  <2>1. (stopped => faults > 0)'
    BY SpentGrows DEF TypeInv, RunEffect
  <2>2. job'.attempt = job.attempt /\ job.attempt < MaxAttempts + Spent
    BY <1>1 DEF TypeInv, TriedOK, RunEffect, Same
  <2>3. stored'.attempt \in {stored.attempt, job.attempt}
    BY DEF RunEffect, Same
  <2>4. stored.attempt <= MaxAttempts + Spent /\ stored.status # None
    BY <1>1 DEF TypeInv, TriedOK
  <2>5. /\ stored'.attempt <= MaxAttempts + Spent'
        /\ job'.attempt < MaxAttempts + Spent'
    BY <1>3, <1>4, <2>2, <2>3, <2>4, Bounds
  <2> QED
    BY <1>1, <1>3, <1>4, <2>1, <2>2, <2>4, <2>5, Bounds
       DEF TriedOK, RunEffect, Same
<1> QED
  BY <1>2, <1>5 DEF TypeInv

LEMMA StoreEffect ==
    ASSUME TypeInv, NEW payload, Same(payload), Store(payload)
    PROVE  (stored' = stored \/ Same(stored')) /\ FaultsGrow
  BY FaultFacts DEF TypeInv, RestTyped, Store, Lost

\* The payloads a run makes of its job.
LEMMA SameForms ==
    ASSUME job \in Payloads, job.status # None
    PROVE  /\ Same(job) /\ Same(Processing(job)) /\ Same(Cleared(job))
           /\ \A v : /\ Same([job EXCEPT !.status = "failed", !.error = v])
                     /\ Same([job EXCEPT !.text = v])
                     /\ Same([job EXCEPT !.translated = v])
                     /\ Same([job EXCEPT !.output = v])
                     /\ Same([job EXCEPT !.text = v, !.translated = v])
                     /\ Same([job EXCEPT !.text = v, !.translated = v, !.error = None])
                     /\ Same([job EXCEPT !.text = v, !.translated = v, !.output = None])
                     /\ Same([job EXCEPT !.text = "own", !.translated = v,
                                         !.output = "own"])
           /\ Same([Cleared(job) EXCEPT !.output = None])
<1>1. Same(job) /\ Same(Processing(job)) /\ Same(Cleared(job))
  BY DEF Same, Processing, Cleared, Payloads, None
<1>2. ASSUME NEW v
      PROVE  /\ Same([job EXCEPT !.status = "failed", !.error = v])
             /\ Same([job EXCEPT !.text = v])
             /\ Same([job EXCEPT !.translated = v])
             /\ Same([job EXCEPT !.output = v])
  BY DEF Same, Payloads, None
<1>3. ASSUME NEW v
      PROVE  /\ Same([job EXCEPT !.text = v, !.translated = v])
             /\ Same([job EXCEPT !.text = v, !.translated = v, !.error = None])
             /\ Same([job EXCEPT !.text = v, !.translated = v, !.output = None])
             /\ Same([job EXCEPT !.text = "own", !.translated = v, !.output = "own"])
  BY DEF Same, Payloads, None
<1>4. Same([Cleared(job) EXCEPT !.output = None])
  BY DEF Same, Cleared, Payloads
<1> QED
  BY <1>1, <1>2, <1>3, <1>4

\* A run goes on, fails or completes with such a payload.
LEMMA EndEffect ==
    ASSUME TypeInv, job \in Payloads, job.status # None
    PROVE  /\ \A error : Fail(error) =>
                 /\ at' = "cleanup" /\ Same(job') /\ FaultsGrow
                 /\ stored' = stored \/ Same(stored')
           /\ \A payload \in Payloads : Same(payload) /\ Complete(payload) =>
                 /\ at' = "cleanup" /\ Same(job') /\ FaultsGrow
                 /\ stored' = stored \/ Same(stored')
           /\ \A payload \in Payloads : Same(payload) /\ WithText(payload) =>
                 /\ at' \in {"translate", "cleanup"} /\ Same(job') /\ FaultsGrow
                 /\ stored' = stored \/ Same(stored')
           /\ \A step, payload : Same(payload) /\ Stage(step, payload) =>
                 /\ at' = step /\ Same(job') /\ FaultsGrow
                 /\ stored' = stored \/ Same(stored')
<1>1. ASSUME NEW error, Fail(error)
      PROVE  /\ at' = "cleanup" /\ Same(job') /\ FaultsGrow
             /\ stored' = stored \/ Same(stored')
  BY <1>1, SameForms, StoreEffect DEF Fail, Goto
<1>2. ASSUME NEW payload \in Payloads, NEW s \in {"failed", "completed"}, Same(payload)
      PROVE  /\ Same([payload EXCEPT !.status = s])
             /\ \A e : Same([payload EXCEPT !.status = s, !.error = e])
  BY <1>2 DEF Same, Payloads, None
<1>3. ASSUME NEW payload \in Payloads, Same(payload), Complete(payload)
      PROVE  /\ at' = "cleanup" /\ Same(job') /\ FaultsGrow
             /\ stored' = stored \/ Same(stored')
  BY <1>2, <1>3, StoreEffect DEF Complete, Goto
<1>4. ASSUME NEW payload \in Payloads, Same(payload), WithText(payload)
      PROVE  /\ at' \in {"translate", "cleanup"} /\ Same(job') /\ FaultsGrow
             /\ stored' = stored \/ Same(stored')
  <2>1. CASE up.mode = "overlay"
    BY <1>4, <2>1, FaultFacts DEF WithText, Goto, TypeInv, RestTyped
  <2>2. CASE up.mode # "overlay"
    BY <1>2, <1>4, <2>2, StoreEffect DEF WithText, Goto
  <2> QED
    BY <2>1, <2>2
<1>5. ASSUME NEW step, NEW payload, Same(payload), Stage(step, payload)
      PROVE  /\ at' = step /\ Same(job') /\ FaultsGrow
             /\ stored' = stored \/ Same(stored')
  BY <1>5, StoreEffect DEF Stage, Goto
<1> QED
  BY <1>1, <1>3, <1>4, <1>5

LEMMA RunTypeStep ==
    ASSUME Inv, TypeInv,
           \/ Start \/ Extract \/ Ocr \/ Translate \/ Translated \/ Render \/ Encode
           \/ Shrink \/ PassOn \/ Copy \/ Copied \/ NotCopied \/ Finish
    PROVE  TypeInv'
<1>1. /\ at \in Running
      /\ UNCHANGED <<request, old, waiting, stopped, again, replays>>
  BY DEF Start, Extract, Ocr, Translate, Translated, Render, Encode, Shrink, PassOn, Copy,
         Copied, NotCopied, Finish, Running, FileSteps, DrawingSteps, disk, drawing
<1>2. job \in Payloads /\ job.status # None /\ won \in Words
  BY <1>1 DEF Inv, Typed, TypeInv, TriedOK, Running, FileSteps, DrawingSteps
<1>3. output \in {None, "partial", "spoiled", "whole"}
  BY DEF TypeInv, RestTyped
<1>4. NoFault => FaultsGrow
  BY FaultFacts DEF TypeInv, RestTyped
<1>5. \A kind : Fault(kind) => FaultsGrow
  BY FaultFacts DEF TypeInv, RestTyped
<1> DEFINE Ok == /\ at' \in Steps \ {"idle", "done"} /\ Same(job') /\ FaultsGrow
                 /\ stored' = stored \/ Same(stored')
                 /\ output' \in {None, "partial", "spoiled", "whole"}
<1> SUFFICES Ok
  BY <1>1, RunEffectKeeps DEF RunEffect
<1>6. CASE Start
  <2>1. StartText \/ StartPdf \/ StartImage
    BY <1>6 DEF Start
  <2>2. output' = output
    BY <1>6 DEF Start, disk
  <2>3. Same(job) /\ Same(Processing(job))
    BY <1>2, SameForms
  <2>4. CASE StartText
    BY <1>2, <1>3, <2>2, <2>3, <2>4, EndEffect DEF StartText, Steps
  <2>5. CASE StartPdf
    <3>1. CASE Fail("lasting")
      BY <1>2, <1>3, <2>2, <3>1, EndEffect DEF Steps
    <3>2. CASE Goto("ocr", job) /\ UNCHANGED stored /\ NoFault
      BY <1>3, <1>4, <2>2, <2>3, <3>2 DEF Steps, Goto
    <3>3. CASE Stage("extract", job)
      BY <1>2, <1>3, <2>2, <2>3, <3>3, EndEffect DEF Steps
    <3> QED
      BY <2>5, <3>1, <3>2, <3>3 DEF StartPdf
  <2>6. CASE StartImage
    <3>1. Stage("ocr", Processing(job))
      BY <2>6 DEF StartImage
    <3> QED
      BY <1>2, <1>3, <2>2, <2>3, <3>1, EndEffect DEF Steps
  <2> QED
    BY <2>1, <2>4, <2>5, <2>6
<1>7. CASE Extract
  <2>1. [job EXCEPT !.text = "own"] \in Payloads
    BY <1>2 DEF Payloads
  <2>2. output' = output
    BY <1>7 DEF Extract, disk
  <2> QED
    BY <1>2, <1>3, <1>4, <1>7, <2>1, <2>2, SameForms, EndEffect DEF Extract, Steps, Goto
<1>8. CASE Ocr
  <2>1. output' = output
    BY <1>8 DEF Ocr, disk
  <2>2. CASE OcrFails
    BY <1>2, <1>3, <2>1, <2>2, EndEffect DEF OcrFails, Steps
  <2>3. CASE PdfPages
    <3>1. \A text \in {None, "own"} :
              /\ [job EXCEPT !.text = text, !.translated = text] \in Payloads
              /\ [job EXCEPT !.text = text] \in Payloads
      BY <1>2 DEF Payloads, Words
    <3> QED
      BY <1>2, <1>3, <2>1, <2>3, <3>1, SameForms, EndEffect DEF PdfPages, Steps
  <2>4. CASE ImageBlocks
    <3>1. /\ [Cleared(job) EXCEPT !.output = None] \in Payloads
          /\ [job EXCEPT !.text = "own", !.translated = "own", !.output = None]
                \in Payloads
      BY <1>2 DEF Payloads, Cleared, Words, Errors
    <3>2. /\ Same(job) /\ Same(Cleared(job))
          /\ Same([Cleared(job) EXCEPT !.output = None])
          /\ Same([job EXCEPT !.text = "own", !.translated = "own", !.output = None])
      BY <1>2, SameForms
    <3>3. CASE \/ Complete([Cleared(job) EXCEPT !.output = None])
               \/ Complete([job EXCEPT !.text = "own", !.translated = "own",
                                       !.output = None])
      BY <1>2, <1>3, <2>1, <3>1, <3>2, <3>3, EndEffect DEF Steps
    <3>4. CASE Goto("copy", Cleared(job)) /\ Store(job)
      BY <1>3, <2>1, <3>2, <3>4, StoreEffect DEF Steps, Goto
    <3>5. CASE Stage("translate", job)
      BY <1>2, <1>3, <2>1, <3>2, <3>5, EndEffect DEF Steps
    <3> QED
      BY <2>4, <3>3, <3>4, <3>5 DEF ImageBlocks
  <2> QED
    BY <1>8, <2>2, <2>3, <2>4 DEF Ocr
<1>9. ASSUME CompleteDocument, output' = output PROVE Ok
  <2>1. PICK words \in {None, "own", "translation"} :
            Complete([job EXCEPT !.translated = words])
    BY <1>9 DEF CompleteDocument
  <2>2. [job EXCEPT !.translated = words] \in Payloads
    BY <1>2 DEF Payloads, Words
  <2> QED
    BY <1>2, <1>3, <1>9, <2>1, <2>2, SameForms, EndEffect DEF Steps
<1>10. CASE Translate
  <2>1. output' = output
    BY <1>10 DEF Translate, disk
  <2>2. CASE Stage("translating", Processing(job))
    <3>1. Same(Processing(job))
      BY <1>2, SameForms
    <3> QED
      BY <1>2, <1>3, <2>1, <2>2, <3>1, EndEffect DEF Steps
  <2> QED
    BY <1>9, <1>10, <2>1, <2>2 DEF Translate
<1>11. CASE Translated
  <2>1. output' = output
    BY <1>11 DEF Translated, disk
  <2> DEFINE p == [job EXCEPT !.text = "own", !.translated = "own", !.error = None]
  <2>2. Same(job) /\ Same(p)
    BY <1>2, SameForms
  <2>3. CASE Fail("lasting")
    BY <1>2, <1>3, <2>1, <2>3, EndEffect DEF Steps
  <2>4. CASE Goto("copy", p) /\ UNCHANGED stored /\ NoFault
    BY <1>3, <1>4, <2>1, <2>2, <2>4 DEF Steps, Goto
  <2>5. CASE Stage("render", job)
    BY <1>2, <1>3, <2>1, <2>2, <2>5, EndEffect DEF Steps
  <2> QED
    BY <1>9, <1>11, <2>1, <2>3, <2>4, <2>5 DEF Translated
<1>12. CASE Render \/ Encode \/ Shrink
  BY <1>2, <1>3, <1>4, <1>5, <1>12, SameForms
     DEF Render, Encode, Shrink, Draw, Undrawn, Quietly, Goto, Steps
<1>13. CASE PassOn \/ NotCopied
  <2>1. Same(job) /\ output' = output
    BY <1>2, <1>13, SameForms DEF PassOn, NotCopied
  <2>2. Stage("copy", job) \/ Fail("lasting")
    BY <1>13 DEF PassOn, NotCopied
  <2> QED
    BY <1>2, <1>3, <2>1, <2>2, EndEffect DEF Steps
<1>14. CASE Copy \/ Copied
  BY <1>2, <1>3, <1>4, <1>5, <1>14, SameForms
     DEF Copy, Copied, AfterFailedCopy, Quietly, Goto, Steps
<1>15. CASE Finish
  <2>1. /\ [job EXCEPT !.output = "own"] \in Payloads
        /\ [job EXCEPT !.text = "own", !.translated = won, !.output = "own"] \in Payloads
    BY <1>2 DEF Payloads
  <2>2. output' = output
    BY <1>15 DEF Finish
  <2> QED
    BY <1>2, <1>3, <1>15, <2>1, <2>2, SameForms, EndEffect DEF Finish, Steps
<1> QED
  BY <1>6, <1>7, <1>8, <1>10, <1>11, <1>12, <1>13, <1>14, <1>15

\* A verdict counts a try; the job that is tried again has one left.
LEMMA VerdictType == ASSUME Inv, TypeInv, Verdict PROVE TypeInv'
<1>1. /\ at = "verdict" /\ ~ waiting /\ job \in Payloads /\ stored \in Payloads
      /\ UNCHANGED <<request, old, output, waiting, stopped, again, replays>>
  BY DEF Verdict, Inv, ShapeOK, Typed, disk
<1>2. FaultsGrow
  BY FaultFacts DEF Verdict, Lost, TypeInv, RestTyped
<1>3. PICK most \in {MaxAttempts, IF MaxAttempts > 1 THEN MaxAttempts - 1 ELSE 1} :
        \/ /\ Retried(job, most) /\ job' = ForRetry(job)
           /\ at' \in {"requeue", "done"} /\ stored' \in {stored, job'}
        \/ /\ job' = Buried(job) /\ at' = "done" /\ stored' \in {stored, job'}
  <2>1. PICK most \in {MaxAttempts, IF MaxAttempts > 1 THEN MaxAttempts - 1 ELSE 1} :
          LET retried == Retried(job, most)
              judged  == IF retried THEN ForRetry(job) ELSE Buried(job)
          IN \/ /\ ~ stopped
                /\ Goto(IF retried THEN "requeue" ELSE "done", judged)
                /\ stored' = judged
                /\ NoFault
             \/ Goto("done", judged) /\ Lost
    BY DEF Verdict
  <2> QED
    BY <2>1 DEF Goto, Lost
<1>4. /\ ForRetry(job).attempt = job.attempt + 1 /\ ForRetry(job).status = "pending"
      /\ Buried(job).attempt = job.attempt + 1 /\ Buried(job).status = job.status
  BY <1>1 DEF ForRetry, Buried, Payloads
<1>5. Retried(job, most) => job.attempt + 1 < MaxAttempts
  BY <1>1, Bounds DEF Retried, Payloads
<1>6. RestTyped'
  BY <1>1, <1>2 DEF TypeInv, RestTyped, FaultsGrow
<1>7. /\ Spent \in Nat /\ Spent' \in Nat /\ Spent <= Spent'
      /\ (stopped => faults > 0)'
  BY <1>1, <1>2, SpentGrows DEF TypeInv
<1>8. /\ job.attempt < MaxAttempts + Spent /\ stored.attempt <= MaxAttempts + Spent
      /\ job.status # None /\ stored.status # None
      /\ job.attempt \in Nat /\ stored.attempt \in Nat
  BY <1>1 DEF TypeInv, TriedOK, Payloads
<1>9. /\ job'.attempt <= MaxAttempts + Spent'
      /\ at' = "requeue" => job'.attempt < MaxAttempts + Spent'
      /\ job'.status # None /\ at' \in {"requeue", "done"}
  BY <1>3, <1>4, <1>5, <1>7, <1>8, Bounds DEF None
<1>10. stored'.attempt <= MaxAttempts + Spent' /\ stored'.status # None
  BY <1>3, <1>4, <1>7, <1>8, <1>9, Bounds
<1> QED
  BY <1>1, <1>6, <1>7, <1>9, <1>10 DEF TypeInv, TriedOK

LEMMA RequeueType == ASSUME Inv, TypeInv, Requeue PROVE TypeInv'
<1>1. /\ at = "requeue" /\ at' = "done" /\ job \in Payloads /\ stored = job
      /\ waiting' \in BOOLEAN
      /\ UNCHANGED <<request, old, output, stopped, again, replays>>
  BY DEF Requeue, Quietly, Goto, Inv, ShapeOK, Typed, disk
<1>2. FaultsGrow
  BY FaultFacts DEF Requeue, TypeInv, RestTyped
<1>3. /\ job' = job \/ job' = [job EXCEPT !.status = "failed", !.error = "transient"]
      /\ stored' \in {stored, job'}
  BY DEF Requeue, Quietly, Goto
<1>4. /\ job.attempt < MaxAttempts + Spent /\ job.attempt \in Nat /\ job.status # None
  BY <1>1 DEF TypeInv, TriedOK, Payloads
<1>5. /\ job'.attempt = job.attempt /\ job'.status # None
      /\ stored'.attempt = job.attempt /\ stored'.status # None
  BY <1>1, <1>3, <1>4 DEF Payloads, None
<1>6. RestTyped'
  BY <1>1, <1>2 DEF TypeInv, RestTyped, FaultsGrow
<1>7. /\ Spent \in Nat /\ Spent' \in Nat /\ Spent <= Spent'
      /\ (stopped => faults > 0)'
  BY <1>1, <1>2, SpentGrows DEF TypeInv
<1>8. /\ job.attempt < MaxAttempts + Spent' /\ job.attempt <= MaxAttempts + Spent'
  BY <1>4, <1>7, Bounds
<1> QED
  BY <1>1, <1>5, <1>6, <1>7, <1>8 DEF TypeInv, TriedOK

\* A job that comes back has cost a fault.
LEMMA LeaveType ==
    ASSUME Inv, TypeInv, Ack \/ Stopped \/ Crash
    PROVE  TypeInv'
<1>1. /\ at # "idle" /\ at' = "idle" /\ job' = Nothing /\ stopped' = FALSE
      /\ UNCHANGED <<request, old, output, stored, replays>>
      /\ again' \subseteq {"failed", "behind"}
      /\ stored \in Payloads
  BY DEF Ack, Stopped, Crash, Recovered, Leave, Goto, Inv, Typed, TypeInv, RestTyped,
         Behind, disk
<1>2. FaultsGrow
  BY FaultFacts DEF Ack, Stopped, Crash, NoFault, TypeInv, RestTyped
<1>3. Spent \in Nat /\ Spent' \in Nat
  BY <1>1, <1>2, Bounds DEF TypeInv, RestTyped, TriedOK, FaultsGrow, Spent
<1>4. \/ waiting' = waiting /\ Spent' = Spent
      \/ waiting' = TRUE /\ Spent' >= Spent + 1
  <2>1. CASE Ack
    BY <1>1, <2>1 DEF Ack, Spent
  <2>2. CASE Stopped
    BY <1>1, <2>2 DEF Stopped, Recovered, NoFault, Spent, TypeInv, RestTyped
  <2>3. CASE Crash
    <3>1. faults' = faults + 1 /\ waiting' = TRUE /\ faults \in Nat
      BY <2>3, FaultFacts, Bounds DEF Crash, Recovered, TypeInv, RestTyped
    <3> QED
      <4>1. Spent' = faults' /\ (Spent = faults \/ Spent = faults - 1)
        BY <1>1, Zenon DEF Spent
      <4>2. PICK f, s, r \in Nat : f = faults /\ s = Spent /\ r = Spent'
        BY <1>3, <3>1
      <4>3. r = f + 1 /\ (s = f \/ s = f - 1)
        BY <3>1, <4>1, <4>2
      <4>4. r >= s + 1
        BY <4>3
      <4> QED
        BY <3>1, <4>2, <4>4
  <2> QED
    BY <2>1, <2>2, <2>3
<1>5. /\ stored.attempt <= MaxAttempts + Spent /\ stored.attempt \in Nat
      /\ stored.status # None
      /\ waiting => stored.attempt < MaxAttempts + Spent
  BY <1>1 DEF TypeInv, TriedOK, Payloads
<1>6. RestTyped'
  BY <1>1, <1>2 DEF TypeInv, RestTyped, FaultsGrow
<1>7. Nothing.attempt = 0
  BY DEF Nothing
<1>8. /\ stored.attempt <= MaxAttempts + Spent'
      /\ waiting' => stored.attempt < MaxAttempts + Spent'
      /\ job'.attempt <= MaxAttempts + Spent'
  <2>1. job'.attempt = 0 /\ MaxAttempts \in Nat
    BY <1>1, <1>7, Bounds
  <2>2. CASE waiting' = waiting /\ Spent' = Spent
    BY <1>5, <1>3, <2>1, <2>2
  <2>3. CASE waiting' = TRUE /\ Spent' >= Spent + 1
    <3>1. /\ stored.attempt < MaxAttempts + Spent' /\ stored.attempt <= MaxAttempts + Spent'
          /\ job'.attempt <= MaxAttempts + Spent'
      <4>1. PICK b, c, n, k \in Nat :
                b = Spent /\ c = Spent' /\ n = stored.attempt /\ k = MaxAttempts
        BY <1>5, <1>3, <2>1
      <4>2. n <= k + b /\ c >= b + 1
        BY <1>5, <2>3, <4>1
      <4>3. n < k + c /\ n <= k + c /\ 0 <= k + c
        BY <4>2
      <4> QED
        BY <2>1, <4>1, <4>3
    <3> QED
      BY <3>1
  <2> QED
    BY <1>4, <2>2, <2>3
<1> QED
  BY <1>1, <1>5, <1>6, <1>8 DEF TypeInv, TriedOK

\* Requests, deliveries, the end of a run, replays and housekeeping.
LEMMA OtherType ==
    ASSUME Inv, TypeInv,
           \/ Save \/ Refuse \/ Enqueue \/ HandlerDies \/ Deliver \/ Cleanup
           \/ Shutdown \/ Replay \/ Age \/ Sweep
    PROVE  TypeInv'
<1> USE DEF disk, run
<1>0. stored \in Payloads /\ job \in Payloads /\ Spent \in Nat /\ MaxAttempts \in Nat \ {0}
  BY Bounds DEF Inv, Typed, TypeInv, TriedOK, RestTyped, Spent
<1>1. RestTyped'
  <2>1. CASE Save \/ Refuse \/ Enqueue \/ HandlerDies
    BY <2>1, FaultFacts DEF TypeInv, RestTyped, Save, Refuse, Enqueue, HandlerDies,
                            FaultsGrow
  <2>2. CASE Deliver \/ Cleanup \/ Shutdown
    BY <2>2, FaultFacts DEF TypeInv, RestTyped, Deliver, Cleanup, Shutdown, FaultsGrow
  <2>3. CASE Replay \/ Age \/ Sweep
    <3>1. replays' \in 0..MaxReplays
      BY <2>3, Bounds DEF TypeInv, RestTyped, Replay, Age, Sweep
    <3> QED
      BY <2>3, <3>1 DEF TypeInv, RestTyped, Replay, Age, Sweep
  <2> QED
    BY <2>1, <2>2, <2>3
<1>2. CASE Save \/ Refuse \/ HandlerDies \/ Age \/ Sweep
  <2>1. /\ UNCHANGED <<stored, waiting, at, job, stopped>>
        /\ FaultsGrow
    BY <1>2, FaultFacts DEF Save, Refuse, HandlerDies, Age, Sweep, TypeInv, RestTyped,
                            NoFault
  <2>2. Spent' \in Nat /\ Spent <= Spent' /\ (stopped => faults > 0)'
    BY <2>1, SpentGrows DEF TypeInv
  <2>3. stored.attempt \in Nat /\ job.attempt \in Nat
    BY <1>0 DEF Payloads
  <2>4. TriedOK'
    BY <1>0, <2>1, <2>2, <2>3 DEF TypeInv, TriedOK
  <2> QED
    BY <1>1, <2>4 DEF TypeInv
<1>3. CASE Enqueue
  <2>1. /\ UNCHANGED <<at, job, stopped>> /\ FaultsGrow
        /\ \/ UNCHANGED <<stored, waiting>>
           \/ stored' = Fresh /\ waiting' = TRUE
    BY <1>3, FaultFacts DEF Enqueue, TypeInv, RestTyped
  <2>2. Spent' \in Nat /\ Spent <= Spent' /\ (stopped => faults > 0)'
    BY <2>1, SpentGrows DEF TypeInv
  <2>3. /\ stored.attempt \in Nat /\ job.attempt \in Nat
        /\ Fresh.attempt = 0 /\ Fresh.status = "pending"
    BY <1>0 DEF Payloads, Fresh
  <2>4. TriedOK'
    BY <1>0, <2>1, <2>2, <2>3 DEF TypeInv, TriedOK, None
  <2> QED
    BY <1>1, <2>4 DEF TypeInv
<1>4. CASE Deliver
  <2>1. /\ waiting /\ waiting' = FALSE /\ at' = "start"
        /\ job'.attempt = stored.attempt /\ job'.status = stored.status
        /\ UNCHANGED <<stored, stopped, faults>>
    BY <1>0, <1>4, AgedFacts DEF Deliver, Goto
  <2>2. TriedOK'
    BY <2>1 DEF TypeInv, TriedOK, Spent
  <2> QED
    BY <1>1, <2>2 DEF TypeInv
<1>5. CASE Cleanup
  <2>1. /\ at = "cleanup" /\ at' \in {"verdict", "done"} /\ job' = job
        /\ UNCHANGED <<stored, waiting, stopped, faults>>
    BY <1>5 DEF Cleanup, Goto
  <2>2. TriedOK'
    BY <2>1 DEF TypeInv, TriedOK, Spent
  <2> QED
    BY <1>1, <2>2 DEF TypeInv
<1>6. CASE Shutdown
  <2>1. /\ ~ stopped /\ stopped' = TRUE /\ faults' = faults + 1
        /\ UNCHANGED <<stored, waiting, at, job>>
    BY <1>6 DEF Shutdown, Fault
  <2>2. Spent' = Spent /\ faults \in Nat
    BY <2>1, Bounds DEF TypeInv, RestTyped, Spent
  <2>3. TriedOK'
    BY <2>1, <2>2 DEF TypeInv, TriedOK
  <2> QED
    BY <1>1, <2>3 DEF TypeInv
<1>7. CASE Replay
  <2>1. /\ at = "idle" /\ waiting' = TRUE
        /\ stored' = [stored EXCEPT !.status = "pending", !.error = None, !.attempt = 0,
                                    !.buried = FALSE]
        /\ UNCHANGED <<at, job, stopped, faults>>
    BY <1>7 DEF Replay
  <2>2. stored'.attempt = 0 /\ stored'.status = "pending" /\ Spent' = Spent
    BY <1>0, <2>1 DEF Payloads, Spent
  <2>3. TriedOK'
    BY <1>0, <2>1, <2>2 DEF TypeInv, TriedOK, None
  <2> QED
    BY <1>1, <2>3 DEF TypeInv
<1> QED
  BY <1>2, <1>3, <1>4, <1>5, <1>6, <1>7

LEMMA TypeInvStep == Inv /\ TypeInv /\ [Next]_vars => TypeInv'
<1> SUFFICES ASSUME Inv, TypeInv, [Next]_vars PROVE TypeInv'
  OBVIOUS
<1>1. CASE UNCHANGED vars
  BY <1>1 DEF vars, disk, run, TypeInv, RestTyped, TriedOK, Spent
<1>2. CASE Next
  BY <1>2, RunTypeStep, VerdictType, RequeueType, LeaveType, OtherType DEF Next
<1> QED
  BY <1>1, <1>2

\* For any uploads, attempts, faults and replays, every variable keeps its type; in
\* particular the attempts of a job pass MaxAttempts by at most one for each fault
\* that has brought a buried job back.
THEOREM TypeCorrect == Spec => []TypeOK
<1>1. Inv /\ TypeInv => TypeOK
  <2> SUFFICES ASSUME Inv, TypeInv PROVE TypeOK
    OBVIOUS
  <2>1. ASSUME NEW p \in Payloads, p.attempt <= MaxAttempts + Spent
        PROVE  p \in Payload
    <3>1. p.attempt \in 0..MaxAttempts + MaxFaults
      BY <2>1, Bounds DEF TypeInv, RestTyped, Spent, Payloads
    <3> QED
      BY <2>1, <3>1 DEF Payloads, Payload
  <2>2. stored \in Payload /\ job \in Payload
    BY <2>1 DEF Inv, Typed, TypeInv, TriedOK
  <2>3. at = "idle" <=> job = Nothing
    BY DEF TypeInv, TriedOK, Nothing
  <2>4. {source, old, waiting, stopped} \subseteq BOOLEAN
    BY DEF Inv, Typed, TypeInv, RestTyped
  <2> QED
    BY <2>2, <2>3, <2>4 DEF TypeOK, Inv, Typed, TypeInv, RestTyped
<1> QED
  BY <1>1, InitInv, InvStep, InitTypeInv, TypeInvStep, PTL DEF Spec
===============================================================================
