-------------------------------- MODULE OcrChain --------------------------------
(***************************************************************************)
(* One OCR request (src/backend/internal/services/ocr_provider_chain.go):   *)
(* the chain asks its providers in turn, each under a deadline of its own    *)
(* and within a budget of fallbacks.  A provider works in a goroutine on a   *)
(* temporary copy of the document and may outlive its turn; it speaks HTTP   *)
(* to the OCR service in several ways, with retries (ocr_client.go).         *)
(*                                                                           *)
(* An answer is the kind of its content.  Lengths of pauses, labels, scores  *)
(* of confidence and metrics are left out.                                   *)
(***************************************************************************)
EXTENDS Naturals, Sequences, FiniteSets

CONSTANT
    Requests     \* the documents, with the configuration they meet: their kind, the
                 \* primary provider, the engine the request names, MaxFallbackCount,
                 \* and whether temporary files are within the shared directory

Names == <<"paddle", "tesseract", "ollama", "unlimited">>
Providers == {Names[i] : i \in DOMAIN Names}

ASSUME ChainAssumption ==
    Requests \subseteq [kind: {"pdf", "image"}, primary: Providers,
                       engine: Providers \cup {"auto"}, budget: Nat, shared: BOOLEAN]

VARIABLES
    call,        \* the request: kind, order of the providers, budget, shared
    pc,          \* the next step of the caller
    idx,         \* the position of the current provider
    fallbacks,   \* the fallbacks made
    late,        \* the deadline of the current provider has passed
    work,        \* work[p]: the goroutine of provider p
    file,        \* file[p]: its temporary file
    chan,        \* chan[p]: the buffer of its channel
    result,      \* what the request returns
    verdict      \* ghost, verdict[p]: why the chain went on from p

chainVars == <<call, pc, idx, fallbacks, late, result, verdict>>
vars == <<chainVars, work, file, chan>>

-------------------------------------------------------------------------------
(* The order of the providers.                                             *)

\* Seeded fault: the element is copied to the front.
CopyToFront(s, e) ==
    IF \E i \in DOMAIN s : s[i] = e
    THEN [i \in DOMAIN s |-> IF i = 1 THEN e ELSE s[i - 1]]
    ELSE s

\* s with e at its head and the rest in the same order.
MoveToFront(s, e) ==
    IF \E i \in DOMAIN s : s[i] = e
    THEN LET k == CHOOSE i \in DOMAIN s : s[i] = e
         IN  [i \in DOMAIN s |->
                IF i = 1 THEN e ELSE IF i <= k THEN s[i - 1] ELSE s[i]]
    ELSE s

\* Only these engines of a request move their provider to the front.
Movable == {"paddle", "unlimited"}

OrderFor(primary, engine) ==
    LET configured == MoveToFront(Names, primary)
    IN  IF engine \in Movable THEN MoveToFront(configured, engine) ELSE configured

-------------------------------------------------------------------------------
(* The client of the OCR service.                                          *)

Ways     == {"shared", "multipart", "json", "image"}
Statuses == {"network", "busy", "bad", "unprocessable", "absent", "failing"}
Answers  == {"text", "hollow", "blank", "error"}
None     == "none"

\* What a way may be answered with once the response is decoded: text, pages that
\* are all empty ("hollow"), or a text of blanks without pages.  An image without
\* blocks and a response that is too long or malformed are errors.
Decoded(kind) == IF kind = "pdf" THEN Answers ELSE {"text", "error"}

FirstWay(kind, shared) ==
    IF kind = "image" THEN "image" ELSE IF shared THEN "shared" ELSE "multipart"

\* How often one way is tried: doWithRetry for the shared path and images.
Tries(way) == CASE way = "shared" -> 3 [] way = "image" -> 2 [] OTHER -> 1

\* Seeded fault: the bound of the retries is off by one.
RetriedOnceMore(way, tries, status) ==
    status \in {"network", "busy"} /\ Tries(way) > 1 /\ tries <= Tries(way)

Retried(way, tries, status) ==
    status \in {"network", "busy"} /\ tries < Tries(way)

\* The statuses on which a way gives way to the next.
FallsBack(way, status) ==
    \/ way = "shared" /\ status \in {"bad", "absent"}
    \/ way = "multipart" /\ status \in {"bad", "unprocessable"}

NextWay(way) == IF way = "shared" THEN "multipart" ELSE "json"

\* The requests that one provider may send for a document.
MostRequests(kind) == IF kind = "image" THEN 2 ELSE 5

-------------------------------------------------------------------------------
Phases == {"read", "next", "wait", "done", "failed"}
Idle   == [at |-> "off", way |-> "json", tries |-> 0, sent |-> 0, found |-> None]
Steps  == {"off", "open", "await", "pause", "deliver", "ended"}

Calls == [kind: {"pdf", "image"}, order: [DOMAIN Names -> Providers], budget: Nat,
          shared: BOOLEAN]

TypeOK ==
    /\ call \in Calls
    /\ pc \in Phases
    /\ idx \in DOMAIN Names
    /\ fallbacks \in 0..Len(Names)
    /\ late \in BOOLEAN
    /\ work \in [Providers ->
                   [at: Steps, way: Ways, tries: 0..3, sent: 0..5,
                    found: Answers \cup {None}]]
    /\ file \in [Providers -> {"none", "there", "removed"}]
    /\ chan \in [Providers -> Answers \cup {None}]
    /\ result \in [by: Providers \cup {None}, answer: Answers \cup {None}]
    /\ verdict \in [Providers -> {None, "late", "error"}]

Init ==
    /\ \E r \in Requests :
         call = [kind |-> r.kind, order |-> OrderFor(r.primary, r.engine),
                 budget |-> r.budget, shared |-> r.shared]
    /\ pc = "read"
    /\ idx = 1
    /\ fallbacks = 0
    /\ late = FALSE
    /\ work = [p \in Providers |-> Idle]
    /\ file = [p \in Providers |-> "none"]
    /\ chan = [p \in Providers |-> None]
    /\ result = [by |-> None, answer |-> None]
    /\ verdict = [p \in Providers |-> None]

Current == call.order[idx]

\* Seeded fault: the budget is compared with what it was before this fallback.
FallbackLeft == fallbacks <= call.budget

MayFallBack == fallbacks < call.budget

-------------------------------------------------------------------------------
(* The chain.                                                              *)

\* The document is read before any provider is asked.
ReadSource ==
    /\ pc = "read"
    /\ pc' \in {"next", "failed"}
    /\ UNCHANGED <<call, idx, fallbacks, late, work, file, chan, result, verdict>>

\* The turn of the current provider ends with an error: on to the next one, unless
\* it was the last or the budget is spent.
TurnFails(why) ==
    /\ verdict' = [verdict EXCEPT ![Current] = why]
    /\ IF idx < Len(call.order) /\ MayFallBack
       THEN /\ pc' = "next"
            /\ idx' = idx + 1
            /\ fallbacks' = fallbacks + 1
       ELSE /\ pc' = "failed"
            /\ UNCHANGED <<idx, fallbacks>>
    /\ UNCHANGED <<call, result>>

\* The vision provider is a placeholder.
Implemented(p) == p # "ollama"

\* The copy cannot be made, or there is no implementation to give it to.
BeginFails ==
    /\ pc = "next"
    /\ TurnFails("error")
    /\ UNCHANGED <<late, work, file, chan>>

\* The document is copied for the provider and its goroutine started.
Begin ==
    /\ pc = "next"
    /\ Implemented(Current)
    /\ pc' = "wait"
    /\ late' = FALSE
    /\ file' = [file EXCEPT ![Current] = "there"]
    /\ work' = [work EXCEPT ![Current].at = "open",
                            ![Current].way = FirstWay(call.kind, call.shared)]
    /\ UNCHANGED <<call, idx, fallbacks, chan, result, verdict>>

\* Seeded fault: a provider has no deadline.
ExpireNever ==
    /\ FALSE
    /\ UNCHANGED vars

\* Each provider has a deadline, its own or the common one.
Expire ==
    /\ pc = "wait"
    /\ late' = TRUE
    /\ UNCHANGED <<call, pc, idx, fallbacks, work, file, chan, result, verdict>>

\* Seeded fault: the copy is removed only when the provider answers in time.
RemoveNothing == UNCHANGED file

\* The deferred os.Remove.
RemoveCopy == file' = [file EXCEPT ![Current] = "removed"]

\* The deadline wins the select, also over an answer that is there.
Abandon ==
    /\ pc = "wait"
    /\ late
    /\ TurnFails("late")
    /\ RemoveCopy
    /\ UNCHANGED <<late, work, chan>>

\* Seeded fault: one channel for all the goroutines of a request.
AnyChannel == {p \in Providers : chan[p] # None}

\* The channels the caller listens to.
Listened == {p \in {Current} : chan[p] # None}

Valid(answer) == answer \in {"text", "hollow"}

\* The answer wins the select, also over a deadline that has passed.
Take ==
    /\ pc = "wait"
    /\ \E p \in Listened :
         IF Valid(chan[p])
         THEN /\ pc' = "done"
              /\ result' = [by |-> Current, answer |-> chan[p]]
              /\ UNCHANGED <<call, idx, fallbacks, verdict>>
         ELSE TurnFails("error")
    /\ RemoveCopy
    /\ UNCHANGED <<late, work, chan>>

Caller == ReadSource \/ BeginFails \/ Begin \/ Abandon \/ Take

-------------------------------------------------------------------------------
(* The goroutine of a provider.                                            *)

Finds(p, answer) ==
    work' = [work EXCEPT ![p].at = "deliver", ![p].found = answer]

\* The file is opened (or its path handed over) and the request sent; a goroutine
\* that is late may find its file removed.
Open(p) ==
    /\ work[p].at = "open"
    /\ IF file[p] = "there"
       THEN work' = [work EXCEPT ![p].at = "await", ![p].tries = 1, ![p].sent = @ + 1]
       ELSE Finds(p, "error")
    /\ UNCHANGED <<chainVars, file, chan>>

\* The service refuses, or cannot be reached.
Refused(p, status) ==
    /\ work[p].at = "await"
    /\ IF Retried(work[p].way, work[p].tries, status)
       THEN work' = [work EXCEPT ![p].at = "pause"]
       ELSE IF FallsBack(work[p].way, status)
       THEN work' = [work EXCEPT ![p].at = "open", ![p].way = NextWay(@)]
       ELSE Finds(p, "error")
    /\ UNCHANGED <<chainVars, file, chan>>

\* The next attempt needs no file: the body is the path, or the image in memory.
Resend(p) ==
    /\ work[p].at = "pause"
    /\ work' = [work EXCEPT ![p].at = "await", ![p].tries = @ + 1, ![p].sent = @ + 1]
    /\ UNCHANGED <<chainVars, file, chan>>

Answered(p, answer) ==
    /\ work[p].at = "await"
    /\ Finds(p, answer)
    /\ UNCHANGED <<chainVars, file, chan>>

\* Seeded fault: a channel without a buffer needs a caller that listens.
Rendezvous(p) == pc = "wait" /\ p = Current

\* The channel has room for the one answer of its goroutine.
Room(p) == chan[p] = None

Deliver(p) ==
    /\ work[p].at = "deliver"
    /\ Room(p)
    /\ chan' = [chan EXCEPT ![p] = work[p].found]
    /\ work' = [work EXCEPT ![p].at = "ended"]
    /\ UNCHANGED <<chainVars, file>>

Respond(p) ==
    \/ \E status \in Statuses : Refused(p, status)
    \/ \E answer \in Decoded(call.kind) : Answered(p, answer)

Goroutine(p) == Open(p) \/ Respond(p) \/ Resend(p) \/ Deliver(p)

-------------------------------------------------------------------------------
Next == Caller \/ Expire \/ \E p \in Providers : Goroutine(p)

Spec == Init /\ [][Next]_vars

\* The caller and the goroutines run and timers fire; the OCR service owes nothing.
FairSpec ==
    /\ Spec
    /\ WF_vars(Caller)
    /\ WF_vars(Expire)
    /\ \A p \in Providers : WF_vars(Open(p) \/ Resend(p) \/ Deliver(p))

-------------------------------------------------------------------------------
(* Properties.                                                             *)

Tried == {call.order[i] : i \in 1..idx}

\* However its ways and retries combine, a provider sends a document no more often
\* than they allow, and no more providers are asked than the budget of fallbacks
\* lets in, also counting those that go on after their turn.
WithinBudget ==
    /\ \A p \in Providers : work[p].sent <= MostRequests(call.kind)
    /\ Cardinality({p \in Providers : work[p].at # "off"}) <= call.budget + 1

\* The chain fails only when each provider it tried, in order, was late or failed,
\* and there is no other left or no budget for it; and a provider taken for
\* failed has not delivered anything usable.
FailsOnlyExhausted ==
    /\ pc = "failed" /\ verdict # [p \in Providers |-> None] =>
         /\ \A p \in Tried : verdict[p] # None
         /\ Tried = Providers \/ idx = call.budget + 1
    /\ \A p \in Providers : verdict[p] = "error" => ~ Valid(chan[p])

\* The result is the answer of the provider whose turn it is, delivered in its
\* turn; a late answer of an earlier one is never taken for it.
AnswerIsOwn ==
    pc = "done" =>
      /\ result.by = Current
      /\ result.answer = chan[Current]
      /\ \A p \in Tried \ {Current} : verdict[p] # None

\* A provider the chain waits for has its copy of the document, and none is left
\* behind by one that was abandoned.
CopyWhileWaiting ==
    \A p \in Providers : file[p] = "there" <=> pc = "wait" /\ p = Current

\* The request returns, also when the OCR service hangs.
CallReturns == <>(pc \in {"done", "failed"})

\* Since a request ends by the timeout of its HTTP client, each goroutine ends, also
\* one that nobody waits for any more.
GoroutinesEnd ==
    (\A p \in Providers : WF_vars(Respond(p))) =>
        \A p \in Providers : work[p].at # "off" ~> work[p].at = "ended"
===============================================================================
