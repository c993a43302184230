-------------------------------- MODULE JobWatch --------------------------------
(***************************************************************************)
(* Clients that follow a job while workers rewrite its payload: a row of     *)
(* the panel (src/frontend/src/PdfJobsPanel.tsx), which polls the job and     *)
(* listens to its event stream at once (src/backend/handlers/jobs.go), and    *)
(* the synchronous image request, which waits for the job behind a gate       *)
(* (src/backend/handlers/translate.go, middleware/inflight_gate.go).          *)
(*                                                                           *)
(* Every client has a job of its own.  A payload is what a client can tell    *)
(* from it, its status, and whether its failure is final.                     *)
(***************************************************************************)
EXTENDS Naturals, Sequences, FiniteSets

CONSTANTS
    Rows,          \* clients that are rows of the panel
    Requests,      \* clients that are synchronous image requests
    Companies,     \* the sets of clients that may be there together
    MaxInflight,   \* the slots of the gate
    MaxAttempts,   \* attempts of a job
    MaxFaults,     \* bound: failing reads, broken connections, cancelled requests
    MaxWire        \* bound: events on their way to a row

ASSUME WatchAssumption ==
    /\ Rows \cap Requests = {}
    /\ Companies \subseteq SUBSET (Rows \cup Requests)
    /\ {MaxInflight, MaxAttempts, MaxWire} \subseteq Nat \ {0}
    /\ MaxFaults \in Nat

Clients == Rows \cup Requests

VARIABLES
    here,      \* the clients of this behaviour
    stored,    \* stored[c]: the payload of the job of c
    tries,     \* tries[c]: its failed tries
    faults,    \* how many faults have happened
    row,       \* row[c]: what the row shows and whether it is mounted
    poll,      \* poll[c]: the poll of the row
    source,    \* source[c]: the EventSource of the row
    stream,    \* stream[c]: the goroutine that serves it
    wire,      \* wire[c]: events on their way to the row
    req,       \* req[c]: the synchronous request
    slots      \* the slots of the gate in use

rowVars == <<row, poll, source, stream, wire>>
reqVars == <<req, slots>>
jobVars == <<stored, tries>>
vars == <<here, faults, jobVars, rowVars, reqVars>>

-------------------------------------------------------------------------------
(* The payload.                                                            *)

None     == "none"
Payloads == {"pending", "processing", "completed", "failing", "retry", "dead"}
Stored   == Payloads \cup {None, "gone"}

\* The status a client reads: a failure is stored before its verdict is known.
Status(payload) ==
    CASE payload \in {"failing", "dead"} -> "failed"
      [] payload = "retry" -> "pending"
      [] OTHER -> payload

Terminal(payload) == Status(payload) \in {"completed", "failed"}
Settled(c) == stored[c] \in {"completed", "dead"}

Errors == {"missing", "error"}

TypeOK ==
    /\ here \in SUBSET Clients
    /\ stored \in [Clients -> Stored]
    /\ tries \in [Clients -> 0..MaxAttempts]
    /\ faults \in 0..MaxFaults
    /\ row \in [Clients -> [shown: Payloads, missing: BOOLEAN, mounted: BOOLEAN,
                            deaf: BOOLEAN]]
    /\ poll \in [Clients -> [at: {"off", "due", "asked", "answered"},
                             got: Payloads \cup Errors \cup {None}]]
    /\ source \in [Clients -> {"connecting", "open", "broken", "closed"}]
    /\ stream \in [Clients -> [at: {"off", "read", "send", "tick"},
                               got: Payloads \cup {None}]]
    /\ \A c \in Clients : wire[c] \in Seq(Payloads) /\ Len(wire[c]) <= MaxWire
    /\ req \in [Clients -> [at: {"out", "inside", "poll", "sleep", "back"},
                            late: BOOLEAN, code: {0, 200, 404, 408, 429, 500, 502, 504}]]
    /\ slots \in Nat

\* A row begins to watch when its upload has been accepted.
Init ==
    /\ here \in Companies
    /\ stored = [c \in Clients |-> IF c \in here \cap Rows THEN "pending" ELSE None]
    /\ tries = [c \in Clients |-> 0]
    /\ faults = 0
    /\ row = [c \in Clients |-> [shown |-> "pending", missing |-> FALSE,
                                 mounted |-> c \in here, deaf |-> FALSE]]
    /\ poll = [c \in Clients |->
                 [at |-> IF c \in here \cap Rows THEN "due" ELSE "off", got |-> None]]
    /\ source = [c \in Clients |->
                   IF c \in here \cap Rows THEN "connecting" ELSE "closed"]
    /\ stream = [c \in Clients |-> [at |-> "off", got |-> None]]
    /\ wire = [c \in Clients |-> <<>>]
    /\ req = [c \in Clients |-> [at |-> "out", late |-> FALSE, code |-> 0]]
    /\ slots = 0

Fault == faults < MaxFaults /\ faults' = faults + 1
NoFault == UNCHANGED faults

-------------------------------------------------------------------------------
(* The worker, as far as its writes can be read.                           *)

Write(c, from, to) ==
    /\ stored[c] \in from
    /\ stored' = [stored EXCEPT ![c] = to]

\* A failed try is stored as failed, then handleFailedJob decides.
Work(c) ==
    /\ \/ Write(c, {"pending", "retry"}, "processing") /\ UNCHANGED tries
       \/ Write(c, {"processing"}, "completed") /\ UNCHANGED tries
       \/ Write(c, {"processing"}, "failing") /\ tries' = [tries EXCEPT ![c] = @ + 1]
       \/ Write(c, {"failing"}, "retry") /\ tries[c] < MaxAttempts /\ UNCHANGED tries
       \/ Write(c, {"failing"}, "dead") /\ UNCHANGED tries
    /\ UNCHANGED <<here, faults, rowVars, reqVars>>

\* A day after its last write the payload of a job expires.
Expire(c) ==
    /\ Write(c, {"completed", "dead"}, "gone")
    /\ UNCHANGED <<here, faults, tries, rowVars, reqVars>>

\* What GET /jobs/:id reads.
Read(c) == IF stored[c] = "gone" THEN "missing" ELSE stored[c]

-------------------------------------------------------------------------------
(* The polling of a row.                                                   *)

\* A row that takes a failure for final stops reading there; with nothing else that
\* reads for it (readsOn) it is deaf to what comes after.
Show(c, payload, readsOn) ==
    row' = [row EXCEPT ![c].shown = payload,
                       ![c].deaf = @ \/ (payload = "failing" /\ ~ readsOn)]

PollAsk(c) ==
    /\ poll[c].at = "due"
    /\ poll' = [poll EXCEPT ![c].at = IF row[c].mounted THEN "asked" ELSE "off"]
    /\ UNCHANGED <<here, faults, jobVars, row, source, stream, wire, reqVars>>

\* The server answers, and the answer is on its way.
PollRead(c) ==
    /\ poll[c].at = "asked"
    /\ \/ poll' = [poll EXCEPT ![c] = [at |-> "answered", got |-> Read(c)]] /\ NoFault
       \/ poll' = [poll EXCEPT ![c] = [at |-> "answered", got |-> "error"]] /\ Fault
    /\ UNCHANGED <<here, jobVars, row, source, stream, wire, reqVars>>

\* Seeded fault: no more polls once the event stream is closed.
PollsUntilClosed(c, payload) == ~ Terminal(payload) /\ source[c] # "closed"

\* The next poll is due unless the job has ended, whatever the events have said.
PollsAgain(c, payload) == ~ Terminal(payload)

Polled(c, again) == poll' = [poll EXCEPT ![c] = [at |-> IF again THEN "due" ELSE "off",
                                                 got |-> None]]

\* An answer is shown without a look at what the events have shown meanwhile.
PollApply(c) ==
    /\ poll[c].at = "answered"
    /\ poll[c].got \in Payloads
    /\ Polled(c, PollsAgain(c, poll[c].got))
    /\ IF row[c].mounted
       THEN Show(c, poll[c].got, source[c] # "closed") ELSE UNCHANGED row
    /\ UNCHANGED <<here, faults, jobVars, source, stream, wire, reqVars>>

\* No such job: the row gives up.  Any other error: it tries again.
PollFails(c) ==
    /\ poll[c].at = "answered"
    /\ poll[c].got \in Errors
    /\ Polled(c, row[c].mounted /\ poll[c].got = "error")
    /\ IF row[c].mounted /\ poll[c].got = "missing"
       THEN /\ row' = [row EXCEPT ![c].missing = TRUE]
            /\ source' = [source EXCEPT ![c] = "closed"]
            /\ wire' = [wire EXCEPT ![c] = <<>>]
       ELSE UNCHANGED <<row, source, wire>>
    /\ UNCHANGED <<here, faults, jobVars, stream, reqVars>>

\* The row is removed: its timer is cleared and its event source closed.
Unmount(c) ==
    /\ c \in here \cap Rows
    /\ row[c].mounted
    /\ row' = [row EXCEPT ![c].mounted = FALSE]
    /\ poll' = [poll EXCEPT ![c].at = IF @ = "due" THEN "off" ELSE @]
    /\ source' = [source EXCEPT ![c] = "closed"]
    /\ wire' = [wire EXCEPT ![c] = <<>>]
    /\ UNCHANGED <<here, faults, jobVars, stream, reqVars>>

Polling(c) == PollAsk(c) \/ PollRead(c) \/ PollApply(c) \/ PollFails(c)

-------------------------------------------------------------------------------
(* The event stream of a row.                                              *)

\* The browser asks for the stream, for the first time or again; the handler looks
\* the job up, and any answer but 200 closes the source for good.  One goroutine stands
\* for those of all connections of a row: an old one may still tick beside the new,
\* but it writes to a connection that is gone.
Connect(c) ==
    /\ source[c] = "connecting"
    /\ stream[c].at = "off"
    /\ \/ /\ stored[c] # "gone"
          /\ source' = [source EXCEPT ![c] = "open"]
          /\ stream' = [stream EXCEPT ![c] = [at |-> "read", got |-> None]]
          /\ UNCHANGED row
          /\ NoFault
       \/ /\ stored[c] = "gone"
          /\ source' = [source EXCEPT ![c] = "closed"]
          /\ UNCHANGED <<row, stream>>
          /\ NoFault
       \/ /\ source' = [source EXCEPT ![c] = "closed"]
          /\ row' = [row EXCEPT ![c].deaf = @ \/ poll[c].at = "off"]
          /\ UNCHANGED stream
          /\ Fault
    /\ UNCHANGED <<here, jobVars, poll, wire, reqVars>>

StreamOver(c) == stream' = [stream EXCEPT ![c] = [at |-> "off", got |-> None]]

\* A job that cannot be read ends the stream, with an event that says so.
StreamRead(c) ==
    /\ stream[c].at = "read"
    /\ \/ /\ stored[c] # "gone"
          /\ stream' = [stream EXCEPT ![c] = [at |-> "send", got |-> stored[c]]]
          /\ NoFault
       \/ stored[c] = "gone" /\ StreamOver(c) /\ NoFault
       \/ StreamOver(c) /\ Fault
    /\ UNCHANGED <<here, jobVars, row, poll, source, wire, reqVars>>

\* Seeded fault: a write that fails goes unnoticed.
WritesAnyway(c) == TRUE

\* A write fails once the connection is gone.  Since each payload carries the time
\* of its reading it differs from the last, so each is written.
Writes(c) == source[c] = "open"

\* The event is written; after that of a job that has ended the stream ends.
StreamSend(c) ==
    /\ stream[c].at = "send"
    /\ IF ~ Writes(c)
       THEN StreamOver(c) /\ UNCHANGED wire
       ELSE /\ Len(wire[c]) < MaxWire
            /\ wire' = [wire EXCEPT ![c] = IF source[c] = "open"
                                         THEN Append(@, stream[c].got) ELSE @]
            /\ IF Terminal(stream[c].got)
               THEN StreamOver(c)
               ELSE stream' = [stream EXCEPT ![c] = [at |-> "tick", got |-> None]]
    /\ UNCHANGED <<here, faults, jobVars, row, poll, source, reqVars>>

StreamTick(c) ==
    /\ stream[c].at = "tick"
    /\ stream' = [stream EXCEPT ![c].at = "read"]
    /\ UNCHANGED <<here, faults, jobVars, row, poll, source, wire, reqVars>>

\* The row shows an event as it comes, and closes the source with the last one.
Event(c) ==
    /\ source[c] = "open"
    /\ wire[c] # <<>>
    /\ Show(c, Head(wire[c]), poll[c].at # "off")
    /\ IF Terminal(Head(wire[c]))
       THEN /\ source' = [source EXCEPT ![c] = "closed"]
            /\ wire' = [wire EXCEPT ![c] = <<>>]
       ELSE /\ wire' = [wire EXCEPT ![c] = Tail(@)]
            /\ UNCHANGED source
    /\ UNCHANGED <<here, faults, jobVars, poll, stream, reqVars>>

\* The connection breaks; events on their way are lost.
Break(c) ==
    /\ source[c] = "open"
    /\ source' = [source EXCEPT ![c] = "broken"]
    /\ wire' = [wire EXCEPT ![c] = <<>>]
    /\ Fault
    /\ UNCHANGED <<here, jobVars, row, poll, stream, reqVars>>

\* The browser connects again when its connection has broken or ended.
Reconnect(c) ==
    /\ \/ source[c] = "broken"
       \/ source[c] = "open" /\ stream[c].at = "off" /\ wire[c] = <<>>
    /\ source' = [source EXCEPT ![c] = "connecting"]
    /\ UNCHANGED <<here, faults, jobVars, row, poll, stream, wire, reqVars>>

Streaming(c) == StreamRead(c) \/ StreamSend(c) \/ StreamTick(c)
Listening(c) == Connect(c) \/ Event(c) \/ Reconnect(c)

-------------------------------------------------------------------------------
(* The synchronous image request.                                          *)

\* Seeded fault: the gate lets one more in.
LetsOneMoreIn == slots <= MaxInflight

GateOpen == slots < MaxInflight

\* The handler returns, and the deferred receive frees the slot.
Return(c, code) ==
    /\ req' = [req EXCEPT ![c].at = "back", ![c].code = code]
    /\ slots' = slots - 1

Arrive(c) ==
    /\ c \in here \cap Requests
    /\ req[c].at = "out"
    /\ IF GateOpen
       THEN /\ req' = [req EXCEPT ![c].at = "inside"]
            /\ slots' = slots + 1
       ELSE /\ req' = [req EXCEPT ![c].at = "back", ![c].code = 429]
            /\ UNCHANGED slots
    /\ UNCHANGED <<here, faults, jobVars, rowVars>>

\* The image is saved and its job enqueued, unless one of the two fails.
Submit(c) ==
    /\ req[c].at = "inside"
    /\ \/ /\ req' = [req EXCEPT ![c].at = "poll"]
          /\ stored' = [stored EXCEPT ![c] = "pending"]
          /\ UNCHANGED slots
          /\ NoFault
       \/ /\ Return(c, 500)
          /\ UNCHANGED stored
          /\ Fault
    /\ UNCHANGED <<here, tries, rowVars>>

\* What the handler makes of a payload; 0 is to go on waiting.
CodeOf(payload) ==
    CASE payload = "missing" -> 404
      [] Status(payload) = "completed" -> 200
      [] Status(payload) = "failed" -> 502
      [] OTHER -> 0

\* The job is read, unless that fails; a job still in work is waited for, unless the
\* server is shutting down and has cancelled the request.
Look(c) ==
    /\ req[c].at = "poll"
    /\ \/ /\ CodeOf(Read(c)) # 0
          /\ Return(c, CodeOf(Read(c)))
          /\ NoFault
       \/ /\ CodeOf(Read(c)) = 0
          /\ req' = [req EXCEPT ![c].at = "sleep"]
          /\ UNCHANGED slots
          /\ NoFault
       \/ CodeOf(Read(c)) = 0 /\ Return(c, 408) /\ Fault
       \/ Return(c, 500) /\ Fault
    /\ UNCHANGED <<here, jobVars, rowVars>>

\* Seeded fault: the deadline is not looked at.
NeverLate(c) == FALSE

OutOfTime(c) == req[c].late

Wake(c) ==
    /\ req[c].at = "sleep"
    /\ IF OutOfTime(c)
       THEN Return(c, 504)
       ELSE req' = [req EXCEPT ![c].at = "poll"] /\ UNCHANGED slots
    /\ UNCHANGED <<here, faults, jobVars, rowVars>>

Deadline(c) ==
    /\ req[c].at \in {"poll", "sleep"}
    /\ req' = [req EXCEPT ![c].late = TRUE]
    /\ UNCHANGED <<here, faults, jobVars, rowVars, slots>>

Handle(c) == Submit(c) \/ Look(c) \/ Wake(c)

-------------------------------------------------------------------------------
Next ==
    \/ \E c \in Clients : Work(c) \/ Expire(c)
    \/ \E c \in Rows : Polling(c) \/ Streaming(c) \/ Listening(c)
                       \/ Break(c) \/ Unmount(c)
    \/ \E c \in Requests : Arrive(c) \/ Handle(c) \/ Deadline(c)

Spec == Init /\ [][Next]_vars

\* Timers fire, goroutines run and messages arrive; workers and clients owe nothing.
FairSpec ==
    /\ Spec
    /\ \A c \in Rows : /\ WF_vars(Polling(c))
                       /\ WF_vars(Streaming(c))
                       /\ WF_vars(Listening(c))
    /\ \A c \in Requests : WF_vars(Handle(c)) /\ WF_vars(Deadline(c))

-------------------------------------------------------------------------------
(* Properties.                                                             *)

\* The gate counts exactly the requests inside, however they return.
GateHolds ==
    /\ slots = Cardinality({c \in Requests : req[c].at \in {"inside", "poll", "sleep"}})
    /\ slots <= MaxInflight

\* Once a job has ended, its row comes to show how and never again anything else,
\* although polls and events overtake each other: an old answer that overwrites a
\* newer event is repaired by the next poll, and the other way round.  Excepted are
\* rows that are gone, and those that nothing reads for any more because the last of
\* their two readers took a failure for final that was not, or was refused when it
\* connected again: the row then keeps what was shown last, for good.
RowConverges ==
    \A c \in Rows :
        Settled(c) ~> [](\/ Status(row[c].shown) = Status(stored[c])
                         \/ stored[c] = "gone" \/ row[c].missing
                         \/ ~ row[c].mounted \/ row[c].deaf)

\* The goroutine of a stream ends once nobody listens or the job has ended.
StreamEnds ==
    \A c \in Rows : Settled(c) \/ source[c] = "closed" ~> stream[c].at = "off"

\* A request that got past the gate returns, also when no worker takes its job.
RequestReturns ==
    \A c \in Requests : req[c].at = "inside" ~> req[c].at = "back"

\* Claimed: the stream of a job ends when the job has reached a terminal state.
StreamEndsAtTerminal ==
    \A c \in here :
        stream[c].at = "send" /\ Terminal(stream[c].got) =>
            stored[c] = "gone" \/ Terminal(stored[c])
===============================================================================
