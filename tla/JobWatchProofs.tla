----------------------------- MODULE JobWatchProofs -----------------------------
(*************************************************************************)
(* What holds of JobWatch for any clients, slots and faults: the gate    *)
(* counts exactly the requests inside, and the state keeps its types.    *)
(* GateHolds needs the states of the requests and that those inside are  *)
(* finitely many, which the gate itself sees to; the types need what a   *)
(* reader at each step has got.                                          *)
(*************************************************************************)
EXTENDS JobWatch, FiniteSetTheorems, TLAPS

InGate == {"inside", "poll", "sleep"}
Inside == {c \in Requests : req[c].at \in InGate}

ReqStates == [at: {"out", "inside", "poll", "sleep", "back"},
              late: BOOLEAN, code: Nat]

GateInv ==
    /\ req \in [Clients -> ReqStates]
    /\ IsFiniteSet(Inside)
    /\ slots = Cardinality(Inside)
    /\ slots <= MaxInflight

LEMMA InitGate == Init => GateInv
<1> SUFFICES ASSUME Init PROVE GateInv
  OBVIOUS
<1>1. req \in [Clients -> ReqStates] /\ slots = 0
  BY DEF Init, ReqStates
<1>2. Inside = {}
  BY DEF Init, Inside, InGate, Clients
<1>3. 0 <= MaxInflight
  BY WatchAssumption
<1> QED
  BY <1>1, <1>2, <1>3, FS_EmptySet DEF GateInv

\* A request that gets in takes a slot.
LEMMA EnterKeeps ==
    ASSUME GateInv, NEW c \in Requests, req[c].at \notin InGate, NEW r \in ReqStates,
           r.at \in InGate, req' = [req EXCEPT ![c] = r], slots' = slots + 1,
           slots < MaxInflight
    PROVE  GateInv'
<1>1. Inside' = Inside \cup {c} /\ c \notin Inside
  BY DEF GateInv, Inside, Clients
<1>2. IsFiniteSet(Inside') /\ Cardinality(Inside') = Cardinality(Inside) + 1
  BY <1>1, FS_AddElement DEF GateInv
<1>3. Cardinality(Inside) \in Nat
  BY FS_CardinalityType DEF GateInv
<1> QED
  BY <1>2, <1>3, WatchAssumption DEF GateInv, Clients

\* Nothing else moves a request through the gate.
LEMMA StayKeeps ==
    ASSUME GateInv, NEW c \in Requests, NEW r \in ReqStates,
           r.at \in InGate <=> req[c].at \in InGate,
           req' = [req EXCEPT ![c] = r], slots' = slots
    PROVE  GateInv'
<1>1. Inside' = Inside
  BY DEF GateInv, Inside, Clients
<1> QED
  BY <1>1 DEF GateInv

LEMMA OthersKeep == ASSUME GateInv, UNCHANGED reqVars PROVE GateInv'
<1>1. Inside' = Inside
  BY DEF Inside, reqVars
<1> QED
  BY <1>1 DEF GateInv, reqVars

\* A request that gets out frees its slot.
LEMMA ReturnKeeps ==
    ASSUME GateInv, NEW c \in Requests, req[c].at \in InGate,
           NEW code \in {200, 404, 408, 429, 500, 502, 504}, Return(c, code)
    PROVE  GateInv'
<1> DEFINE r == [req[c] EXCEPT !.at = "back", !.code = code]
<1>1. req[c] \in ReqStates /\ code \in Nat
  BY DEF GateInv, Clients
<1>2. r \in ReqStates /\ r.at = "back"
  BY <1>1 DEF ReqStates
<1>3. req' = [req EXCEPT ![c] = r] /\ slots' = slots - 1
  BY DEF Return, GateInv, Clients
<1> HIDE DEF r
<1>4. Inside' = Inside \ {c} /\ c \in Inside
  BY <1>2, <1>3 DEF GateInv, Inside, InGate, Clients
<1>5. IsFiniteSet(Inside') /\ Cardinality(Inside') = Cardinality(Inside) - 1
  BY <1>4, FS_RemoveElement DEF GateInv
<1>6. Cardinality(Inside) \in Nat
  BY FS_CardinalityType DEF GateInv
<1> QED
  BY <1>2, <1>3, <1>5, <1>6, WatchAssumption DEF GateInv, Clients

LEMMA MoveKeeps ==
    ASSUME GateInv, NEW c \in Requests, req[c].at \in InGate, NEW step \in InGate,
           req' = [req EXCEPT ![c].at = step], slots' = slots
    PROVE  GateInv'
<1> DEFINE r == [req[c] EXCEPT !.at = step]
<1>1. r \in ReqStates /\ r.at \in InGate
  BY DEF GateInv, ReqStates, InGate, Clients
<1>2. req' = [req EXCEPT ![c] = r]
  BY DEF GateInv, Clients
<1> HIDE DEF r
<1> QED
  BY <1>1, <1>2, StayKeeps

\* A request that is refused takes none.
LEMMA RefuseKeeps ==
    ASSUME GateInv, NEW c \in Requests, req[c].at \notin InGate, NEW code \in Nat,
           req' = [req EXCEPT ![c].at = "back", ![c].code = code], slots' = slots
    PROVE  GateInv'
<1> DEFINE r == [req[c] EXCEPT !.at = "back", !.code = code]
<1>1. req[c] \in ReqStates
  BY DEF GateInv, Clients
<1>2. r \in ReqStates /\ r.at = "back"
  BY <1>1 DEF ReqStates
<1>3. req' = [req EXCEPT ![c] = r]
  BY DEF GateInv, Clients
<1> HIDE DEF r
<1> QED
  BY <1>2, <1>3, StayKeeps DEF InGate

LEMMA ArriveGate == ASSUME GateInv, NEW c \in Requests, Arrive(c) PROVE GateInv'
<1>1. req[c] \in ReqStates /\ req[c].at = "out"
  BY DEF GateInv, Clients, Arrive
<1>2. CASE GateOpen
  <2> DEFINE r == [req[c] EXCEPT !.at = "inside"]
  <2>1. r \in ReqStates /\ r.at \in InGate
    BY <1>1 DEF ReqStates, InGate
  <2>2. req' = [req EXCEPT ![c] = r] /\ slots' = slots + 1 /\ slots < MaxInflight
    BY <1>2 DEF Arrive, GateOpen, GateInv, Clients
  <2>3. req[c].at \notin InGate
    BY <1>1 DEF InGate
  <2> HIDE DEF r
  <2> QED
    BY <2>1, <2>2, <2>3, EnterKeeps
<1>3. CASE ~ GateOpen
  <2>1. /\ req' = [req EXCEPT ![c].at = "back", ![c].code = 429] /\ slots' = slots
        /\ 429 \in Nat /\ req[c].at \notin InGate
    BY <1>1, <1>3 DEF Arrive, InGate
  <2> QED
    BY <2>1, RefuseKeeps
<1> QED
  BY <1>2, <1>3

LEMMA HandleGate == ASSUME GateInv, NEW c \in Requests, Handle(c) PROVE GateInv'
<1>1. CASE Submit(c)
  BY <1>1, MoveKeeps, ReturnKeeps DEF Submit, InGate
<1>2. CASE Look(c)
  <2>1. CodeOf(Read(c)) \in {0, 200, 404, 502}
    BY DEF CodeOf
  <2> QED
    BY <1>2, <2>1, MoveKeeps, ReturnKeeps DEF Look, InGate
<1>3. CASE Wake(c)
  BY <1>3, MoveKeeps, ReturnKeeps DEF Wake, InGate
<1> QED
  BY <1>1, <1>2, <1>3 DEF Handle

LEMMA DeadlineGate == ASSUME GateInv, NEW c \in Requests, Deadline(c) PROVE GateInv'
<1> DEFINE r == [req[c] EXCEPT !.late = TRUE]
<1>3. req[c] \in ReqStates
  BY DEF GateInv, Clients
<1>1. r \in ReqStates /\ r.at = req[c].at
  BY <1>3 DEF ReqStates
<1>2. req' = [req EXCEPT ![c] = r] /\ slots' = slots
  BY DEF Deadline, GateInv, Clients
<1> HIDE DEF r
<1> QED
  BY <1>1, <1>2, StayKeeps

LEMMA GateStep == GateInv /\ [Next]_vars => GateInv'
<1> SUFFICES ASSUME GateInv, [Next]_vars PROVE GateInv'
  OBVIOUS
<1>1. CASE UNCHANGED vars
  BY <1>1, OthersKeep DEF vars
<1>2. ASSUME NEW c \in Clients, Work(c) \/ Expire(c) PROVE GateInv'
  BY <1>2, OthersKeep DEF Work, Expire
<1>3. ASSUME NEW c \in Rows, Polling(c) \/ Streaming(c) PROVE GateInv'
  <2>1. UNCHANGED reqVars
    BY <1>3 DEF Polling, PollAsk, PollRead, PollApply, PollFails, Streaming, StreamRead,
                StreamSend, StreamTick
  <2> QED
    BY <2>1, OthersKeep
<1>4. ASSUME NEW c \in Rows, Listening(c) \/ Break(c) \/ Unmount(c) PROVE GateInv'
  <2>1. UNCHANGED reqVars
    BY <1>4 DEF Listening, Connect, Event, Reconnect, Break, Unmount
  <2> QED
    BY <2>1, OthersKeep
<1>5. ASSUME NEW c \in Requests, Arrive(c) \/ Handle(c) \/ Deadline(c) PROVE GateInv'
  BY <1>5, ArriveGate, HandleGate, DeadlineGate
<1> QED
  BY <1>1, <1>2, <1>3, <1>4, <1>5 DEF Next

\* The gate counts exactly the requests inside and lets no more in than it has slots,
\* for any number of requests, however each of them returns.
THEOREM GateCorrect == Spec => []GateHolds
<1>1. GateInv => GateHolds
  BY DEF GateInv, GateHolds, Inside, InGate
<1> QED
  BY <1>1, InitGate, GateStep, PTL DEF Spec

-------------------------------------------------------------------------------
(* Types.                                                                  *)

RowStates    == [shown: Payloads, missing: BOOLEAN, mounted: BOOLEAN, deaf: BOOLEAN]
Answers      == Payloads \cup Errors \cup {None}
PollStates   == [at: {"off", "due", "asked", "answered"}, got: Answers]
Sources      == {"connecting", "open", "broken", "closed"}
StreamStates == [at: {"off", "read", "send", "tick"}, got: Payloads \cup {None}]
Codes        == {0, 200, 404, 408, 429, 500, 502, 504}
Requested    == [at: {"out", "inside", "poll", "sleep", "back"}, late: BOOLEAN,
                 code: Codes]
Short(w)     == w \in Seq(Payloads) /\ Len(w) <= MaxWire

JobTypes ==
    /\ here \in SUBSET Clients
    /\ stored \in [Clients -> Stored]
    /\ tries \in [Clients -> 0..MaxAttempts]
RowTypes ==
    /\ row \in [Clients -> RowStates]
    /\ poll \in [Clients -> PollStates]
    /\ source \in [Clients -> Sources]
StreamTypes ==
    /\ stream \in [Clients -> StreamStates]
    /\ DOMAIN wire = Clients
    /\ \A c \in Clients : Short(wire[c])
ReqTypes == req \in [Clients -> Requested]
FaultTypes == faults \in 0..MaxFaults

\* What the types rest on: only a job that exists is streamed, an event carries a
\* payload, a job still to be tried has tries left, and a request has no job yet
\* until it submits one.
StreamOK(c) ==
    /\ source[c] # "closed" \/ stream[c].at # "off" => stored[c] # None
    /\ stream[c].at = "send" => stream[c].got # None
TriesOK(c) ==
    /\ stored[c] \in {"pending", "processing", "retry"} => tries[c] < MaxAttempts
    /\ stored[c] = None => tries[c] = 0
    /\ c \in Requests /\ req[c].at \in {"out", "inside"} => stored[c] = None

WatchInv ==
    /\ JobTypes /\ RowTypes /\ StreamTypes /\ ReqTypes /\ FaultTypes
    /\ \A c \in Clients : StreamOK(c) /\ TriesOK(c)

LEMMA InitWatch == Init => WatchInv
<1> SUFFICES ASSUME Init PROVE WatchInv
  OBVIOUS
<1> USE WatchAssumption DEF Init, Clients
<1>1. \A c \in Clients : StreamOK(c) /\ TriesOK(c)
  BY DEF StreamOK, TriesOK, None
<1>2. JobTypes /\ FaultTypes
  BY DEF JobTypes, FaultTypes, None, Stored, Payloads
<1>3. RowTypes
  BY DEF RowTypes, RowStates, PollStates, Sources, Answers, Payloads
<1>4. StreamTypes
  BY DEF StreamTypes, StreamStates, Short
<1>5. ReqTypes
  BY DEF ReqTypes, Requested, Codes
<1> QED
  BY <1>1, <1>2, <1>3, <1>4, <1>5 DEF WatchInv

\* A function changed at one client.
LEMMA PutType ==
    ASSUME NEW S, NEW f \in [Clients -> S], NEW c \in Clients, NEW r \in S
    PROVE  /\ [f EXCEPT ![c] = r] \in [Clients -> S]
           /\ [f EXCEPT ![c] = r][c] = r
           /\ \A d \in Clients : d # c => [f EXCEPT ![c] = r][d] = f[d]
  OBVIOUS

\* What a part of the invariant speaks of is left alone.
LEMMA TypesKept ==
    /\ JobTypes /\ UNCHANGED <<here, stored, tries>> => JobTypes'
    /\ RowTypes /\ UNCHANGED <<row, poll, source>> => RowTypes'
    /\ StreamTypes /\ UNCHANGED <<stream, wire>> => StreamTypes'
    /\ ReqTypes /\ UNCHANGED req => ReqTypes'
    /\ FaultTypes /\ NoFault => FaultTypes'
    /\ FaultTypes /\ Fault => FaultTypes'
<1>1. JobTypes /\ UNCHANGED <<here, stored, tries>> => JobTypes'
  BY DEF JobTypes
<1>2. RowTypes /\ UNCHANGED <<row, poll, source>> => RowTypes'
  BY DEF RowTypes
<1>3. StreamTypes /\ UNCHANGED <<stream, wire>> => StreamTypes'
  BY DEF StreamTypes
<1>4. (ReqTypes /\ UNCHANGED req => ReqTypes') /\ (FaultTypes /\ NoFault => FaultTypes')
  BY DEF ReqTypes, FaultTypes, NoFault
<1>5. FaultTypes /\ Fault => FaultTypes'
  BY WatchAssumption DEF FaultTypes, Fault
<1> QED
  BY <1>1, <1>2, <1>3, <1>4, <1>5

LEMMA WatchKept ==
    ASSUME NEW c \in Clients
    PROVE  /\ StreamOK(c) /\ source'[c] = source[c] /\ stream'[c] = stream[c]
                /\ stored'[c] = stored[c] => StreamOK(c)'
           /\ TriesOK(c) /\ stored'[c] = stored[c] /\ tries'[c] = tries[c]
                /\ req'[c] = req[c] => TriesOK(c)'
  BY DEF StreamOK, TriesOK

\* The worker and the clock.
LEMMA WorkWatch ==
    ASSUME WatchInv, NEW c \in Clients, Work(c) \/ Expire(c)
    PROVE  WatchInv'
<1> USE DEF WatchInv
<1>1. UNCHANGED <<here, faults, rowVars, reqVars>>
  BY DEF Work, Expire
<1>2. PICK to \in Payloads \cup {"gone"} :
          /\ stored' = [stored EXCEPT ![c] = to]
          /\ stored[c] \in Payloads
          /\ \/ tries' = tries /\ (to \in {"pending", "processing", "retry"} =>
                                      stored[c] \in {"pending", "retry"}
                                      \/ tries[c] < MaxAttempts)
             \/ /\ tries' = [tries EXCEPT ![c] = @ + 1]
                /\ stored[c] = "processing" /\ to = "failing"
  BY DEF Work, Expire, Write, Payloads
<1>3. /\ stored \in [Clients -> Stored] /\ tries \in [Clients -> 0..MaxAttempts]
      /\ to \in Stored /\ to # None /\ stored[c] # None /\ TriesOK(c)
  BY <1>2 DEF JobTypes, Stored, Payloads, None
<1>4. /\ stored' \in [Clients -> Stored] /\ stored'[c] = to
      /\ \A d \in Clients : d # c => stored'[d] = stored[d]
  BY <1>2, <1>3, PutType
<1>5. /\ tries' \in [Clients -> 0..MaxAttempts]
      /\ to \in {"pending", "processing", "retry"} => tries'[c] < MaxAttempts
      /\ \A d \in Clients : d # c => tries'[d] = tries[d]
  <2>1. CASE tries' = tries
    BY <1>2, <1>3, <2>1 DEF TriesOK
  <2>2. CASE /\ tries' = [tries EXCEPT ![c] = @ + 1]
             /\ stored[c] = "processing" /\ to = "failing"
    <3>1. tries[c] + 1 \in 0..MaxAttempts
      BY <1>3, <2>2, WatchAssumption DEF TriesOK
    <3> QED
      BY <1>3, <2>2, <3>1
  <2> QED
    BY <1>2, <2>1, <2>2
<1>6. JobTypes' /\ RowTypes' /\ StreamTypes' /\ ReqTypes' /\ FaultTypes'
  BY <1>1, <1>4, <1>5, TypesKept DEF JobTypes, rowVars, reqVars, NoFault
<1>7. StreamOK(c)' /\ TriesOK(c)'
  <2>1. req'[c] = req[c] /\ source'[c] = source[c] /\ stream'[c] = stream[c]
    BY <1>1 DEF rowVars, reqVars
  <2> QED
    BY <1>3, <1>4, <1>5, <2>1 DEF StreamOK, TriesOK
<1>8. ASSUME NEW d \in Clients, d # c PROVE StreamOK(d)' /\ TriesOK(d)'
  BY <1>1, <1>4, <1>5, <1>8, WatchKept DEF rowVars, reqVars
<1> QED
  BY <1>6, <1>7, <1>8

LEMMA PollWatch ==
    ASSUME WatchInv, NEW c \in Rows, Polling(c)
    PROVE  WatchInv'
<1> USE DEF WatchInv
<1>0. c \in Clients
  BY DEF Clients
<1>1. UNCHANGED <<here, stored, tries, stream, req>>
  BY DEF Polling, PollAsk, PollRead, PollApply, PollFails, jobVars, reqVars
<1>2. /\ row \in [Clients -> RowStates] /\ poll \in [Clients -> PollStates]
      /\ source \in [Clients -> Sources] /\ stored \in [Clients -> Stored]
  BY DEF RowTypes, JobTypes
<1>3. \/ UNCHANGED <<source, wire>>
      \/ /\ source' = [source EXCEPT ![c] = "closed"]
         /\ wire' = [wire EXCEPT ![c] = <<>>]
  BY DEF Polling, PollAsk, PollRead, PollApply, PollFails
<1>4. FaultTypes'
  BY TypesKept DEF Polling, PollAsk, PollRead, PollApply, PollFails, NoFault
<1>5. \E p \in PollStates : poll' = [poll EXCEPT ![c] = p]
  <2>1. CASE PollAsk(c)
    <3> DEFINE p == [poll[c] EXCEPT !.at = IF row[c].mounted THEN "asked" ELSE "off"]
    <3>1. p \in PollStates
      BY <1>0, <1>2 DEF PollStates
    <3>2. poll' = [poll EXCEPT ![c] = p]
      BY <1>0, <1>2, <2>1 DEF PollAsk
    <3> QED
      BY <3>1, <3>2
  <2>2. CASE PollRead(c)
    <3>1. Read(c) \in Answers
      BY <1>0, <1>2 DEF Read, Stored, Answers, Errors
    <3> QED
      BY <2>2, <3>1 DEF PollRead, PollStates, Answers, Errors
  <2>3. CASE PollApply(c) \/ PollFails(c)
    BY <2>3 DEF PollApply, PollFails, Polled, PollStates, Answers
  <2> QED
    BY <2>1, <2>2, <2>3 DEF Polling
<1>6. row' = row \/ \E r \in RowStates : row' = [row EXCEPT ![c] = r]
  <2>1. CASE PollAsk(c) \/ PollRead(c)
    BY <2>1 DEF PollAsk, PollRead
  <2>2. CASE PollApply(c)
    <3> DEFINE r == [row[c] EXCEPT !.shown = poll[c].got,
                                   !.deaf = row[c].deaf \/ (/\ poll[c].got = "failing"
                                                            /\ source[c] = "closed")]
    <3>1. r \in RowStates
      BY <1>0, <1>2, <2>2 DEF RowStates, PollApply
    <3>2. row' = row \/ row' = [row EXCEPT ![c] = r]
      BY <1>0, <1>2, <2>2 DEF PollApply, Show
    <3> QED
      BY <3>1, <3>2
  <2>3. CASE PollFails(c)
    <3> DEFINE r == [row[c] EXCEPT !.missing = TRUE]
    <3>1. r \in RowStates
      BY <1>0, <1>2 DEF RowStates
    <3>2. row' = row \/ row' = [row EXCEPT ![c] = r]
      BY <1>0, <1>2, <2>3 DEF PollFails
    <3> QED
      BY <3>1, <3>2
  <2> QED
    BY <2>1, <2>2, <2>3 DEF Polling
<1>7. RowTypes'
  <2>1. "closed" \in Sources
    BY DEF Sources
  <2> QED
    BY <1>0, <1>2, <1>3, <1>5, <1>6, <2>1, PutType DEF RowTypes
<1>8. StreamTypes'
  <2>1. Short(<<>>)
    BY WatchAssumption DEF Short
  <2>2. DOMAIN wire' = Clients /\ \A d \in Clients : Short(wire'[d])
    BY <1>0, <1>3, <2>1 DEF StreamTypes
  <2> QED
    BY <1>1, <2>2 DEF StreamTypes
<1>9. JobTypes' /\ ReqTypes'
  BY <1>1, TypesKept
<1>10. ASSUME NEW d \in Clients PROVE StreamOK(d)' /\ TriesOK(d)'
  BY <1>0, <1>1, <1>2, <1>3 DEF StreamOK, TriesOK
<1> QED
  BY <1>4, <1>7, <1>8, <1>9, <1>10

LEMMA StreamWatch ==
    ASSUME WatchInv, NEW c \in Rows, Streaming(c)
    PROVE  WatchInv'
<1> USE DEF WatchInv
<1>0. c \in Clients
  BY DEF Clients
<1>1. UNCHANGED <<here, stored, tries, row, poll, source, req>>
  BY DEF Streaming, StreamRead, StreamSend, StreamTick, jobVars, reqVars
<1>2. /\ stored \in [Clients -> Stored] /\ stream \in [Clients -> StreamStates]
      /\ DOMAIN wire = Clients /\ Short(wire[c])
  BY <1>0 DEF StreamTypes, JobTypes
<1>3. stream[c].at # "off" /\ stored[c] # None
  BY <1>0 DEF Streaming, StreamRead, StreamSend, StreamTick, StreamOK
<1>4. FaultTypes'
  BY TypesKept DEF Streaming, StreamRead, StreamSend, StreamTick, NoFault
<1>5. \E s \in StreamStates : /\ stream' = [stream EXCEPT ![c] = s]
                              /\ s.at = "send" => s.got # None
  <2>1. CASE StreamRead(c)
    <3>1. stored[c] # "gone" => stored[c] \in Payloads
      BY <1>0, <1>2, <1>3 DEF Stored
    <3> QED
      BY <1>3, <2>1, <3>1 DEF StreamRead, StreamOver, StreamStates
  <2>2. CASE StreamSend(c)
    <3> DEFINE Now(step) == [at |-> step, got |-> None]
    <3>1. \A step \in {"off", "tick"} : Now(step) \in StreamStates /\ Now(step).at = step
      BY DEF StreamStates
    <3>2. \/ stream' = [stream EXCEPT ![c] = Now("off")]
          \/ stream' = [stream EXCEPT ![c] = Now("tick")]
      BY <2>2 DEF StreamSend, StreamOver
    <3> HIDE DEF Now
    <3> QED
      BY <3>1, <3>2
  <2>3. CASE StreamTick(c)
    <3> DEFINE s == [stream[c] EXCEPT !.at = "read"]
    <3>1. s \in StreamStates /\ s.at = "read"
      BY <1>0, <1>2 DEF StreamStates
    <3>2. stream' = [stream EXCEPT ![c] = s]
      BY <1>0, <1>2, <2>3 DEF StreamTick
    <3> HIDE DEF s
    <3> QED
      BY <3>1, <3>2
  <2> QED
    BY <2>1, <2>2, <2>3 DEF Streaming
<1>6. \/ wire' = wire
      \/ /\ Len(wire[c]) < MaxWire
         /\ \E p \in Payloads : wire' = [wire EXCEPT ![c] = Append(wire[c], p)]
  <2>1. CASE StreamRead(c) \/ StreamTick(c)
    BY <2>1 DEF StreamRead, StreamTick
  <2>2. CASE StreamSend(c)
    <3>1. stream[c].got \in Payloads
      BY <1>0, <1>2, <2>2 DEF StreamSend, StreamOK, StreamStates
    <3> QED
      BY <1>0, <1>2, <2>2, <3>1 DEF StreamSend, Writes
  <2> QED
    BY <2>1, <2>2 DEF Streaming
<1>7. StreamTypes'
  <2>1. stream' \in [Clients -> StreamStates]
    BY <1>0, <1>2, <1>5, PutType
  <2>2. CASE wire' = wire
    BY <2>1, <2>2 DEF StreamTypes
  <2>3. ASSUME NEW p \in Payloads, Len(wire[c]) < MaxWire,
               wire' = [wire EXCEPT ![c] = Append(wire[c], p)]
        PROVE  StreamTypes'
    <3>1. Short(Append(wire[c], p))
      BY <1>2, <2>3, WatchAssumption DEF Short
    <3>2. DOMAIN wire' = Clients /\ \A d \in Clients : Short(wire'[d])
      BY <1>0, <1>2, <2>3, <3>1 DEF StreamTypes
    <3> QED
      BY <2>1, <3>2 DEF StreamTypes
  <2> QED
    BY <1>6, <2>2, <2>3
<1>8. JobTypes' /\ RowTypes' /\ ReqTypes'
  BY <1>1, TypesKept
<1>9. ASSUME NEW d \in Clients PROVE StreamOK(d)' /\ TriesOK(d)'
  <2>1. CASE d = c
    BY <1>0, <1>1, <1>2, <1>3, <1>5, <2>1 DEF StreamOK, TriesOK
  <2>2. CASE d # c
    BY <1>1, <1>2, <1>5, <2>2, WatchKept
  <2> QED
    BY <2>1, <2>2
<1> QED
  BY <1>4, <1>7, <1>8, <1>9

LEMMA ListenWatch ==
    ASSUME WatchInv, NEW c \in Rows, Listening(c) \/ Break(c) \/ Unmount(c)
    PROVE  WatchInv'
<1> USE DEF WatchInv
<1>0. c \in Clients
  BY DEF Clients
<1>1. UNCHANGED <<here, stored, tries, req>>
  BY DEF Listening, Connect, Event, Reconnect, Break, Unmount, jobVars, reqVars
<1>2. /\ row \in [Clients -> RowStates] /\ poll \in [Clients -> PollStates]
      /\ source \in [Clients -> Sources] /\ stream \in [Clients -> StreamStates]
      /\ DOMAIN wire = Clients /\ Short(wire[c])
  BY <1>0 DEF RowTypes, StreamTypes
<1>3. \/ source' = source
      \/ source' = [source EXCEPT ![c] = "closed"]
      \/ /\ \E s \in Sources : source' = [source EXCEPT ![c] = s]
         /\ source[c] # "closed"
  BY DEF Listening, Connect, Event, Reconnect, Break, Unmount, Sources
<1>4. \/ stream' = stream
      \/ /\ stream' = [stream EXCEPT ![c] = [at |-> "read", got |-> None]]
         /\ source[c] # "closed"
  BY DEF Listening, Connect, Event, Reconnect, Break, Unmount
<1>5. \/ wire' = wire
      \/ wire' = [wire EXCEPT ![c] = <<>>]
      \/ wire[c] # <<>> /\ wire' = [wire EXCEPT ![c] = Tail(wire[c])]
  BY <1>0, <1>2 DEF Listening, Connect, Event, Reconnect, Break, Unmount
<1>6. FaultTypes'
  BY TypesKept DEF Listening, Connect, Event, Reconnect, Break, Unmount, NoFault
<1>7. row' = row \/ \E r \in RowStates : row' = [row EXCEPT ![c] = r]
  <2>1. CASE Reconnect(c) \/ Break(c)
    BY <2>1 DEF Reconnect, Break
  <2>4. CASE Connect(c)
    <3> DEFINE r == [row[c] EXCEPT !.deaf = row[c].deaf \/ poll[c].at = "off"]
    <3>1. r \in RowStates
      BY <1>0, <1>2 DEF RowStates
    <3>2. row' = row \/ row' = [row EXCEPT ![c] = r]
      BY <1>0, <1>2, <2>4 DEF Connect
    <3> QED
      BY <3>1, <3>2
  <2>2. CASE Event(c)
    <3>1. Head(wire[c]) \in Payloads
      BY <1>2, <2>2 DEF Event, Short
    <3> DEFINE r == [row[c] EXCEPT !.shown = Head(wire[c]),
                                   !.deaf = row[c].deaf \/ (/\ Head(wire[c]) = "failing"
                                                            /\ poll[c].at = "off")]
    <3>2. r \in RowStates
      BY <1>0, <1>2, <3>1 DEF RowStates
    <3>3. row' = [row EXCEPT ![c] = r]
      BY <1>0, <1>2, <2>2 DEF Event, Show
    <3> QED
      BY <3>2, <3>3
  <2>3. CASE Unmount(c)
    <3> DEFINE r == [row[c] EXCEPT !.mounted = FALSE]
    <3>1. r \in RowStates
      BY <1>0, <1>2 DEF RowStates
    <3>2. row' = [row EXCEPT ![c] = r]
      BY <1>0, <1>2, <2>3 DEF Unmount
    <3> QED
      BY <3>1, <3>2
  <2> QED
    BY <2>1, <2>2, <2>3, <2>4 DEF Listening
<1>8. poll' = poll \/ \E p \in PollStates : poll' = [poll EXCEPT ![c] = p]
  <2>1. CASE Connect(c) \/ Reconnect(c) \/ Break(c) \/ Event(c)
    BY <2>1 DEF Connect, Reconnect, Break, Event
  <2>2. CASE Unmount(c)
    <3> DEFINE p == [poll[c] EXCEPT !.at = IF poll[c].at = "due" THEN "off"
                                           ELSE poll[c].at]
    <3>1. p \in PollStates
      BY <1>0, <1>2 DEF PollStates
    <3>2. poll' = [poll EXCEPT ![c] = p]
      BY <1>0, <1>2, <2>2 DEF Unmount
    <3> QED
      BY <3>1, <3>2
  <2> QED
    BY <2>1, <2>2 DEF Listening
<1>9. RowTypes'
  <2>1. "closed" \in Sources
    BY DEF Sources
  <2> QED
    BY <1>0, <1>2, <1>3, <1>7, <1>8, <2>1, PutType DEF RowTypes
<1>10. StreamTypes'
  <2>1. stream' \in [Clients -> StreamStates]
    <3>1. [at |-> "read", got |-> None] \in StreamStates
      BY DEF StreamStates
    <3> QED
      BY <1>0, <1>2, <1>4, <3>1, PutType
  <2>2. ASSUME NEW d \in Clients PROVE Short(wire'[d])
    <3>1. /\ Short(wire[d])
          /\ \/ wire'[d] = wire[d] \/ wire'[d] = <<>>
             \/ wire[d] # <<>> /\ wire'[d] = Tail(wire[d])
      BY <1>0, <1>2, <1>5 DEF StreamTypes
    <3>2. Short(<<>>) /\ (wire[d] # <<>> => Short(Tail(wire[d])))
      BY <3>1, WatchAssumption DEF Short
    <3> QED
      BY <3>1, <3>2
  <2>3. DOMAIN wire' = Clients
    BY <1>2, <1>5
  <2> QED
    BY <2>1, <2>2, <2>3 DEF StreamTypes
<1>11. JobTypes' /\ ReqTypes'
  BY <1>1, TypesKept
<1>12. ASSUME NEW d \in Clients PROVE StreamOK(d)' /\ TriesOK(d)'
  BY <1>0, <1>1, <1>2, <1>3, <1>4 DEF StreamOK, TriesOK
<1> QED
  BY <1>6, <1>9, <1>10, <1>11, <1>12

\* The synchronous request.
LEMMA RequestWatch ==
    ASSUME WatchInv, NEW c \in Requests, Arrive(c) \/ Handle(c) \/ Deadline(c)
    PROVE  WatchInv'
<1> USE DEF WatchInv
<1>0. c \in Clients
  BY DEF Clients
<1>1. UNCHANGED <<here, tries, row, poll, source, stream, wire>>
  BY DEF Arrive, Handle, Submit, Look, Wake, Deadline, jobVars, rowVars
<1>2. req \in [Clients -> Requested] /\ stored \in [Clients -> Stored]
  BY DEF ReqTypes, JobTypes
<1>3. FaultTypes'
  BY TypesKept DEF Arrive, Handle, Submit, Look, Wake, Deadline, NoFault
<1> DEFINE At(step) == [req[c] EXCEPT !.at = step]
           Back(code) == [req[c] EXCEPT !.at = "back", !.code = code]
           Late == [req[c] EXCEPT !.late = TRUE]
<1>4. \/ \E step \in {"inside", "poll", "sleep"} :
             /\ req' = [req EXCEPT ![c] = At(step)]
             /\ step = "inside" => req[c].at = "out"
             /\ stored' = stored \/ /\ req[c].at = "inside" /\ step = "poll"
                                    /\ stored' = [stored EXCEPT ![c] = "pending"]
      \/ stored' = stored /\ \E code \in Codes : req' = [req EXCEPT ![c] = Back(code)]
      \/ stored' = stored /\ req' = [req EXCEPT ![c] = Late]
  <2>1. ASSUME NEW step
        PROVE  [req EXCEPT ![c].at = step] = [req EXCEPT ![c] = At(step)]
    BY <1>0, <1>2
  <2>2. ASSUME NEW code
        PROVE  [req EXCEPT ![c].at = "back", ![c].code = code]
                   = [req EXCEPT ![c] = Back(code)]
    BY <1>0, <1>2
  <2>3. [req EXCEPT ![c].late = TRUE] = [req EXCEPT ![c] = Late]
    BY <1>0, <1>2
  <2>4. ASSUME NEW code \in Codes, Return(c, code), stored' = stored
        PROVE  stored' = stored /\ \E k \in Codes : req' = [req EXCEPT ![c] = Back(k)]
    <3>1. req' = [req EXCEPT ![c] = Back(code)]
      BY <2>2, <2>4 DEF Return
    <3> QED
      BY <2>4, <3>1
  <2>5. CASE Arrive(c)
    <3>1. stored' = stored /\ req[c].at = "out"
      BY <2>5 DEF Arrive, jobVars
    <3>2. CASE GateOpen
      <4>1. req' = [req EXCEPT ![c] = At("inside")]
        BY <2>1, <2>5, <3>2 DEF Arrive
      <4> HIDE DEF At
      <4> QED
        BY <3>1, <4>1
    <3>3. CASE ~ GateOpen
      <4>1. req' = [req EXCEPT ![c].at = "back", ![c].code = 429]
        BY <2>5, <3>3 DEF Arrive
      <4>2. req' = [req EXCEPT ![c] = Back(429)]
        BY <2>2, <4>1
      <4>3. 429 \in Codes
        BY DEF Codes
      <4> HIDE DEF Back
      <4> QED
        BY <3>1, <4>2, <4>3
    <3> QED
      BY <3>2, <3>3
  <2>6. CASE Submit(c)
    <3>1. CASE /\ req' = [req EXCEPT ![c].at = "poll"]
               /\ stored' = [stored EXCEPT ![c] = "pending"]
      <4>1. req' = [req EXCEPT ![c] = At("poll")] /\ req[c].at = "inside"
        BY <2>1, <2>6, <3>1 DEF Submit
      <4> HIDE DEF At
      <4> QED
        BY <3>1, <4>1
    <3>2. CASE Return(c, 500) /\ stored' = stored
      BY <2>4, <3>2 DEF Codes
    <3> QED
      BY <2>6, <3>1, <3>2 DEF Submit
  <2>7. CASE Look(c)
    <3>1. CodeOf(Read(c)) \in Codes /\ 408 \in Codes /\ 500 \in Codes
      BY DEF CodeOf, Codes
    <3>2. stored' = stored
      BY <2>7 DEF Look, jobVars
    <3>3. CASE req' = [req EXCEPT ![c].at = "sleep"]
      <4>1. req' = [req EXCEPT ![c] = At("sleep")]
        BY <2>1, <3>3
      <4> HIDE DEF At
      <4> QED
        BY <3>2, <4>1
    <3> QED
      BY <2>4, <2>7, <3>1, <3>2, <3>3 DEF Look
  <2>8. CASE Wake(c)
    <3>1. stored' = stored /\ 504 \in Codes
      BY <2>8 DEF Wake, jobVars, Codes
    <3>2. CASE req' = [req EXCEPT ![c].at = "poll"]
      <4>1. req' = [req EXCEPT ![c] = At("poll")]
        BY <2>1, <3>2
      <4> HIDE DEF At
      <4> QED
        BY <3>1, <4>1
    <3> QED
      BY <2>4, <2>8, <3>1, <3>2 DEF Wake
  <2>9. CASE Deadline(c)
    <3>1. stored' = stored /\ req' = [req EXCEPT ![c] = Late]
      BY <2>3, <2>9 DEF Deadline, jobVars
    <3> QED
      BY <3>1
  <2> QED
    BY <2>5, <2>6, <2>7, <2>8, <2>9 DEF Handle
<1>5. \E r \in Requested :
          /\ req' = [req EXCEPT ![c] = r]
          /\ r.at \in {"out", "inside"} =>
                req[c].at \in {"out", "inside"} /\ stored' = stored
          /\ stored' = stored \/ /\ req[c].at = "inside"
                                 /\ stored' = [stored EXCEPT ![c] = "pending"]
  <2>1. /\ \A step \in {"inside", "poll", "sleep"} :
              At(step) \in Requested /\ At(step).at = step
        /\ \A code \in Codes : Back(code) \in Requested /\ Back(code).at = "back"
        /\ Late \in Requested /\ Late.at = req[c].at
    BY <1>0, <1>2 DEF Requested
  <2> HIDE DEF At, Back, Late
  <2> QED
    BY <1>4, <2>1
<1>6. ReqTypes' /\ (req'[c].at \in {"out", "inside"} =>
                       req[c].at \in {"out", "inside"} /\ stored' = stored)
  BY <1>0, <1>2, <1>5, PutType DEF ReqTypes
<1>7. JobTypes'
  <2>1. "pending" \in Stored
    BY DEF Stored, Payloads
  <2> QED
    BY <1>0, <1>1, <1>2, <1>5, <2>1, PutType DEF JobTypes
<1>8. RowTypes' /\ StreamTypes'
  BY <1>1, TypesKept
<1>9. ASSUME NEW d \in Clients PROVE StreamOK(d)' /\ TriesOK(d)'
  <2>1. (stored[c] = None /\ tries[c] = 0) \/ stored' = stored
    BY <1>0, <1>5 DEF TriesOK
  <2>2. CASE d = c
    BY <1>0, <1>1, <1>2, <1>5, <1>6, <2>1, <2>2, WatchAssumption
       DEF StreamOK, TriesOK, None
  <2>3. CASE d # c
    BY <1>0, <1>1, <1>2, <1>5, <2>3, WatchKept
  <2> QED
    BY <2>2, <2>3
<1> QED
  BY <1>3, <1>6, <1>7, <1>8, <1>9

LEMMA WatchStep == WatchInv /\ [Next]_vars => WatchInv'
<1> SUFFICES ASSUME WatchInv, [Next]_vars PROVE WatchInv'
  OBVIOUS
<1>1. CASE UNCHANGED vars
  BY <1>1, TypesKept, WatchKept DEF vars, jobVars, rowVars, reqVars, WatchInv, NoFault
<1>2. CASE Next
  BY <1>2, WorkWatch, PollWatch, StreamWatch, ListenWatch, RequestWatch DEF Next
<1> QED
  BY <1>1, <1>2

\* For any clients, slots, attempts and faults, every variable keeps its type: the
\* attempts of a job end, an event on its way is always a payload of its job, and
\* the slots of the gate never fall below zero.
THEOREM TypeCorrect == Spec => []TypeOK
<1>1. WatchInv /\ GateInv => TypeOK
  <2> SUFFICES ASSUME WatchInv, GateInv PROVE TypeOK
    OBVIOUS
  <2>1. slots \in Nat
    BY FS_CardinalityType DEF GateInv
  <2> QED
    BY <2>1 DEF TypeOK, WatchInv, JobTypes, RowTypes, StreamTypes, ReqTypes, FaultTypes,
                RowStates, Answers, PollStates, Sources, StreamStates, Codes, Requested,
                Short
<1> QED
  BY <1>1, InitWatch, WatchStep, InitGate, GateStep, PTL DEF Spec
===============================================================================
