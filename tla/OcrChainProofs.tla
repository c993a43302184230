---------------------------- MODULE OcrChainProofs ----------------------------
(***************************************************************************)
(* What holds of OcrChain for any set of requests, hence any budget of       *)
(* fallbacks: a provider has its copy exactly while it is waited for, the     *)
(* result is the answer of the provider in turn, nobody sends more than its   *)
(* ways and the budget allow, and the chain fails only when it is exhausted.  *)
(* The last two need that an order names each provider once (OrderOK), how    *)
(* many requests go with each way and try (SentOK), and that a provider whose *)
(* turn has not come is untouched (TurnsOK).                                  *)
(***************************************************************************)
EXTENDS OcrChain, FiniteSetTheorems, TLAPS

LEMMA NamesFacts ==
    /\ DOMAIN Names = 1..4
    /\ Len(Names) = 4
    /\ \A i \in 1..4 : Names[i] \in Providers
    /\ \A i, j \in 1..4 : Names[i] = Names[j] => i = j
    /\ \A p \in Providers : \E i \in 1..4 : Names[i] = p
<1>1. DOMAIN Names = 1..4 /\ Len(Names) = 4
  BY DEF Names
<1>2. /\ Names[1] = "paddle" /\ Names[2] = "tesseract"
      /\ Names[3] = "ollama" /\ Names[4] = "unlimited"
  BY DEF Names
<1> QED
  BY <1>1, <1>2 DEF Providers

\* An order names each provider once.
Permutation(s) ==
    /\ s \in [1..4 -> Providers]
    /\ \A i, j \in 1..4 : s[i] = s[j] => i = j
    /\ \A p \in Providers : \E i \in 1..4 : s[i] = p

\* Moving an element to the front only reorders.
LEMMA MoveKeepsPermutation ==
    ASSUME NEW s, Permutation(s), NEW e
    PROVE  Permutation(MoveToFront(s, e))
<1>1. DOMAIN s = 1..4
  BY DEF Permutation
<1>2. CASE \E i \in DOMAIN s : s[i] = e
  <2> DEFINE k == CHOOSE i \in DOMAIN s : s[i] = e
             t == [i \in 1..4 |-> IF i = 1 THEN e ELSE IF i <= k THEN s[i - 1] ELSE s[i]]
  <2>1. k \in 1..4 /\ s[k] = e
    BY <1>1, <1>2
  <2>2. MoveToFront(s, e) = t
    BY <1>1, <1>2 DEF MoveToFront
  <2> HIDE DEF k
  <2>3. t \in [1..4 -> Providers]
    BY <2>1 DEF Permutation
  <2>4. \A i, j \in 1..4 : t[i] = t[j] => i = j
    BY <2>1 DEF Permutation
  <2>5. ASSUME NEW p \in Providers PROVE \E i \in 1..4 : t[i] = p
    <3>1. PICK j \in 1..4 : s[j] = p
      BY DEF Permutation
    <3>2. CASE j = k
      BY <2>1, <3>1, <3>2
    <3>3. CASE j < k
      <4>1. j + 1 \in 1..4 /\ t[j + 1] = p
        BY <2>1, <3>1, <3>3
      <4> QED
        BY <4>1
    <3>4. CASE j > k
      <4>1. t[j] = p
        BY <2>1, <3>1, <3>4
      <4> QED
        BY <4>1
    <3> QED
      BY <2>1, <3>2, <3>3, <3>4
  <2> QED
    BY <2>2, <2>3, <2>4, <2>5 DEF Permutation
<1>3. CASE ~ \E i \in DOMAIN s : s[i] = e
  BY <1>3 DEF MoveToFront
<1> QED
  BY <1>2, <1>3

LEMMA OrderPermutes ==
    ASSUME NEW primary, NEW engine
    PROVE  Permutation(OrderFor(primary, engine))
<1>1. Permutation(Names)
  <2>1. Names = [i \in 1..4 |-> Names[i]]
    BY NamesFacts DEF Names
  <2> QED
    BY <2>1, NamesFacts DEF Permutation
<1> QED
  BY <1>1, MoveKeepsPermutation DEF OrderFor

-------------------------------------------------------------------------------
(* The inductive invariant.                                                *)

\* The requests sent before a way is taken.
Before(way) == IF way = "multipart" THEN 3 ELSE IF way = "json" THEN 4 ELSE 0

\* How many requests a goroutine has sent follows from its way and its try, and what
\* it delivers is an answer.
SentOK(p) ==
    /\ work[p].at # "off" => (work[p].way = "image" <=> call.kind = "image")
    /\ work[p].at = "await" => work[p].tries \in 1..Tries(work[p].way)
    /\ work[p].at = "pause" => work[p].tries \in 1..(Tries(work[p].way) - 1)
    /\ work[p].at \in {"off", "open"} => work[p].sent <= Before(work[p].way)
    /\ work[p].at \in {"await", "pause"} =>
          work[p].sent <= Before(work[p].way) + work[p].tries
    /\ work[p].sent <= MostRequests(call.kind)
    /\ work[p].at = "deliver" => work[p].found \in Answers

\* The fallbacks count the turns behind the current one.
IndexOK ==
    /\ Permutation(call.order)
    /\ fallbacks = idx - 1
    /\ fallbacks <= call.budget

\* Who is at turn or was is told by verdict, who is to come is untouched.
TurnsOK ==
    /\ \A i \in 1..4 :
          i > idx \/ (i = idx /\ pc \in {"read", "next"}) =>
             /\ work[call.order[i]] = Idle
             /\ chan[call.order[i]] = None
             /\ verdict[call.order[i]] = None
    /\ \A i \in 1..4 : i < idx => verdict[call.order[i]] # None
    /\ pc = "read" => verdict = [p \in Providers |-> None]

\* What the end of the request says of the provider in turn.
EndOK ==
    /\ pc = "failed" /\ verdict # [p \in Providers |-> None] =>
          verdict[Current] # None /\ (idx = 4 \/ idx = call.budget + 1)
    /\ pc = "done" => /\ result.by = Current
                      /\ result.answer = chan[Current]
                      /\ chan[Current] # None

\* A provider that has failed has delivered nothing, and never will, or an error.
FailedOK ==
    \A p \in Providers :
      verdict[p] = "error" => \/ chan[p] = None /\ work[p].at = "off"
                              \/ chan[p] # None /\ ~ Valid(chan[p])

Started == {p \in Providers : work[p].at # "off"}

StartedOK ==
    /\ IsFiniteSet(Started)
    /\ Cardinality(Started) <= fallbacks + (IF pc \in {"read", "next"} THEN 0 ELSE 1)

Inv ==
    /\ TypeOK
    /\ IndexOK
    /\ \A p \in Providers : SentOK(p)
    /\ TurnsOK
    /\ EndOK
    /\ FailedOK
    /\ StartedOK
    /\ CopyWhileWaiting

LEMMA CurrentIn == ASSUME TypeOK PROVE Current \in Providers
  BY NamesFacts DEF TypeOK, Calls, Current

\* Providers that are equal have equal places.
LEMMA PlacesDiffer ==
    ASSUME TypeOK, IndexOK, NEW i \in 1..4, i # idx
    PROVE  call.order[i] # Current /\ call.order[i] \in Providers
  BY NamesFacts DEF TypeOK, IndexOK, Permutation, Current

LEMMA InitInv == Init => Inv
<1> SUFFICES ASSUME Init PROVE Inv
  OBVIOUS
<1>1. PICK r \in Requests :
        call = [kind |-> r.kind, order |-> OrderFor(r.primary, r.engine),
                budget |-> r.budget, shared |-> r.shared]
  BY DEF Init
<1>2. /\ r.kind \in {"pdf", "image"}
      /\ r.budget \in Nat
      /\ r.shared \in BOOLEAN
  BY ChainAssumption
<1>3. Permutation(call.order)
  BY <1>1, OrderPermutes
<1>4. call \in Calls
  BY <1>1, <1>2, <1>3, NamesFacts DEF Calls, Permutation
<1>5. TypeOK
  <2>1. Idle \in [at: Steps, way: Ways, tries: 0..3, sent: 0..5,
                  found: Answers \cup {None}]
    BY DEF Idle, Steps, Ways
  <2>2. /\ pc \in Phases /\ idx \in DOMAIN Names /\ fallbacks \in 0..Len(Names)
        /\ late \in BOOLEAN
    <3>1. pc \in Phases /\ late \in BOOLEAN
      BY DEF Init, Phases
    <3>2. idx = 1 /\ fallbacks = 0
      BY DEF Init
    <3>3. idx \in DOMAIN Names
      BY <3>2, NamesFacts
    <3>4. fallbacks \in 0..Len(Names)
      BY <3>2, NamesFacts
    <3> QED
      BY <3>1, <3>3, <3>4
  <2>3. /\ file \in [Providers -> {"none", "there", "removed"}]
        /\ chan \in [Providers -> Answers \cup {None}]
        /\ result \in [by: Providers \cup {None}, answer: Answers \cup {None}]
        /\ verdict \in [Providers -> {None, "late", "error"}]
    BY DEF Init
  <2>4. work \in [Providers -> [at: Steps, way: Ways, tries: 0..3, sent: 0..5,
                               found: Answers \cup {None}]]
    BY <2>1 DEF Init
  <2> QED
    BY <1>4, <2>2, <2>3, <2>4 DEF TypeOK
<1>6. IndexOK
  BY <1>1, <1>2, <1>3 DEF Init, IndexOK
<1>7. \A p \in Providers : SentOK(p)
  BY <1>1, <1>2 DEF Init, SentOK, Idle, Before, MostRequests
<1>8. TurnsOK /\ EndOK /\ FailedOK /\ CopyWhileWaiting
  BY <1>3 DEF Init, TurnsOK, EndOK, FailedOK, Idle, Permutation, CopyWhileWaiting, None
<1>9. Started = {}
  BY DEF Init, Started, Idle
<1>10. StartedOK
  BY <1>9, FS_EmptySet DEF StartedOK, Init
<1> QED
  BY <1>5, <1>6, <1>7, <1>8, <1>10 DEF Inv

-------------------------------------------------------------------------------
(* The steps of the caller.                                                *)

\* A turn that fails keeps the index and the verdicts in order.
LEMMA TurnFailsKeeps ==
    ASSUME Inv, NEW why \in {"late", "error"}, TurnFails(why)
    PROVE  /\ call' = call /\ result' = result
           /\ pc' \in {"next", "failed"}
           /\ idx' \in 1..4 /\ idx' \in DOMAIN Names
           /\ fallbacks' \in 0..Len(Names)
           /\ verdict' \in [Providers -> {None, "late", "error"}]
           /\ IndexOK'
           /\ \A i \in 1..4 : i < idx' => verdict'[call.order[i]] # None
           /\ \A i \in 1..4 : i > idx' \/ (i = idx' /\ pc' = "next") =>
                 verdict'[call.order[i]] = verdict[call.order[i]] /\ i > idx
           /\ EndOK'
           /\ \A p \in Providers \ {Current} : verdict'[p] = verdict[p]
           /\ verdict'[Current] = why
<1> USE NamesFacts
<1>1. /\ idx \in 1..4 /\ fallbacks = idx - 1 /\ fallbacks <= call.budget
      /\ call.order \in [1..4 -> Providers] /\ call.budget \in Nat
      /\ Current \in Providers
      /\ verdict \in [Providers -> {None, "late", "error"}]
      /\ Len(call.order) = 4
  BY CurrentIn DEF Inv, TypeOK, IndexOK, Calls
<1>2. /\ verdict' = [verdict EXCEPT ![Current] = why]
      /\ call' = call /\ result' = result
  BY DEF TurnFails
<1>3. /\ verdict' \in [Providers -> {None, "late", "error"}]
      /\ verdict'[Current] = why
      /\ \A p \in Providers \ {Current} : verdict'[p] = verdict[p]
  BY <1>1, <1>2
<1>4. why # None
  BY DEF None
<1>5. \A i \in 1..4 : i < idx + 1 => verdict'[call.order[i]] # None
  <2> SUFFICES ASSUME NEW i \in 1..4, i < idx + 1
               PROVE  verdict'[call.order[i]] # None
    OBVIOUS
  <2>1. CASE i = idx
    BY <1>3, <1>4, <2>1 DEF Current
  <2>2. CASE i < idx
    <3>1. verdict[call.order[i]] # None /\ call.order[i] \in Providers
      BY <1>1, <2>2 DEF Inv, TurnsOK
    <3> QED
      BY <1>3, <1>4, <3>1
  <2> QED
    BY <1>1, <2>1, <2>2
<1>8. \A i \in 1..4 : i > idx => verdict'[call.order[i]] = verdict[call.order[i]]
  BY <1>1, <1>3, PlacesDiffer DEF Inv
<1>6. CASE idx < Len(call.order) /\ MayFallBack
  <2>1. pc' = "next" /\ idx' = idx + 1 /\ fallbacks' = fallbacks + 1
    BY <1>6 DEF TurnFails
  <2>2. fallbacks < call.budget /\ idx < 4
    BY <1>1, <1>6 DEF MayFallBack
  <2>3. IndexOK'
    BY <1>1, <1>2, <2>1, <2>2 DEF Inv, IndexOK
  <2>4. EndOK'
    BY <2>1 DEF EndOK
  <2> QED
    BY <1>1, <1>2, <1>3, <1>5, <1>8, <2>1, <2>2, <2>3, <2>4
<1>7. CASE ~ (idx < Len(call.order) /\ MayFallBack)
  <2>1. pc' = "failed" /\ idx' = idx /\ fallbacks' = fallbacks
    BY <1>7 DEF TurnFails
  <2>2. idx = 4 \/ idx = call.budget + 1
    BY <1>1, <1>7 DEF MayFallBack
  <2>3. IndexOK'
    BY <1>1, <1>2, <2>1 DEF Inv, IndexOK
  <2>4. EndOK'
    BY <1>2, <1>3, <1>4, <2>1, <2>2 DEF EndOK, Current
  <2> QED
    BY <1>1, <1>2, <1>3, <1>5, <1>8, <2>1, <2>3, <2>4
<1> QED
  BY <1>6, <1>7

LEMMA ReadSourceInv == ASSUME Inv, ReadSource PROVE Inv'
<1> USE DEF Inv
<1>1. TypeOK'
  BY DEF ReadSource, TypeOK, Phases
<1>2. IndexOK' /\ \A p \in Providers : SentOK(p)'
  BY DEF ReadSource, IndexOK, SentOK
<1>3. TurnsOK'
  BY DEF ReadSource, TurnsOK
<1>4. EndOK' /\ FailedOK'
  BY DEF ReadSource, TurnsOK, EndOK, FailedOK
<1>5. StartedOK'
  <2>1. Started' = Started
    BY DEF ReadSource, Started
  <2>2. Cardinality(Started) \in Nat
    BY FS_CardinalityType DEF StartedOK
  <2>3. fallbacks' = fallbacks /\ fallbacks \in Nat
    BY NamesFacts DEF ReadSource, TypeOK
  <2>4. Cardinality(Started) <= fallbacks
    BY <2>3 DEF StartedOK, ReadSource
  <2> QED
    BY <2>1, <2>2, <2>3, <2>4 DEF StartedOK
<1>6. CopyWhileWaiting'
  BY DEF ReadSource, CopyWhileWaiting, Current
<1> QED
  BY <1>1, <1>2, <1>3, <1>4, <1>5, <1>6

LEMMA BeginFailsInv == ASSUME Inv, BeginFails PROVE Inv'
<1>1. /\ TurnFails("error") /\ pc = "next"
      /\ UNCHANGED <<late, work, file, chan>>
  BY DEF BeginFails
<1> USE DEF Inv
<1>2. TypeOK'
  BY <1>1, TurnFailsKeeps DEF TypeOK, Phases
<1>3. IndexOK' /\ EndOK' /\ \A p \in Providers : SentOK(p)'
  BY <1>1, TurnFailsKeeps DEF SentOK
<1>4. TurnsOK'
  BY <1>1, TurnFailsKeeps DEF TurnsOK
<1>5. FailedOK'
  <2> SUFFICES ASSUME NEW p \in Providers, verdict'[p] = "error"
               PROVE  (\/ chan[p] = None /\ work[p].at = "off"
                       \/ chan[p] # None /\ ~ Valid(chan[p]))
    BY <1>1 DEF FailedOK, Valid
  <2>1. CASE p = Current
    <3>1. work[Current] = Idle /\ chan[Current] = None
      BY <1>1, NamesFacts DEF TurnsOK, Current, TypeOK
    <3> QED
      BY <2>1, <3>1 DEF Idle
  <2>2. CASE p # Current
    BY <1>1, <2>2, TurnFailsKeeps DEF FailedOK
  <2> QED
    BY <2>1, <2>2
<1>6. StartedOK'
  <2>1. Started' = Started
    BY <1>1 DEF Started
  <2>2. Cardinality(Started) \in Nat
    BY FS_CardinalityType DEF StartedOK
  <2>3. /\ fallbacks \in Nat
        /\ \/ pc' = "next" /\ fallbacks' = fallbacks + 1
           \/ pc' = "failed" /\ fallbacks' = fallbacks
    BY <1>1, NamesFacts DEF TurnFails, TypeOK
  <2>4. Cardinality(Started) <= fallbacks
    BY <1>1, <2>3 DEF StartedOK
  <2> QED
    BY <2>1, <2>2, <2>3, <2>4 DEF StartedOK
<1>7. CopyWhileWaiting'
  BY <1>1, TurnFailsKeeps DEF CopyWhileWaiting
<1> QED
  BY <1>2, <1>3, <1>4, <1>5, <1>6, <1>7

Goroutines == [at: Steps, way: Ways, tries: 0..3, sent: 0..5,
               found: Answers \cup {None}]

LEMMA BeginInv == ASSUME Inv, Begin PROVE Inv'
<1> USE DEF Inv
<1> DEFINE w == [work[Current] EXCEPT !.at = "open",
                                     !.way = FirstWay(call.kind, call.shared)]
<1>1. /\ pc = "next" /\ pc' = "wait" /\ late' = FALSE
      /\ file' = [file EXCEPT ![Current] = "there"]
      /\ UNCHANGED <<call, idx, fallbacks, chan, result, verdict>>
  BY DEF Begin
<1>2. /\ Current \in Providers /\ idx \in 1..4 /\ fallbacks \in Nat
      /\ Current' = Current /\ call.kind \in {"pdf", "image"} /\ call.shared \in BOOLEAN
  BY <1>1, CurrentIn, NamesFacts DEF TypeOK, Current, Calls
<1>3. work[Current] = Idle /\ chan[Current] = None
  BY <1>1, <1>2 DEF TurnsOK, Current
<1>4. work' = [work EXCEPT ![Current] = w]
  <2>1. work' = [work EXCEPT ![Current].at = "open",
                            ![Current].way = FirstWay(call.kind, call.shared)]
    BY DEF Begin
  <2>2. work' = [work EXCEPT ![Current] =
                   [work[Current] EXCEPT !.at = "open",
                                         !.way = FirstWay(call.kind, call.shared)]]
    BY <1>2, <2>1 DEF TypeOK
  <2> QED
    BY <2>2
<1>5. /\ w.way \in {"image", "shared", "multipart"}
      /\ w.way = "image" <=> call.kind = "image"
  BY <1>2, <1>3 DEF FirstWay, Idle
<1>6. /\ w \in Goroutines
      /\ w.at = "open" /\ w.sent = 0
  <2>1. /\ work[Current] \in Goroutines /\ work[Current].sent = 0
        /\ FirstWay(call.kind, call.shared) \in Ways
    BY <1>2, <1>3 DEF TypeOK, Goroutines, Idle, FirstWay, Ways
  <2> QED
    BY <2>1 DEF Goroutines, Steps
<1>7. work' \in [Providers -> Goroutines]
  BY <1>2, <1>4, <1>6 DEF TypeOK, Goroutines
<1>8. TypeOK'
  BY <1>1, <1>7 DEF TypeOK, Phases, Goroutines
<1>9. IndexOK'
  BY <1>1 DEF IndexOK
<1>10. \A p \in Providers : SentOK(p)'
  <2> SUFFICES ASSUME NEW p \in Providers PROVE SentOK(p)'
    OBVIOUS
  <2>1. CASE p = Current
    <3>1. work'[p] = w
      BY <1>4, <2>1 DEF TypeOK
    <3> HIDE DEF w
    <3> QED
      BY <1>1, <1>2, <1>5, <1>6, <3>1 DEF SentOK, Before, MostRequests
  <2>2. CASE p # Current
    BY <1>1, <1>4, <2>2 DEF SentOK, TypeOK
  <2> QED
    BY <2>1, <2>2
<1>11. TurnsOK'
  <2>1. ASSUME NEW i \in 1..4, i > idx
        PROVE  work'[call.order[i]] = work[call.order[i]]
    <3>1. call.order[i] # Current /\ call.order[i] \in Providers
      BY <1>2, <2>1, PlacesDiffer
    <3> QED
      BY <1>2, <1>4, <3>1 DEF TypeOK
  <2> QED
    BY <1>1, <1>2, <2>1 DEF TurnsOK
<1>12. EndOK'
  BY <1>1 DEF EndOK
<1>13. FailedOK'
  <2> SUFFICES ASSUME NEW p \in Providers, verdict[p] = "error"
               PROVE  \/ chan[p] = None /\ work'[p].at = "off"
                      \/ chan[p] # None /\ ~ Valid(chan[p])
    BY <1>1 DEF FailedOK, Valid
  <2>1. p # Current
    BY <1>1, <1>2 DEF TurnsOK, Current, None
  <2> QED
    BY <1>4, <2>1 DEF FailedOK, TypeOK
<1>14. StartedOK'
  <2>1. Started' = Started \cup {Current}
    <3>1. ASSUME NEW p \in Providers
          PROVE  work'[p].at # "off" <=> p = Current \/ work[p].at # "off"
      BY <1>2, <1>4 DEF TypeOK
    <3> QED
      BY <1>2, <3>1 DEF Started
  <2>2. Cardinality(Started) \in Nat /\ IsFiniteSet(Started)
    BY FS_CardinalityType DEF StartedOK
  <2>3. Cardinality(Started) <= fallbacks
    BY <1>1, <1>2 DEF StartedOK
  <2>4. /\ IsFiniteSet(Started')
        /\ Cardinality(Started') <= Cardinality(Started) + 1
        /\ Cardinality(Started') \in Nat
    <3>1. /\ IsFiniteSet(Started \cup {Current})
          /\ Cardinality(Started \cup {Current}) =
                IF Current \in Started THEN Cardinality(Started)
                ELSE Cardinality(Started) + 1
      BY <2>2, FS_AddElement
    <3> QED
      BY <2>1, <2>2, <3>1
  <2> QED
    BY <1>1, <1>2, <2>2, <2>3, <2>4 DEF StartedOK
<1>15. CopyWhileWaiting'
  BY <1>1, <1>2 DEF CopyWhileWaiting, TypeOK
<1> QED
  BY <1>8, <1>9, <1>10, <1>11, <1>12, <1>13, <1>14, <1>15

LEMMA ExpireInv == ASSUME Inv, Expire PROVE Inv'
<1> USE DEF Inv
<1>1. UNCHANGED <<call, pc, idx, fallbacks, work, file, chan, result, verdict>>
      /\ late' = TRUE
  BY DEF Expire
<1>2. Started' = Started
  BY <1>1 DEF Started
<1>3. TypeOK'
  BY <1>1 DEF TypeOK
<1> QED
  BY <1>1, <1>2, <1>3 DEF IndexOK, SentOK, TurnsOK, EndOK, FailedOK, Valid, StartedOK,
                         CopyWhileWaiting, Current

\* A turn that was waited for and failed leaves its goroutine alone.
LEMMA TurnEndsInv ==
    ASSUME Inv, NEW why \in {"late", "error"}, pc = "wait", TurnFails(why), RemoveCopy,
           why = "error" => chan[Current] # None /\ ~ Valid(chan[Current]),
           UNCHANGED <<late, work, chan>>
    PROVE  Inv'
<1> USE DEF Inv
<1>1. Current \in Providers /\ idx \in 1..4
  BY CurrentIn, NamesFacts DEF TypeOK
<1>2. file' = [file EXCEPT ![Current] = "removed"]
  BY DEF RemoveCopy
<1>3. TypeOK'
  BY <1>2, TurnFailsKeeps DEF TypeOK, Phases
<1>4. IndexOK' /\ EndOK' /\ \A p \in Providers : SentOK(p)'
  BY TurnFailsKeeps DEF SentOK
<1>5. TurnsOK'
  <2>1. /\ call' = call /\ pc' \in {"next", "failed"}
        /\ \A i \in 1..4 : i < idx' => verdict'[call.order[i]] # None
        /\ \A i \in 1..4 : i > idx' \/ (i = idx' /\ pc' = "next") =>
              verdict'[call.order[i]] = verdict[call.order[i]] /\ i > idx
    BY TurnFailsKeeps
  <2>2. work' = work /\ chan' = chan
    OBVIOUS
  <2>3. \A i \in 1..4 :
          i > idx' \/ (i = idx' /\ pc' \in {"read", "next"}) =>
             /\ work[call.order[i]] = Idle
             /\ chan[call.order[i]] = None
             /\ verdict'[call.order[i]] = None
    BY <2>1 DEF TurnsOK
  <2> QED
    BY <2>1, <2>2, <2>3 DEF TurnsOK
<1>6. FailedOK'
  BY TurnFailsKeeps DEF FailedOK, Valid
<1>7. StartedOK'
  <2>1. Started' = Started
    BY DEF Started
  <2>2. Cardinality(Started) \in Nat
    BY FS_CardinalityType DEF StartedOK
  <2>3. /\ fallbacks \in Nat
        /\ \/ pc' = "next" /\ fallbacks' = fallbacks + 1
           \/ pc' = "failed" /\ fallbacks' = fallbacks
    BY NamesFacts DEF TurnFails, TypeOK
  <2>4. Cardinality(Started) <= fallbacks + 1
    BY <2>3 DEF StartedOK
  <2> QED
    BY <2>1, <2>2, <2>3, <2>4 DEF StartedOK
<1>8. CopyWhileWaiting'
  BY <1>1, <1>2, TurnFailsKeeps DEF CopyWhileWaiting, TypeOK
<1> QED
  BY <1>3, <1>4, <1>5, <1>6, <1>7, <1>8

LEMMA AbandonInv == ASSUME Inv, Abandon PROVE Inv'
  BY TurnEndsInv DEF Abandon

LEMMA TakeInv == ASSUME Inv, Take PROVE Inv'
<1>1. Current \in Providers /\ idx \in 1..4
  BY CurrentIn, NamesFacts DEF Inv, TypeOK
<1>2. /\ pc = "wait" /\ chan[Current] # None /\ RemoveCopy
      /\ UNCHANGED <<late, work, chan>>
  BY DEF Take, Listened
<1>3. CASE Valid(chan[Current])
  <2> USE DEF Inv
  <2>1. /\ pc' = "done"
        /\ result' = [by |-> Current, answer |-> chan[Current]]
        /\ UNCHANGED <<call, idx, fallbacks, verdict>>
    BY <1>3 DEF Take, Listened
  <2>2. Current' = Current
    BY <2>1 DEF Current
  <2>3. TypeOK'
    BY <1>1, <1>2, <2>1 DEF TypeOK, RemoveCopy, Phases
  <2>4. IndexOK' /\ \A p \in Providers : SentOK(p)'
    BY <1>2, <2>1 DEF IndexOK, SentOK
  <2>5. TurnsOK' /\ FailedOK'
    BY <1>2, <2>1 DEF TurnsOK, FailedOK, Valid
  <2>6. EndOK'
    BY <1>2, <2>1, <2>2 DEF EndOK
  <2>7. StartedOK'
    <3>1. Started' = Started
      BY <1>2 DEF Started
    <3> QED
      BY <1>2, <2>1, <3>1 DEF StartedOK
  <2>8. CopyWhileWaiting'
    BY <1>1, <1>2, <2>1 DEF CopyWhileWaiting, RemoveCopy, TypeOK
  <2> QED
    BY <2>3, <2>4, <2>5, <2>6, <2>7, <2>8
<1>4. CASE ~ Valid(chan[Current])
  <2>1. TurnFails("error")
    BY <1>4 DEF Take, Listened
  <2> QED
    BY <1>2, <1>4, <2>1, TurnEndsInv
<1> QED
  BY <1>3, <1>4

-------------------------------------------------------------------------------
(* The steps of a goroutine.                                               *)

LEMMA TriesFacts ==
    /\ \A way \in Ways : Tries(way) \in 1..3
    /\ Tries("shared") = 3 /\ Tries("image") = 2
    /\ Tries("multipart") = 1 /\ Tries("json") = 1
<1>1. Tries("shared") = 3 /\ Tries("image") = 2
  BY DEF Tries
<1>2. Tries("multipart") = 1 /\ Tries("json") = 1
  BY DEF Tries
<1> QED
  BY <1>1, <1>2 DEF Ways

\* A goroutine keeps the invariant when it minds its own count of requests and
\* delivers only into an empty channel.
LEMMA GoroutineKeeps ==
    ASSUME Inv, NEW p \in Providers, UNCHANGED <<chainVars, file>>,
           NEW w \in Goroutines,
           work' = [work EXCEPT ![p] = w], work[p].at # "off", w.at # "off",
           SentOK(p)',
           \/ chan' = chan
           \/ chan[p] = None /\ \E a \in Answers : chan' = [chan EXCEPT ![p] = a]
    PROVE  Inv'
<1> USE DEF Inv
<1>1. UNCHANGED <<call, pc, idx, fallbacks, late, result, verdict, file>>
  BY DEF chainVars
<1>2. work' \in [Providers -> Goroutines]
  BY DEF TypeOK, Goroutines
<1>3. /\ chan' \in [Providers -> Answers \cup {None}]
      /\ \A q \in Providers : q # p \/ chan[q] # None => chan'[q] = chan[q]
  BY DEF TypeOK
<1>4. /\ work'[p] = w
      /\ \A q \in Providers : q # p => work'[q] = work[q]
  BY DEF TypeOK
<1>5. TypeOK'
  BY <1>1, <1>2, <1>3 DEF TypeOK, Goroutines
<1>6. IndexOK'
  BY <1>1 DEF IndexOK
<1>7. \A q \in Providers : SentOK(q)'
  BY <1>1, <1>4 DEF SentOK
<1>8. TurnsOK'
  <2>1. ASSUME NEW i \in 1..4, i > idx \/ (i = idx /\ pc \in {"read", "next"})
        PROVE  work'[call.order[i]] = Idle /\ chan'[call.order[i]] = None
    <3>1. call.order[i] \in Providers
      BY DEF IndexOK, Permutation
    <3>2. work[call.order[i]] = Idle /\ chan[call.order[i]] = None
      BY <2>1 DEF TurnsOK
    <3>3. call.order[i] # p
      BY <3>2 DEF Idle
    <3> QED
      BY <1>3, <1>4, <3>1, <3>2, <3>3
  <2> QED
    BY <1>1, <2>1 DEF TurnsOK
<1>9. EndOK'
  <2>1. Current' = Current /\ Current \in Providers
    BY <1>1, CurrentIn DEF Current
  <2> QED
    BY <1>1, <1>3, <2>1 DEF EndOK
<1>10. FailedOK'
  BY <1>1, <1>3, <1>4 DEF FailedOK, Valid
<1>11. StartedOK'
  <2>1. Started' = Started
    <3>1. \A q \in Providers : work'[q].at # "off" <=> work[q].at # "off"
      BY <1>4
    <3> QED
      BY <3>1 DEF Started
  <2> QED
    BY <1>1, <2>1 DEF StartedOK
<1>12. CopyWhileWaiting'
  BY <1>1 DEF CopyWhileWaiting, Current
<1> QED
  BY <1>5, <1>6, <1>7, <1>8, <1>9, <1>10, <1>11, <1>12

\* A goroutine that has found its answer has sent its requests.
LEMMA FindsInv ==
    ASSUME Inv, NEW p \in Providers, NEW answer \in Answers, Finds(p, answer),
           work[p].at # "off", UNCHANGED <<chainVars, file, chan>>
    PROVE  Inv'
<1> DEFINE w == [work[p] EXCEPT !.at = "deliver", !.found = answer]
<1>1. work[p] \in Goroutines /\ SentOK(p)
  BY DEF Inv, TypeOK, Goroutines
<1>2. /\ w \in Goroutines /\ w.at = "deliver"
      /\ w.way = work[p].way /\ w.sent = work[p].sent /\ w.found = answer
  BY <1>1 DEF Goroutines, Steps
<1>3. work' = [work EXCEPT ![p] = w] /\ work'[p] = w
  BY DEF Finds, Inv, TypeOK
<1> HIDE DEF w
<1>4. SentOK(p)'
  BY <1>1, <1>2, <1>3 DEF SentOK, chainVars
<1> QED
  BY <1>2, <1>3, <1>4, GoroutineKeeps

LEMMA SendType ==
    ASSUME NEW g \in Goroutines, NEW t \in 0..3, NEW n \in 0..5
    PROVE  [g EXCEPT !.at = "await", !.tries = t, !.sent = n] \in Goroutines
  BY DEF Goroutines, Steps

LEMMA OpenInv == ASSUME Inv, NEW p \in Providers, Open(p) PROVE Inv'
<1>1. work[p] \in Goroutines /\ SentOK(p) /\ work[p].at = "open"
  BY DEF Inv, TypeOK, Goroutines, Open
<1>2. CASE file[p] = "there"
  <2> DEFINE w == [work[p] EXCEPT !.at = "await", !.tries = 1, !.sent = @ + 1]
  <2>1. work' = [work EXCEPT ![p] = w] /\ work'[p] = w
    BY <1>2 DEF Open, Inv, TypeOK
  <2>2. /\ w.at = "await" /\ w.tries = 1 /\ w.sent = work[p].sent + 1
        /\ w.way = work[p].way /\ w.way \in Ways
        /\ w.found \in Answers \cup {None}
    BY <1>1 DEF Goroutines
  <2>3. /\ work[p].sent <= Before(work[p].way)
        /\ work[p].way = "image" <=> call.kind = "image"
        /\ work[p].sent \in 0..5
    BY <1>1 DEF SentOK, Goroutines
  <2>4. w.sent \in 0..5 /\ w.sent <= MostRequests(call.kind)
    BY <2>2, <2>3 DEF Before, MostRequests, Ways
  <2>5. w \in Goroutines
    <3>1. work[p].sent + 1 \in 0..5 /\ 1 \in 0..3
      BY <2>2, <2>4
    <3> QED
      BY <1>1, <3>1, SendType
  <2> HIDE DEF w
  <2>6. SentOK(p)'
    BY <2>1, <2>2, <2>3, <2>4, TriesFacts DEF SentOK, Open, chainVars, Before, Ways
  <2> QED
    BY <1>1, <2>1, <2>2, <2>5, <2>6, GoroutineKeeps DEF Open
<1>3. CASE file[p] # "there"
  BY <1>1, <1>3, FindsInv DEF Open, Answers
<1> QED
  BY <1>2, <1>3

LEMMA ResendInv == ASSUME Inv, NEW p \in Providers, Resend(p) PROVE Inv'
<1> DEFINE w == [work[p] EXCEPT !.at = "await", !.tries = @ + 1, !.sent = @ + 1]
<1>1. work[p] \in Goroutines /\ SentOK(p) /\ work[p].at = "pause"
  BY DEF Inv, TypeOK, Goroutines, Resend
<1>2. work' = [work EXCEPT ![p] = w] /\ work'[p] = w
  BY DEF Resend, Inv, TypeOK
<1>3. /\ w.at = "await" /\ w.tries = work[p].tries + 1 /\ w.sent = work[p].sent + 1
      /\ w.way = work[p].way /\ w.way \in Ways
  BY <1>1 DEF Goroutines
<1>4. /\ work[p].tries \in 1..(Tries(work[p].way) - 1)
      /\ work[p].sent <= Before(work[p].way) + work[p].tries
      /\ work[p].way = "image" <=> call.kind = "image"
      /\ work[p].sent \in 0..5 /\ work[p].tries \in 0..3
  BY <1>1 DEF SentOK, Goroutines
<1>5. Tries(work[p].way) \in 1..3
  BY <1>3, TriesFacts
<1>6. w.tries \in 1..Tries(w.way)
  BY <1>3, <1>4, <1>5
<1>7. w.sent <= Before(w.way) + w.tries
  BY <1>3, <1>4 DEF Before
<1>8. w.sent \in 0..5 /\ w.sent <= MostRequests(call.kind)
  BY <1>3, <1>4, <1>6, <1>7, TriesFacts DEF Before, MostRequests, Ways
<1>9. w \in Goroutines
  <2>1. work[p].tries + 1 \in 0..3 /\ work[p].sent + 1 \in 0..5
    BY <1>3, <1>5, <1>6, <1>8
  <2> QED
    BY <1>1, <2>1, SendType
<1> HIDE DEF w
<1>10. SentOK(p)'
  BY <1>2, <1>3, <1>4, <1>6, <1>7, <1>8 DEF SentOK, Resend, chainVars
<1> QED
  BY <1>1, <1>2, <1>3, <1>9, <1>10, GoroutineKeeps DEF Resend

LEMMA RefusedInv ==
    ASSUME Inv, NEW p \in Providers, NEW status \in Statuses, Refused(p, status)
    PROVE  Inv'
<1>1. /\ work[p] \in Goroutines /\ SentOK(p) /\ work[p].at = "await"
      /\ UNCHANGED <<chainVars, file, chan>>
  BY DEF Inv, TypeOK, Goroutines, Refused
<1>2. /\ work[p].way \in Ways /\ Tries(work[p].way) \in 1..3
      /\ work[p].tries \in 1..Tries(work[p].way)
      /\ work[p].sent <= Before(work[p].way) + work[p].tries
      /\ work[p].sent <= MostRequests(call.kind)
      /\ work[p].sent \in 0..5
      /\ work[p].way = "image" <=> call.kind = "image"
  BY <1>1, TriesFacts DEF SentOK, Goroutines
<1>3. CASE Retried(work[p].way, work[p].tries, status)
  <2> DEFINE w == [work[p] EXCEPT !.at = "pause"]
  <2>1. work' = [work EXCEPT ![p] = w] /\ work'[p] = w
    BY <1>3 DEF Refused, Inv, TypeOK
  <2>2. /\ w \in Goroutines /\ w.at = "pause" /\ w.way = work[p].way
        /\ w.tries = work[p].tries /\ w.sent = work[p].sent
    BY <1>1 DEF Goroutines, Steps
  <2>3. w.tries \in 1..(Tries(w.way) - 1)
    BY <1>2, <1>3, <2>2 DEF Retried
  <2> HIDE DEF w
  <2>4. SentOK(p)'
    BY <1>1, <1>2, <2>1, <2>2, <2>3 DEF SentOK, chainVars
  <2> QED
    BY <1>1, <2>1, <2>2, <2>4, GoroutineKeeps
<1>4. CASE ~ Retried(work[p].way, work[p].tries, status) /\ FallsBack(work[p].way, status)
  <2> DEFINE w == [work[p] EXCEPT !.at = "open", !.way = NextWay(@)]
  <2>1. work' = [work EXCEPT ![p] = w] /\ work'[p] = w
    <3>1. work' = [work EXCEPT ![p].at = "open", ![p].way = NextWay(@)]
      BY <1>4 DEF Refused
    <3> QED
      BY <3>1 DEF Inv, TypeOK
  <2>2. /\ w.at = "open" /\ w.way = NextWay(work[p].way) /\ w.sent = work[p].sent
        /\ work[p].way \in {"shared", "multipart"}
    BY <1>1, <1>4 DEF Goroutines, FallsBack
  <2>3. w \in Goroutines
    <3>1. NextWay(work[p].way) \in Ways
      BY DEF NextWay, Ways
    <3> QED
      BY <1>1, <3>1 DEF Goroutines, Steps
  <2> HIDE DEF w
  <2>4. w.sent <= Before(w.way)
    BY <1>2, <2>2, TriesFacts DEF Before, NextWay
  <2>5. w.way # "image" /\ call.kind # "image"
    BY <1>2, <2>2 DEF NextWay
  <2>6. SentOK(p)'
    BY <1>1, <1>2, <2>1, <2>2, <2>4, <2>5 DEF SentOK, chainVars
  <2> QED
    BY <1>1, <2>1, <2>2, <2>3, <2>6, GoroutineKeeps
<1>5. CASE ~ (Retried(work[p].way, work[p].tries, status) \/ FallsBack(work[p].way, status))
  <2>1. Finds(p, "error") /\ "error" \in Answers
    BY <1>5 DEF Refused, Answers
  <2> QED
    BY <1>1, <2>1, FindsInv
<1> QED
  BY <1>3, <1>4, <1>5

LEMMA AnsweredInv ==
    ASSUME Inv, NEW p \in Providers, NEW answer \in Decoded(call.kind), Answered(p, answer)
    PROVE  Inv'
<1>1. answer \in Answers
  BY DEF Decoded, Answers
<1> QED
  BY <1>1, FindsInv DEF Answered

LEMMA DeliverInv ==
    ASSUME Inv, NEW p \in Providers, Deliver(p) PROVE Inv'
<1> DEFINE w == [work[p] EXCEPT !.at = "ended"]
<1>1. work[p] \in Goroutines /\ SentOK(p) /\ work[p].at = "deliver"
  BY DEF Inv, TypeOK, Goroutines, Deliver
<1>2. work' = [work EXCEPT ![p] = w] /\ work'[p] = w
  BY DEF Deliver, Inv, TypeOK
<1>3. /\ w \in Goroutines /\ w.at = "ended"
      /\ w.way = work[p].way /\ w.sent = work[p].sent
  BY <1>1 DEF Goroutines, Steps
<1>4. UNCHANGED <<chainVars, file>>
  BY DEF Deliver
<1> HIDE DEF w
<1>5. SentOK(p)'
  BY <1>1, <1>2, <1>3, <1>4 DEF SentOK, chainVars
<1>6. /\ chan[p] = None /\ chan' = [chan EXCEPT ![p] = work[p].found]
      /\ work[p].found \in Answers
  BY <1>1 DEF Deliver, Room, SentOK
<1> QED
  BY <1>1, <1>2, <1>3, <1>4, <1>5, <1>6, GoroutineKeeps

-------------------------------------------------------------------------------
(* The theorems.                                                           *)

LEMMA InvStep == Inv /\ [Next]_vars => Inv'
<1> SUFFICES ASSUME Inv, [Next]_vars PROVE Inv'
  OBVIOUS
<1>1. CASE UNCHANGED vars
  <2>1. UNCHANGED <<call, pc, idx, fallbacks, late, work, file, chan, result, verdict>>
    BY <1>1 DEF vars, chainVars
  <2>2. Started' = Started
    BY <2>1 DEF Started
  <2> QED
    BY <2>1, <2>2 DEF Inv, TypeOK, IndexOK, SentOK, TurnsOK, EndOK, FailedOK, Valid,
                      StartedOK, CopyWhileWaiting, Current
<1>2. CASE Caller
  BY <1>2, ReadSourceInv, BeginFailsInv, BeginInv, AbandonInv, TakeInv DEF Caller
<1>3. CASE Expire
  BY <1>3, ExpireInv
<1>4. ASSUME NEW p \in Providers, Goroutine(p) PROVE Inv'
  <2>1. CASE Respond(p)
    BY <2>1, RefusedInv, AnsweredInv DEF Respond
  <2>2. CASE ~ Respond(p)
    BY <1>4, <2>2, OpenInv, ResendInv, DeliverInv DEF Goroutine
  <2> QED
    BY <2>1, <2>2
<1> QED
  BY <1>1, <1>2, <1>3, <1>4 DEF Next

\* The inductive invariant holds in every reachable state.
THEOREM InvCorrect == Spec => []Inv
<1> QED
  BY InitInv, InvStep, PTL DEF Spec

\* Types hold in every reachable state, for any set of requests.
THEOREM TypeCorrect == Spec => []TypeOK
<1>1. Inv => TypeOK
  BY DEF Inv
<1> QED
  BY <1>1, InvCorrect, PTL

\* However ways, retries and late goroutines combine, nobody sends more than allowed
\* and no more providers are asked than the fallbacks let in, for any budget.
THEOREM BudgetCorrect == Spec => []WithinBudget
<1>1. ASSUME Inv PROVE WithinBudget
  <2>1. \A p \in Providers : work[p].sent <= MostRequests(call.kind)
    BY <1>1 DEF Inv, SentOK
  <2>2. Cardinality(Started) \in Nat
    BY <1>1, FS_CardinalityType DEF Inv, StartedOK
  <2>3. fallbacks \in Nat /\ call.budget \in Nat /\ fallbacks <= call.budget
    BY <1>1, NamesFacts DEF Inv, TypeOK, IndexOK, Calls
  <2>4. Cardinality(Started) <= fallbacks + (IF pc \in {"read", "next"} THEN 0 ELSE 1)
    BY <1>1 DEF Inv, StartedOK
  <2>5. Cardinality(Started) <= call.budget + 1
    BY <2>2, <2>3, <2>4
  <2> QED
    BY <2>1, <2>5 DEF WithinBudget, Started
<1> QED
  BY <1>1, InvCorrect, PTL

\* The chain fails only when each provider it tried has, in order, and no other is
\* left or allowed, and it takes none for failed whose answer it could have used.
THEOREM ExhaustionCorrect == Spec => []FailsOnlyExhausted
<1>1. ASSUME Inv PROVE FailsOnlyExhausted
  <2>1. /\ idx \in 1..4 /\ Permutation(call.order)
        /\ \A i \in 1..4 : i < idx => verdict[call.order[i]] # None
        /\ EndOK /\ FailedOK
    BY <1>1, NamesFacts DEF Inv, TypeOK, IndexOK, TurnsOK
  <2>2. ASSUME pc = "failed", verdict # [p \in Providers |-> None]
        PROVE  /\ \A p \in Tried : verdict[p] # None
               /\ Tried = Providers \/ idx = call.budget + 1
    <3>1. verdict[Current] # None /\ (idx = 4 \/ idx = call.budget + 1)
      BY <2>1, <2>2 DEF EndOK
    <3>2. \A i \in 1..idx : verdict[call.order[i]] # None
      BY <2>1, <3>1 DEF Current
    <3>3. idx = 4 => Tried = Providers
      BY <2>1 DEF Tried, Permutation
    <3> QED
      BY <3>1, <3>2, <3>3 DEF Tried
  <2>3. \A p \in Providers : verdict[p] = "error" => ~ Valid(chan[p])
    BY <2>1 DEF FailedOK, Valid, None
  <2> QED
    BY <2>2, <2>3 DEF FailsOnlyExhausted
<1> QED
  BY <1>1, InvCorrect, PTL

\* The result is what the provider in turn delivered, never an earlier one's.
THEOREM OwnCorrect == Spec => []AnswerIsOwn
<1>1. ASSUME Inv PROVE AnswerIsOwn
  <2> SUFFICES ASSUME pc = "done"
               PROVE  /\ result.by = Current
                      /\ result.answer = chan[Current]
                      /\ \A p \in Tried \ {Current} : verdict[p] # None
    BY DEF AnswerIsOwn
  <2>1. /\ idx \in 1..4
        /\ \A i \in 1..4 : i < idx => verdict[call.order[i]] # None
    BY <1>1, NamesFacts DEF Inv, TypeOK, TurnsOK
  <2>2. ASSUME NEW p \in Tried \ {Current} PROVE verdict[p] # None
    <3>1. PICK i \in 1..idx : p = call.order[i]
      BY <2>2 DEF Tried
    <3>2. i \in 1..4 /\ i < idx
      BY <2>1, <2>2, <3>1 DEF Current
    <3> QED
      BY <2>1, <3>1, <3>2
  <2> QED
    BY <1>1, <2>2 DEF Inv, EndOK
<1> QED
  BY <1>1, InvCorrect, PTL

\* A provider has its copy of the document exactly while the chain waits for it.
THEOREM CopyCorrect == Spec => []CopyWhileWaiting
<1>1. Inv => CopyWhileWaiting
  BY DEF Inv
<1> QED
  BY <1>1, InvCorrect, PTL
===============================================================================
