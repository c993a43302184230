--------------------------- MODULE ChunkLoopProofs ---------------------------
(*************************************************************************)
(* What holds of the adaptive loop for every configuration, document and *)
(* load: the word range stays one the worker could have been configured  *)
(* with and only ever shrinks, more load never widens a batch, and every *)
(* unit of the document is handed out once and in order, some in every   *)
(* round. The range needs a fact the properties leave out: the           *)
(* configured range is a valid one all along (ConfigOK). The units need  *)
(* where the rest begins: the chunks handed out are a cut of the         *)
(* document up to there (HandedOut).                                     *)
(*************************************************************************)
EXTENDS ChunkLoop, ChunkingProofs

\* Four fifths of a positive number are less than it.
LEMMA FourFifthsBounds ==
    ASSUME NEW n \in Nat
    PROVE  /\ FourFifths(n) \in Nat
           /\ FourFifths(n) <= n
           /\ n > 0 => FourFifths(n) < n
  BY DEF FourFifths

\* reduceChunkWordRange keeps a range valid, never raises a bound, keeps the
\* minimum above the floor or where it was, and lowers the maximum unless the
\* minimum stops it.
LEMMA ReducedBounds ==
    ASSUME NEW r, ValidRange(r)
    PROVE  /\ ValidRange(Reduced(r))
           /\ Reduced(r).min <= r.min
           /\ Reduced(r).max <= r.max
           /\ Reduced(r).min >= Smaller(Floor, r.min)
           /\ Reduced(r) # r => Reduced(r).max < r.max
<1> DEFINE least == Smaller(r.min, Bigger(Floor, FourFifths(r.min)))
<1>1. r = [min |-> r.min, max |-> r.max] /\ r.min \in Nat /\ r.max \in Nat
      /\ 0 < r.min /\ r.min <= r.max
  BY DEF ValidRange, WordRange
<1>2. Floor \in Nat /\ Floor > 0
  BY LimitsAssumption
<1>3. /\ FourFifths(r.min) \in Nat /\ FourFifths(r.min) < r.min
      /\ FourFifths(r.max) \in Nat /\ FourFifths(r.max) < r.max
  BY <1>1, FourFifthsBounds
<1>4. /\ least \in Nat /\ 0 < least /\ least <= r.min
      /\ least >= Smaller(Floor, r.min)
  BY <1>1, <1>2, <1>3 DEF Smaller, Bigger
<1>5. /\ Reduced(r).min = least
      /\ Reduced(r).max = Bigger(least, FourFifths(r.max))
      /\ Reduced(r) = [min |-> least, max |-> Bigger(least, FourFifths(r.max))]
  BY DEF Reduced
<1>6. /\ Bigger(least, FourFifths(r.max)) \in Nat
      /\ least <= Bigger(least, FourFifths(r.max))
      /\ Bigger(least, FourFifths(r.max)) <= r.max
  BY <1>1, <1>3, <1>4 DEF Bigger
<1>7. Bigger(least, FourFifths(r.max)) = r.max => least = r.min
  BY <1>1, <1>3, <1>4 DEF Bigger
<1>8. Reduced(r) # r => Reduced(r).max < r.max
  BY <1>1, <1>5, <1>6, <1>7
<1> QED
  BY <1>1, <1>4, <1>5, <1>6, <1>8 DEF ValidRange, WordRange

ConfigOK == ValidRange(config)

\* What the loop keeps of its range.
RangeInv == ConfigOK /\ RangeStaysValid

LEMMA RangeInit == Init => RangeInv
<1> SUFFICES ASSUME Init PROVE RangeInv
  OBVIOUS
<1>1. config \in Ranges /\ range = config
  BY DEF Init
<1>2. ValidRange(config)
  BY <1>1, LoopAssumption
<1>3. Floor \in Nat /\ config.min \in Nat /\ config.max \in Nat
  BY <1>2, LimitsAssumption DEF ValidRange, WordRange
<1> QED
  BY <1>1, <1>2, <1>3 DEF RangeInv, ConfigOK, RangeStaysValid, Smaller

\* A round leaves the range alone or reduces it.
LEMMA RoundRange ==
    Round => config' = config /\ (range' = range \/ range' = Reduced(range))
  BY DEF Round, NextRange, givenVars

LEMMA RangeStep == RangeInv /\ [Next]_vars => RangeInv'
<1> SUFFICES ASSUME RangeInv, [Next]_vars PROVE RangeInv'
  OBVIOUS
<1>1. config' = config /\ (range' = range \/ range' = Reduced(range))
  BY RoundRange DEF Next, vars, givenVars
<1>2. ValidRange(config) /\ RangeStaysValid
  BY DEF RangeInv, ConfigOK
<1>3. CASE range' = range
  BY <1>1, <1>2, <1>3 DEF RangeInv, ConfigOK, RangeStaysValid
<1>4. CASE range' = Reduced(range)
  <2>1. /\ ValidRange(range') /\ range'.min <= range.min
        /\ range'.max <= range.max
        /\ range'.min >= Smaller(Floor, range.min)
    BY <1>2, <1>4, ReducedBounds DEF RangeStaysValid
  <2>2. /\ range.min \in Nat /\ range.max \in Nat
        /\ range'.min \in Nat /\ range'.max \in Nat
        /\ config.min \in Nat /\ config.max \in Nat /\ Floor \in Nat
    BY <1>2, <2>1, LimitsAssumption DEF RangeStaysValid, ValidRange, WordRange
  <2>3. range.min <= config.min /\ range.max <= config.max
        /\ range.min >= Smaller(Floor, config.min)
    BY <1>2 DEF RangeStaysValid
  <2>4. range'.min >= Smaller(Floor, config.min)
    BY <2>1, <2>2, <2>3 DEF Smaller
  <2> QED
    BY <1>1, <1>2, <2>1, <2>2, <2>3, <2>4 DEF RangeInv, ConfigOK, RangeStaysValid
<1> QED
  BY <1>1, <1>3, <1>4

\* For every configuration, the range of the loop stays a valid one, inside the
\* configured one and above the floor.
THEOREM RangeCorrect == Spec => []RangeStaysValid
<1>1. RangeInv => RangeStaysValid
  BY DEF RangeInv
<1> QED
  BY RangeInit, RangeStep, <1>1, PTL DEF Spec

\* For every configuration, a change of the range lowers its maximum and does
\* not raise its minimum: the chunks of a slow document only get smaller.
THEOREM RangeShrinks == Spec => RangeOnlyShrinks
<1>1. RangeInv /\ [Next]_vars =>
          [range' # range => /\ range'.min <= range.min
                             /\ range'.max < range.max]_vars
  <2> SUFFICES ASSUME RangeInv, Next, range' # range
               PROVE  range'.min <= range.min /\ range'.max < range.max
    OBVIOUS
  <2>1. range' = Reduced(range)
    BY RoundRange DEF Next
  <2>2. ValidRange(range)
    BY DEF RangeInv, RangeStaysValid
  <2> QED
    BY <2>1, <2>2, ReducedBounds
<1> QED
  BY RangeInit, RangeStep, <1>1, PTL DEF Spec, RangeOnlyShrinks

\* effectiveTranslateConcurrency is at least one and falls with the load.
LEMMA WidthFallsWithLoad ==
    ASSUME NEW b \in Nat, NEW l \in Load, NEW m \in Load, NoLighter(l, m)
    PROVE  /\ EffectiveConcurrency(b, l) \in Nat \ {0}
           /\ EffectiveConcurrency(b, m) <= EffectiveConcurrency(b, l)
  BY LimitsAssumption
     DEF EffectiveConcurrency, NoLighter, Load, Overloaded, SeverelyOverloaded,
         NearlyIdle

GivenOK == /\ pages \in Seq(Nat)
           /\ config \in WordRange /\ config.max \in Nat \ {0}
           /\ load \in Loads /\ base \in Bases

LEMMA GivenInit == Init => GivenOK
  BY LoopAssumption DEF Init, GivenOK, ValidRange, WordRange

LEMMA GivenStep == GivenOK /\ [Next]_vars => GivenOK'
  BY DEF GivenOK, Next, Round, vars, givenVars

LEMMA WidthIsPositive == GivenOK => Width \in Nat \ {0}
<1> SUFFICES ASSUME GivenOK PROVE Width \in Nat \ {0}
  OBVIOUS
<1>1. base \in Nat /\ load \in Load
  BY LoopAssumption DEF GivenOK
<1>2. NoLighter(load, load)
  BY <1>1 DEF NoLighter, Load
<1> QED BY <1>1, <1>2, WidthFallsWithLoad DEF Width

\* For every configuration and any two loads of the queue: the more loaded one
\* is answered with no more goroutines, and with one at least.
THEOREM WidthCorrect == Spec => []HeavierNeverWider
<1>1. GivenOK => HeavierNeverWider
  <2> SUFFICES ASSUME GivenOK PROVE HeavierNeverWider
    OBVIOUS
  <2>1. base \in Nat /\ load \in Load /\ Loads \subseteq Load
    BY LoopAssumption DEF GivenOK
  <2>2. NoLighter(load, load)
    BY <2>1 DEF NoLighter, Load
  <2>3. Width \in Nat \ {0}
    BY <2>1, <2>2, WidthFallsWithLoad DEF Width
  <2>4. ASSUME NEW m \in Loads, NoLighter(load, m)
        PROVE  EffectiveConcurrency(base, m) <= Width
    BY <2>1, <2>4, WidthFallsWithLoad DEF Width
  <2> QED
    BY <2>3, <2>4 DEF HeavierNeverWider
<1> QED
  BY <1>1, GivenInit, GivenStep, PTL DEF Spec

-------------------------------------------------------------------------------
(* Every unit is handed out once and in order.  The chunks handed out so   *)
(* far are a cut of the document up to where the rest begins.              *)

Document    == UnitsOf(pages, config.max)
Handout     == [units: Seq(UnitSet), range: WordRange]
ChunksIn(s) == [i \in 1..Len(s) |-> s[i].units]

HandedOut ==
    /\ taken \in Seq(Handout)
    /\ \E m \in 0..Len(Document) : /\ rest = After(Document, m)
                                   /\ Cut(ChunksIn(taken), Document, 0, m)

LEMMA ChunksInType ==
    ASSUME NEW s \in Seq(Handout)
    PROVE  /\ ChunksIn(s) \in Seq(Seq(UnitSet))
           /\ Len(ChunksIn(s)) = Len(s)
           /\ \A i \in 1..Len(s) : ChunksIn(s)[i] = s[i].units
<1>1. ASSUME NEW i \in 1..Len(s) PROVE s[i].units \in Seq(UnitSet)
  <2>1. s[i] \in Handout
    OBVIOUS
  <2> QED BY <2>1 DEF Handout
<1> QED BY <1>1 DEF ChunksIn

LEMMA ChunksInConcat ==
    ASSUME NEW s \in Seq(Handout), NEW t \in Seq(Handout)
    PROVE  ChunksIn(s \o t) = ChunksIn(s) \o ChunksIn(t)
<1> DEFINE n == Len(s)
           l == Len(t)
<1>1. n \in Nat /\ l \in Nat /\ Len(s \o t) = n + l
  OBVIOUS
<1>2. ASSUME NEW i \in 1..(n + l)
      PROVE  (s \o t)[i].units = IF i <= n THEN ChunksIn(s)[i] ELSE ChunksIn(t)[i - n]
  <2>1. CASE i <= n
    <3>1. i \in 1..n /\ (s \o t)[i] = s[i]
      BY <1>1, <2>1
    <3> QED BY <2>1, <3>1, ChunksInType
  <2>2. CASE ~ (i <= n)
    <3>1. i - n \in 1..l /\ (s \o t)[i] = t[i - n]
      BY <1>1, <2>2
    <3> QED BY <2>2, <3>1, ChunksInType
  <2> QED BY <2>1, <2>2
<1> DEFINE c == ChunksIn(s \o t)
           d == ChunksIn(s) \o ChunksIn(t)
<1>3. c \in Seq(Seq(UnitSet)) /\ Len(c) = n + l
      /\ \A i \in 1..(n + l) : c[i] = (s \o t)[i].units
  <2>1. s \o t \in Seq(Handout)
    OBVIOUS
  <2> QED BY <1>1, <2>1, ChunksInType
<1>4. d \in Seq(Seq(UnitSet)) /\ Len(d) = n + l
      /\ \A i \in 1..(n + l) : d[i] = IF i <= n THEN ChunksIn(s)[i] ELSE ChunksIn(t)[i - n]
  <2>1. PICK a \in Seq(Seq(UnitSet)), b \in Seq(Seq(UnitSet)) :
           a = ChunksIn(s) /\ b = ChunksIn(t) /\ Len(a) = n /\ Len(b) = l
    BY ChunksInType
  <2>2. /\ a \o b \in Seq(Seq(UnitSet)) /\ Len(a \o b) = Len(a) + Len(b)
        /\ \A i \in 1..(Len(a) + Len(b)) :
              (a \o b)[i] = IF i <= Len(a) THEN a[i] ELSE b[i - Len(a)]
    BY ConcatFacts
  <2> HIDE DEF n, l
  <2> QED BY <2>1, <2>2
<1> HIDE DEF c, d
<1>5. \A i \in 1..(n + l) : c[i] = d[i]
  BY <1>2, <1>3, <1>4
<1>6. c = d
  BY <1>3, <1>4, <1>5
<1> QED BY <1>6 DEF c, d

LEMMA HandedOutInit == Init => HandedOut
<1> SUFFICES ASSUME Init PROVE HandedOut
  OBVIOUS
<1>1. Document \in Seq(UnitSet)
  BY GivenInit, UnitsType DEF GivenOK, Document
<1>2. rest = Document /\ taken = <<>>
  BY DEF Init, Document
<1>3. 0 \in 0..Len(Document) /\ After(Document, 0) = Document
  BY <1>1, AfterFacts
<1>4. ChunksIn(taken) = <<>>
  BY <1>2 DEF ChunksIn
<1>5. Cut(ChunksIn(taken), Document, 0, 0)
  BY <1>1, <1>3, <1>4, CutEmpty
<1> QED BY <1>2, <1>3, <1>5 DEF HandedOut

LEMMA HandedOutStep ==
    GivenOK /\ RangeInv /\ HandedOut /\ [Next]_vars => HandedOut'
<1> SUFFICES ASSUME GivenOK, RangeInv, HandedOut, [Next]_vars PROVE HandedOut'
  OBVIOUS
<1>1. CASE UNCHANGED vars
  BY <1>1 DEF vars, givenVars, HandedOut, ChunksIn, Document
<1>2. CASE Round
  <2> DEFINE chunks == ChunksOf(rest, range)
             k      == Smaller(BatchSize, Len(chunks))
             batch  == SubSeq(chunks, 1, k)
             given  == [i \in 1..Len(batch) |-> [units |-> batch[i], range |-> range]]
  <2>1. Document \in Seq(UnitSet) /\ Document' = Document
    BY <1>2, UnitsType DEF GivenOK, Round, givenVars, Document
  <2>2. PICK m \in 0..Len(Document) : /\ rest = After(Document, m)
                                      /\ Cut(ChunksIn(taken), Document, 0, m)
    BY DEF HandedOut
  <2>3. chunks \in Seq(Seq(UnitSet))
    <3>1. rest \in Seq(UnitSet)
      BY <2>1, <2>2, AfterFacts
    <3> QED BY <3>1, ChunksAreCut
  <2>4. k \in 0..Len(chunks)
    BY <2>3, WidthIsPositive DEF Smaller, BatchSize
  <2>5. /\ taken' = taken \o given
        /\ rest' = After(rest, Len(FlattenSeq(batch)))
    BY <1>2 DEF Round, UsedUnits, After
  <2> HIDE DEF k
  <2>6. PICK b : batch \in Seq(Seq(UnitSet)) /\ Cut(batch, Document, m, b)
    BY <2>1, <2>2, <2>4, BatchIsNext
  <2>7. /\ b \in 0..Len(Document)
        /\ After(After(Document, m), Len(FlattenSeq(batch))) = After(Document, b)
    BY <2>1, <2>6, AfterBatch
  <2>8. rest' = After(Document, b)
    BY <2>2, <2>5, <2>7
  <2> HIDE DEF batch
  <2>9. given \in Seq(Handout) /\ ChunksIn(given) = batch
    <3>1. range \in WordRange
      BY DEF RangeInv, RangeStaysValid, ValidRange
    <3>2. ASSUME NEW i \in 1..Len(batch)
          PROVE  [units |-> batch[i], range |-> range] \in Handout
      BY <2>6, <3>1 DEF Handout
    <3>3. given \in Seq(Handout) /\ Len(given) = Len(batch)
      BY <2>6, <3>2
    <3>4. ChunksIn(given) = [i \in 1..Len(batch) |-> batch[i]]
      BY <3>3 DEF ChunksIn
    <3>5. batch = [i \in 1..Len(batch) |-> batch[i]]
      BY <2>6
    <3> QED BY <3>3, <3>4, <3>5
  <2>10. taken \in Seq(Handout)
    BY DEF HandedOut
  <2> HIDE DEF given
  <2>11. taken' \in Seq(Handout) /\ ChunksIn(taken') = ChunksIn(taken) \o batch
    <3>1. taken \o given \in Seq(Handout)
      BY <2>9, <2>10
    <3>2. ChunksIn(taken \o given) = ChunksIn(taken) \o batch
      BY <2>9, <2>10, ChunksInConcat
    <3> QED BY <2>5, <3>1, <3>2
  <2>12. Cut(ChunksIn(taken) \o batch, Document, 0, b)
    BY <2>1, <2>2, <2>6, <2>10, ChunksInType, CutConcat
  <2> QED BY <2>1, <2>7, <2>8, <2>11, <2>12 DEF HandedOut
<1> QED BY <1>1, <1>2 DEF Next

\* For every document, load and configuration: the chunks handed out and the
\* rest are the document, each unit once and in order, however slow chunks
\* shrink the range between the rounds (the loop of process).
THEOREM NothingIsSkipped == Spec => []NothingSkipped
<1>1. GivenOK /\ HandedOut => NothingSkipped
  <2> SUFFICES ASSUME GivenOK, HandedOut PROVE NothingSkipped
    OBVIOUS
  <2>1. Document \in Seq(UnitSet)
    BY UnitsType DEF GivenOK, Document
  <2>2. PICK m \in 0..Len(Document) : /\ rest = After(Document, m)
                                      /\ Cut(ChunksIn(taken), Document, 0, m)
    BY DEF HandedOut
  <2>3. ChunksIn(taken) \in Seq(Seq(UnitSet))
    BY ChunksInType DEF HandedOut
  <2>4. FlattenSeq(ChunksIn(taken)) = SubSeq(Document, 1, m)
    <3>1. FlattenSeq(ChunksIn(taken)) = SubSeq(Document, 0 + 1, m)
      BY <2>1, <2>2, <2>3, FlattenCut
    <3>2. 0 + 1 = 1
      OBVIOUS
    <3> QED BY <3>1, <3>2
  <2>5. SubSeq(Document, 0 + 1, m) \o SubSeq(Document, m + 1, Len(Document))
          = SubSeq(Document, 0 + 1, Len(Document))
    <3>1. 0 \in 0..Len(Document) /\ Len(Document) \in 0..Len(Document) /\ 0 <= m /\ m <= Len(Document)
      BY <2>1
    <3> QED BY <2>1, <3>1, AdjacentPieces
  <2>6. SubSeq(Document, 1, m) \o After(Document, m) = Document
    <3>1. SubSeq(Document, 1, Len(Document)) = Document /\ 0 + 1 = 1
      BY <2>1
    <3> QED BY <2>5, <3>1 DEF After
  <2> QED BY <2>2, <2>4, <2>6 DEF NothingSkipped, ChunksIn, Document
<1> QED
  BY <1>1, GivenInit, GivenStep, RangeInit, RangeStep, HandedOutInit, HandedOutStep,
     PTL DEF Spec

\* For every document, load and configuration: a round takes a unit at least,
\* whatever the range is, so there are no more rounds than units.
THEOREM RestGetsShorter == Spec => RestShrinks
<1>1. GivenOK /\ RangeInv /\ HandedOut /\ [Next]_vars => [Len(rest') < Len(rest)]_vars
  <2> SUFFICES ASSUME GivenOK, HandedOut, Round PROVE Len(rest') < Len(rest)
    BY DEF Next
  <2> DEFINE chunks == ChunksOf(rest, range)
             k      == Smaller(BatchSize, Len(chunks))
             batch  == SubSeq(chunks, 1, k)
  <2>1. Document \in Seq(UnitSet)
    BY UnitsType DEF GivenOK, Document
  <2>2. PICK m \in 0..Len(Document) : rest = After(Document, m)
    BY DEF HandedOut
  <2>3. rest \in Seq(UnitSet) /\ rest # <<>> /\ Len(rest) = Len(Document) - m
    BY <2>1, <2>2, AfterFacts DEF Round
  <2>4. chunks \in Seq(Seq(UnitSet)) /\ Len(chunks) \in Nat \ {0}
    BY <2>3, ChunksAreCut, SomeChunk
  <2>5. k \in 1..Len(chunks) /\ k \in 0..Len(chunks)
    BY <2>4, WidthIsPositive DEF Smaller, BatchSize
  <2>6. rest' = After(rest, Len(FlattenSeq(batch)))
    BY DEF Round, UsedUnits, After
  <2>7. batch # <<>>
    BY <2>4, <2>5
  <2> HIDE DEF k
  <2>8. PICK b : batch \in Seq(Seq(UnitSet)) /\ Cut(batch, Document, m, b)
    BY <2>1, <2>2, <2>5, BatchIsNext
  <2>9. /\ b \in 0..Len(Document)
        /\ After(After(Document, m), Len(FlattenSeq(batch))) = After(Document, b)
    BY <2>1, <2>8, AfterBatch
  <2>10. m < b
    BY <2>1, <2>7, <2>8, CutAdvances
  <2>11. Len(After(Document, b)) = Len(Document) - b
    BY <2>1, <2>9, AfterFacts
  <2>12. rest' = After(Document, b)
    BY <2>2, <2>6, <2>9
  <2> QED BY <2>1, <2>3, <2>9, <2>10, <2>11, <2>12
<1> QED
  BY <1>1, GivenInit, GivenStep, RangeInit, RangeStep, HandedOutInit, HandedOutStep,
     PTL DEF Spec, RestShrinks
===============================================================================
