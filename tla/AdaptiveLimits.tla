---------------------------- MODULE AdaptiveLimits ----------------------------
(***************************************************************************)
(* The two numbers the worker adapts (src/backend/jobs/worker.go): how     *)
(* many chunks of a job it translates at a time, from the state of the     *)
(* queue, and how many words a chunk has, from how slow the last chunks    *)
(* were.  Both are pure functions of naturals.                             *)
(***************************************************************************)
EXTENDS Naturals

CONSTANTS
    Floor,      \* minAdaptiveChunkWordsFloor (40 in the code)
    Ceiling     \* adaptiveTranslateConcurrencyCeiling (6 in the code)

ASSUME LimitsAssumption == Floor \in Nat \ {0} /\ Ceiling \in Nat \ {0}

-------------------------------------------------------------------------------
(* The load: what QueueStats answers.                                      *)

Load == [depth: Nat, retries: Nat, stuck: Nat]

Overloaded(l)         == l.depth >= 200 \/ l.retries >= 120 \/ l.stuck >= 20
SeverelyOverloaded(l) == l.depth >= 400 \/ l.retries >= 240 \/ l.stuck >= 40
NearlyIdle(l)         == l.depth <= 30 /\ l.retries <= 10 /\ l.stuck = 0

\* The order of loads: m is at least as loaded as l.
NoLighter(l, m) ==
    l.depth <= m.depth /\ l.retries <= m.retries /\ l.stuck <= m.stuck

\* Seeded fault: what the two steps of overload allow is swapped.
StepsSwapped(base, l) ==
    LET b == IF base = 0 THEN 1 ELSE base
    IN  CASE SeverelyOverloaded(l)             -> IF b = 1 THEN 1 ELSE b \div 2
          [] Overloaded(l)                     -> 1
          [] OTHER                             -> b

\* effectiveTranslateConcurrency, when the store answers QueueStats; an error
\* is answered like a middling load.
EffectiveConcurrency(base, l) ==
    LET b == IF base = 0 THEN 1 ELSE base
    IN  CASE SeverelyOverloaded(l)                             -> 1
          [] Overloaded(l) /\ ~SeverelyOverloaded(l)           -> IF b = 1 THEN 1 ELSE b \div 2
          [] NearlyIdle(l) /\ ~Overloaded(l) /\ b < Ceiling    -> b + 1
          [] OTHER                                             -> b

-------------------------------------------------------------------------------
(* The word range of a chunk.                                              *)

WordRange == [min: Nat, max: Nat]
Bigger(a, b)  == IF a < b THEN b ELSE a
Smaller(a, b) == IF a < b THEN a ELSE b

\* A range NewWorker can be configured with (WithPDFChunkWordRange).
ValidRange(r) == r \in WordRange /\ 0 < r.min /\ r.min <= r.max

\* int(float64(n) * 0.8): the product rounds to the exact multiple of 4/5.
FourFifths(n) == (4 * n) \div 5

\* Seeded fault: the maximum is reduced without regard to the minimum.
ReducedApart(r) ==
    [min |-> Smaller(r.min, Bigger(Floor, FourFifths(r.min))),
     max |-> FourFifths(r.max)]

\* reduceChunkWordRange of a valid range.
Reduced(r) ==
    LET least == Smaller(r.min, Bigger(Floor, FourFifths(r.min)))
    IN  [min |-> least, max |-> Bigger(least, FourFifths(r.max))]
===============================================================================
