------------------------------- MODULE ChunkLoop -------------------------------
(***************************************************************************)
(* The loop of process over the chunks of a document                       *)
(* (src/backend/jobs/worker.go), seen from its goroutine: it chunks what   *)
(* is left, hands out one batch, and shrinks the word range when a chunk   *)
(* of the batch was slow.  Each round chunks the rest anew, so no chunk    *)
(* boundary survives a change of the range.                                *)
(***************************************************************************)
EXTENDS Chunking

CONSTANTS
    Documents,     \* the documents to try: sequences of page lengths in words
    Loads,         \* the loads QueueStats may report
    Ranges,        \* the word ranges the worker may be configured with
    Bases          \* the values w.translateConcurrency may be configured with

ASSUME LoopAssumption ==
    /\ \A d \in Documents : d \in Seq(Nat)
    /\ Loads \subseteq Load
    /\ \A r \in Ranges : ValidRange(r)
    /\ Bases \subseteq Nat

VARIABLES
    pages,     \* the document
    load,      \* the load when the job began
    base,      \* w.translateConcurrency
    config,    \* the configured word range
    range,     \* adaptiveMinWords and adaptiveMaxWords
    rest,      \* remainingUnits
    taken      \* the chunks handed out, each with the range it was built for

givenVars == <<pages, load, base, config>>
vars      == <<givenVars, range, rest, taken>>

Init ==
    /\ pages \in Documents
    /\ load \in Loads
    /\ base \in Bases
    /\ config \in Ranges
    /\ range = config
    /\ rest = UnitsOf(pages, config.max)
    /\ taken = <<>>

Width == EffectiveConcurrency(base, load)

\* The loop does not rely on the width: a batch has a chunk at least.
BatchSize == IF Width = 0 THEN 1 ELSE Width

\* Seeded fault: the batch counted in chunks where it is counted in units.
UsedChunks(batch) == Len(batch)
\* consumedUnits.
UsedUnits(batch) == Len(FlattenSeq(batch))

\* The range for the next round.
NextRange(slow, left) == IF slow /\ left # <<>> THEN Reduced(range) ELSE range

\* One round of the loop; a chunk of it was slow, or none was.
Round ==
    LET chunks == ChunksOf(rest, range)
        batch  == SubSeq(chunks, 1, Smaller(BatchSize, Len(chunks)))
        left   == SubSeq(rest, UsedUnits(batch) + 1, Len(rest))
    IN  /\ rest # <<>>
        /\ taken' = taken \o [i \in 1..Len(batch) |->
                                 [units |-> batch[i], range |-> range]]
        /\ rest' = left
        /\ \E slow \in BOOLEAN : range' = NextRange(slow, left)
        /\ UNCHANGED givenVars

Next == Round
Spec == Init /\ [][Next]_vars

-------------------------------------------------------------------------------
(* Properties.                                                             *)

\* However the range shrinks between the rounds, and with it the boundaries of
\* the chunks, each unit is handed out once and in order (remainingUnits).
NothingSkipped ==
    FlattenSeq([i \in 1..Len(taken) |-> taken[i].units]) \o rest
        = UnitsOf(pages, config.max)

\* The range stays one that NewWorker could have been given, and within the
\* configured one; a small configured minimum is not raised to the floor.
RangeStaysValid ==
    /\ ValidRange(range)
    /\ range.min <= config.min /\ range.max <= config.max
    /\ range.min >= Smaller(Floor, config.min)

\* The range only ever shrinks, until it is a single number that four fifths
\* no longer reduce below the floor.
RangeOnlyShrinks ==
    [][range' # range => /\ range'.min <= range.min
                         /\ range'.max < range.max]_vars

\* More load never means more parallel chunks, although three thresholds in two steps
\* and a boost decide on three numbers; and one goroutine is always left, so that the
\* loops' own guards against a width of zero never act (effectiveTranslateConcurrency).
HeavierNeverWider ==
    /\ Width >= 1
    /\ \A m \in Loads : NoLighter(load, m) => EffectiveConcurrency(base, m) <= Width

\* Every round takes a unit at least, so the loop cannot go on for ever
\* (usedChunks and consumedUnits are positive).
RestShrinks ==
    [][Len(rest') < Len(rest)]_vars
===============================================================================
