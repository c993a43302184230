------------------------------- MODULE Chunking -------------------------------
(***************************************************************************)
(* How a document becomes chunks (src/backend/jobs/worker.go).  A page is  *)
(* its number of words.  splitByWordBudget cuts it into units, and         *)
(* buildTextChunks packs consecutive units, across pages, into chunks.     *)
(***************************************************************************)
EXTENDS AdaptiveLimits, SequencesExt

\* The part-th unit of a page, with its number of words.
Unit(page, part, words) == [page |-> page, part |-> part, words |-> words]
UnitSet == [page: Nat, part: Nat, words: Nat]

Parts(words, budget)      == (words + budget - 1) \div budget

\* splitByWordBudget of one page, as buildChunkUnits calls it: full parts, then
\* what is left; nothing for a blank page.
SplitPage(page, words, budget) ==
    [i \in 1..Parts(words, budget) |->
        Unit(page, i, Smaller(budget, words - (i - 1) * budget))]

\* buildChunkUnits.
UnitsOf(pages, budget) ==
    FlattenSeq([p \in 1..Len(pages) |-> SplitPage(p, pages[p], budget)])

WordsOf(units) ==
    LET sum[i \in 0..Len(units)] == IF i = 0 THEN 0 ELSE sum[i - 1] + units[i].words
    IN  sum[Len(units)]

\* A chunk is closed before a unit that would make it too long, unless it is
\* below the minimum.
Closes(chunk, unit, r) ==
    /\ chunk # <<>>
    /\ WordsOf(chunk) >= r.min
    /\ WordsOf(chunk) + unit.words > r.max

\* buildTextChunks: a sequence of chunks, each a sequence of units.  A unit
\* opens a chunk or joins the last one; packed[n] has the first n units.
ChunksOf(units, r) ==
    LET packed[n \in 0..Len(units)] ==
          LET with[chunks \in Seq(Seq(Range(units)))] ==
                IF chunks = <<>> \/ Closes(Last(chunks), units[n], r)
                THEN Append(chunks, <<units[n]>>)
                ELSE Append(Front(chunks), Append(Last(chunks), units[n]))
          IN  IF n = 0 THEN <<>> ELSE with[packed[n - 1]]
    IN  packed[Len(units)]
===============================================================================
