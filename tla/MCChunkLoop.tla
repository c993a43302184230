----------------------------- MODULE MCChunkLoop -----------------------------
(* Values for the checks of ChunkLoop: the real constants of the worker and  *)
(* pages on both sides of each of them.                                      *)
EXTENDS ChunkLoop

Lengths      == {0, 79, 80, 310}
MCDocuments  == UNION {[1..n -> Lengths] : n \in 1..2}
                    \cup {<<79, 0, 310>>, <<310, 80, 79>>}
MCRanges     == {[min |-> 80, max |-> 150], [min |-> 10, max |-> 70]}
QueueLoad(d, r, s) == [depth |-> d, retries |-> r, stuck |-> s]
MCLoads      == {QueueLoad(30, 10, 0), QueueLoad(31, 0, 0), QueueLoad(30, 0, 20),
                 QueueLoad(200, 0, 0), QueueLoad(200, 240, 1)}
MCBases      == {1, 3, 5}
===============================================================================
