--------------------------- MODULE MCChunkPipeline ---------------------------
(* Values for the checks of ChunkPipeline.  The pages make five units: the   *)
(* first page spans two chunks, the second chunk has three units (so that it *)
(* can be split twice), and a run whose range has shrunk has other chunks.   *)
EXTENDS ChunkPipeline

MCPages  == <<4, 1, 1, 1>>
MCConfig == [min |-> 3, max |-> 3]
===============================================================================
