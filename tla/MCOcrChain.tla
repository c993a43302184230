------------------------------ MODULE MCOcrChain ------------------------------
(* Values for the checks of OcrChain.                                       *)
EXTENDS OcrChain

Request(kind, primary, engine, budget, shared) ==
    [kind |-> kind, primary |-> primary, engine |-> engine, budget |-> budget,
     shared |-> shared]

\* Two and three goroutines, every way of the client, a chain that begins with the
\* placeholder, one that has no fallback, and one that is walked to its end.
MCRequests == {
    Request("pdf", "paddle", "auto", 1, TRUE),
    Request("pdf", "ollama", "tesseract", 2, FALSE),
    Request("pdf", "tesseract", "unlimited", 0, TRUE),
    Request("image", "unlimited", "paddle", 4, FALSE)}
===============================================================================
