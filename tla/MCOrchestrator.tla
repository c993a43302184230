----------------------------- MODULE MCOrchestrator -----------------------------
(* Values for the checks of Orchestrator.                                   *)
EXTENDS Orchestrator

CONSTANTS c1, c2
MCCallers == {c1, c2}
===============================================================================
