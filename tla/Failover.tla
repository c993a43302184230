-------------------------------- MODULE Failover --------------------------------
(***************************************************************************)
(* What translating a text over several providers promises each of its     *)
(* callers: a provider is given up at most once, the answer is that of a   *)
(* provider not yet given up, and the call fails only when no provider is  *)
(* left or when the caller's own context has ended.  Health, retries and   *)
(* the other callers do not appear here; Orchestrator implements this      *)
(* specification.                                                          *)
(***************************************************************************)
EXTENDS Naturals

CONSTANTS
    Callers,     \* the calls that may be under way at a time
    Providers    \* the registered providers

VARIABLES
    left,        \* left[c]: the providers c has not given up
    stage,       \* stage[c]: where the call of c is
    ended        \* ended[c]: the context of c has ended

failoverVars == <<left, stage, ended>>

Stages == {"idle", "open", "answered", "failed"}

TypeOK ==
    /\ left \in [Callers -> SUBSET Providers]
    /\ stage \in [Callers -> Stages]
    /\ ended \in [Callers -> BOOLEAN]

Init ==
    /\ left = [c \in Callers |-> Providers]
    /\ stage = [c \in Callers |-> "idle"]
    /\ ended = [c \in Callers |-> FALSE]

\* A call begins with every provider, in a context that may have ended.
Open(c) ==
    /\ stage[c] # "open"
    /\ stage' = [stage EXCEPT ![c] = "open"]
    /\ left' = [left EXCEPT ![c] = Providers]
    /\ \E e \in BOOLEAN : ended' = [ended EXCEPT ![c] = e]

GiveUp(c) ==
    /\ stage[c] = "open"
    /\ \E p \in left[c] : left' = [left EXCEPT ![c] = @ \ {p}]
    /\ UNCHANGED <<stage, ended>>

Answer(c) ==
    /\ stage[c] = "open"
    /\ left[c] # {}
    /\ stage' = [stage EXCEPT ![c] = "answered"]
    /\ UNCHANGED <<left, ended>>

Fail(c) ==
    /\ stage[c] = "open"
    /\ left[c] = {} \/ ended[c]
    /\ stage' = [stage EXCEPT ![c] = "failed"]
    /\ UNCHANGED <<left, ended>>

End(c) ==
    /\ stage[c] = "open"
    /\ ended' = [ended EXCEPT ![c] = TRUE]
    /\ UNCHANGED <<left, stage>>

Next == \E c \in Callers :
            Open(c) \/ GiveUp(c) \/ Answer(c) \/ Fail(c) \/ End(c)

Spec == Init /\ [][Next]_failoverVars
================================================================================
