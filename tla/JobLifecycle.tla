----------------------------- MODULE JobLifecycle -----------------------------
(***************************************************************************)
(* What the job queue promises of a job, whoever works on it: the job is   *)
(* at one place at a time, each failed try is counted, a job is tried      *)
(* again only while its budget lasts, and every accepted job ends          *)
(* completed or dead-lettered.  Redis, the workers and the order of their  *)
(* commands do not appear here; JobQueue implements this specification     *)
(* when no fault happens.                                                  *)
(***************************************************************************)
EXTENDS Naturals

CONSTANTS Jobs, MaxAttempts

VARIABLES
    place,   \* place[j]: where job j is
    tries    \* tries[j]: the failed tries of j since it was last queued anew

lifeVars == <<place, tries>>

Places == {"absent", "queued", "working", "delayed", "completed", "dead"}

TypeOK ==
    /\ place \in [Jobs -> Places]
    /\ tries \in [Jobs -> 0..MaxAttempts]

Init ==
    /\ place = [j \in Jobs |-> "absent"]
    /\ tries = [j \in Jobs |-> 0]

Move(j, from, to) ==
    /\ place[j] = from
    /\ place' = [place EXCEPT ![j] = to]

CountTry(j) == tries' = [tries EXCEPT ![j] = @ + 1]

Accept(j)   == Move(j, "absent", "queued") /\ UNCHANGED tries
Take(j)     == Move(j, "queued", "working") /\ UNCHANGED tries
Complete(j) == Move(j, "working", "completed") /\ UNCHANGED tries

\* A failed try is counted, and leads to another one or to the dead letters.
Delay(j) ==
    /\ Move(j, "working", "delayed")
    /\ CountTry(j)
    /\ tries[j] + 1 < MaxAttempts
Bury(j) ==
    /\ Move(j, "working", "dead")
    /\ CountTry(j)

\* The delays of some jobs run out together.
Promote(due) ==
    /\ \A j \in due : place[j] = "delayed"
    /\ place' = [j \in Jobs |-> IF j \in due THEN "queued" ELSE place[j]]
    /\ UNCHANGED tries

\* An operator gives a dead-lettered job a fresh budget.
Replay(j) ==
    /\ Move(j, "dead", "queued")
    /\ tries' = [tries EXCEPT ![j] = 0]

Settle(j) == Complete(j) \/ Bury(j)

Next ==
    \/ \E j \in Jobs : \/ Accept(j) \/ Take(j) \/ Settle(j) \/ Delay(j)
                       \/ Replay(j)
    \/ \E due \in SUBSET Jobs : Promote(due)

Spec == Init /\ [][Next]_lifeVars

\* No job stays queued, delayed or in work forever.
Ends == \A j \in Jobs :
            (place[j] \in {"queued", "working", "delayed"})
                ~> (place[j] \in {"completed", "dead"})

FairSpec == Spec /\ Ends
===============================================================================
