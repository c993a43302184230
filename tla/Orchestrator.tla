------------------------------ MODULE Orchestrator ------------------------------
(***************************************************************************)
(* Orchestrator.Translate (src/backend/services/orchestrator.go) called by *)
(* several goroutines at once: each orders the providers by the health     *)
(* scores they share, tries one after the other with retries and pauses,   *)
(* and moves the scores by what it saw, while its context may end.         *)
(*                                                                         *)
(* The list sorted once per call is the set of providers not taken yet and *)
(* the scores read for the sort; its next element is the best of the set.  *)
(* Scores are in parts of 0.05, rounded down where the code has a float64.  *)
(***************************************************************************)
EXTENDS Integers, FiniteSets

CONSTANTS
    Callers,       \* the goroutines that translate
    N,             \* the number of registered providers
    MaxRetries,    \* MaxRetriesPerProvider
    Unit,          \* the parts of 0.05 that scores are counted in
    MaxCalls,      \* bound: the calls made
    MaxEndings     \* bound: the contexts that end

ASSUME OrchestratorAssumption ==
    /\ {N, MaxRetries, MaxCalls, MaxEndings} \subseteq Nat
    /\ Unit \in Nat \ {0}

Providers == 1..N      \* in the order of registration

VARIABLES
    health,      \* health[p]: providerHealth, 0 when there is no entry
    pc,          \* pc[c]: the next step of c
    ctx,         \* ctx[c]: the state of the context of the call
    unread,      \* unread[c]: the providers whose score is still to be read
    seen,        \* seen[c]: the scores read for the sort
    rest,        \* rest[c]: providerList after the current provider
    cur,         \* cur[c]: the current provider
    attempt,     \* attempt[c]: the retries of the current provider
    err,         \* err[c]: the error of the last attempt
    calls,       \* how many calls were made
    endings,     \* how many contexts have ended
    tries,       \* tries[c][p]: requests sent to p in this call, saturating
    refused,     \* refused[c]: providers with a permanent error in this call
    moved,       \* moved[c]: providers another call has rated since c read them
    late         \* late[c]: requests sent in a context that had ended, saturating

callVars  == <<unread, seen, rest, cur, attempt, err>>
ghostVars == <<calls, endings, tries, refused, moved, late>>
vars == <<health, pc, ctx, callVars, ghostVars>>

Failures  == {"busy", "rejected"}
Endings   == {"deadline", "canceled"}
Contexts  == {"live"} \cup Endings
Trying    == {"try", "send", "wait", "sleep", "verdict", "won"}
Asking    == {"try", "send", "wait", "sleep"}
Returned  == {"idle", "answered", "failed"}
Phases    == {"order", "next"} \cup Trying \cup Returned

-------------------------------------------------------------------------------
(* Health scores.                                                          *)

DefaultScore    == 20 * Unit
MaxScore        == 30 * Unit
MinScore        == Unit
PermanentTarget == 3 * Unit
TransientTarget == 7 * Unit
SuccessTarget   == 24 * Unit

Clamp(v) ==
    IF v < MinScore THEN MinScore ELSE IF v > MaxScore THEN MaxScore ELSE v

\* The score of a provider; none recorded counts as the default.
Known(score) == IF score <= 0 THEN DefaultScore ELSE score

Blend(current, target) == Clamp((39 * Known(current) + 11 * target) \div 50)

\* Seeded fault: the list sorted the other way round.
WorseBefore(score, p, q) ==
    score[p] < score[q] \/ (score[p] = score[q] /\ p < q)

\* p comes before q in a list sorted by these scores.
Before(score, p, q) == score[p] > score[q] \/ (score[p] = score[q] /\ p < q)

\* A status 429, 502, 503 or 504 and a timeout ("busy") are worth another attempt;
\* other answers ("rejected") are not.  The deadline of the caller reads like a
\* timeout, its cancellation like a permanent error.
Transient(e) == e \in {"busy", "deadline"}

FailureTarget(e) == IF Transient(e) THEN TransientTarget ELSE PermanentTarget

-------------------------------------------------------------------------------
TypeOK ==
    /\ health \in [Providers -> 0..MaxScore]
    /\ pc \in [Callers -> Phases]
    /\ ctx \in [Callers -> Contexts]
    /\ unread \in [Callers -> SUBSET Providers]
    /\ seen \in [Callers -> [Providers -> 0..MaxScore]]
    /\ rest \in [Callers -> SUBSET Providers]
    /\ cur \in [Callers -> 0..N]
    /\ attempt \in [Callers -> Nat]
    /\ err \in [Callers -> Failures \cup Endings]
    /\ calls \in 0..MaxCalls
    /\ endings \in 0..MaxEndings
    /\ tries \in [Callers -> [Providers -> 0..MaxRetries + 2]]
    /\ refused \in [Callers -> SUBSET (0..N)]
    /\ moved \in [Callers -> SUBSET (0..N)]
    /\ late \in [Callers -> 0..2]

Init ==
    /\ health = [p \in Providers |-> 0]
    /\ pc = [c \in Callers |-> "idle"]
    /\ ctx = [c \in Callers |-> "live"]
    /\ unread = [c \in Callers |-> {}]
    /\ seen = [c \in Callers |-> [p \in Providers |-> 0]]
    /\ rest = [c \in Callers |-> Providers]
    /\ cur = [c \in Callers |-> 0]
    /\ attempt = [c \in Callers |-> 0]
    /\ err = [c \in Callers |-> "busy"]
    /\ calls = 0
    /\ endings = 0
    /\ tries = [c \in Callers |-> [p \in Providers |-> 0]]
    /\ refused = [c \in Callers |-> {}]
    /\ moved = [c \in Callers |-> {}]
    /\ late = [c \in Callers |-> 0]

Goto(c, phase) == pc' = [pc EXCEPT ![c] = phase]
Ended(c) == ctx[c] # "live"

\* The call returns, and what it has read is gone.
Return(c, phase) ==
    /\ Goto(c, phase)
    /\ seen' = [seen EXCEPT ![c] = [p \in Providers |-> 0]]
    /\ err' = [err EXCEPT ![c] = "busy"]
    /\ UNCHANGED <<unread, rest, cur, attempt>>

\* A goroutine translates a text.  A single provider is not sorted and its score
\* not read.
Call(c) ==
    /\ pc[c] \in Returned
    /\ calls < MaxCalls
    /\ Goto(c, IF N > 1 THEN "order" ELSE "next")
    /\ ctx' = [ctx EXCEPT ![c] = "live"]
    /\ unread' = [unread EXCEPT ![c] = Providers]
    /\ rest' = [rest EXCEPT ![c] = Providers]
    /\ calls' = calls + 1
    /\ tries' = [tries EXCEPT ![c] = [p \in Providers |-> 0]]
    /\ refused' = [refused EXCEPT ![c] = {}]
    /\ moved' = [moved EXCEPT ![c] = {}]
    /\ late' = [late EXCEPT ![c] = 0]
    /\ UNCHANGED <<health, seen, cur, attempt, err, endings>>

\* orderedProvidersByHealth reads one score after the other, in the order of
\* registration, and takes the lock for each.
ReadScore(c) ==
    /\ pc[c] = "order"
    /\ \E p \in unread[c] :
        /\ \A q \in unread[c] : p <= q
        /\ seen' = [seen EXCEPT ![c][p] = Known(health[p])]
        /\ unread' = [unread EXCEPT ![c] = @ \ {p}]
        /\ Goto(c, IF unread[c] = {p} THEN "next" ELSE "order")
        /\ moved' = [moved EXCEPT ![c] = @ \ {p}]
    /\ UNCHANGED <<health, ctx, rest, cur, attempt, err, calls, endings, tries,
                   refused, late>>

\* The next element of the sorted list.
Foremost(c, p) == \A q \in rest[c] \ {p} : Before(seen[c], p, q)

TakeProvider(c) ==
    /\ pc[c] = "next"
    /\ ~Ended(c)
    /\ \E p \in rest[c] :
        /\ Foremost(c, p)
        /\ cur' = [cur EXCEPT ![c] = p]
        /\ rest' = [rest EXCEPT ![c] = @ \ {p}]
    /\ attempt' = [attempt EXCEPT ![c] = 0]
    /\ Goto(c, "try")
    /\ UNCHANGED <<health, ctx, unread, seen, err, ghostVars>>

\* Seeded fault: an error returned without trying the fallbacks.
ReturnEarly(c) == TRUE
\* The context ended before the next provider, or there is none.
MayReturn(c) == Ended(c) \/ rest[c] = {}

ReturnError(c) ==
    /\ pc[c] = "next"
    /\ MayReturn(c)
    /\ Return(c, "failed")
    /\ UNCHANGED <<health, ctx, ghostVars>>

\* Seeded fault: no check of the context before an attempt.
SendAnyway(c) == TRUE
\* An attempt begins only in a live context.
MaySend(c) == ~Ended(c)

Check(c) ==
    /\ pc[c] = "try"
    /\ MaySend(c)
    /\ Goto(c, "send")
    /\ UNCHANGED <<health, ctx, callVars, ghostVars>>

Counted(n) == IF n > MaxRetries + 1 THEN n ELSE n + 1

\* The provider is called, in a context that may have ended since the check.
Send(c) ==
    /\ pc[c] = "send"
    /\ tries' = [tries EXCEPT ![c][cur[c]] = Counted(@)]
    /\ late' = [late EXCEPT ![c] = IF Ended(c) /\ @ < 2 THEN @ + 1 ELSE @]
    /\ Goto(c, "wait")
    /\ UNCHANGED <<health, ctx, callVars, calls, endings, refused, moved>>

\* Seeded fault: one retry too many.
RetryOnceMore(c, e) == Transient(e) /\ attempt[c] <= MaxRetries
\* Seeded fault: transient errors not retried.
RetryNever(c, e) == FALSE
\* A transient error is answered with another attempt while there is one left.
RetryAfter(c, e) == Transient(e) /\ attempt[c] < MaxRetries

\* The provider answers, or the HTTP client gives up waiting for it.
Succeed(c) ==
    /\ pc[c] = "wait"
    /\ Goto(c, "won")
    /\ UNCHANGED <<health, ctx, callVars, ghostVars>>

FailAttempt(c) ==
    /\ pc[c] = "wait"
    /\ \E e \in Failures \cup (IF Ended(c) THEN {ctx[c]} ELSE {}) :
        /\ err' = [err EXCEPT ![c] = e]
        /\ Goto(c, IF RetryAfter(c, e) THEN "sleep" ELSE "verdict")
        /\ refused' = IF Transient(e) THEN refused
                      ELSE [refused EXCEPT ![c] = @ \cup {cur[c]}]
    /\ UNCHANGED <<health, ctx, unread, seen, rest, cur, attempt, calls,
                   endings, tries, moved, late>>

\* Seeded fault: the attempt not counted.
WakeUncounted(c) ==
    /\ pc[c] = "sleep"
    /\ Goto(c, "try")
    /\ UNCHANGED <<health, ctx, callVars, ghostVars>>
\* The pause is over, be the context live or not.
Wake(c) ==
    /\ pc[c] = "sleep"
    /\ attempt' = [attempt EXCEPT ![c] = @ + 1]
    /\ Goto(c, "try")
    /\ UNCHANGED <<health, ctx, unread, seen, rest, cur, err, ghostVars>>

\* The context has ended, before an attempt or in the pause after one.
Interrupt(c) ==
    /\ pc[c] \in {"try", "sleep"}
    /\ Ended(c)
    /\ err' = [err EXCEPT ![c] = ctx[c]]
    /\ Goto(c, "verdict")
    /\ UNCHANGED <<health, ctx, unread, seen, rest, cur, attempt, ghostVars>>

\* updateProviderHealth, under the lock.
Rate(c, target) ==
    /\ health' = [health EXCEPT ![cur[c]] = Blend(@, target)]
    /\ moved' = [d \in Callers |->
                    IF d = c THEN moved[d] ELSE moved[d] \cup {cur[c]}]

\* The provider has failed for good, whatever the reason.
Verdict(c) ==
    /\ pc[c] = "verdict"
    /\ Rate(c, FailureTarget(err[c]))
    /\ Goto(c, "next")
    /\ UNCHANGED <<ctx, callVars, calls, endings, tries, refused, late>>

Win(c) ==
    /\ pc[c] = "won"
    /\ Rate(c, SuccessTarget)
    /\ Return(c, "answered")
    /\ UNCHANGED <<ctx, calls, endings, tries, refused, late>>

\* The deadline of the caller passes, or the caller is cancelled.
EndContext(c) ==
    /\ pc[c] \notin Returned
    /\ ~Ended(c)
    /\ endings < MaxEndings
    /\ endings' = endings + 1
    /\ \E e \in Endings : ctx' = [ctx EXCEPT ![c] = e]
    /\ UNCHANGED <<health, pc, callVars, calls, tries, refused, moved, late>>

Step(c) ==
    \/ ReadScore(c) \/ TakeProvider(c) \/ ReturnError(c) \/ Check(c) \/ Send(c)
    \/ Succeed(c) \/ FailAttempt(c) \/ Wake(c) \/ Interrupt(c)
    \/ Verdict(c) \/ Win(c)

Next == \E c \in Callers : Call(c) \/ Step(c) \/ EndContext(c)

Spec == Init /\ [][Next]_vars

\* A goroutine goes on while it can: a request returns by the timeout of its
\* client, a pause by its timer.
FairSpec == Spec /\ \A c \in Callers : WF_vars(Step(c))

-------------------------------------------------------------------------------
(* Properties.                                                             *)

\* A call sends a provider at most one request and MaxRetries more, however
\* often it comes back to it, none before the provider's turn, and none after a
\* permanent error (tryProviderWithRetry).
WithinBudget ==
    \A c \in Callers, p \in Providers :
        /\ tries[c][p] <= 1 + MaxRetries
        /\ p \in rest[c] => tries[c][p] = 0
        /\ p \in refused[c] => p # cur[c] \/ pc[c] \notin Asking

\* A call whose context lives fails only when each provider has refused the text
\* or has failed as often as it is retried: a fallback is never skipped
\* (Translate, "all providers exhausted").
FailsOnlyExhausted ==
    \A c \in Callers : pc[c] = "failed" /\ ~Ended(c) =>
        \A p \in Providers : p \in refused[c] \/ tries[c][p] = 1 + MaxRetries

\* No score leaves the interval of the targets, whatever calls overlap: the clamp
\* is never needed, and a provider that is down can always come back
\* (blendProviderHealth).
ScoresBounded ==
    \A p \in Providers :
        health[p] = 0 \/ health[p] \in PermanentTarget..SuccessTarget

\* A success never lowers the score of its provider, although it is blended with
\* whatever other calls have made of it since this one began.
SuccessNeverLowers ==
    [][\A c \in Callers : pc[c] = "won" /\ pc'[c] = "answered" =>
            health'[cur[c]] >= Known(health[cur[c]])]_vars

\* The provider a call takes next is in no worse health than any of those left
\* at that moment, unless another call has rated one of the two since this call
\* read its score: scores moved before they are read, scores of third providers
\* and the call's own verdicts never spoil the order
\* (orderedProvidersByHealth).
HealthiestNext ==
    [][\A c \in Callers : pc[c] = "next" /\ pc'[c] = "try" =>
            \A q \in rest'[c] :
                \/ Known(health[q]) <= Known(health[cur'[c]])
                \/ {q, cur'[c]} \cap moved[c] # {}]_vars

\* Once its context has ended a call sends at most the one request it had
\* already checked for, although a deadline reads as an error worth a retry and
\* the timer of the pause may win over the context (tryProviderWithRetry).
OneLateAtMost == \A c \in Callers : late[c] <= 1

\* Every call returns.
CallsReturn == \A c \in Callers : pc[c] \notin Returned ~> pc[c] \in Returned

\* The orchestrator implements Failover: the providers left to a call are the
\* rest of its list and the one it is trying.
Left(c) ==
    rest[c] \cup (IF pc[c] \in Trying \cup {"answered"} THEN {cur[c]} ELSE {})
Stage(c) == IF pc[c] \in Returned THEN pc[c] ELSE "open"

F == INSTANCE Failover WITH
        left  <- [c \in Callers |-> Left(c)],
        stage <- [c \in Callers |-> Stage(c)],
        ended <- [c \in Callers |-> Ended(c)]

ImplementsFailover == F!Spec
===============================================================================
