--------------------------- MODULE OrchestratorProofs ---------------------------
(*************************************************************************)
(* What holds of Orchestrator for any number of callers and providers    *)
(* and any retry budget: scores stay between their targets, a call keeps *)
(* its budget and fails only when every provider has, it asks the        *)
(* healthiest next and sends one request at most once its context has    *)
(* ended, and the orchestrator implements Failover. The budget needs more than the      *)
(* properties say: how the requests sent follow from the attempt counter *)
(* and the step a call is at, and why each provider behind it was given  *)
(* up (CallOK). The order needs that what a call has read of the scores  *)
(* is still true (SeenOK).                                               *)
(*************************************************************************)
EXTENDS Orchestrator, TLAPS

\* Blending a score between the targets with a target stays between them, and
\* the highest target never lowers a score.
LEMMA BlendBounds ==
    ASSUME NEW s \in {0} \cup PermanentTarget..SuccessTarget,
           NEW t \in PermanentTarget..SuccessTarget
    PROVE  /\ Blend(s, t) \in PermanentTarget..SuccessTarget
           /\ t = SuccessTarget => Blend(s, t) >= Known(s)
<1>1. Known(s) \in PermanentTarget..SuccessTarget
  BY OrchestratorAssumption DEF Known, DefaultScore, PermanentTarget, SuccessTarget
<1> DEFINE k == Known(s)
           b == (39 * k + 11 * t) \div 50
<1>2. /\ b \in PermanentTarget..SuccessTarget
      /\ t = SuccessTarget => b >= k
  BY <1>1, OrchestratorAssumption DEF PermanentTarget, SuccessTarget
<1>3. Blend(s, t) = b
  BY <1>2, OrchestratorAssumption DEF Blend, Clamp, PermanentTarget,
                                        SuccessTarget, MinScore, MaxScore
<1> QED
  BY <1>2, <1>3

LEMMA BlendType ==
    ASSUME NEW s \in 0..MaxScore, NEW t \in 0..MaxScore
    PROVE  Blend(s, t) \in 0..MaxScore
<1>1. Known(s) \in Nat
  BY OrchestratorAssumption DEF Known, DefaultScore, MaxScore
<1>2. (39 * Known(s) + 11 * t) \div 50 \in Int
  BY <1>1, OrchestratorAssumption DEF MaxScore
<1> QED
  BY <1>2, OrchestratorAssumption DEF Blend, Clamp, MinScore, MaxScore

LEMMA TargetBounds ==
    ASSUME NEW e
    PROVE  /\ FailureTarget(e) \in PermanentTarget..SuccessTarget
           /\ FailureTarget(e) \in 0..MaxScore
           /\ SuccessTarget \in PermanentTarget..SuccessTarget
           /\ SuccessTarget \in 0..MaxScore
  BY OrchestratorAssumption
     DEF FailureTarget, PermanentTarget, TransientTarget, SuccessTarget, MaxScore

LEMMA InitType == Init => TypeOK
  BY OrchestratorAssumption
     DEF Init, TypeOK, Providers, Phases, Trying, Returned, Contexts, Endings,
         Failures, MaxScore

\* The type of a rated score.
LEMMA RateType ==
    ASSUME TypeOK, NEW c \in Callers, NEW t \in 0..MaxScore, Rate(c, t)
    PROVE  /\ health' \in [Providers -> 0..MaxScore]
           /\ moved' \in [Callers -> SUBSET (0..N)]
<1>1. ASSUME NEW p \in Providers
      PROVE  health'[p] \in 0..MaxScore
  BY <1>1, BlendType DEF TypeOK, Rate
<1>2. health' \in [Providers -> 0..MaxScore]
  BY <1>1 DEF TypeOK, Rate
<1>3. cur[c] \in 0..N
  BY DEF TypeOK
<1>4. moved' \in [Callers -> SUBSET (0..N)]
  BY <1>3 DEF TypeOK, Rate
<1> QED
  BY <1>2, <1>4

LEMMA TypeStep == TypeOK /\ [Next]_vars => TypeOK'
<1> SUFFICES ASSUME TypeOK, [Next]_vars PROVE TypeOK'
  OBVIOUS
<1> USE OrchestratorAssumption DEF TypeOK
<1>1. CASE UNCHANGED vars
  BY <1>1 DEF vars, callVars, ghostVars
<1>2. ASSUME NEW c \in Callers, Call(c) PROVE TypeOK'
  BY <1>2 DEF Call, Goto, Phases, Contexts
<1>3. ASSUME NEW c \in Callers, ReadScore(c) PROVE TypeOK'
  <2>1. PICK p \in unread[c] :
            /\ seen' = [seen EXCEPT ![c][p] = Known(health[p])]
            /\ unread' = [unread EXCEPT ![c] = @ \ {p}]
            /\ Goto(c, IF unread[c] = {p} THEN "next" ELSE "order")
    BY <1>3 DEF ReadScore
  <2>2. p \in Providers /\ Known(health[p]) \in 0..MaxScore
    BY <2>1 DEF Known, DefaultScore, MaxScore
  <2>3. seen' \in [Callers -> [Providers -> 0..MaxScore]]
    BY <2>1, <2>2
  <2>4. moved' \in [Callers -> SUBSET (0..N)]
    BY <1>3 DEF ReadScore
  <2> QED
    BY <1>3, <2>1, <2>3, <2>4 DEF ReadScore, Goto, Phases
<1>4. ASSUME NEW c \in Callers, TakeProvider(c) PROVE TypeOK'
  <2>1. PICK p \in rest[c] : /\ cur' = [cur EXCEPT ![c] = p]
                             /\ rest' = [rest EXCEPT ![c] = @ \ {p}]
    BY <1>4 DEF TakeProvider
  <2>2. p \in 0..N
    BY <2>1 DEF Providers
  <2>3. cur' \in [Callers -> 0..N] /\ rest' \in [Callers -> SUBSET Providers]
    BY <2>1, <2>2
  <2> QED
    BY <1>4, <2>3 DEF TakeProvider, Goto, Phases, Trying, ghostVars
<1>5. ASSUME NEW c \in Callers, ReturnError(c) PROVE TypeOK'
  BY <1>5 DEF ReturnError, Return, Goto, Phases, Returned, ghostVars, Failures,
              MaxScore
<1>6. ASSUME NEW c \in Callers, Send(c) PROVE TypeOK'
  <2>1. \A n \in 0..MaxRetries + 2 : Counted(n) \in 0..MaxRetries + 2
    BY DEF Counted
  <2>2. tries' \in [Callers -> [Providers -> 0..MaxRetries + 2]]
    <3>1. ASSUME NEW p \in Providers
          PROVE  [tries[c] EXCEPT ![cur[c]] = Counted(@)][p]
                    \in 0..MaxRetries + 2
      BY <2>1, <3>1
    <3>2. [tries[c] EXCEPT ![cur[c]] = Counted(@)]
              \in [Providers -> 0..MaxRetries + 2]
      BY <3>1
    <3> QED
      BY <1>6, <3>2 DEF Send
  <2>3. late' \in [Callers -> 0..2]
    BY <1>6 DEF Send
  <2> QED
    BY <1>6, <2>2, <2>3 DEF Send, Goto, Phases, Trying, callVars
<1>7. ASSUME NEW c \in Callers, Succeed(c) PROVE TypeOK'
  BY <1>7 DEF Succeed, Goto, Phases, Trying, callVars, ghostVars
<1>8. ASSUME NEW c \in Callers, FailAttempt(c) PROVE TypeOK'
  BY <1>8 DEF FailAttempt, Goto, Phases, Trying, Contexts, Ended
<1>9. ASSUME NEW c \in Callers, Wake(c) PROVE TypeOK'
  BY <1>9 DEF Wake, Goto, Phases, Trying, ghostVars
<1>10. ASSUME NEW c \in Callers, Interrupt(c) PROVE TypeOK'
  BY <1>10 DEF Interrupt, Goto, Phases, Trying, Contexts, Ended, ghostVars
<1>11. ASSUME NEW c \in Callers, Verdict(c) PROVE TypeOK'
  BY <1>11, RateType, TargetBounds DEF Verdict, Goto, Phases, callVars
<1>12. ASSUME NEW c \in Callers, Win(c) PROVE TypeOK'
  <2>1. /\ health' \in [Providers -> 0..MaxScore]
        /\ moved' \in [Callers -> SUBSET (0..N)]
    BY <1>12, RateType, TargetBounds DEF Win
  <2>2. /\ pc' \in [Callers -> Phases]
        /\ seen' \in [Callers -> [Providers -> 0..MaxScore]]
        /\ err' \in [Callers -> Failures \cup Endings]
    BY <1>12 DEF Win, Return, Goto, Phases, Returned, Failures, MaxScore
  <2> QED
    BY <1>12, <2>1, <2>2 DEF Win, Return
<1>13. ASSUME NEW c \in Callers, EndContext(c) PROVE TypeOK'
  BY <1>13 DEF EndContext, Contexts, callVars
<1>14. ASSUME NEW c \in Callers, Check(c) PROVE TypeOK'
  BY <1>14 DEF Check, Goto, Phases, Trying, callVars, ghostVars
<1> QED
  BY <1>1, <1>2, <1>3, <1>4, <1>5, <1>6, <1>7, <1>8, <1>9, <1>10, <1>11, <1>12,
     <1>13, <1>14 DEF Next, Step

\* For any callers, providers and budgets, every variable keeps its type; in
\* particular no score passes the maximum, whatever is blended with it.
THEOREM TypeCorrect == Spec => []TypeOK
  BY InitType, TypeStep, PTL DEF Spec

-------------------------------------------------------------------------------
(* Scores.                                                                 *)

\* A step leaves the scores alone or rates the current provider of one call.
LEMMA ScoreSteps ==
    ASSUME [Next]_vars
    PROVE  \/ health' = health
           \/ \E c \in Callers : Verdict(c) \/ Win(c)
<1> DEFINE goal == health' = health \/ \E c \in Callers : Verdict(c) \/ Win(c)
<1>1. CASE UNCHANGED vars
  BY <1>1 DEF vars
<1>2. ASSUME NEW c \in Callers, Call(c) \/ EndContext(c) PROVE goal
  BY <1>2 DEF Call, EndContext
<1>3. ASSUME NEW c \in Callers, Step(c) PROVE goal
  BY <1>3 DEF Step, ReadScore, TakeProvider, ReturnError, Check, Send, Succeed,
              FailAttempt, Wake, Interrupt
<1> QED
  BY <1>1, <1>2, <1>3 DEF Next

LEMMA ScoresInit == Init => ScoresBounded
  BY DEF Init, ScoresBounded

LEMMA ScoresStep == TypeOK /\ ScoresBounded /\ [Next]_vars => ScoresBounded'
<1> SUFFICES ASSUME TypeOK, ScoresBounded, [Next]_vars PROVE ScoresBounded'
  OBVIOUS
<1>1. CASE health' = health
  BY <1>1 DEF ScoresBounded
<1>2. ASSUME NEW c \in Callers, NEW t \in PermanentTarget..SuccessTarget,
             Rate(c, t)
      PROVE  ScoresBounded'
  <2> SUFFICES ASSUME NEW p \in Providers
               PROVE  health'[p] \in {0} \cup PermanentTarget..SuccessTarget
    BY DEF ScoresBounded
  <2>1. health[p] \in {0} \cup PermanentTarget..SuccessTarget
    BY DEF ScoresBounded
  <2>2. health'[p] = health[p] \/ health'[p] = Blend(health[p], t)
    BY <1>2 DEF Rate, TypeOK
  <2> QED
    BY <2>1, <2>2, BlendBounds
<1>3. ASSUME NEW c \in Callers, Verdict(c) \/ Win(c) PROVE ScoresBounded'
  BY <1>2, <1>3, TargetBounds DEF Verdict, Win
<1> QED
  BY <1>1, <1>3, ScoreSteps

\* For any callers and providers, a score is always between the targets: no
\* sequence of verdicts of overlapping calls reaches the clamp.
THEOREM ScoresCorrect == Spec => []ScoresBounded
  BY InitType, TypeStep, ScoresInit, ScoresStep, PTL DEF Spec

-------------------------------------------------------------------------------
(* What a call has done.                                                   *)

\* The provider p is behind the call c, and for a reason.
GivenUp(c, p) ==
    Ended(c) \/ p \in refused[c] \/ tries[c][p] = 1 + MaxRetries

\* The requests sent to the current provider follow from the attempt counter.
CurrentOK(c) ==
    /\ cur[c] \in Providers /\ cur[c] \notin rest[c]
    /\ attempt[c] <= MaxRetries
    /\ pc[c] \in {"try", "send"} => tries[c][cur[c]] = attempt[c]
    /\ pc[c] \in {"wait", "sleep"} => tries[c][cur[c]] = attempt[c] + 1
    /\ pc[c] \in Asking => cur[c] \notin refused[c]
    /\ pc[c] = "sleep" => attempt[c] < MaxRetries
    /\ pc[c] = "verdict" => GivenUp(c, cur[c])

CallOK(c) ==
    /\ \A p \in Providers : tries[c][p] <= 1 + MaxRetries
    /\ \A p \in rest[c] : tries[c][p] = 0 /\ p \notin refused[c]
    /\ pc[c] \in {"idle", "order"} => rest[c] = Providers
    /\ pc[c] \in Trying => CurrentOK(c)
    /\ pc[c] \in Trying \cup {"order", "next", "failed"} =>
          \A p \in Providers \ rest[c] :
              GivenUp(c, p) \/ (pc[c] \in Trying /\ p = cur[c])
    /\ pc[c] = "failed" => Ended(c) \/ rest[c] = {}
    /\ pc[c] = "answered" => cur[c] \in Providers /\ cur[c] \notin rest[c]

CallsOK == \A c \in Callers : CallOK(c)

\* What CallOK speaks of is the same for d.
Kept(d) ==
    /\ pc'[d] = pc[d] /\ ctx'[d] = ctx[d] /\ rest'[d] = rest[d]
    /\ cur'[d] = cur[d] /\ attempt'[d] = attempt[d]
    /\ tries'[d] = tries[d] /\ refused'[d] = refused[d]

LEMMA KeptOK == ASSUME NEW d \in Callers, CallOK(d), Kept(d) PROVE CallOK(d)'
  BY DEF CallOK, Kept, CurrentOK, GivenUp, Ended

\* The steps of a call leave the others alone.
LEMMA OthersKept ==
    ASSUME TypeOK, NEW c \in Callers, NEW d \in Callers, d # c,
           Call(c) \/ Step(c) \/ EndContext(c)
    PROVE  Kept(d)
<1> USE DEF Kept, TypeOK, Goto, callVars, ghostVars
<1>1. CASE Call(c)
  BY <1>1 DEF Call
<1>2. CASE EndContext(c)
  BY <1>2 DEF EndContext
<1>3. CASE ReadScore(c) \/ TakeProvider(c) \/ ReturnError(c) \/ Check(c) \/ Send(c)
  BY <1>3 DEF ReadScore, TakeProvider, ReturnError, Return, Check, Send
<1>4. CASE Succeed(c) \/ FailAttempt(c) \/ Wake(c) \/ Interrupt(c)
  BY <1>4 DEF Succeed, FailAttempt, Wake, Interrupt
<1>5. CASE Verdict(c) \/ Win(c)
  BY <1>5 DEF Verdict, Win, Return
<1> QED
  BY <1>1, <1>2, <1>3, <1>4, <1>5 DEF Step

LEMMA CallsInit == Init => CallsOK
  BY OrchestratorAssumption DEF Init, CallsOK, CallOK, Trying

LEMMA OwnStep ==
    ASSUME TypeOK, NEW c \in Callers, CallOK(c),
           Call(c) \/ Step(c) \/ EndContext(c)
    PROVE  CallOK(c)'
<1> USE OrchestratorAssumption DEF TypeOK, Goto, callVars, ghostVars
<1>1. CASE Call(c)
  BY <1>1 DEF Call, CallOK, Trying
<1>2. CASE EndContext(c)
  BY <1>2 DEF EndContext, CallOK, CurrentOK, GivenUp, Ended, Endings, Returned,
                    Asking
<1>3. CASE ReadScore(c)
  BY <1>3 DEF ReadScore, CallOK, Trying
<1>4. CASE TakeProvider(c)
  <2>1. PICK p \in rest[c] : /\ cur'[c] = p
                             /\ rest'[c] = rest[c] \ {p}
    BY <1>4 DEF TakeProvider
  <2>2. /\ pc[c] = "next" /\ pc'[c] = "try" /\ attempt'[c] = 0
        /\ tries' = tries /\ refused' = refused /\ ctx' = ctx
    BY <1>4 DEF TakeProvider
  <2>3. CurrentOK(c)'
    BY <2>1, <2>2 DEF CallOK, CurrentOK, Asking
  <2> QED
    BY <2>1, <2>2, <2>3 DEF CallOK, GivenUp, Ended, Trying
<1>5. CASE ReturnError(c)
  BY <1>5 DEF ReturnError, Return, MayReturn, CallOK, GivenUp, Ended, Trying
<1>6. CASE Send(c)
  <2>1. CurrentOK(c) /\ pc[c] = "send" /\ tries[c][cur[c]] = attempt[c]
    BY <1>6 DEF Send, CallOK, CurrentOK, Trying
  <2>2. /\ tries'[c] = [tries[c] EXCEPT ![cur[c]] = attempt[c] + 1]
        /\ pc'[c] = "wait"
        /\ rest' = rest /\ cur' = cur /\ attempt' = attempt /\ ctx' = ctx
        /\ refused' = refused
    <3>1. attempt[c] \in Nat /\ attempt[c] <= MaxRetries
      BY <2>1 DEF CurrentOK
    <3>2. Counted(tries[c][cur[c]]) = attempt[c] + 1
      BY <2>1, <3>1 DEF Counted
    <3>3. tries'[c] = [tries[c] EXCEPT ![cur[c]] = Counted(tries[c][cur[c]])]
      BY <1>6 DEF Send
    <3> QED
      BY <1>6, <3>2, <3>3 DEF Send
  <2>3. CurrentOK(c)'
    BY <2>1, <2>2 DEF CurrentOK, Asking
  <2>4. /\ \A p \in Providers : tries'[c][p] <= 1 + MaxRetries
        /\ \A p \in Providers : p # cur[c] => tries'[c][p] = tries[c][p]
    BY <2>1, <2>2 DEF CallOK, CurrentOK
  <2> QED
    BY <2>1, <2>2, <2>3, <2>4 DEF CallOK, CurrentOK, GivenUp, Ended, Trying
<1>7. CASE Succeed(c)
  BY <1>7 DEF Succeed, CallOK, CurrentOK, GivenUp, Ended, Trying, Asking
<1>8. CASE FailAttempt(c)
  <2>1. PICK e \in Failures \cup (IF Ended(c) THEN {ctx[c]} ELSE {}) :
            /\ pc'[c] = IF RetryAfter(c, e) THEN "sleep" ELSE "verdict"
            /\ refused'[c] = IF Transient(e) THEN refused[c]
                             ELSE refused[c] \cup {cur[c]}
    BY <1>8 DEF FailAttempt
  <2>2. /\ CurrentOK(c) /\ pc[c] = "wait"
        /\ tries' = tries /\ rest' = rest /\ cur' = cur /\ attempt' = attempt
        /\ ctx' = ctx
    BY <1>8 DEF FailAttempt, CallOK, Trying
  <2>3. CurrentOK(c)'
    <3>1. /\ attempt[c] \in Nat /\ attempt[c] <= MaxRetries
          /\ tries[c][cur[c]] = attempt[c] + 1 /\ cur[c] \notin refused[c]
      BY <2>2 DEF CurrentOK, Asking
    <3>2. CASE RetryAfter(c, e)
      BY <2>1, <2>2, <3>1, <3>2 DEF CurrentOK, RetryAfter, Asking
    <3>3. CASE ~RetryAfter(c, e)
      <4>1. GivenUp(c, cur[c])'
        BY <2>1, <2>2, <3>1, <3>3 DEF GivenUp, RetryAfter
      <4> QED
        BY <2>1, <2>2, <3>3, <4>1 DEF CurrentOK, Asking
    <3> QED
      BY <3>2, <3>3
  <2> QED
    BY <2>1, <2>2, <2>3 DEF CallOK, CurrentOK, GivenUp, Ended, Trying
<1>9. CASE Wake(c)
  BY <1>9 DEF Wake, CallOK, CurrentOK, GivenUp, Ended, Trying, Asking
<1>10. CASE Interrupt(c)
  BY <1>10 DEF Interrupt, CallOK, CurrentOK, GivenUp, Ended, Trying, Asking
<1>11. CASE Verdict(c)
  BY <1>11 DEF Verdict, CallOK, CurrentOK, GivenUp, Ended, Trying, Asking
<1>12. CASE Win(c)
  BY <1>12 DEF Win, Return, CallOK, CurrentOK, GivenUp, Ended, Trying
<1>13. CASE Check(c)
  BY <1>13 DEF Check, CallOK, CurrentOK, GivenUp, Ended, Trying, Asking
<1> QED
  BY <1>1, <1>2, <1>3, <1>4, <1>5, <1>6, <1>7, <1>8, <1>9, <1>10, <1>11, <1>12,
     <1>13 DEF Step

LEMMA CallsStep == TypeOK /\ CallsOK /\ [Next]_vars => CallsOK'
<1> SUFFICES ASSUME TypeOK, CallsOK, [Next]_vars, NEW d \in Callers
             PROVE  CallOK(d)'
  BY DEF CallsOK
<1>1. CallOK(d)
  BY DEF CallsOK
<1>2. CASE UNCHANGED vars
  BY <1>1, <1>2, KeptOK DEF Kept, vars, callVars, ghostVars
<1>3. ASSUME NEW c \in Callers, Call(c) \/ Step(c) \/ EndContext(c)
      PROVE  CallOK(d)'
  BY <1>1, <1>3, OwnStep, OthersKept, KeptOK
<1> QED
  BY <1>2, <1>3 DEF Next

\* For any callers, providers and retry budgets: a provider gets at most
\* 1 + MaxRetries requests of a call, none before its turn and none after it
\* has refused.
THEOREM BudgetCorrect == Spec => []WithinBudget
<1>1. TypeOK /\ CallsOK => WithinBudget
  BY DEF TypeOK, CallsOK, CallOK, CurrentOK, WithinBudget, Trying, Asking
<1> QED
  BY InitType, TypeStep, CallsInit, CallsStep, <1>1, PTL DEF Spec

\* For any callers, providers and retry budgets: a call whose context lives
\* fails only after every provider has refused or used up its budget.
THEOREM ExhaustionCorrect == Spec => []FailsOnlyExhausted
<1>1. TypeOK /\ CallsOK => FailsOnlyExhausted
  BY DEF TypeOK, CallsOK, CallOK, GivenUp, FailsOnlyExhausted, Trying
<1> QED
  BY InitType, TypeStep, CallsInit, CallsStep, <1>1, PTL DEF Spec

\* Every success raises the score of its provider or leaves it, whatever other
\* calls have blended into it since the call began.
THEOREM SuccessCorrect == Spec => SuccessNeverLowers
<1>1. TypeOK /\ ScoresBounded /\ CallsOK /\ [Next]_vars =>
          [\A c \in Callers : pc[c] = "won" /\ pc'[c] = "answered" =>
                health'[cur[c]] >= Known(health[cur[c]])]_vars
  <2> SUFFICES ASSUME TypeOK, ScoresBounded, CallsOK, Next, NEW c \in Callers,
                      pc[c] = "won", pc'[c] = "answered"
               PROVE  health'[cur[c]] >= Known(health[cur[c]])
    OBVIOUS
  <2>1. PICK d \in Callers : Call(d) \/ Step(d) \/ EndContext(d)
    BY DEF Next
  <2>2. d = c
    BY <2>1, OthersKept DEF Kept
  <2>3. Win(c)
    BY <2>1, <2>2
       DEF Call, Step, EndContext, ReadScore, TakeProvider, ReturnError, Check, Send,
           Succeed, FailAttempt, Wake, Interrupt, Verdict, Returned
  <2>4. cur[c] \in Providers
    BY DEF CallsOK, CallOK, CurrentOK, Trying
  <2>5. /\ health'[cur[c]] = Blend(health[cur[c]], SuccessTarget)
        /\ health[cur[c]] \in {0} \cup PermanentTarget..SuccessTarget
    BY <2>3, <2>4 DEF Win, Rate, TypeOK, ScoresBounded
  <2> QED
    BY <2>5, BlendBounds, TargetBounds
<1> QED
  BY InitType, TypeStep, ScoresInit, ScoresStep, CallsInit, CallsStep, <1>1, PTL
     DEF Spec, SuccessNeverLowers

-------------------------------------------------------------------------------
(* The order of the providers.                                             *)

\* What a call has read for its sort is still true of every provider it has not
\* taken yet and no other call has rated since, and the sort is done when the
\* first is taken.
SeenOK(c) ==
    N > 1 =>
        /\ pc[c] \in {"next"} \cup Trying => unread[c] = {}
        /\ pc[c] \in {"order", "next"} \cup Trying =>
              \A p \in rest[c] \ (unread[c] \cup moved[c]) :
                  seen[c][p] = Known(health[p])

AllSeenOK == \A c \in Callers : SeenOK(c)

LEMMA SeenInit == Init => AllSeenOK
  BY DEF Init, AllSeenOK, SeenOK, Trying

\* A call that rates a provider leaves it stale for the others, and has itself
\* taken it out of its list.
LEMMA SeenStep == TypeOK /\ CallsOK /\ AllSeenOK /\ [Next]_vars => AllSeenOK'
<1> SUFFICES ASSUME TypeOK, CallsOK, AllSeenOK, [Next]_vars, NEW d \in Callers
             PROVE  SeenOK(d)'
  BY DEF AllSeenOK
<1>1. SeenOK(d)
  BY DEF AllSeenOK
<1>2. CASE UNCHANGED vars
  BY <1>1, <1>2 DEF vars, callVars, ghostVars, SeenOK
<1>3. ASSUME NEW c \in Callers, c # d, Call(c) \/ Step(c) \/ EndContext(c)
      PROVE  SeenOK(d)'
  <2>1. pc'[d] = pc[d] /\ rest'[d] = rest[d]
    BY <1>3, OthersKept DEF Kept
  <2>2. /\ unread'[d] = unread[d] /\ seen'[d] = seen[d]
        /\ moved[d] \subseteq moved'[d]
        /\ \A p \in Providers : health'[p] = health[p] \/ p \in moved'[d]
    <3> USE <1>3 DEF TypeOK, callVars, ghostVars
    <3>1. CASE Call(c) \/ EndContext(c)
      BY <3>1 DEF Call, EndContext
    <3>2. CASE Verdict(c) \/ Win(c)
      BY <3>2 DEF Verdict, Win, Rate, Return
    <3>3. CASE ReadScore(c) \/ TakeProvider(c) \/ ReturnError(c) \/ Check(c) \/ Send(c)
      BY <3>3 DEF ReadScore, TakeProvider, ReturnError, Return, Check, Send
    <3>4. CASE Succeed(c) \/ FailAttempt(c) \/ Wake(c) \/ Interrupt(c)
      BY <3>4 DEF Succeed, FailAttempt, Wake, Interrupt
    <3> QED
      BY <3>1, <3>2, <3>3, <3>4 DEF Step
  <2>3. rest[d] \subseteq Providers
    BY DEF TypeOK
  <2> QED
    BY <1>1, <2>1, <2>2, <2>3 DEF SeenOK
<1>4. CASE Call(d) \/ Step(d) \/ EndContext(d)
  <2> USE <1>1 DEF TypeOK, Goto, SeenOK, Trying, callVars, ghostVars
  <2>1. CASE Call(d)
    BY <2>1 DEF Call
  <2>2. CASE EndContext(d)
    BY <2>2 DEF EndContext
  <2>3. CASE ReadScore(d)
    <3>1. PICK p \in unread[d] :
              /\ seen' = [seen EXCEPT ![d][p] = Known(health[p])]
              /\ unread' = [unread EXCEPT ![d] = @ \ {p}]
              /\ pc' = [pc EXCEPT ![d] =
                            IF unread[d] = {p} THEN "next" ELSE "order"]
              /\ moved' = [moved EXCEPT ![d] = @ \ {p}]
      BY <2>3 DEF ReadScore
    <3>2. /\ pc[d] = "order" /\ health' = health /\ rest' = rest
          /\ moved'[d] = moved[d] \ {p} /\ p \in Providers
      BY <2>3, <3>1 DEF ReadScore
    <3>3. \A q \in Providers :
              seen'[d][q] = IF q = p THEN Known(health[p]) ELSE seen[d][q]
      BY <3>1, <3>2
    <3>4. rest[d] \subseteq Providers /\ unread'[d] = unread[d] \ {p}
      BY <3>1
    <3>5. pc'[d] = IF unread[d] = {p} THEN "next" ELSE "order"
      BY <3>1
    <3> QED
      BY <3>2, <3>3, <3>4, <3>5
  <2>4. CASE TakeProvider(d)
    BY <2>4 DEF TakeProvider
  <2>5. CASE ReturnError(d) \/ Check(d) \/ Send(d) \/ Succeed(d) \/ FailAttempt(d)
    BY <2>5 DEF ReturnError, Return, Check, Send, Succeed, FailAttempt
  <2>6. CASE Wake(d) \/ Interrupt(d)
    BY <2>6 DEF Wake, Interrupt
  <2>7. CASE Verdict(d)
    <3>1. cur[d] \notin rest[d]
      BY <2>7 DEF Verdict, CallsOK, CallOK, CurrentOK
    <3>2. \A p \in rest[d] : health'[p] = health[p]
      BY <2>7, <3>1 DEF Verdict, Rate
    <3> QED
      BY <2>7, <3>2 DEF Verdict, Rate
  <2>8. CASE Win(d)
    BY <2>8 DEF Win, Return
  <2> QED
    BY <1>4, <2>1, <2>2, <2>3, <2>4, <2>5, <2>6, <2>7, <2>8 DEF Step
<1> QED
  BY <1>2, <1>3, <1>4 DEF Next

\* For any callers and providers: the provider a call takes is in no worse health
\* than any left, unless another call has rated one of the two since it was read;
\* the call's own verdicts, which do move scores, never spoil the order of the rest.
THEOREM OrderCorrect == Spec => HealthiestNext
<1> DEFINE A == \A c \in Callers : pc[c] = "next" /\ pc'[c] = "try" =>
                   \A q \in rest'[c] :
                       \/ Known(health[q]) <= Known(health[cur'[c]])
                       \/ {q, cur'[c]} \cap moved[c] # {}
<1>1. TypeOK /\ CallsOK /\ AllSeenOK /\ [Next]_vars => [A]_vars
  <2> SUFFICES ASSUME TypeOK, CallsOK, AllSeenOK, Next, NEW c \in Callers,
                      pc[c] = "next", pc'[c] = "try", NEW q \in rest'[c],
                      {q, cur'[c]} \cap moved[c] = {}
               PROVE  Known(health[q]) <= Known(health[cur'[c]])
    OBVIOUS
  <2>1. PICK d \in Callers : Call(d) \/ Step(d) \/ EndContext(d)
    BY DEF Next
  <2>2. d = c
    BY <2>1, OthersKept DEF Kept
  <2>3. TakeProvider(c)
    BY <2>1, <2>2
       DEF TypeOK, Call, Step, EndContext, ReadScore, ReturnError, Return, Check, Send,
           Succeed, FailAttempt, Wake, Interrupt, Verdict, Win, Returned, Goto
  <2>4. PICK p \in rest[c] : /\ Foremost(c, p)
                             /\ cur' = [cur EXCEPT ![c] = p]
                             /\ rest' = [rest EXCEPT ![c] = @ \ {p}]
    BY <2>3 DEF TakeProvider
  <2>5. cur'[c] = p /\ q \in rest[c] \ {p} /\ rest[c] \subseteq Providers
    BY <2>4 DEF TypeOK
  <2>6. N > 1
    BY <2>5, OrchestratorAssumption DEF Providers
  <2>7. seen[c][p] = Known(health[p]) /\ seen[c][q] = Known(health[q])
    BY <2>5, <2>6 DEF AllSeenOK, SeenOK
  <2>8. seen[c][p] > seen[c][q] \/ seen[c][p] = seen[c][q]
    BY <2>4, <2>5 DEF Foremost, Before
  <2>9. seen[c][p] \in Int /\ seen[c][q] \in Int
    BY <2>5, OrchestratorAssumption DEF TypeOK, MaxScore
  <2> QED
    BY <2>5, <2>7, <2>8, <2>9
<1> QED
  BY InitType, TypeStep, CallsInit, CallsStep, SeenInit, SeenStep, <1>1, PTL
     DEF Spec, HealthiestNext

\* A call that has sent a request in an ended context is past its last one: it
\* waits for that one, or sleeps or is about to check, and the check refuses.
LateOK(c) ==
    /\ late[c] <= 1
    /\ late[c] = 1 => Ended(c) /\ pc[c] # "send"

AllLateOK == \A c \in Callers : LateOK(c)

LEMMA LateStep == TypeOK /\ AllLateOK /\ [Next]_vars => AllLateOK'
<1> SUFFICES ASSUME TypeOK, AllLateOK, [Next]_vars, NEW d \in Callers
             PROVE  LateOK(d)'
  BY DEF AllLateOK
<1>1. LateOK(d)
  BY DEF AllLateOK
<1>2. CASE UNCHANGED vars
  BY <1>1, <1>2 DEF vars, ghostVars, LateOK, Ended
<1>3. ASSUME NEW c \in Callers, c # d, Call(c) \/ Step(c) \/ EndContext(c)
      PROVE  LateOK(d)'
  <2>1. pc'[d] = pc[d] /\ ctx'[d] = ctx[d]
    BY <1>3, OthersKept DEF Kept
  <2>2. late'[d] = late[d]
    BY <1>3 DEF TypeOK, Call, Step, EndContext, ReadScore, TakeProvider,
                ReturnError, Check, Send, Succeed, FailAttempt, Wake, Interrupt,
                Verdict, Win, ghostVars
  <2> QED
    BY <1>1, <2>1, <2>2 DEF LateOK, Ended
<1>4. CASE Call(d) \/ Step(d) \/ EndContext(d)
  <2> USE <1>1 DEF TypeOK, Goto, LateOK, Ended
  <2>1. CASE Call(d)
    BY <2>1 DEF Call
  <2>2. CASE Check(d)
    BY <2>2 DEF Check, MaySend, ghostVars
  <2>3. CASE Send(d)
    <3>1. late[d] = 0
      BY <2>3 DEF Send
    <3>2. /\ late'[d] = IF Ended(d) THEN 1 ELSE 0
          /\ pc'[d] = "wait" /\ ctx' = ctx
      BY <2>3, <3>1 DEF Send
    <3> QED
      BY <3>2
  <2>4. CASE EndContext(d)
    BY <2>4 DEF EndContext, Endings
  <2>5. CASE ReadScore(d) \/ TakeProvider(d) \/ ReturnError(d) \/ Succeed(d)
    BY <2>5 DEF ReadScore, TakeProvider, ReturnError, Return, Succeed, ghostVars
  <2>6. CASE FailAttempt(d) \/ Wake(d) \/ Interrupt(d) \/ Verdict(d) \/ Win(d)
    BY <2>6 DEF FailAttempt, Wake, Interrupt, Verdict, Win, Return, ghostVars
  <2> QED
    BY <1>4, <2>1, <2>2, <2>3, <2>4, <2>5, <2>6 DEF Step
<1> QED
  BY <1>2, <1>3, <1>4 DEF Next

\* For any callers, providers and retry budgets: once its context has ended a call
\* sends at most the request it had already checked for, whichever timers win and
\* however many retries and providers it has left.
THEOREM LateCorrect == Spec => []OneLateAtMost
<1>1. Init => AllLateOK
  BY DEF Init, AllLateOK, LateOK
<1>2. AllLateOK => OneLateAtMost
  BY DEF AllLateOK, LateOK, OneLateAtMost
<1> QED
  BY InitType, TypeStep, LateStep, <1>1, <1>2, PTL DEF Spec

-------------------------------------------------------------------------------
(* Refinement.                                                             *)

LeftOf  == [c \in Callers |-> Left(c)]
StageOf == [c \in Callers |-> Stage(c)]
EndOf   == [c \in Callers |-> Ended(c)]

LEMMA FailoverInit == Init => F!Init
<1> SUFFICES ASSUME Init PROVE F!Init
  OBVIOUS
<1>1. \A c \in Callers : Left(c) = Providers /\ Stage(c) = "idle"
        /\ Ended(c) = FALSE
  BY DEF Init, Left, Stage, Ended, Trying, Returned
<1> QED
  BY <1>1 DEF F!Init

\* A step of one call changes only its entry of the mapping.
LEMMA OneEntry ==
    ASSUME TypeOK, NEW c \in Callers, Call(c) \/ Step(c) \/ EndContext(c)
    PROVE  /\ LeftOf' = [LeftOf EXCEPT ![c] = Left(c)']
           /\ StageOf' = [StageOf EXCEPT ![c] = Stage(c)']
           /\ EndOf' = [EndOf EXCEPT ![c] = Ended(c)']
<1>1. ASSUME NEW d \in Callers, d # c
      PROVE  Left(d)' = Left(d) /\ Stage(d)' = Stage(d) /\ Ended(d)' = Ended(d)
  BY <1>1, OthersKept DEF Kept, Left, Stage, Ended
<1>2. LeftOf' = [LeftOf EXCEPT ![c] = Left(c)']
  BY <1>1 DEF LeftOf
<1>3. StageOf' = [StageOf EXCEPT ![c] = Stage(c)']
  BY <1>1 DEF StageOf
<1>4. EndOf' = [EndOf EXCEPT ![c] = Ended(c)']
  BY <1>1 DEF EndOf
<1> QED
  BY <1>2, <1>3, <1>4

\* Every step of a call is a step of Failover, or none.
LEMMA FailoverStep ==
    TypeOK /\ CallsOK /\ [Next]_vars => [F!Next]_(F!failoverVars)
<1> SUFFICES ASSUME TypeOK, CallsOK, [Next]_vars
             PROVE  F!Next \/ UNCHANGED <<LeftOf, StageOf, EndOf>>
  BY DEF F!failoverVars, LeftOf, StageOf, EndOf
<1>1. CASE UNCHANGED vars
  BY <1>1 DEF vars, callVars, ghostVars, LeftOf, StageOf, EndOf,
              Left, Stage, Ended
<1>2. ASSUME NEW c \in Callers, Call(c) \/ Step(c) \/ EndContext(c)
      PROVE  F!Next \/ UNCHANGED <<LeftOf, StageOf, EndOf>>
  <2> USE <1>2
  <2>0. /\ LeftOf' = [LeftOf EXCEPT ![c] = Left(c)']
        /\ StageOf' = [StageOf EXCEPT ![c] = Stage(c)']
        /\ EndOf' = [EndOf EXCEPT ![c] = Ended(c)']
    BY OneEntry
  <2>1. CASE Call(c)
    <3>1. Left(c)' = Providers /\ Stage(c)' = "open" /\ Ended(c)' = FALSE
      BY <2>1 DEF TypeOK, Call, Goto, Left, Stage, Ended, Returned, Trying
    <3>2. Stage(c) # "open"
      BY <2>1 DEF Call, Stage, Returned
    <3>3. F!Open(c)
      BY <2>0, <3>1, <3>2 DEF F!Open, LeftOf, StageOf, EndOf
    <3> QED
      BY <3>3 DEF F!Next
  <2>2. CASE Step(c)
    <3>1. CASE Verdict(c)
      <4>1. /\ Stage(c) = "open" /\ Stage(c)' = "open"
            /\ Ended(c)' = Ended(c)
            /\ cur[c] \in Left(c) /\ Left(c)' = Left(c) \ {cur[c]}
        BY <3>1 DEF TypeOK, CallsOK, CallOK, CurrentOK, Verdict, Goto, Left,
                    Stage, Ended, Returned, Trying, callVars
      <4>2. F!GiveUp(c)
        BY <2>0, <4>1 DEF F!GiveUp, LeftOf, StageOf, EndOf
      <4> QED
        BY <4>2 DEF F!Next
    <3>2. CASE Win(c)
      <4>1. /\ Stage(c) = "open" /\ Stage(c)' = "answered"
            /\ Ended(c)' = Ended(c)
            /\ Left(c) # {} /\ Left(c)' = Left(c)
        BY <3>2 DEF TypeOK, Win, Return, Goto, Left, Stage, Ended,
                    Returned, Trying
      <4>2. F!Answer(c)
        BY <2>0, <4>1 DEF F!Answer, LeftOf, StageOf, EndOf
      <4> QED
        BY <4>2 DEF F!Next
    <3>3. CASE ReturnError(c)
      <4>1. /\ Stage(c) = "open" /\ Stage(c)' = "failed"
            /\ Ended(c)' = Ended(c)
            /\ Left(c) = {} \/ Ended(c)
            /\ Left(c)' = Left(c)
        BY <3>3 DEF TypeOK, ReturnError, MayReturn, Return, Goto, Left, Stage,
                    Ended, Returned, Trying
      <4>2. F!Fail(c)
        BY <2>0, <4>1 DEF F!Fail, LeftOf, StageOf, EndOf
      <4> QED
        BY <4>2 DEF F!Next
    <3>4. CASE ~Verdict(c) /\ ~Win(c) /\ ~ReturnError(c)
      <4>1. /\ Stage(c) = "open" /\ Stage(c)' = "open"
            /\ Ended(c)' = Ended(c)
        BY <2>2, <3>4 DEF TypeOK, Step, ReadScore, TakeProvider, Check, Send, Succeed,
                    FailAttempt, Wake, Interrupt, Goto, Stage, Ended, Returned,
                    callVars, ghostVars
      <4>2. Left(c)' = Left(c)
        <5>1. CASE TakeProvider(c)
          BY <5>1 DEF TypeOK, TakeProvider, Goto, Left, Trying
        <5>2. CASE ~TakeProvider(c)
          BY <2>2, <3>4, <5>2 DEF TypeOK, Step, ReadScore, Check, Send, Succeed,
                    FailAttempt, Wake, Interrupt, Goto, Left, Trying,
                    callVars, ghostVars
        <5> QED
          BY <5>1, <5>2
      <4> QED
        BY <2>0, <4>1, <4>2 DEF LeftOf, StageOf, EndOf
    <3> QED
      BY <3>1, <3>2, <3>3, <3>4
  <2>3. CASE EndContext(c)
    <3>1. /\ Stage(c) = "open" /\ Stage(c)' = "open"
          /\ Left(c)' = Left(c) /\ Ended(c)' = TRUE
      BY <2>3 DEF TypeOK, EndContext, Endings, callVars, Left, Stage, Ended, Returned
    <3>2. F!End(c)
      BY <2>0, <3>1 DEF F!End, LeftOf, StageOf, EndOf
    <3> QED
      BY <3>2 DEF F!Next
  <2> QED
    BY <2>1, <2>2, <2>3
<1> QED
  BY <1>1, <1>2 DEF Next

\* Every behaviour of the orchestrator is one that Failover allows: the fallbacks
\* of Translate, its retries and its health scores keep what a caller is promised.
THEOREM FailoverCorrect == Spec => ImplementsFailover
<1> QED
  BY InitType, TypeStep, CallsInit, CallsStep, FailoverInit, FailoverStep, PTL
     DEF Spec, ImplementsFailover, F!Spec
===============================================================================
