SPECIFICATION FairSpec
CONSTANTS
    c1 = c1
    c2 = c2
    Callers <- MCCallers
    N = 2
    MaxRetries = 1
    Unit = 2500
    MaxCalls = 2
    MaxEndings = 1
CHECK_DEADLOCK FALSE
INVARIANTS WithinBudget FailsOnlyExhausted OneLateAtMost
PROPERTIES HealthiestNext CallsReturn ImplementsFailover
