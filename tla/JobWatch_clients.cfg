\* A row of the panel, or two requests at a gate with one slot; two attempts.
SPECIFICATION FairSpec
CONSTANTS
    r1 = r1
    s1 = s1
    s2 = s2
    Rows <- MCRows
    Requests <- MCRequests
    Companies <- MCCompanies
    MaxInflight = 1
    MaxAttempts = 2
    MaxFaults = 3
    MaxWire = 2
CHECK_DEADLOCK FALSE
INVARIANT GateHolds
PROPERTIES RowConverges StreamEnds RequestReturns
