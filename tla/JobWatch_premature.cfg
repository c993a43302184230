\* As JobWatch_clients, without faults.
SPECIFICATION FairSpec
CONSTANTS
    r1 = r1
    s1 = s1
    s2 = s2
    Rows <- MCRows
    Requests <- MCRequests
    Companies <- MCCompanies
    MaxInflight = 1
    MaxAttempts = 2
    MaxFaults = 0
    MaxWire = 2
CHECK_DEADLOCK FALSE
INVARIANT StreamEndsAtTerminal
