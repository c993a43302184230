\* Up to two crashes or shutdowns of the workers of a PDF job.
SPECIFICATION FairSpec
CONSTANTS
    j1 = j1
    j2 = j2
    Jobs = {j1}
    Workers = {w1, w2}
    Kind <- OnePdf
    NoJob = NoJob
    MaxAttempts = 2
    Overload = {FALSE}
    Faults = {"crash", "shutdown"}
    MaxFaults = 2
    MaxReplays = 1
INVARIANT
    NeverForgotten
PROPERTY
    AbandonedRecovered
