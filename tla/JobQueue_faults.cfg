\* Any two faults on the way of a PDF job.
SPECIFICATION Spec
CONSTANTS
    j1 = j1
    j2 = j2
    Jobs = {j1}
    Workers = {w1, w2}
    Kind <- OnePdf
    NoJob = NoJob
    MaxAttempts = 2
    Overload = {FALSE}
    Faults = {"crash", "shutdown", "redis", "slow", "expire"}
    MaxFaults = 2
    MaxReplays = 1
INVARIANTS TypeOK DuplicatesBounded
