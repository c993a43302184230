\* A worker that dies between Requeue and Ack, with the default three attempts.
SPECIFICATION FairSpec
CONSTANTS
    j1 = j1
    j2 = j2
    Jobs = {j1}
    Workers = {w1, w2}
    Kind <- OneImage
    NoJob = NoJob
    MaxAttempts = 3
    Overload = {FALSE}
    Faults = {"crash"}
    MaxFaults = 1
    MaxReplays = 0
PROPERTY AttemptsRunOut
