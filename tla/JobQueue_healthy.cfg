\* Two workers, a PDF and an image, overload possible, one replay, no fault.
SPECIFICATION FairSpec
CONSTANTS
    j1 = j1
    j2 = j2
    Jobs = {j1, j2}
    Workers = {w1, w2}
    Kind <- PdfAndImage
    NoJob = NoJob
    MaxAttempts = 2
    Overload = {TRUE, FALSE}
    Faults = {}
    MaxFaults = 0
    MaxReplays = 1
INVARIANTS SingleCustody NoJobLost CheckpointsGo
PROPERTIES EverySettles ImplementsLifecycle
