\* Every upload, two faults of any kind, one replay.
SPECIFICATION FairSpec
CONSTANTS
    Uploads <- MCUploads
    MaxAttempts = 3
    Faults = {"crash", "shutdown", "redis", "disk"}
    MaxFaults = 2
    MaxReplays = 1
CHECK_DEADLOCK FALSE
INVARIANTS TypeOK CompletedIsServed NothingLeftOver RetryKeepsSource
PROPERTY PdfGoes
