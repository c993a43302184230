\* A PDF and an image, two attempts, and no fault but a failing call.
SPECIFICATION Spec
CONSTANTS
    Uploads <- MCOverlays
    MaxAttempts = 2
    Faults = {}
    MaxFaults = 0
    MaxReplays = 0
CHECK_DEADLOCK FALSE
INVARIANT RedeliveredHasSource
