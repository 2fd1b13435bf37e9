SPECIFICATION AuthSpec
CONSTANTS
    Requests = {r1, r2}
    Keys = {"k1", "k2"}
    Decisions <- MCDecisions
    Permits <- MCPermits
    Skew = 1
    AccessLife = 3
    Timeout = 3
    MaxSeconds = 2
    KeyFiles <- MCKeyFiles
    MaxOwners = 2
INVARIANTS RemovedKeyRefused
CHECK_DEADLOCK FALSE
