SPECIFICATION ReceiverSpec
CONSTANTS
    Root = root
    Turns = {t1, t2}
    MaxTurns = 2
    Capacity = 3
    MaxOpens = 2
    Requests = {r1, r2}
    Keys = {"k1", "k2"}
    Decisions <- MCDecisions
    Permits <- MCPermits
    Skew = 1
    AccessLife = 3
    Timeout = 3
    MaxSeconds = 2
    KeyFiles <- MCKeyFiles
    MaxOwners = 2
    ScopedTurns = {"t1", "t2"}
    Source <- MCSource
    Plans <- MCPlans
    Composer = "p1"
    ClosurePolicies <- MCPolicies
    LocalManifests <- MCManifests
    Admins = {a1, a2}
    Tasks <- MCTasks
    Profiles <- MCProfiles
    Launchers = {l1, l2}
    MaxLifetime = 2
    MaxBoot = 2
    MaxClock = 1
SYMMETRY ReceiverSymmetry
CONSTRAINTS Explored OneReported OneAfterRestart
CHECK_DEADLOCK FALSE
INVARIANTS
    PermanentlyFenced
    WorkAuthorised
    CancelReaches
    AuthorityBacked
    LaunchAuthorised
PROPERTIES
    ImplementsContract
