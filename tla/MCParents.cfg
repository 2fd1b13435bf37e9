SPECIFICATION ParentsSpec
CONSTANTS
    Parents = {i1, i2}
    Principals = {p1, p2}
    Callers = {c1, c2}
    Nobody = Nobody
    Charges <- MCCharges
    MaxEntries = 2
    MemoryBytes = 3
    Slots <- MCSlots
    Subjects = {tenant, other}
    Owner = tenant
    None = None
    Window = 1
    MaxTime = 1
    MaxBoots = 2
SYMMETRY Symmetry
INVARIANTS
    ChargedUntilJoined
    NoFalseStop
    LaunchedOnce
    TeardownTruthful
