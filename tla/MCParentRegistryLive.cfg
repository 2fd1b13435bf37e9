SPECIFICATION FairSpec
CONSTANTS
    Parents = {i1}
    Principals = {p1}
    Callers = {c1, c2, c3}
    Nobody = Nobody
    Charges <- MCOneCharge
    MaxEntries = 1
    MemoryBytes = 2
PROPERTIES
    CommandResolved
    TeardownReturns
