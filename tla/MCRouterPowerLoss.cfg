CONSTANTS
    Routers = {r1, r2}
    Calls = {c1, c2}
    Backends = {"b1", "b2"}
    Static = {"b1"}
    Requests <- MCRequests
    Traffics <- MCTraffics
    Keys <- MCKeys
    Capacity <- MCCapacity
    None = "none"
SPECIFICATION Spec
INVARIANT NeverReplaced
SYMMETRY Symmetry
CONSTRAINT Explored
