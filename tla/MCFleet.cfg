CONSTANTS
    Routers = {r1, r2}
    Calls = {c1, c2}
    Backends = {"b1", "b2"}
    Static = {"b1"}
    Requests <- MCRequests
    Traffics <- MCTraffics
    Keys <- MCKeys
    Capacity <- MCCapacity
    None = "none"
    Bearers = {"b1", "b2"}
    ClientFiles <- MCClientFiles
    Plans <- MCPlans
    Handlers = {h1, h2}
    MaxBootId = 2
SPECIFICATION FleetSpec
INVARIANTS OneNode PostedOnce CreatedAsProvisioned
SYMMETRY FleetSymmetry
CONSTRAINT Explored
