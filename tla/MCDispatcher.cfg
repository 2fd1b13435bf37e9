SPECIFICATION MCSpec
CONSTANTS
    Ids = {e1, e2}
    Requests = {"small", "large"}
    Memory <- MCMemory
    Egress <- MCEgress
    Owners = {o1}
    ParentMemory = 2
    ParentEgress = 1
    MaxCells = 3
    NodeMemory = 3
    NodeEgress = 1
    JournalCapacity = 2
    None = None
    Lifecycles = {"one-shot", "enduring-initial", "enduring-turn"}
    Cleaners = {c1, c2}
    Readers = {r1}
    Pids = {p1, p2}
    CellNames = {1, 2}
    Keep = 1
    MaxWall = 1
INVARIANTS
    RunsOnce
    ReportFinal
    CancelHonoured
    ConfirmedMeansGone
    CellsListed
PROPERTIES
    ExecutionEnds
    OneShotFinal
