CONSTANTS
    Turns = {t1, t2}
    NoTurn = NoTurn
    Seeded = Seeded
    Readers = {r1}
    MaxTurns = 2
    TurnRequests = 1
    TotalRequests = 2
    TurnTokens = 2
    TotalTokens = 5
    IdentityLimit = 2
    HistoryLimit = 1
SPECIFICATION FairSpec
CHECK_DEADLOCK FALSE
INVARIANTS
    AtMostOneChild
    BudgetCharged
    AnswerDurable
    InspectNeverTorn
    StopPreventsCommit
    CancelIsolated
PROPERTIES
    ContractKept
    TurnEnds
    StopDestroysParent
