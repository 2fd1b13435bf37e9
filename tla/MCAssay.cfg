SPECIFICATION AssaySpec
CONSTANTS
    Processes = {p1, p2}
    Contents = {1}
    Aliases = {"x"}
    MaxCommands = 3
INVARIANT RevokedNeverRuns
CHECK_DEADLOCK FALSE
