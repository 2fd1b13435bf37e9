SPECIFICATION ScopedSpec
CONSTANTS
    Lifecycles = {"enduring-turn"}
    Cleaners = {c1}
    Readers = {r1}
PROPERTY ConfirmedFinal
