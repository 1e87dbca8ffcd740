CONSTANTS
    N = 3
    OFFSET = 2
    Rates <- MCRates
    Accels = {1, 2}
    DEADBAND = 4
    MAX_FAILS = 3
SPECIFICATION Spec
INVARIANTS
    TypeOK
    GoodReadGivesTrueRate
    FlagTellsOfAccel
