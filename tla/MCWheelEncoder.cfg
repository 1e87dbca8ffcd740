CONSTANTS
    COUNT_MOD = 8
    US_MOD = 4
    MAX_MOVE = 3
    MAX_GAP = 3
    MAX_TURN = 12
    INVERT = TRUE
    Positions = {2, 13}
SPECIFICATION Spec
INVARIANTS
    PositionTracksWheel
    SpeedIsTrue
