CONSTANTS
    TICK_MOD = 7
    CMD_TIMEOUT_MS = 2
    PERIOD = 2
    MAX_LAG = 2
    Cmds = {c1}
    Zero = Zero
    WHEELS = 2
SPECIFICATION Spec
INVARIANTS
    TypeOK
    MotorsStopInTime
    MotorsFollowOneCommand
    PublishedOdomIsOneTick
    ImuIsAtMostOneTickBehind
    OdomTimeKeepsUp
PROPERTIES
    DeadmanOnlyWhenExpiredOrRaced
