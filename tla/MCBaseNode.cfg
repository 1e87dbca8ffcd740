CONSTANTS
    PING_WAIT = 4
    PING_CONN = 3
    PING_TIMEOUT = 2
    SPIN_MAX = 2
    STEP_MAX = 0
    SYNC_MAX = 5
    DELAY = 1
    Cmds = {c1}
    Zero = Zero
    CMD_TIMEOUT = 4
    PERIOD = 2
    QUOTAS = {1, 3}
    I2C_MAX = 5
    INIT_TIME = 3
SPECIFICATION BaseFairSpec
INVARIANTS
    BaseTypeOK
    MotorsStopOnTime
    ControlGapIsBounded
PROPERTIES
    ControlNeverStarves
