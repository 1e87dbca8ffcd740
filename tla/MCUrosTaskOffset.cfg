CONSTANTS
    PING_WAIT = 4
    PING_CONN = 3
    PING_TIMEOUT = 2
    SPIN_MAX = 2
    STEP_MAX = 1
    SYNC_MAX = 2
    DELAY = 1
    Cmds = {c1}
    Zero = Zero
SPECIFICATION Spec
PROPERTY StampsUseThisSession
