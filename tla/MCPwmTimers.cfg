CONSTANTS
    N = 4
    Timers = {t1, t2, t3, t4}
    APB1 = {t1, t2}
    None = None
    SLOTS = 4
    HCLK = 40
    Dividers = {1, 4}
    Freqs = {0, 1, 3}
    Bits = {0, 2}
    PSC_RANGE = 4
SPECIFICATION Spec
INVARIANTS
    TypeOK
    EveryMotorRuns
    PeriodIsClosest
PROPERTIES
    NoRunningTimerIsReset
