CONSTANTS
    SCALE = 10
    KP = 6
    KI = 8
    KD = 5
    PWM_MAX = 7
    Targets <- MCTargets
    Speeds <- MCSpeeds
    MAX_INTEGRAL = 12
SPECIFICATION FairSpec
INVARIANTS
    TypeOK
    OutputIsApplied
    StandingStillIsFree
PROPERTIES
    WindupIsReleased
