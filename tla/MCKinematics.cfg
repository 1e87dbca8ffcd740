CONSTANTS
    MAX_RPM = 3
    Rpms <- MCRpms
    Bases <- MCBases
SPECIFICATION Spec
INVARIANTS
    TypeOK
    RoundTrip
    SlowedDownOnly
