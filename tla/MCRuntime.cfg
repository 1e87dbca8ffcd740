CONSTANTS
    SPACE = 8
    END = 2
    LIMIT = 6
    Requests = {0, 1, 2, 3}
SPECIFICATION Spec
INVARIANTS
    TypeOK
    BlocksAreDisjoint
