SPECIFICATION Spec
CONSTANTS
    Programs <- MCPrograms
INVARIANTS
    ValueTrue
    LockedByTimeout
PROPERTIES
    GetReturns
    ChainSettles
CHECK_DEADLOCK FALSE
