SPECIFICATION Spec
CONSTANTS
    N = 2
    MaxSql = 1
    Canonical <- MockTypes
    Setups <- EmptyAnswer
INVARIANT UnchangedMatches
CHECK_DEADLOCK FALSE
