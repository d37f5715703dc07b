SPECIFICATION Spec
CONSTANTS
    Requests = {q1, q2}
    MaxSql = 2
    Settings <- MCSettings
SYMMETRY Symmetry
INVARIANTS TypeOK GapFreeSequence OwnParents CausalOrder OrderIndependent
PROPERTY FinishedIsFixed
CHECK_DEADLOCK FALSE
