SPECIFICATION PipelineSpec
CONSTANTS
    Recordings = {r1, r2}
    Requests = {q1, q2}
    SqlEvents <- Statements
    MaxSql = 1
    NoRecording = none
    Sentinel = sentinel
    Faults = {"crash", "raise", "timeout", "background"}
SYMMETRY Symmetry
INVARIANTS PipelineInv NoCrossRecording
PROPERTY RefinesSession
CHECK_DEADLOCK FALSE
