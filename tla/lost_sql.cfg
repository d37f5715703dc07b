SPECIFICATION PipelineSpec
CONSTANTS
    Recordings = {r1, r2}
    Requests = {q1, q2}
    SqlEvents <- Statements
    MaxSql = 1
    NoRecording = none
    Sentinel = sentinel
    Faults = {}
INVARIANT NoLostEvents
CHECK_DEADLOCK FALSE
