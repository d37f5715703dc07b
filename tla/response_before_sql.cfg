SPECIFICATION PipelineSpec
CONSTANTS
    Recordings = {r1}
    Requests = {q1, q2}
    SqlEvents <- Statements
    MaxSql = 1
    NoRecording = none
    Sentinel = sentinel
    Faults = {}
INVARIANT SqlLandsFirst
CHECK_DEADLOCK FALSE
