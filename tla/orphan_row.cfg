SPECIFICATION PipelineSpec
CONSTANTS
    Recordings = {r1}
    Requests = {q1}
    SqlEvents <- Statements
    MaxSql = 1
    NoRecording = none
    Sentinel = sentinel
    Faults = {"storage"}
PROPERTY StopRecordsOutcome
CHECK_DEADLOCK FALSE
