SPECIFICATION LiveSpec
CONSTANTS
    Recordings = {r1, r2}
    Requests = {q1, q2}
    SqlEvents = {e1}
    NoRecording = none
    Sentinel = sentinel
    Faults = {"crash", "storage"}
INVARIANTS TypeOK CaptureComplete RequestStoredFirst DrainEnds
PROPERTIES SealedForever StopWaitsForHandlers
CHECK_DEADLOCK FALSE
