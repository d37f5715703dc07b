SPECIFICATION FairSpec
CONSTANTS
    Recordings = {r1}
    Requests = {q1, q2}
    SqlEvents <- Statements
    MaxSql = 2
    NoRecording = none
    Sentinel = sentinel
    Faults = {}
INVARIANTS GapFree NoLostEvents SqlAccounted
PROPERTIES FollowsLifecycle StopCompletes
CHECK_DEADLOCK FALSE
