SPECIFICATION Spec
CONSTANTS
    N = 2
    MaxSql = 1
    Canonical <- MockTypes
    Setups <- MCSetups
INVARIANTS TypeOK Accounted LinksFollowRequests EveryStatementCompared  OutcomeRecorded
PROPERTY ReplayWaitsForTarget
CHECK_DEADLOCK FALSE
