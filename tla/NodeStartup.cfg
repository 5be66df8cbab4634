SPECIFICATION ProcessFairSpec
INVARIANTS
    ProcessTypeOK
    ExpectHolds
    NetworkStartsLast
PROPERTIES
    DeathStopsNode
CHECK_DEADLOCK FALSE
