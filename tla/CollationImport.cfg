SPECIFICATION FairSpec
CONSTANTS
    alice = alice
    bob = bob
    SkewOfBob = 6
    Authorities <- MCAuthorities
    Skew <- MCSkew
    SLOT_DURATION = 2
    RELAY_SLOT_DURATION = 1
    MAX_TIMESTAMP_DRIFT = 5
    StartTime = 4
    MaxTime = 8
    LastBuild = 6
    MaxBlocks = 3
    MaxLost = 1
INVARIANTS
    TypeOK
    HeadNotAheadOfRelay
PROPERTIES
    HeadReachesEveryNode
