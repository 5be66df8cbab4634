SPECIFICATION Spec
CONSTANTS
    alice = alice
    bob = bob
    SkewOfBob = 0
    Authorities <- MCAuthorities
    Skew <- MCSkew
    SLOT_DURATION = 2
    RELAY_SLOT_DURATION = 1
    MAX_TIMESTAMP_DRIFT = 5
    StartTime = 5
    MaxTime = 10
    LastBuild = 9
    MaxBlocks = 3
    MaxLost = 0
INVARIANTS
    MinimumBlockTime
