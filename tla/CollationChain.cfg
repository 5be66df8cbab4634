SPECIFICATION Spec
CONSTANTS
    alice = alice
    bob = bob
    SkewOfBob = 1
    Authorities <- MCAuthorities
    Skew <- MCSkew
    SLOT_DURATION = 4
    RELAY_SLOT_DURATION = 1
    MAX_TIMESTAMP_DRIFT = 5
    StartTime = 4
    MaxTime = 9
    LastBuild = 9
    MaxBlocks = 4
    MaxLost = 0
INVARIANTS
    RelayNumberNeverStale
    AverageBlockTime
    InTurnAuthorAccepted
PROPERTIES
    ImplementsIncludedChain
