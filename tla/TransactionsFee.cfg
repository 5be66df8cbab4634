SPECIFICATION Spec
CONSTANTS
    alice = alice
    bob = bob
    Accounts = {alice, bob}
    Endowment <- MCEndowment
    Kinds = {"drain", "pay", "fill", "op", "opFit", "opMax"}
    Call <- MCCall
    HookWeights = {1000, 19500}
    Multipliers = {1, 2}
    MILLIUNIT = 1000
    MICROUNIT = 1
    MAXIMUM_BLOCK_WEIGHT = 20000
    BlockExecutionWeight = 200
    ExtrinsicBaseWeight = 5
    MaxSigned = 3
    MaxRetractions = 1
INVARIANTS
    BaseFeeAsDocumented
