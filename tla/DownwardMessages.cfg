SPECIFICATION FairSpec
CONSTANTS
    MAXIMUM_BLOCK_WEIGHT = 500
    MaxIndividual = 10
    UnitWeightCost = 1
    Messages <- MCMessages
    IdleWeights = {0, 300}
    QuietIdle = 300
    MaxMessages = 4
INVARIANTS
    MessagesInOrder
PROPERTIES
    OrdinaryMessagesExecuted
    QuietBlocksEndStall
