SPECIFICATION Spec
CONSTANTS
    EXISTENTIAL_DEPOSIT = 2
    Fee = 2
    Endowment = 4
    LocalAmount = 3
    Messages = {}
    MaxInstructions = 8
    MaxMessages = 2
INVARIANTS
    TeleportDisabled
