SPECIFICATION Spec
CONSTANTS
    EXISTENTIAL_DEPOSIT = 2
    Fee = 2
    Endowment = 4
    LocalAmount = 3
    Messages <- MCMessages
    MaxInstructions = 8
    MaxMessages = 2
INVARIANTS
    TypeOK
    AssetsConserved
    ExecutionPaid
    ReserveTransferDenied
