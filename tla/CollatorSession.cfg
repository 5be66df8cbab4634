SPECIFICATION Spec
CONSTANTS
    alice = alice
    bob = bob
    carol = carol
    k1 = k1
    k2 = k2
    k3 = k3
    Invulnerables <- MCInvulnerables
    Accounts <- MCAccounts
    Keys <- MCKeys
    GenesisKey <- MCGenesisKey
    Careless <- MCCareless
    DesiredCandidates = 2
    Period = 2
    MinCandidates = 0
    Slots <- MCSlots
    NoKey = NoKey
    Nobody = Nobody
    MaxNumber = 7
    MaxCalls = 6
SYMMETRY KeySymmetry
INVARIANTS
    TypeOK
    SealerCredited
    SealAccepted
    AuthorityKeysDistinct
    InvulnerableAlwaysAuthors
PROPERTIES
    ActiveCandidateKept
