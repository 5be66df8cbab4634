SPECIFICATION Spec
CONSTANTS
    Chains = {"", "--dev", "dev", "custom.json"}
    RelayChains = {"", "--dev"}
    MaxCommands = 4
INVARIANTS
    TypeOK
    NodeBuildsOnRegistered
    PurgeForgets
