SPECIFICATION SetSpec
CONSTANTS
    None = None
    Zero = Zero
    EpochSigner = EpochSigner
    Hash <- PayBackHash
    Block <- PayBackBlocks
    Account <- MCAccount
    EpochOf <- MCEpochOf
    Genesis = "G"
    GenesisAccount = "g"
    Supply = 4
    PruningEnabled = FALSE
    MaxBlocks = 2
    Winners = {"s1", "ob"}
    BatchSize = 1
    MaxQueuedNotifications = 1
PROPERTY RemainUntilConfirmed
