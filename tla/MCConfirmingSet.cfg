SPECIFICATION FairSetSpec
CONSTANTS
    None = None
    Zero = Zero
    EpochSigner = EpochSigner
    Hash <- PayBackHash
    Block <- PayBackBlocks
    Account <- MCAccount
    EpochOf <- MCEpochOf
    Genesis = "G"
    GenesisAccount = "g"
    Supply = 4
    PruningEnabled = FALSE
    MaxBlocks = 3
    Winners = {"rf"}
    BatchSize = 4
    MaxQueuedNotifications = 1
INVARIANTS
    CementedNotifiedOnce
    NotifiedDurable
PROPERTIES
    EventuallyNotified
