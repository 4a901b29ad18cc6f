SPECIFICATION FairSpec
CONSTANTS
    None = None
    Zero = Zero
    EpochSigner = EpochSigner
    Hash <- MCHash
    Block <- MCBlock
    Account <- MCAccount
    EpochOf <- MCEpochOf
    Genesis = "G"
    GenesisAccount = "g"
    Supply = 4
    PruningEnabled = TRUE
INVARIANTS
    LedgerIntact
    DependenciesPresent
    
    
    ConfirmedClosed
    PruningSafe
PROPERTIES
    CementedForever
    RollbackOutcome
    RollbackTerminates
