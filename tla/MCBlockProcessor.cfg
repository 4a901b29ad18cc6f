SPECIFICATION ProcessorFairSpec
CONSTANTS
    None = None
    Zero = Zero
    EpochSigner = EpochSigner
    NoSource = NoSource
    NoCaller = NoCaller
    Hash <- ForkHash
    Block <- ForkBlocks
    Account <- MCAccount
    EpochOf <- MCEpochOf
    Genesis = "G"
    GenesisAccount = "g"
    Supply = 4
    PruningEnabled = FALSE
    Source <- MCSource
    Rank <- MCRank
    MaxSize <- MCMaxSize
    Priority <- MCPriority
    MaxUnchecked = 2
    MaxBatch = 2
    Caller = {c1}
    Deliveries <- ForkDeliveries
    Winner <- ForkWinner
    LocalBlock = {"s1"}
    Cementable = {"s1"}
CHECK_DEADLOCK FALSE
INVARIANTS
    ForcedReplaces
PROPERTIES
    
    EventuallyInLedger
