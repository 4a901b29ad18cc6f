SPECIFICATION QueueFairSpec
CONSTANTS
    ConfirmationHeight = ConfirmationHeight
    BlockProcessor = BlockProcessor
    VotingFinal = VotingFinal
    Pruning = Pruning
    PeerCache = PeerCache
    Writers <- MCWriters
    Notifiers <- MCNotifiers
    Outsiders <- MCOutsiders
    NoOwner = NoOwner
INVARIANTS
    GuardExclusive
    NoTxWhileWaiting
PROPERTIES
    EveryWaiterServed
