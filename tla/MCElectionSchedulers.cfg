SPECIFICATION FairSpec
CONSTANTS
    Account <- MCAccount
    Length <- MCLength
    Source <- MCSource
    Balance <- MCBalance
    Minimum <- MCMinimum
    Order <- MCOrder
    MaxBlocks = 1
    Reserved = 1
    MaxElections = 1
    Size = 1
    HintedLimit = 1
    OptimisticLimit = 1
    MaxWinners = 2
    GapThreshold = 1
    MaxCandidates = 1
    MaxRecent = 1
    MaxClock = 2
    MaxAsked = 1
    Askable = {2}
INVARIANTS DependenciesFirst
 
CHECK_DEADLOCK FALSE
