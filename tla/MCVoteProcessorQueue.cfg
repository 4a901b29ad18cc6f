SPECIFICATION FairSpec
CONSTANTS
    NoSource = NoSource
    Source <- MCSource
    Rank <- MCRank
    MaxSize <- MCMaxSize
    Priority <- MCPriority
    Channel = {1, 2}
    ChannelOf <- MCChannelOf
    Thread = {t1, t2}
    BatchSize = 2
    MaxVotes = 3
CHECK_DEADLOCK FALSE
INVARIANTS
    FairTurns
    EachVoteOnce
PROPERTIES
    EventuallyProcessed
