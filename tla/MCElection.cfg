SPECIFICATION MCSpec
CONSTANTS
    Hash = {1, 2, 3}
    own = own
    r1 = r1
    Rep = {own, r1}
    Own = {own}
    NotAnAccount = nobody
    Weight <- StrongRemoteWeight
    Delta = 2
    Time = {1}
    MaxBlocks = 2
    None = None
INVARIANTS FinalQuorum LoopNeverPanics
PROPERTIES ImplementsLifecycle ElectionEnds
CHECK_DEADLOCK FALSE
