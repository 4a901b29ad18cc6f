SPECIFICATION ActiveSpec
CONSTANTS
    Hash = {1, 2}
    Rep = {own, r1, r2}
    Own = {own}
    NotAnAccount = nobody
    Weight <- EvenWeight
    Delta = 2
    None = None
    MaxElections = 2
    MaxForced = 1
    MaxRetries = 1
INVARIANTS  OwnFinalVotes 
CHECK_DEADLOCK FALSE
