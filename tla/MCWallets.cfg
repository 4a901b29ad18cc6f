SPECIFICATION FairSpec
CONSTANTS
  w1 = w1
  w2 = w2
  a1 = a1
  a2 = a2
  s1 = s1
  s2 = s2
  e1 = e1
  p1 = p1
  Wallet = {w1, w2}
  Account = {a1, a2}
  Destination = {d1}
  Caller = {c1}
  SendId = {i1}
  Password = {p1}
  Zero = Zero
  Empty = Empty
  None = None
  Fresh = Fresh
  Gone = Gone
  Derived <- MCDerived
  External <- MCExternal
  InitStore <- MCInitStore
  InitChain <- MCInitChain
  Imported <- MCImported
  MaxOps = 3
INVARIANT OneSendPerId
PROPERTY KeysKept
PROPERTY SyncReturns
PROPERTY EventuallyReceived
CHECK_DEADLOCK FALSE
