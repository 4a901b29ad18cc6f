SPECIFICATION FairSpec
CONSTANTS
  Length <- MCLength
  Source <- MCSource
  Configs <- MCConfigs
  PRIORITY_CUTOFF = 128
  Genesis = 1
  MaxRequests = 1
  MaxPull = 2
  MaxQueue = 2
  MaxBatch = 2
  Live <- MCLive
INVARIANT PrioritizedXorBlocked
INVARIANT BlockedOnMissing
PROPERTY EventuallySynced
