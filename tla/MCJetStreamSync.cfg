CONSTANTS
  i1 = i1
  i2 = i2
  n1 = n1
  n2 = n2
  g1 = g1
  g2 = g2
  c1 = c1
  c2 = c2
  j1 = j1
  j2 = j2
  None = None
  Ids <- TwoIds
  Names <- OneName
  Configs <- TwoConfigs
  Clients <- TwoClients
  Jobs <- TwoJobs
  MaxFaults = 1
SPECIFICATION FairSpec
INVARIANT PendingIsBeingSynced
INVARIANT SyncedMeansInSync
INVARIANT OneRecordPerName
PROPERTY EverySyncEnds
CHECK_DEADLOCK FALSE
