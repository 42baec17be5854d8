CONSTANTS
  i1 = i1
  i2 = i2
  s1 = s1
  s2 = s2
  x1 = x1
  n1 = n1
  n2 = n2
  g1 = g1
  g2 = g2
  c1 = c1
  c2 = c2
  j1 = j1
  j2 = j2
  None = None
  Ids <- TwoIds
  Streams <- TwoRecords
  StreamOf <- OfOneStream
  Names <- TwoNames
  Configs <- TwoConfigs
  Clients <- TwoClients
  Jobs <- TwoJobs
  MaxEvents = 2
  MaxFaults = 0
  Parts <- JustNames
SPECIFICATION PartsSpec
INVARIANT MissingStreamIsAnError
CHECK_DEADLOCK FALSE
