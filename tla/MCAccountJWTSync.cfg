CONSTANTS
  t1 = t1
  t2 = t2
  c1 = c1
  h1 = h1
  h2 = h2
  a1 = a1
  a2 = a2
  k1 = k1
  k2 = k2
  x = x
  y = y
  None = None
  Tasks <- TwoTasks
  UserTasks = {}
  Clients <- OneClient
  MaxRetries = 2
  BatchLimit = 2
  MaxResets = 1
  MaxFaults = 1
  Accounts <- TwoAccounts
  SystemAccounts <- TheSecondAccount
  Clusters <- TwoClusters
  Origin <- FirstIsOrigin
  Items <- TwoItems
  Handlers <- TwoHandlers
  Requests <- TheRequests
  MayReject = FALSE
  Parts <- PushesAndEdits
SPECIFICATION PartsSpec
INVARIANT DriftIsCovered
INVARIANT CompletedMeansDelivered
INVARIANT NoLostUpdate
PROPERTY ResolverNeverGoesBack
PROPERTY ImplementsQueue
PROPERTY EventuallyInSync
CHECK_DEADLOCK FALSE
