CONSTANTS
  t1 = t1
  t2 = t2
  t3 = t3
  c1 = c1
  c2 = c2
  None = None
  Tasks <- ThreeTasks
  UserTasks <- OneUserTask
  Clients <- TwoClients
  MaxRetries = 2
  BatchLimit = 2
  MaxResets = 1
  MaxFaults = 1
SPECIFICATION FairSpec
INVARIANT TypeOK
INVARIANT OwnedRowsAreCurrent
INVARIANT RowsTellTheTruth
INVARIANT StrandedOnlyByFaults
PROPERTY ImplementsLifecycle
PROPERTY EverySettles
CHECK_DEADLOCK FALSE
