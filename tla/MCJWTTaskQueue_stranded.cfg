CONSTANTS
  t1 = t1
  t2 = t2
  t3 = t3
  c1 = c1
  c2 = c2
  None = None
  Tasks <- TwoTasks
  UserTasks <- OneUserTask
  Clients <- TwoClients
  MaxRetries = 3
  BatchLimit = 1
  MaxResets = 1
  MaxFaults = 1
SPECIFICATION Spec
INVARIANT ProcessingMeansBeingProcessed
CHECK_DEADLOCK FALSE
