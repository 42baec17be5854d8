CONSTANTS
  t1 = t1
  t2 = t2
  t3 = t3
  Tasks <- ThreeTasks
  MaxRetries = 3
  StatLimit = 3
  MaxMoves = 2
  MaxApiFaults = 1
  MaxAttempts = 2
  CreateChoices <- CreateOptions
  UpdateChoices <- UpdateOptions
  MaxGiven = 3
  UnitBase = 32
  StreamChoices <- StreamOptions
  StreamUpdates <- StreamUpdateOptions
  DriftSteps <- Drifts
  MaxGivenStream = 3
SPECIFICATION ReportsSpec
INVARIANT EveryDifferenceIsReported
CHECK_DEADLOCK FALSE
