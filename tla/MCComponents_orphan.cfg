CONSTANTS
  a1 = a1
  a2 = a2
  u1 = u1
  u2 = u2
  c1 = c1
  c2 = c2
  k1 = k1
  k2 = k2
  k3 = k3
  j1 = j1
  m1 = m1
  x1 = x1
  o1 = o1
  o2 = o2
  s1 = s1
  s2 = s2
  s3 = s3
  None = None
  NoCluster = NoCluster
  Accounts <- TwoAccounts
  Users <- TwoUsers
  Clients <- TwoClients
  Rows <- SixRows
  TableOf <- TheirTables
  Refs <- TheirReferences
  MaxRuns = 3
  Clusters <- TwoClusters
  Hosts <- TwoHosts
  Unsteady <- OneHost
  Handlers <- TwoClients
  MaxEvents = 2
  MaxFaults = 0
  Members <- ThreeMembers
  Strangers <- OneStranger
  MaxGateways = 3
  MaxChanges = 1
  Servers <- ThreeServers
  MaxExpected = 3
  Parts <- JustUsers
SPECIFICATION PartsSpec
INVARIANT NoOrphans
CHECK_DEADLOCK FALSE
