------------------------------ MODULE ClusterProofs -------------------------------
(***************************************************************************)
(* Clusters.  ClusterMonitor, for any clusters, hosts, requests and        *)
(* bounds.  RequestMessage and its collector, for any servers and any      *)
(* number of expected answers: which answers a listing may lack, and that  *)
(* the process dies only of surplus answers.  GetClusterTopology, for any  *)
(* clusters, gateways and changes between the fetches: every cluster is    *)
(* listed once, and with what it is connected with.                        *)
(***************************************************************************)
EXTENDS ClusterMonitor, RequestCollector, ClusterTopology, FiniteSetTheorems, TLAPS

USE MonitorAssumption

-----------------------------------------------------------------------------
(* Types.                                                                  *)

\* What each kind of request holds.
LEMMA RequestFields ==
  ASSUME NEW r \in Request
  PROVE  /\ r.at \in {"idle", "save", "test", "record", "health", "list", "shown"}
         /\ r.at = "save" =>
              /\ r.id \in Clusters /\ r.copy \in Cluster
              /\ \/ r.field = "status" /\ r.value \in Statuses
                 \/ r.field = "host" /\ r.value \in Hosts
         /\ r.at = "test" => r.copy \in Copy
         /\ r.at = "record" => r.check \in Check
         /\ r.at = "health" => r.total \in Nat /\ r.known \in SUBSET Clusters
         /\ r.at \in {"list", "shown"} =>
              r.known \in SUBSET Clusters /\ r.sick \in Nat /\ r.unknown \in Int
         /\ r.at = "shown" => r.listed \in SUBSET Clusters
BY DEF Request

\* What the loop holds.
LEMMA LoopFields ==
  ASSUME NEW l \in Loop
  PROVE  /\ l.at \in {"top", "sleep", "ended", "next", "record"}
         /\ l.todo \in SUBSET Copy
         /\ l.at \in {"top", "sleep", "ended"} => l.todo = {}
         /\ l.at = "record" => l.check \in Check
BY DEF Loop

\* An idle handler accepts a request.
LEMMA Accepted ==
  ASSUME MonitorTypeOK, NEW h, NEW state, AcceptRequest(h, state)
  PROVE  /\ h \in Handlers /\ req[h] = IdleRequest
         /\ req' = [req EXCEPT ![h] = state]
         /\ asked' \in 0..MaxEvents
<1>1. Handlers \ Busy # {}
  BY DEF AcceptRequest, Busy
<1>2. h \in Handlers \ Busy
  BY <1>1 DEF AcceptRequest
<1>3. asked' \in 0..MaxEvents
  BY DEF AcceptRequest, MonitorTypeOK
<1> QED BY <1>2, <1>3 DEF AcceptRequest, Busy

\* A fault is counted.
LEMMA Faulted ==
  ASSUME MonitorTypeOK
  PROVE  /\ MonitorFault => monitorFaults' \in 0..MaxFaults /\ monitorFaults' > 0
         /\ NoMonitorFault => monitorFaults' = monitorFaults
                              /\ monitorFaults' \in 0..MaxFaults
BY DEF MonitorTypeOK, MonitorFault, NoMonitorFault

\* An idle request has seen nothing.
LEMMA Idle ==
  IdleRequest \in Request /\ IdleRequest.at = "idle" /\ Seen(IdleRequest) = {}
<1>1. IdleRequest \in Request /\ IdleRequest.at = "idle"
  BY DEF IdleRequest, Request
<1> QED BY <1>1 DEF Seen

\* A step of a request that leaves clusters and loop alone.
LEMMA RequestTypes ==
  ASSUME MonitorTypeOK, NEW h \in Handlers, NEW s \in Request, Seen(s) \subseteq Known,
         req' = [req EXCEPT ![h] = s],
         recorded' \subseteq Known, failing' \subseteq Known,
         disturbed' \in SUBSET Clusters,
         asked' \in 0..MaxEvents, monitorFaults' \in 0..MaxFaults,
         UNCHANGED <<cluster, promised, up, loop, stopped, late>>
  PROVE  MonitorTypeOK'
<1>1. Known' = Known
  BY DEF Known
<1>2. req' \in [Handlers -> Request]
  BY DEF MonitorTypeOK
<1>3. \A g \in Handlers : Seen(req'[g]) \subseteq Known
  <2> TAKE g \in Handlers
  <2>1. CASE g = h
    BY <2>1 DEF MonitorTypeOK
  <2>2. CASE g # h
    BY <2>2 DEF MonitorTypeOK
  <2> QED BY <2>1, <2>2
<1>4. \A g \in Handlers : Seen(req[g])' \subseteq Known'
  BY <1>1, <1>3 DEF Seen
<1> QED BY <1>1, <1>2, <1>4 DEF MonitorTypeOK

\* A step of the loop.
LEMMA LoopTypes ==
  ASSUME MonitorTypeOK, loop' \in Loop,
         \A k \in loop'.todo : k.id \in Known,
         loop'.at = "record" => loop'.check.copy.id \in Known,
         recorded' \subseteq Known, failing' \subseteq Known,
         late' \in [Clusters -> 0..2], monitorFaults' \in 0..MaxFaults,
         UNCHANGED <<cluster, promised, up, stopped, req, disturbed, asked>>
  PROVE  MonitorTypeOK'
<1>1. Known' = Known
  BY DEF Known
<1>2. \A g \in Handlers : Seen(req[g])' \subseteq Known'
  BY <1>1 DEF Seen, MonitorTypeOK
<1> QED BY <1>1, <1>2 DEF MonitorTypeOK

\* A step that writes one cluster.
LEMMA ClusterTypes ==
  ASSUME MonitorTypeOK, NEW c \in Clusters, NEW x \in Cluster, NEW y \in Cluster,
         cluster' = [cluster EXCEPT ![c] = x],
         promised' = [promised EXCEPT ![c] = y],
         req' \in [Handlers -> Request],
         \A h \in Handlers : req'[h] \in {req[h], IdleRequest},
         late' \in [Clusters -> 0..2], asked' \in 0..MaxEvents,
         UNCHANGED <<up, recorded, loop, stopped, failing, disturbed, monitorFaults>>
  PROVE  MonitorTypeOK'
<1>1. x # NoCluster /\ y # NoCluster
  OBVIOUS
<1>2. Known \subseteq Known'
  BY <1>1 DEF Known, MonitorTypeOK
<1>3. \A h \in Handlers : Seen(req'[h]) \subseteq Known
  BY Idle DEF MonitorTypeOK
<1>4. \A h \in Handlers : Seen(req[h])' \subseteq Known'
  BY <1>2, <1>3 DEF Seen
<1>5. /\ cluster' \in [Clusters -> Cluster \union {NoCluster}]
      /\ promised' \in [Clusters -> Cluster \union {NoCluster}]
  BY DEF MonitorTypeOK
<1> QED BY <1>2, <1>4, <1>5 DEF MonitorTypeOK

\* The first state.
LEMMA TypesInit == MonitorInit => MonitorTypeOK
<1> SUFFICES ASSUME MonitorInit PROVE MonitorTypeOK
  OBVIOUS
<1>1. PICK a \in Hosts : cluster \in [Clusters -> {NoCluster, [status |-> "active", host |-> a]}]
  BY DEF MonitorInit
<1>2. [status |-> "active", host |-> a] \in Cluster
  BY <1>1 DEF Cluster, Statuses
<1>3. cluster \in [Clusters -> Cluster \union {NoCluster}]
  BY <1>1, <1>2
<1>4. loop \in Loop /\ loop.todo = {} /\ loop.at = "top"
  BY DEF MonitorInit, Loop
<1>5. \A h \in Handlers : Seen(req[h]) \subseteq Known
  BY Idle DEF MonitorInit
<1>6. req \in [Handlers -> Request]
  BY Idle DEF MonitorInit
<1>7. /\ up \in SUBSET Hosts /\ promised = cluster /\ stopped \in BOOLEAN
      /\ asked \in 0..MaxEvents /\ monitorFaults \in 0..MaxFaults
      /\ late \in [Clusters -> 0..2]
  <2>1. up \in {Hosts \ off : off \in SUBSET Unsteady}
    BY DEF MonitorInit
  <2>2. late = [c \in Clusters |-> 0]
    BY DEF MonitorInit
  <2>3. late \in [Clusters -> 0..2]
    BY <2>2
  <2>4. promised = cluster /\ stopped = FALSE /\ asked = 0 /\ monitorFaults = 0
    BY DEF MonitorInit
  <2>5. up \in SUBSET Hosts
    BY <2>1
  <2>6. stopped \in BOOLEAN
    BY <2>4
  <2>7. asked \in 0..MaxEvents /\ monitorFaults \in 0..MaxFaults
    BY <2>4
  <2> QED BY <2>3, <2>4, <2>5, <2>6, <2>7
<1>8. recorded = {} /\ failing = {} /\ disturbed = {}
  BY DEF MonitorInit
<1> QED BY <1>3, <1>4, <1>5, <1>6, <1>7, <1>8 DEF MonitorTypeOK

\* CreateCluster keeps the types.
LEMMA CreateClusterTypes ==
  ASSUME MonitorTypeOK, NEW c \in Clusters, NEW a \in Hosts, CreateCluster(c, a)
  PROVE  MonitorTypeOK'
<1>1. PICK x : x = [status |-> "active", host |-> a]
  OBVIOUS
<1>2. x \in Cluster
  BY <1>1 DEF Cluster, Statuses
<1>3. cluster' = [cluster EXCEPT ![c] = x] /\ promised' = [promised EXCEPT ![c] = x]
  BY <1>1 DEF CreateCluster, MonitorTypeOK
<1>4. asked' \in 0..MaxEvents
  BY DEF CreateCluster, MonitorTypeOK
<1> QED BY <1>2, <1>3, <1>4, ClusterTypes DEF CreateCluster, MonitorTypeOK

\* A copy of a known cluster.
LEMMA CopyTypes ==
  ASSUME MonitorTypeOK, NEW c \in Known
  PROVE  CopyOf(c) \in Copy /\ CopyOf(c).id = c
BY DEF MonitorTypeOK, Known, CopyOf, Copy, Cluster

\* The read half of an update keeps the types.
LEMMA LoadClusterTypes ==
  ASSUME MonitorTypeOK, NEW h, NEW c, NEW f, NEW v, LoadCluster(h, c, f, v),
         (f = "status" /\ v \in Statuses) \/ (f = "host" /\ v \in Hosts)
  PROVE  MonitorTypeOK'
<1>1. PICK s : s = [at |-> "save", id |-> c, field |-> f, value |-> v,
                   copy |-> cluster[c]]
  OBVIOUS
<1>2. /\ c \in Known /\ c \in Clusters /\ cluster[c] \in Cluster
      /\ AcceptRequest(h, s)
  BY <1>1 DEF LoadCluster, Known, MonitorTypeOK
<1>3. s \in Request
  BY <1>1, <1>2 DEF Request
<1>4. Seen(s) \subseteq Known
  BY <1>1, <1>2 DEF Seen
<1>5. disturbed' \in SUBSET Clusters
  BY <1>2 DEF LoadCluster, MonitorTypeOK
<1>6. /\ UNCHANGED <<cluster, promised, up, loop, stopped, late, recorded, failing,
                     monitorFaults>>
      /\ recorded \subseteq Known /\ failing \subseteq Known
      /\ monitorFaults \in 0..MaxFaults
  BY DEF LoadCluster, MonitorTypeOK
<1>7. h \in Handlers /\ req' = [req EXCEPT ![h] = s] /\ asked' \in 0..MaxEvents
  BY <1>2, Accepted
<1> QED BY <1>3, <1>4, <1>5, <1>6, <1>7, RequestTypes

\* The write half of an update keeps the types.
LEMMA SaveClusterTypes ==
  ASSUME MonitorTypeOK, NEW h \in Handlers, SaveCluster(h)
  PROVE  MonitorTypeOK'
<1> DEFINE c == req[h].id
           saved == Changed(req[h].copy, req[h].field, req[h].value)
<1>1. /\ req[h] \in Request /\ req[h].at = "save" /\ c \in Clusters
      /\ req[h].copy \in Cluster
      /\ \/ req[h].field = "status" /\ req[h].value \in Statuses
         \/ req[h].field = "host" /\ req[h].value \in Hosts
  BY RequestFields DEF SaveCluster, MonitorTypeOK
<1>2. c \in Known
  BY <1>1 DEF MonitorTypeOK, Seen
<1>3. /\ req' = [req EXCEPT ![h] = IdleRequest]
      /\ UNCHANGED <<up, recorded, loop, stopped, failing, disturbed, asked>>
  BY DEF SaveCluster, Reply
<1>4. CASE /\ NoMonitorFault
           /\ cluster' = [cluster EXCEPT ![c] = saved]
           /\ promised' = [promised EXCEPT
                ![c] = IF req[h].field = "status" THEN [@ EXCEPT !.status = req[h].value]
                                                  ELSE [@ EXCEPT !.host = req[h].value]]
           /\ late' = [late EXCEPT ![c] = IF saved.status = "active" THEN 0 ELSE @]
  <2>1. saved \in Cluster
    BY <1>1 DEF Changed, Cluster
  <2>2. promised[c] \in Cluster
    BY <1>1, <1>2 DEF MonitorTypeOK, Known
  <2>3. PICK y : y = IF req[h].field = "status" THEN [promised[c] EXCEPT !.status = req[h].value]
                     ELSE [promised[c] EXCEPT !.host = req[h].value]
    OBVIOUS
  <2>4. y \in Cluster
    BY <1>1, <2>2, <2>3 DEF Cluster
  <2>5. promised' = [promised EXCEPT ![c] = y]
    BY <1>1, <1>4, <2>3 DEF MonitorTypeOK
  <2> HIDE DEF saved, c
  <2>6. late' \in [Clusters -> 0..2]
    BY <1>1, <1>4 DEF MonitorTypeOK
  <2>7. \A g \in Handlers : req'[g] \in {req[g], IdleRequest}
    BY <1>3 DEF MonitorTypeOK
  <2>8. req' \in [Handlers -> Request] /\ asked' \in 0..MaxEvents
    BY <1>3, Idle DEF MonitorTypeOK
  <2> QED BY <1>1, <1>3, <1>4, <2>1, <2>4, <2>5, <2>6, <2>7, <2>8, ClusterTypes
          DEF NoMonitorFault
<1>5. CASE MonitorFault /\ UNCHANGED <<cluster, promised, late>>
  BY <1>3, <1>5, Idle, Faulted, RequestTypes DEF MonitorTypeOK
<1> QED BY <1>4, <1>5 DEF SaveCluster

\* The monitoring loop keeps the types.
LEMMA LoopStepTypes ==
  ASSUME MonitorTypeOK, MonitorLoop
  PROVE  MonitorTypeOK'
<1>1. /\ loop \in Loop /\ loop.todo \in SUBSET Copy /\ monitorFaults \in 0..MaxFaults
      /\ recorded \subseteq Known /\ failing \subseteq Known
      /\ late \in [Clusters -> 0..2]
      /\ UNCHANGED <<cluster, promised, up, stopped, req, disturbed, asked>>
  BY LoopFields DEF MonitorTypeOK, MonitorLoop, BeginRound, TestNext, RecordHealth,
                    EndRound, history
<1>2. CASE BeginRound
  <2>1. UNCHANGED <<recorded, failing, late>>
    BY <1>2 DEF BeginRound, history
  <2>2. monitorFaults' \in 0..MaxFaults
    BY <1>2, Faulted DEF BeginRound, MonitorTypeOK
  <2>3. CASE loop' = [at |-> "next", todo |-> {CopyOf(c) : c \in ListedNow}]
    <3>1. \A k \in loop'.todo : k \in Copy /\ k.id \in Known
      BY <2>3, CopyTypes DEF ListedNow, Active
    <3>2. loop' \in Loop /\ loop'.at = "next"
      BY <2>3, <3>1 DEF Loop
    <3> QED BY <1>1, <2>1, <2>2, <3>1, <3>2, LoopTypes
  <2>4. CASE \E a \in {"ended", "sleep"} : loop' = [at |-> a, todo |-> {}]
    <3>1. loop' \in Loop /\ loop'.at # "record" /\ loop'.todo = {}
      BY <2>4 DEF Loop
    <3> QED BY <1>1, <2>1, <2>2, <3>1, LoopTypes
  <2> QED BY <1>2, <2>3, <2>4 DEF BeginRound
<1>3. CASE TestNext
  <2>1. PICK k \in loop.todo, ok \in BOOLEAN :
          /\ TestClusterConnection(k.id, ok)
          /\ loop' = [at |-> "record", todo |-> loop.todo \ {k},
                      check |-> [copy |-> k, ok |-> ok]]
          /\ failing' = Failing(k.id, ok)
    BY <1>3 DEF TestNext
  <2>2. k \in Copy /\ k.id \in Known
    BY <1>1, <2>1 DEF MonitorTypeOK
  <2>3. [copy |-> k, ok |-> ok] \in Check
    BY <2>2 DEF Check
  <2>4. loop' \in Loop /\ loop'.todo \subseteq loop.todo /\ loop'.check.copy = k
    BY <1>1, <2>1, <2>3 DEF Loop
  <2>5. failing' \subseteq Known /\ monitorFaults' \in 0..MaxFaults
    BY <1>1, <2>1, <2>2, Faulted DEF Failing, TestClusterConnection
  <2>6. UNCHANGED <<recorded, late>>
    BY <1>3 DEF TestNext, history
  <2> QED BY <1>1, <2>2, <2>4, <2>5, <2>6, LoopTypes DEF MonitorTypeOK
<1>4. CASE RecordHealth
  <2>1. loop' = [at |-> "next", todo |-> loop.todo] /\ loop.at = "record"
    BY <1>4 DEF RecordHealth
  <2>2. loop' \in Loop /\ loop'.todo = loop.todo /\ loop'.at = "next"
    BY <1>1, <2>1 DEF Loop
  <2>3. loop.check.copy.id \in Known
    BY <2>1 DEF MonitorTypeOK
  <2>4. recorded' \subseteq Known /\ failing' = failing
    BY <1>1, <1>4, <2>3 DEF RecordHealth, Recorded
  <2>5. monitorFaults' \in 0..MaxFaults
    BY <1>4, Faulted DEF RecordHealth
  <2>6. late' \in [Clusters -> 0..2]
    BY <1>1, <1>4 DEF RecordHealth
  <2> QED BY <1>1, <2>2, <2>4, <2>5, <2>6, LoopTypes DEF MonitorTypeOK
<1>5. CASE EndRound
  <2>1. loop' \in Loop /\ loop'.at # "record" /\ loop'.todo = {}
    BY <1>5 DEF EndRound, Loop
  <2>2. UNCHANGED <<recorded, failing, late, monitorFaults>>
    BY <1>5 DEF EndRound, history
  <2> QED BY <1>1, <2>1, <2>2, LoopTypes
<1> QED BY <1>2, <1>3, <1>4, <1>5 DEF MonitorLoop

\* A check by hand keeps the types.
LEMMA CheckByHandTypes ==
  ASSUME MonitorTypeOK, NEW h \in Handlers,
         (\E c \in Clusters : ReadForCheck(h, c)) \/ TestByHand(h) \/ RecordByHand(h)
  PROVE  MonitorTypeOK'
<1>1. /\ recorded \subseteq Known /\ failing \subseteq Known
      /\ disturbed \in SUBSET Clusters /\ asked \in 0..MaxEvents
      /\ monitorFaults \in 0..MaxFaults /\ req \in [Handlers -> Request]
  BY DEF MonitorTypeOK
<1>2. UNCHANGED <<cluster, promised, up, loop, stopped, late, disturbed>>
  BY DEF ReadForCheck, TestByHand, RecordByHand, history
<1>3. ASSUME NEW c \in Clusters, ReadForCheck(h, c)
      PROVE  MonitorTypeOK'
  <2>1. PICK s : s = [at |-> "test", copy |-> CopyOf(c)]
    OBVIOUS
  <2>2. c \in Known /\ AcceptRequest(h, s)
    BY <1>3, <2>1 DEF ReadForCheck
  <2>3. s \in Request /\ s.at = "test" /\ s.copy.id = c
    BY <2>1, <2>2, CopyTypes DEF Request
  <2>4. Seen(s) \subseteq Known
    BY <2>2, <2>3 DEF Seen
  <2>5. req' = [req EXCEPT ![h] = s] /\ asked' \in 0..MaxEvents
    BY <2>2, Accepted
  <2> QED BY <1>1, <1>2, <1>3, <2>3, <2>4, <2>5, RequestTypes DEF ReadForCheck
<1>4. CASE TestByHand(h)
  <2>1. PICK ok \in BOOLEAN :
          /\ TestClusterConnection(req[h].copy.id, ok)
          /\ req' = [req EXCEPT ![h] =
               [at |-> "record", check |-> [copy |-> @.copy, ok |-> ok]]]
          /\ failing' = Failing(req[h].copy.id, ok)
    BY <1>4 DEF TestByHand
  <2>2. req[h].at = "test" /\ req[h].copy \in Copy
    BY <1>1, <1>4, RequestFields DEF TestByHand
  <2>3. req[h].copy.id \in Known
    BY <2>2 DEF MonitorTypeOK, Seen
  <2>4. PICK x : x = [copy |-> req[h].copy, ok |-> ok]
    OBVIOUS
  <2>5. x \in Check /\ x.copy = req[h].copy
    BY <2>2, <2>4 DEF Check
  <2>6. PICK s : s = [at |-> "record", check |-> x]
    OBVIOUS
  <2>7. s \in Request /\ s.at = "record" /\ s.check.copy.id \in Known
    BY <2>3, <2>5, <2>6 DEF Request
  <2>8. Seen(s) \subseteq Known
    BY <2>7 DEF Seen
  <2>9. req' = [req EXCEPT ![h] = s]
    BY <1>1, <2>1, <2>4, <2>6
  <2>10. failing' \subseteq Known /\ monitorFaults' \in 0..MaxFaults
    BY <1>1, <2>1, <2>3, Faulted DEF Failing, TestClusterConnection
  <2> QED BY <1>1, <1>2, <1>4, <2>7, <2>8, <2>9, <2>10, RequestTypes DEF TestByHand
<1>5. CASE RecordByHand(h)
  <2>1. req[h].at = "record" /\ req' = [req EXCEPT ![h] = IdleRequest]
    BY <1>5 DEF RecordByHand, Reply
  <2>2. req[h].check.copy.id \in Known
    BY <2>1 DEF MonitorTypeOK, Seen
  <2>3. recorded' \subseteq Known /\ monitorFaults' \in 0..MaxFaults
    BY <1>1, <1>5, <2>2, Faulted DEF RecordByHand, Recorded
  <2>4. UNCHANGED <<failing, asked>>
    BY <1>5 DEF RecordByHand
  <2> QED BY <1>1, <1>2, <2>1, <2>3, <2>4, Idle, RequestTypes
<1> QED BY <1>3, <1>4, <1>5

\* The clusters that are known are finitely many.
LEMMA Counted ==
  ASSUME NEW S \in SUBSET Clusters
  PROVE  IsFiniteSet(S) /\ Cardinality(S) \in Nat
BY FS_Subset, FS_CardinalityType

\* The dashboard keeps the types.
LEMMA DashboardTypes ==
  ASSUME MonitorTypeOK, NEW h \in Handlers,
         CountClusters(h) \/ CountHealth(h) \/ ListUnhealthy(h) \/ ShowDashboard(h)
  PROVE  MonitorTypeOK'
<1>1. /\ recorded \subseteq Known /\ failing \subseteq Known
      /\ disturbed \in SUBSET Clusters /\ asked \in 0..MaxEvents
      /\ monitorFaults \in 0..MaxFaults /\ req \in [Handlers -> Request]
      /\ Known \in SUBSET Clusters /\ recorded \in SUBSET Clusters
  BY DEF MonitorTypeOK, Known
<1>2. UNCHANGED <<cluster, promised, up, loop, stopped, late, disturbed, recorded,
                  failing, monitorFaults>>
  BY DEF CountClusters, CountHealth, ListUnhealthy, ShowDashboard, history
<1>3. Seen(req[h]) \subseteq Known
  BY DEF MonitorTypeOK
<1>4. CASE CountClusters(h)
  <2>1. PICK s : s = [at |-> "health", total |-> Cardinality(Known), known |-> Known]
    OBVIOUS
  <2>2. s \in Request /\ s.at = "health" /\ s.known = Known
    BY <1>1, <2>1, Counted DEF Request
  <2>3. Seen(s) \subseteq Known
    BY <2>2 DEF Seen
  <2>4. req' = [req EXCEPT ![h] = s] /\ asked' \in 0..MaxEvents
    BY <1>4, <2>1, Accepted DEF CountClusters
  <2> QED BY <1>1, <1>2, <2>2, <2>3, <2>4, RequestTypes
<1>5. CASE CountHealth(h)
  <2>1. PICK n : n = Cardinality(Unhealthy)
    OBVIOUS
  <2>2. n \in Nat
    BY <1>1, <2>1, Counted DEF Unhealthy
  <2>3. req[h].at = "health" /\ req[h].known \in SUBSET Clusters /\ req[h].total \in Nat
    BY <1>1, <1>5, RequestFields DEF CountHealth
  <2>4. PICK s : s = [at |-> "list", known |-> req[h].known, sick |-> n,
                      unknown |-> req[h].total - n]
    OBVIOUS
  <2>5. s \in Request /\ s.at = "list" /\ s.known = req[h].known
    BY <2>2, <2>3, <2>4 DEF Request
  <2>6. Seen(s) \subseteq Known
    BY <1>3, <2>3, <2>5 DEF Seen
  <2>7. req' = [req EXCEPT ![h] = s] /\ asked' = asked
    BY <1>1, <1>5, <2>1, <2>4 DEF CountHealth
  <2> QED BY <1>1, <1>2, <2>5, <2>6, <2>7, RequestTypes
<1>6. CASE ListUnhealthy(h)
  <2>1. /\ req[h].at = "list" /\ req[h].known \in SUBSET Clusters
        /\ req[h].sick \in Nat /\ req[h].unknown \in Int
    BY <1>1, <1>6, RequestFields DEF ListUnhealthy
  <2>2. PICK s : s = [at |-> "shown", known |-> req[h].known, sick |-> req[h].sick,
                      unknown |-> req[h].unknown, listed |-> Unhealthy]
    OBVIOUS
  <2>3. s \in Request /\ s.at = "shown" /\ s.known = req[h].known /\ s.listed = recorded
    BY <1>1, <2>1, <2>2 DEF Request, Unhealthy
  <2>4. Seen(s) \subseteq Known
    BY <1>1, <1>3, <2>1, <2>3 DEF Seen
  <2>5. req' = [req EXCEPT ![h] = s] /\ asked' = asked
    BY <1>1, <1>6, <2>2 DEF ListUnhealthy
  <2> QED BY <1>1, <1>2, <2>3, <2>4, <2>5, RequestTypes
<1>7. CASE ShowDashboard(h)
  BY <1>1, <1>2, <1>7, Idle, RequestTypes DEF ShowDashboard, Reply
<1> QED BY <1>4, <1>5, <1>6, <1>7

\* The rest of the world: hosts, the end of the process, its death.
LEMMA WorldTypes ==
  ASSUME MonitorTypeOK,
         \/ StopMonitoring \/ MonitorCrash \/ UNCHANGED monitorVars
         \/ \E a \in Unsteady : HostChanges(a)
  PROVE  MonitorTypeOK'
<1>1. /\ up' \in SUBSET Hosts /\ stopped' \in BOOLEAN
      /\ UNCHANGED <<cluster, promised, recorded, failing, late, disturbed, asked>>
  BY DEF MonitorTypeOK, StopMonitoring, MonitorCrash, monitorVars, HostChanges, history
<1>2. Known' = Known
  BY <1>1 DEF Known
<1>3. monitorFaults' \in 0..MaxFaults
  BY Faulted DEF MonitorTypeOK, StopMonitoring, MonitorCrash, monitorVars, HostChanges
<1>4. \/ UNCHANGED <<loop, req>>
      \/ loop' = [at |-> "top", todo |-> {}] /\ req' = [h \in Handlers |-> IdleRequest]
  BY DEF StopMonitoring, MonitorCrash, monitorVars, HostChanges
<1>5. req' \in [Handlers -> Request] /\ \A h \in Handlers : Seen(req'[h]) \subseteq Known
  BY <1>4, Idle DEF MonitorTypeOK
<1>6. \A h \in Handlers : Seen(req[h])' \subseteq Known'
  BY <1>2, <1>5 DEF Seen
<1>7. /\ loop' \in Loop /\ \A k \in loop'.todo : k.id \in Known
      /\ loop'.at = "record" => loop'.check.copy.id \in Known
  <2>1. CASE UNCHANGED loop
    BY <2>1 DEF MonitorTypeOK
  <2>2. CASE loop' = [at |-> "top", todo |-> {}]
    BY <2>2 DEF Loop
  <2> QED BY <1>4, <2>1, <2>2
<1> QED BY <1>1, <1>2, <1>3, <1>5, <1>6, <1>7 DEF MonitorTypeOK

\* The steps, by what they do.
LEMMA Steps ==
  ASSUME [MonitorNext]_monitorVars
  PROVE  \/ MonitorLoop
         \/ \E c \in Clusters, a \in Hosts : CreateCluster(c, a)
         \/ \E h \in Handlers, c \in Clusters, a \in Hosts : LoadCluster(h, c, "host", a)
         \/ \E h \in Handlers, c \in Clusters, s \in Statuses :
              LoadCluster(h, c, "status", s)
         \/ \E h \in Handlers : SaveCluster(h)
         \/ \E h \in Handlers :
              \/ \E c \in Clusters : ReadForCheck(h, c)
              \/ TestByHand(h) \/ RecordByHand(h)
         \/ \E h \in Handlers :
              CountClusters(h) \/ CountHealth(h) \/ ListUnhealthy(h) \/ ShowDashboard(h)
         \/ StopMonitoring \/ MonitorCrash \/ UNCHANGED monitorVars
         \/ \E a \in Unsteady : HostChanges(a)
BY DEF MonitorNext, HandleRequest, Statuses

\* Every step keeps the types.
LEMMA TypesStep == MonitorTypeOK /\ [MonitorNext]_monitorVars => MonitorTypeOK'
<1> SUFFICES ASSUME MonitorTypeOK, [MonitorNext]_monitorVars PROVE MonitorTypeOK'
  OBVIOUS
<1> QED BY Steps, LoopStepTypes, CreateClusterTypes, LoadClusterTypes, SaveClusterTypes,
           CheckByHandTypes, DashboardTypes, WorldTypes

\* Everything keeps its type, for all values of the constants.
THEOREM MonitorTypeCorrect == MonitorSpec => []MonitorTypeOK
BY TypesInit, TypesStep, PTL DEF MonitorSpec

-----------------------------------------------------------------------------
(* Changes of clusters.                                                    *)

Changing(h, c) == req[h].at = "save" /\ req[h].id = c

\* Of a cluster on which no two changes overlapped, the record is what was
\* promised; a change under way has read it, and is the only one.
ChangesOK ==
  \A c \in Clusters \ disturbed :
    /\ cluster[c] = promised[c]
    /\ \A h \in Handlers : Changing(h, c) => req[h].copy = cluster[c]
    /\ \A g, h \in Handlers : Changing(g, c) /\ Changing(h, c) => g = h

\* A step that starts or ends no change and writes no cluster.
LEMMA ChangesStay ==
  ASSUME ChangesOK, UNCHANGED <<cluster, promised, disturbed>>,
         \A h \in Handlers : req'[h] = req[h] \/ req'[h].at # "save"
  PROVE  ChangesOK'
BY DEF ChangesOK, Changing

\* A cluster that did not exist is being changed by nobody.
LEMMA CreateClusterChanges ==
  ASSUME MonitorTypeOK, ChangesOK, NEW c \in Clusters, NEW a \in Hosts,
         CreateCluster(c, a)
  PROVE  ChangesOK'
<1>1. \A h \in Handlers : ~ Changing(h, c)
  BY DEF CreateCluster, Changing, MonitorTypeOK, Seen, Known
<1>2. /\ cluster'[c] = promised'[c]
      /\ \A d \in Clusters \ {c} : cluster'[d] = cluster[d] /\ promised'[d] = promised[d]
      /\ UNCHANGED <<req, disturbed>>
  BY DEF CreateCluster, MonitorTypeOK
<1> QED BY <1>1, <1>2 DEF ChangesOK, Changing

\* A second change of a cluster disturbs it; the first one has a true copy.
LEMMA LoadClusterChanges ==
  ASSUME MonitorTypeOK, ChangesOK, NEW h, NEW c, NEW f, NEW v,
         LoadCluster(h, c, f, v)
  PROVE  ChangesOK'
<1>1. PICK s : s = [at |-> "save", id |-> c, field |-> f, value |-> v,
                   copy |-> cluster[c]]
  OBVIOUS
<1>2. s.at = "save" /\ s.id = c /\ s.copy = cluster[c]
  BY <1>1
<1>3. h \in Handlers /\ req[h] = IdleRequest /\ req' = [req EXCEPT ![h] = s]
  BY <1>1, Accepted DEF LoadCluster
<1>4. req'[h] = s /\ \A g \in Handlers \ {h} : req'[g] = req[g]
  BY <1>3 DEF MonitorTypeOK
<1>5. UNCHANGED <<cluster, promised>>
  BY DEF LoadCluster
<1>6. disturbed \subseteq disturbed'
  BY DEF LoadCluster
<1>7. c \notin disturbed' => \A g \in Handlers : ~ Changing(g, c)
  BY Idle DEF LoadCluster, Changing, Busy
<1> SUFFICES ASSUME NEW d \in Clusters \ disturbed'
             PROVE  /\ cluster'[d] = promised'[d]
                    /\ \A g \in Handlers : Changing(g, d)' => req'[g].copy = cluster'[d]
                    /\ \A g, i \in Handlers : Changing(g, d)' /\ Changing(i, d)' => g = i
  BY DEF ChangesOK
<1>8. /\ cluster[d] = promised[d]
      /\ \A g \in Handlers : Changing(g, d) => req[g].copy = cluster[d]
      /\ \A g, i \in Handlers : Changing(g, d) /\ Changing(i, d) => g = i
  BY <1>6 DEF ChangesOK
<1>9. CASE d = c
  BY <1>2, <1>4, <1>5, <1>7, <1>8, <1>9 DEF Changing
<1>10. CASE d # c
  BY <1>2, <1>4, <1>5, <1>8, <1>10 DEF Changing
<1> QED BY <1>9, <1>10

\* What is saved from a true copy is what was promised.
LEMMA SaveClusterChanges ==
  ASSUME MonitorTypeOK, ChangesOK, NEW h \in Handlers, SaveCluster(h)
  PROVE  ChangesOK'
<1> DEFINE c == req[h].id
           saved == Changed(req[h].copy, req[h].field, req[h].value)
<1>1. Changing(h, c) /\ c \in Clusters
  BY RequestFields DEF SaveCluster, MonitorTypeOK, Changing
<1>2. /\ req'[h] = IdleRequest /\ \A g \in Handlers \ {h} : req'[g] = req[g]
      /\ disturbed' = disturbed
  BY DEF SaveCluster, Reply, MonitorTypeOK
<1>3. CASE UNCHANGED <<cluster, promised>>
  BY <1>2, <1>3, Idle, ChangesStay
<1>4. CASE /\ cluster' = [cluster EXCEPT ![c] = saved]
           /\ promised' = [promised EXCEPT
                ![c] = IF req[h].field = "status" THEN [@ EXCEPT !.status = req[h].value]
                                                  ELSE [@ EXCEPT !.host = req[h].value]]
  <2>1. /\ cluster'[c] = saved
        /\ promised'[c] = Changed(promised[c], req[h].field, req[h].value)
        /\ \A d \in Clusters \ {c} : cluster'[d] = cluster[d] /\ promised'[d] = promised[d]
    BY <1>1, <1>4 DEF MonitorTypeOK, Changed
  <2>2. c \notin disturbed => /\ req[h].copy = promised[c]
                              /\ \A g \in Handlers \ {h} : ~ Changing(g, c)
    BY <1>1 DEF ChangesOK
  <2>3. c \notin disturbed => cluster'[c] = promised'[c]
    BY <2>1, <2>2
  <2> HIDE DEF c, saved
  <2> QED BY <1>1, <1>2, <2>1, <2>2, <2>3, Idle DEF ChangesOK, Changing
<1> QED BY <1>3, <1>4 DEF SaveCluster

\* Every step keeps the changes.
LEMMA ChangesStep ==
  ASSUME MonitorTypeOK, ChangesOK, [MonitorNext]_monitorVars
  PROVE  ChangesOK'
<1>1. CASE MonitorLoop \/ StopMonitoring \/ UNCHANGED monitorVars
           \/ \E a \in Unsteady : HostChanges(a)
  BY <1>1, ChangesStay DEF MonitorLoop, BeginRound, TestNext, RecordHealth, EndRound,
     StopMonitoring, HostChanges, history, monitorVars
<1>2. CASE MonitorCrash
  BY <1>2, Idle, ChangesStay DEF MonitorCrash, history
<1>3. ASSUME NEW h \in Handlers, NEW c \in Clusters, ReadForCheck(h, c)
      PROVE  ChangesOK'
  BY <1>3, Accepted, ChangesStay DEF ReadForCheck, history, MonitorTypeOK
<1>4. ASSUME NEW h \in Handlers, CountClusters(h)
      PROVE  ChangesOK'
  BY <1>4, Accepted, ChangesStay DEF CountClusters, history, MonitorTypeOK
<1>5. ASSUME NEW h \in Handlers,
             \/ TestByHand(h) \/ RecordByHand(h)
             \/ CountHealth(h) \/ ListUnhealthy(h) \/ ShowDashboard(h)
      PROVE  ChangesOK'
  BY <1>5, Idle, ChangesStay DEF TestByHand, RecordByHand, CountHealth, ListUnhealthy,
     ShowDashboard, Reply, history, MonitorTypeOK
<1> QED BY <1>1, <1>2, <1>3, <1>4, <1>5, Steps, CreateClusterChanges, LoadClusterChanges,
           SaveClusterChanges

\* A cluster is what the answered requests made of it, wherever no two changes
\* overlapped: UpdateCluster and SetClusterStatus change their own field only.
THEOREM ChangesAreKept == MonitorSpec => []NoLostClusterUpdate
<1>1. MonitorInit => ChangesOK
  BY Idle DEF MonitorInit, ChangesOK, Changing
<1>2. MonitorTypeOK /\ ChangesOK /\ [MonitorNext]_monitorVars => ChangesOK'
  BY ChangesStep
<1>3. ChangesOK => NoLostClusterUpdate
  BY DEF ChangesOK, NoLostClusterUpdate
<1> QED BY <1>1, <1>2, <1>3, MonitorTypeCorrect, PTL DEF MonitorSpec

-----------------------------------------------------------------------------
(* Failures.                                                               *)

\* The failure of c has a record, or is about to get one.
FailureNoted(c) ==
  \/ c \in recorded
  \/ loop.at = "record" /\ loop.check.copy.id = c /\ ~ loop.check.ok
  \/ \E h \in Handlers :
       req[h].at = "record" /\ req[h].check.copy.id = c /\ ~ req[h].check.ok

FailuresOK == monitorFaults = 0 => \A c \in failing : FailureNoted(c)

\* A step that ends no check.
LEMMA FailuresStay ==
  ASSUME FailuresOK, UNCHANGED <<recorded, failing, monitorFaults>>,
         loop.at = "record" => loop' = loop,
         \A h \in Handlers : req[h].at = "record" => req'[h] = req[h]
  PROVE  FailuresOK'
BY DEF FailuresOK, FailureNoted

\* The loop notes what its tests find.
LEMMA LoopFailures ==
  ASSUME MonitorTypeOK, FailuresOK, MonitorLoop
  PROVE  FailuresOK'
<1>1. req' = req
  BY DEF MonitorLoop, BeginRound, TestNext, RecordHealth, EndRound
<1>2. MonitorFault => FailuresOK'
  BY Faulted DEF FailuresOK
<1>3. CASE (BeginRound \/ EndRound) /\ NoMonitorFault
  BY <1>1, <1>3, FailuresStay DEF BeginRound, EndRound, NoMonitorFault
<1>4. CASE TestNext /\ NoMonitorFault
  <2>1. PICK k \in loop.todo, ok \in BOOLEAN :
          /\ loop' = [at |-> "record", todo |-> loop.todo \ {k},
                      check |-> [copy |-> k, ok |-> ok]]
          /\ failing' = Failing(k.id, ok)
    BY <1>4 DEF TestNext
  <2>2. /\ loop'.at = "record" /\ loop'.check.copy.id = k.id /\ loop'.check.ok = ok
        /\ loop.at = "next" /\ recorded' = recorded /\ monitorFaults' = monitorFaults
    BY <1>4, <2>1 DEF TestNext, NoMonitorFault
  <2> SUFFICES ASSUME monitorFaults = 0, NEW c \in failing'
               PROVE  FailureNoted(c)'
    BY <2>2 DEF FailuresOK
  <2>3. CASE c = k.id /\ ~ ok
    BY <2>2, <2>3 DEF FailureNoted
  <2>4. CASE c \in failing
    BY <1>1, <2>2, <2>4 DEF FailuresOK, FailureNoted
  <2> QED BY <2>1, <2>3, <2>4 DEF Failing
<1>5. CASE RecordHealth /\ NoMonitorFault
  <2>1. /\ loop.at = "record" /\ recorded' = Recorded(loop.check)
        /\ failing' = failing /\ monitorFaults' = monitorFaults
    <3>1. ~ MonitorFault
      BY <1>5 DEF MonitorTypeOK, MonitorFault, NoMonitorFault
    <3> QED BY <1>5, <3>1 DEF RecordHealth, NoMonitorFault
  <2> QED BY <1>1, <2>1 DEF FailuresOK, FailureNoted, Recorded
<1> QED BY <1>2, <1>3, <1>4, <1>5
        DEF MonitorLoop, BeginRound, TestNext, RecordHealth, EndRound,
            TestClusterConnection, NoMonitorFault

\* So does a check by hand.
LEMMA ByHandFailures ==
  ASSUME MonitorTypeOK, FailuresOK, NEW h \in Handlers, TestByHand(h) \/ RecordByHand(h)
  PROVE  FailuresOK'
<1>1. loop' = loop /\ \A g \in Handlers \ {h} : req'[g] = req[g]
  BY DEF TestByHand, RecordByHand, Reply, MonitorTypeOK
<1>2. MonitorFault => FailuresOK'
  BY Faulted DEF FailuresOK
<1>3. CASE TestByHand(h) /\ NoMonitorFault
  <2>1. PICK ok \in BOOLEAN :
          /\ req' = [req EXCEPT ![h] =
               [at |-> "record", check |-> [copy |-> @.copy, ok |-> ok]]]
          /\ failing' = Failing(req[h].copy.id, ok)
    BY <1>3 DEF TestByHand
  <2>2. PICK k : k = req[h].copy.id
    OBVIOUS
  <2>3. PICK s : s = [at |-> "record", check |-> [copy |-> req[h].copy, ok |-> ok]]
    OBVIOUS
  <2>4. /\ req'[h] = s /\ s.at = "record" /\ s.check.copy.id = k /\ s.check.ok = ok
        /\ req[h].at = "test" /\ recorded' = recorded /\ monitorFaults' = monitorFaults
    BY <1>3, <2>1, <2>2, <2>3 DEF TestByHand, NoMonitorFault, MonitorTypeOK
  <2> SUFFICES ASSUME monitorFaults = 0, NEW c \in failing'
               PROVE  FailureNoted(c)'
    BY <2>4 DEF FailuresOK
  <2>5. CASE c = k /\ ~ ok
    BY <2>4, <2>5 DEF FailureNoted
  <2>6. CASE c \in failing
    BY <1>1, <2>4, <2>6 DEF FailuresOK, FailureNoted
  <2> QED BY <2>1, <2>2, <2>5, <2>6 DEF Failing
<1>4. CASE RecordByHand(h) /\ NoMonitorFault
  <2>1. /\ req[h].at = "record" /\ recorded' = Recorded(req[h].check)
        /\ failing' = failing /\ monitorFaults' = monitorFaults
    <3>1. ~ MonitorFault
      BY <1>4 DEF MonitorTypeOK, MonitorFault, NoMonitorFault
    <3> QED BY <1>4, <3>1 DEF RecordByHand, NoMonitorFault
  <2> QED BY <1>1, <2>1 DEF FailuresOK, FailureNoted, Recorded
<1> QED BY <1>2, <1>3, <1>4
        DEF TestByHand, RecordByHand, TestClusterConnection, NoMonitorFault

\* Every step keeps the failures noted.
LEMMA FailuresStep ==
  ASSUME MonitorTypeOK, FailuresOK, [MonitorNext]_monitorVars
  PROVE  FailuresOK'
<1>1. CASE StopMonitoring \/ UNCHANGED monitorVars \/ \E a \in Unsteady : HostChanges(a)
  BY <1>1, FailuresStay DEF StopMonitoring, HostChanges, monitorVars
<1>2. CASE MonitorCrash
  BY <1>2, Faulted DEF MonitorCrash, FailuresOK
<1>3. ASSUME NEW c \in Clusters, NEW a \in Hosts, CreateCluster(c, a)
      PROVE  FailuresOK'
  BY <1>3, FailuresStay DEF CreateCluster
<1>4. ASSUME NEW h, NEW s, AcceptRequest(h, s),
             UNCHANGED <<recorded, failing, monitorFaults, loop>>
      PROVE  FailuresOK'
  BY <1>4, Accepted, Idle, FailuresStay DEF MonitorTypeOK
<1>5. ASSUME NEW h, NEW c, NEW f, NEW v, LoadCluster(h, c, f, v)
      PROVE  FailuresOK'
  BY <1>4, <1>5 DEF LoadCluster
<1>6. ASSUME NEW h \in Handlers, NEW c \in Clusters, ReadForCheck(h, c)
      PROVE  FailuresOK'
  BY <1>4, <1>6 DEF ReadForCheck, history
<1>7. ASSUME NEW h \in Handlers, SaveCluster(h)
      PROVE  FailuresOK'
  <2>1. CASE MonitorFault
    BY <2>1, Faulted DEF FailuresOK
  <2>2. CASE NoMonitorFault
    BY <1>7, <2>2, FailuresStay DEF SaveCluster, NoMonitorFault, Reply, MonitorTypeOK
  <2> QED BY <1>7, <2>1, <2>2 DEF SaveCluster
<1>8. ASSUME NEW h \in Handlers, CountHealth(h) \/ ListUnhealthy(h) \/ ShowDashboard(h)
      PROVE  FailuresOK'
  BY <1>8, FailuresStay DEF CountHealth, ListUnhealthy, ShowDashboard, Reply, MonitorTypeOK
<1>9. ASSUME NEW h \in Handlers, CountClusters(h)
      PROVE  FailuresOK'
  BY <1>4, <1>9 DEF CountClusters, history
<1>10. ASSUME NEW h \in Handlers, TestByHand(h) \/ RecordByHand(h)
      PROVE  FailuresOK'
  BY <1>10, ByHandFailures
<1>11. CASE MonitorLoop
  BY <1>11, LoopFailures
<1> QED BY <1>1, <1>2, <1>5, <1>6, <1>7, <1>8, <1>9, <1>10, <1>11, <1>3, Steps

\* A failed test is on the list once the test is over, whatever tests of the
\* same cluster run beside it: saveHealthResult inserts the failures of each.
THEOREM FailuresAreShown == MonitorSpec => []NoFailureIsHidden
<1>1. MonitorInit => FailuresOK
  BY DEF MonitorInit, FailuresOK
<1>2. MonitorTypeOK /\ FailuresOK /\ [MonitorNext]_monitorVars => FailuresOK'
  BY FailuresStep
<1>3. MonitorTypeOK /\ FailuresOK => NoFailureIsHidden
  BY Idle DEF FailuresOK, FailureNoted, NoFailureIsHidden, BeingChecked, Unhealthy, Busy
<1> QED BY <1>1, <1>2, <1>3, MonitorTypeCorrect, PTL DEF MonitorSpec

-----------------------------------------------------------------------------
(* Late records.                                                           *)

Listed(c) ==
  \/ \E k \in loop.todo : k.id = c
  \/ loop.at = "record" /\ loop.check.copy.id = c

\* A cluster is listed once in a round; one that is disabled and has its late
\* record is listed no more.
LateOK ==
  /\ \A j, k \in loop.todo : j.id = k.id => j = k
  /\ loop.at = "record" => \A k \in loop.todo : k.id # loop.check.copy.id
  /\ \A c \in Clusters :
       /\ late[c] <= 1
       /\ cluster[c] = NoCluster \/ cluster[c].status = "active" => late[c] = 0
       /\ late[c] = 1 => ~ Listed(c)

\* A step that leaves clusters and their late records alone, and lists nothing.
LEMMA LateStays ==
  ASSUME LateOK, UNCHANGED <<cluster, late>>,
         loop' = loop \/ (loop'.at # "record" /\ loop'.todo = {})
  PROVE  LateOK'
<1>1. CASE loop' = loop
  BY <1>1 DEF LateOK, Listed
<1>2. CASE loop'.at # "record" /\ loop'.todo = {}
  BY <1>2 DEF LateOK, Listed
<1> QED BY <1>1, <1>2

\* A step that writes one cluster.
LEMMA ClusterLate ==
  ASSUME MonitorTypeOK, LateOK, NEW c \in Clusters, NEW x \in Cluster,
         cluster' = [cluster EXCEPT ![c] = x],
         late' = [late EXCEPT ![c] = IF x.status = "active" THEN 0 ELSE @],
         loop' = loop
  PROVE  LateOK'
<1>1. /\ cluster'[c] = x /\ \A d \in Clusters \ {c} : cluster'[d] = cluster[d]
      /\ late'[c] = IF x.status = "active" THEN 0 ELSE late[c]
      /\ \A d \in Clusters \ {c} : late'[d] = late[d]
  BY DEF MonitorTypeOK
<1> QED BY <1>1 DEF LateOK, Listed

\* The loop gives a cluster one late record, and then has no copy of it left.
LEMMA LoopLate ==
  ASSUME MonitorTypeOK, LateOK, MonitorLoop
  PROVE  LateOK'
<1>1. cluster' = cluster /\ loop \in Loop /\ loop.todo \in SUBSET Copy
  BY LoopFields DEF MonitorTypeOK, MonitorLoop, BeginRound, TestNext, RecordHealth, EndRound
<1>2. CASE BeginRound
  <2>1. late' = late
    BY <1>2 DEF BeginRound, history
  <2>2. CASE loop' = [at |-> "next", todo |-> {CopyOf(c) : c \in ListedNow}]
    <3>1. loop'.at = "next" /\ loop'.todo = {CopyOf(c) : c \in Active}
      BY <2>2 DEF ListedNow
    <3>2. \A c \in Active : CopyOf(c).id = c
      BY CopyTypes DEF Active
    <3>3. \A c : Listed(c)' => c \in Active
      BY <3>1, <3>2 DEF Listed
    <3> QED BY <1>1, <2>1, <3>1, <3>2, <3>3 DEF LateOK, Active
  <2>3. CASE \E a \in {"ended", "sleep"} : loop' = [at |-> a, todo |-> {}]
    BY <1>1, <2>1, <2>3, LateStays
  <2> QED BY <1>2, <2>2, <2>3 DEF BeginRound
<1>3. CASE TestNext
  <2>1. PICK k \in loop.todo, ok \in BOOLEAN :
          loop' = [at |-> "record", todo |-> loop.todo \ {k},
                   check |-> [copy |-> k, ok |-> ok]]
    BY <1>3 DEF TestNext
  <2>2. /\ loop'.at = "record" /\ loop'.todo = loop.todo \ {k} /\ loop'.check.copy = k
        /\ late' = late
    BY <1>3, <2>1 DEF TestNext, history
  <2>3. \A c : Listed(c)' => Listed(c)
    BY <2>1, <2>2 DEF Listed
  <2> QED BY <1>1, <2>1, <2>2, <2>3 DEF LateOK
<1>4. CASE RecordHealth
  <2> PICK c : c = loop.check.copy.id
    OBVIOUS
  <2>1. loop.at = "record" /\ loop'.at = "next" /\ loop'.todo = loop.todo
    BY <1>4 DEF RecordHealth
  <2>2. c \in Clusters /\ cluster[c] \in Cluster
    BY <2>1 DEF MonitorTypeOK, Known
  <2>3. \A d : Listed(d)' => Listed(d)
    BY <2>1 DEF Listed
  <2>4. ~ Listed(c)' /\ Listed(c)
    BY <2>1 DEF Listed, LateOK
  <2>5. CASE late' = late
    BY <1>1, <2>1, <2>3, <2>5 DEF LateOK
  <2>6. CASE late' = [late EXCEPT ![c] =
               IF cluster[c].status = "active" \/ loop.check.ok \/ @ = 2 THEN @
               ELSE @ + 1]
    <3>1. late[c] = 0
      BY <2>2, <2>4 DEF LateOK, MonitorTypeOK
    <3>2. /\ \A d \in Clusters \ {c} : late'[d] = late[d]
          /\ late'[c] \in {0, 1}
          /\ cluster[c].status = "active" => late'[c] = 0
      BY <2>2, <2>6, <3>1 DEF MonitorTypeOK
    <3>3. cluster[c] # NoCluster
      BY <2>2
    <3> QED BY <1>1, <2>1, <2>2, <2>3, <2>4, <3>2, <3>3 DEF LateOK
  <2> QED BY <1>4, <2>5, <2>6 DEF RecordHealth
<1>5. CASE EndRound
  BY <1>5, <1>1, LateStays DEF EndRound, history
<1> QED BY <1>2, <1>3, <1>4, <1>5 DEF MonitorLoop

\* Every step keeps late records few.
LEMMA LateStep ==
  ASSUME MonitorTypeOK, LateOK, [MonitorNext]_monitorVars
  PROVE  LateOK'
<1>1. CASE StopMonitoring \/ MonitorCrash \/ UNCHANGED monitorVars
           \/ \E a \in Unsteady : HostChanges(a)
  BY <1>1, LateStays DEF StopMonitoring, MonitorCrash, HostChanges, monitorVars, history
<1>2. ASSUME NEW c \in Clusters, NEW a \in Hosts, CreateCluster(c, a)
      PROVE  LateOK'
  <2>1. PICK x : x = [status |-> "active", host |-> a]
    OBVIOUS
  <2>2. x \in Cluster /\ x.status = "active"
    BY <2>1 DEF Cluster, Statuses
  <2>3. /\ cluster' = [cluster EXCEPT ![c] = x] /\ cluster[c] = NoCluster
        /\ loop' = loop /\ late' = late
    BY <1>2, <2>1 DEF CreateCluster
  <2>4. late' = [late EXCEPT ![c] = IF x.status = "active" THEN 0 ELSE @]
    BY <2>2, <2>3 DEF LateOK, MonitorTypeOK
  <2> QED BY <2>2, <2>3, <2>4, ClusterLate
<1>3. ASSUME NEW h, NEW c, NEW f, NEW v, LoadCluster(h, c, f, v)
      PROVE  LateOK'
  BY <1>3, LateStays DEF LoadCluster
<1>4. ASSUME NEW h \in Handlers, SaveCluster(h)
      PROVE  LateOK'
  <2>1. PICK x : x = Changed(req[h].copy, req[h].field, req[h].value)
    OBVIOUS
  <2>2. x \in Cluster /\ req[h].id \in Clusters
    BY <1>4, <2>1, RequestFields DEF SaveCluster, MonitorTypeOK, Changed, Cluster
  <2>3. /\ loop' = loop
        /\ \/ UNCHANGED <<cluster, late>>
           \/ /\ cluster' = [cluster EXCEPT ![req[h].id] = x]
              /\ late' = [late EXCEPT ![req[h].id] = IF x.status = "active" THEN 0 ELSE @]
    BY <1>4, <2>1 DEF SaveCluster
  <2> QED BY <2>2, <2>3, LateStays, ClusterLate
<1>5. ASSUME NEW h \in Handlers,
             \/ \E c \in Clusters : ReadForCheck(h, c)
             \/ TestByHand(h) \/ RecordByHand(h)
             \/ CountClusters(h) \/ CountHealth(h) \/ ListUnhealthy(h) \/ ShowDashboard(h)
      PROVE  LateOK'
  BY <1>5, LateStays DEF ReadForCheck, TestByHand, RecordByHand, CountClusters,
     CountHealth, ListUnhealthy, ShowDashboard, history
<1> QED BY <1>1, <1>2, <1>3, <1>4, <1>5, Steps, LoopLate

\* However long a round takes and whatever is disabled during it, a cluster
\* gets no second automatic record before it is active again: the list of a
\* round names it once, and the next GetActiveClusters does not.
THEOREM LateRecordsAreFew == MonitorSpec => []AtMostOneLateRecord
<1>1. MonitorInit => LateOK
  <2> SUFFICES ASSUME MonitorInit PROVE LateOK
    OBVIOUS
  <2>1. loop.at = "top" /\ loop.todo = {} /\ late = [c \in Clusters |-> 0]
    BY DEF MonitorInit
  <2> QED BY <2>1 DEF LateOK
<1>2. MonitorTypeOK /\ LateOK /\ [MonitorNext]_monitorVars => LateOK'
  BY LateStep
<1>3. LateOK => AtMostOneLateRecord
  BY DEF LateOK, AtMostOneLateRecord
<1> QED BY <1>1, <1>2, <1>3, MonitorTypeCorrect, PTL DEF MonitorSpec

-----------------------------------------------------------------------------
(* The dashboard.                                                          *)

\* The counts a dashboard has taken add up, to what was known when it began.
DashboardOK ==
  \A h \in Handlers :
    LET r == req[h] IN
    /\ r.at = "health" => r.total = Cardinality(r.known)
    /\ r.at \in {"list", "shown"} =>
         /\ r.unknown = Cardinality(r.known) - r.sick
         /\ r.sick <= Cardinality(recorded)
    /\ r.at = "shown" => r.sick <= Cardinality(r.listed)

\* A step that may add health records, and goes on with no dashboard.
LEMMA DashboardStays ==
  ASSUME MonitorTypeOK, DashboardOK,
         recorded \subseteq recorded', recorded' \in SUBSET Clusters,
         \A h \in Handlers :
           req'[h] = req[h] \/ req'[h].at \notin {"health", "list", "shown"}
  PROVE  DashboardOK'
<1>1. /\ Cardinality(recorded) <= Cardinality(recorded')
      /\ Cardinality(recorded) \in Nat /\ Cardinality(recorded') \in Nat
  <2>1. IsFiniteSet(recorded')
    BY Counted
  <2>2. recorded \in SUBSET Clusters
    BY DEF MonitorTypeOK, Known
  <2> QED BY <2>1, <2>2, Counted, FS_Subset
<1>2. \A h \in Handlers : req[h].at \in {"list", "shown"} => req[h].sick \in Nat
  BY RequestFields DEF MonitorTypeOK
<1> QED BY <1>1, <1>2 DEF DashboardOK

\* A step of one request's dashboard.
LEMMA DashboardGoesOn ==
  ASSUME MonitorTypeOK, DashboardOK, NEW h \in Handlers,
         CountClusters(h) \/ CountHealth(h) \/ ListUnhealthy(h)
  PROVE  DashboardOK'
<1>1. PICK g, s :
        /\ g \in Handlers
        /\ req' = [req EXCEPT ![g] = s]
        /\ recorded' = recorded
        /\ \/ s = [at |-> "health", total |-> Cardinality(Known), known |-> Known]
           \/ /\ req[g].at = "health"
              /\ s = [at |-> "list", known |-> req[g].known,
                      sick |-> Cardinality(recorded),
                      unknown |-> req[g].total - Cardinality(recorded)]
           \/ /\ req[g].at = "list"
              /\ s = [at |-> "shown", known |-> req[g].known, sick |-> req[g].sick,
                      unknown |-> req[g].unknown, listed |-> recorded]
  <2>1. CASE CountClusters(h)
    BY <2>1, Accepted DEF CountClusters
  <2>2. CASE CountHealth(h)
    BY <2>2 DEF CountHealth, Unhealthy, MonitorTypeOK
  <2>3. CASE ListUnhealthy(h)
    BY <2>3 DEF ListUnhealthy, Unhealthy, MonitorTypeOK
  <2> QED BY <2>1, <2>2, <2>3
<1>2. /\ req'[g] = s
      /\ \A f \in Handlers \ {g} : req'[f] = req[f]
  BY <1>1 DEF MonitorTypeOK
<1>3. Cardinality(recorded) \in Nat
  BY Counted DEF MonitorTypeOK, Known
<1>4. /\ s.at = "health" => s.total = Cardinality(s.known)
      /\ s.at \in {"list", "shown"} =>
           /\ s.unknown = Cardinality(s.known) - s.sick
           /\ s.sick <= Cardinality(recorded)
      /\ s.at = "shown" => s.sick <= Cardinality(s.listed)
  <2>1. CASE s = [at |-> "health", total |-> Cardinality(Known), known |-> Known]
    BY <2>1
  <2>2. CASE req[g].at = "health" /\ s.at = "list"
    BY <1>1, <1>3, <2>2 DEF DashboardOK
  <2>3. CASE req[g].at = "list" /\ s.at = "shown"
    BY <1>1, <2>3 DEF DashboardOK
  <2> QED BY <1>1, <2>1, <2>2, <2>3
<1> QED BY <1>1, <1>2, <1>4 DEF DashboardOK

\* The counts of every dashboard.
LEMMA DashboardStep ==
  ASSUME MonitorTypeOK, DashboardOK, [MonitorNext]_monitorVars
  PROVE  DashboardOK'
<1> DEFINE Same == \A h \in Handlers : req'[h] = req[h]
           NoneBegun == \A h \in Handlers :
             req'[h] = req[h] \/ req'[h].at \notin {"health", "list", "shown"}
<1>1. recorded \in SUBSET Clusters
  BY DEF MonitorTypeOK, Known
<1>2. ASSUME recorded' = recorded, NoneBegun
      PROVE  DashboardOK'
  BY <1>1, <1>2, DashboardStays
<1>3. CASE StopMonitoring \/ UNCHANGED monitorVars \/ \E a \in Unsteady : HostChanges(a)
  BY <1>2, <1>3 DEF StopMonitoring, HostChanges, monitorVars
<1>4. CASE MonitorCrash
  BY <1>2, <1>4, Idle DEF MonitorCrash
<1>5. ASSUME NEW c \in Clusters, NEW a \in Hosts, CreateCluster(c, a)
      PROVE  DashboardOK'
  BY <1>2, <1>5 DEF CreateCluster
<1>6. ASSUME NEW h, NEW s, s.at \notin {"health", "list", "shown"},
             AcceptRequest(h, s), recorded' = recorded
      PROVE  DashboardOK'
  <2>1. h \in Handlers /\ req' = [req EXCEPT ![h] = s]
    BY <1>6, Accepted
  <2> QED BY <1>2, <1>6, <2>1 DEF MonitorTypeOK
<1>7. ASSUME NEW h, NEW c, NEW f, NEW v, LoadCluster(h, c, f, v)
      PROVE  DashboardOK'
  BY <1>6, <1>7 DEF LoadCluster
<1>8. ASSUME NEW h \in Handlers, NEW c \in Clusters, ReadForCheck(h, c)
      PROVE  DashboardOK'
  BY <1>6, <1>8 DEF ReadForCheck
<1>9. ASSUME NEW h \in Handlers,
             SaveCluster(h) \/ ShowDashboard(h) \/ TestByHand(h) \/ RecordByHand(h)
      PROVE  DashboardOK'
  <2>1. NoneBegun
    BY <1>9, Idle DEF SaveCluster, ShowDashboard, TestByHand, RecordByHand, Reply,
                      MonitorTypeOK
  <2>2. CASE RecordByHand(h)
    <3>1. req[h].at = "record" /\ req[h] \in Request
      BY <2>2 DEF RecordByHand, MonitorTypeOK
    <3>2. req[h].check.copy.id \in Clusters
      BY <3>1, RequestFields DEF Check, Copy
    <3>3. recorded \subseteq recorded' /\ recorded' \in SUBSET Clusters
      BY <1>1, <2>2, <3>2 DEF RecordByHand, Recorded
    <3> QED BY <2>1, <3>3, DashboardStays
  <2> QED BY <1>2, <1>9, <2>1, <2>2 DEF SaveCluster, ShowDashboard, TestByHand, history
<1>10. CASE MonitorLoop
  <2>1. req' = req
    BY <1>10 DEF MonitorLoop, BeginRound, TestNext, RecordHealth, EndRound
  <2>2. CASE RecordHealth
    <3>1. loop.at = "record" /\ loop \in Loop
      BY <2>2 DEF RecordHealth, MonitorTypeOK
    <3>2. loop.check.copy.id \in Clusters
      BY <3>1, LoopFields DEF Check, Copy
    <3>3. recorded \subseteq recorded' /\ recorded' \in SUBSET Clusters
      BY <1>1, <2>2, <3>2 DEF RecordHealth, Recorded
    <3> QED BY <2>1, <3>3, DashboardStays
  <2> QED BY <1>2, <1>10, <2>1, <2>2
          DEF MonitorLoop, BeginRound, TestNext, EndRound
<1>11. ASSUME NEW h \in Handlers, CountClusters(h) \/ CountHealth(h) \/ ListUnhealthy(h)
       PROVE  DashboardOK'
  BY <1>11, DashboardGoesOn
<1> HIDE DEF Same, NoneBegun
<1> QED BY <1>3, <1>4, <1>5, <1>7, <1>8, <1>9, <1>10, <1>11, Steps

\* The three queries of the dashboard are no snapshot, but clusters and health
\* records only grow: the number of unknown clusters is below zero by no more
\* than the clusters created in between, and the list misses none that was
\* counted.
THEOREM DashboardIsNearTruth == MonitorSpec => []DashboardNearTruth
<1>1. MonitorInit => DashboardOK
  BY Idle DEF MonitorInit, DashboardOK
<1>2. MonitorTypeOK /\ DashboardOK /\ [MonitorNext]_monitorVars => DashboardOK'
  BY DashboardStep
<1>3. MonitorTypeOK /\ DashboardOK => DashboardNearTruth
  <2> SUFFICES ASSUME MonitorTypeOK, DashboardOK,
                      NEW h \in Handlers, req[h].at = "shown"
               PROVE  /\ req[h].unknown + Cardinality(Known \ req[h].known) >= 0
                      /\ req[h].sick <= Cardinality(req[h].listed)
    BY DEF DashboardNearTruth
  <2> PICK known : known = req[h].known
    OBVIOUS
  <2>1. /\ req[h].unknown = Cardinality(known) - req[h].sick
        /\ req[h].sick <= Cardinality(recorded)
        /\ req[h].sick <= Cardinality(req[h].listed)
    BY DEF DashboardOK
  <2>2. req[h].sick \in Nat /\ known \subseteq Known
    BY RequestFields DEF MonitorTypeOK, Seen
  <2>3. /\ recorded \subseteq Known /\ Known \in SUBSET Clusters
        /\ IsFiniteSet(Known) /\ IsFiniteSet(known)
    BY <2>2, FS_Subset DEF MonitorTypeOK, Known
  <2>4. /\ Cardinality(recorded) <= Cardinality(Known)
        /\ Cardinality(recorded) \in Nat /\ Cardinality(Known) \in Nat
    BY <2>3, FS_Subset, Counted
  <2>5. Known \intersect known = known
    BY <2>2
  <2>6. Cardinality(Known \ known) = Cardinality(Known) - Cardinality(known)
    <3>1. IsFiniteSet(Known)
      BY <2>3
    <3>2. Cardinality(Known \ known) = Cardinality(Known) - Cardinality(Known \intersect known)
      BY <3>1, FS_Difference, Zenon
    <3> QED BY <2>5, <3>2
  <2>7. Cardinality(known) \in Nat
    BY <2>3, FS_CardinalityType
  <2> QED BY <2>1, <2>2, <2>4, <2>6, <2>7
<1> QED BY <1>1, <1>2, <1>3, MonitorTypeCorrect, PTL DEF MonitorSpec

-----------------------------------------------------------------------------
(* The collector of answers.                                                *)

\* The answers the collector was given, and whether the last is not counted yet.
Handled == Servers \ (inbox \union taken)
Uncounted == IF callback = "counting" THEN 1 ELSE 0

CollectorTypeOK ==
  /\ expected \in Nat
  /\ garbled \in SUBSET Servers
  /\ inbox \in SUBSET Servers
  /\ taken \in SUBSET Servers
  /\ callback \in {"idle", "handling", "counting"}
  /\ count \in Nat
  /\ responses \in SUBSET Servers
  /\ caller \in {"waiting", "returning", "reading", "counting", "answered"}
  /\ answer \in [servers : SUBSET Servers, total : Nat,
                 reason : {"none", "done", "timeout"}]

\* The callback holds an answer while the collector handles it, and every handled
\* answer is counted.
AnswersOK ==
  /\ taken \intersect inbox = {}
  /\ responses \subseteq Handled
  /\ IF callback = "handling" THEN \E s \in Servers : taken = {s} ELSE taken = {}
  /\ count + Uncounted = Cardinality(Handled)

\* The channel is closed by the callback that counted enough.
ChannelOK ==
  /\ closed => Enough(count)
  /\ answer.reason = "done" => closed

\* The collector keeps no more than were expected, and until then whatever can be
\* parsed.
CollectedOK ==
  /\ expected > 0 => Cardinality(responses) <= expected
  /\ Enough(Cardinality(responses)) \/ responses = Handled \ garbled

\* Between the two reads at most the answer that was being handled is added.
ReadOK ==
  caller = "counting" =>
    /\ answer.servers \subseteq responses
    /\ Cardinality(responses) <= Cardinality(answer.servers)
         + IF callback = "handling" THEN 0 ELSE 1

CInv ==
  /\ CollectorTypeOK /\ AnswersOK /\ ChannelOK /\ CollectedOK /\ ReadOK
  /\ AnswerIsConsistent /\ EnoughMeansEnough /\ NoSurplusNoPanic

-----------------------------------------------------------------------------
LEMMA FiniteParts ==
  ASSUME NEW S \in SUBSET Servers
  PROVE  IsFiniteSet(S) /\ Cardinality(S) \in Nat /\ Cardinality(S) <= Cardinality(Servers)
  BY CollectorAssumption, FS_Subset, FS_CardinalityType

LEMMA CollectorInitOK == CollectorInit => CInv
<1>1. SUFFICES ASSUME CollectorInit PROVE CInv
  OBVIOUS
<1>2. CollectorTypeOK
  BY <1>1, CollectorAssumption DEF CollectorInit, CollectorTypeOK
<1>3. Handled = {} /\ Cardinality({}) = 0
  BY <1>1, FS_EmptySet DEF CollectorInit, Handled
<1>4. AnswersOK
  BY <1>1, <1>3 DEF CollectorInit, AnswersOK, Uncounted
<1>5. ChannelOK /\ ReadOK /\ AnswerIsConsistent /\ EnoughMeansEnough /\ NoSurplusNoPanic
  BY <1>1 DEF CollectorInit, ChannelOK, ReadOK, AnswerIsConsistent, EnoughMeansEnough,
       NoSurplusNoPanic
<1>6. CollectedOK
  BY <1>1, <1>2, <1>3 DEF CollectorInit, CollectedOK, CollectorTypeOK
<1>7. QED
  BY <1>2, <1>4, <1>5, <1>6 DEF CInv

\* Taking an answer changes nothing of what was handled.
LEMMA TakeAnswerOK ==
  ASSUME CInv, NEW s \in Servers, TakeAnswer(s)
  PROVE  CInv'
<1>1. /\ expected' = expected /\ garbled' = garbled /\ count' = count
      /\ responses' = responses /\ closed' = closed /\ caller' = caller
      /\ answer' = answer /\ crashed' = crashed
      /\ inbox' = inbox \ {s} /\ taken' = {s} /\ callback' = "handling"
      /\ s \in inbox /\ callback = "idle" /\ caller \in {"waiting", "returning"}
  BY DEF TakeAnswer
<1>2. taken = {}
  BY <1>1 DEF CInv, AnswersOK
<1>3. Handled' = Handled
  BY <1>1, <1>2 DEF Handled
<1>4. Uncounted' = 0 /\ Uncounted = 0
  BY <1>1 DEF Uncounted
<1>5. CollectorTypeOK'
  BY <1>1 DEF CInv, CollectorTypeOK
<1>6. AnswersOK'
  BY <1>1, <1>3, <1>4 DEF CInv, AnswersOK
<1>7. CollectedOK' /\ ChannelOK'
  BY <1>1, <1>3 DEF CInv, CollectedOK, ChannelOK, Enough
<1>8. ReadOK' /\ AnswerIsConsistent' /\ EnoughMeansEnough' /\ NoSurplusNoPanic'
  BY <1>1 DEF CInv, ReadOK, AnswerIsConsistent, EnoughMeansEnough, NoSurplusNoPanic
<1>9. QED
  BY <1>5, <1>6, <1>7, <1>8 DEF CInv

\* The collector takes an answer in, and the callback has one to count.
LEMMA HandleResponseOK ==
  ASSUME CInv, HandleResponse
  PROVE  CInv'
<1>1. /\ expected' = expected /\ garbled' = garbled /\ count' = count
      /\ inbox' = inbox /\ closed' = closed /\ caller' = caller
      /\ answer' = answer /\ crashed' = crashed
      /\ taken' = {} /\ callback = "handling" /\ callback' = "counting"
      /\ responses' = IF Enough(Cardinality(responses)) THEN responses
                      ELSE responses \union (taken \ garbled)
  BY DEF HandleResponse
<1>2. PICK s \in Servers : taken = {s}
  BY <1>1 DEF CInv, AnswersOK
<1>3. Handled' = Handled \union {s} /\ s \notin Handled
  BY <1>1, <1>2 DEF Handled, CInv, AnswersOK
<1>4. Handled \in SUBSET Servers /\ s \notin responses /\ responses \in SUBSET Servers
  BY <1>3 DEF Handled, CInv, AnswersOK, CollectorTypeOK
<1>5. Cardinality(Handled') = Cardinality(Handled) + 1
  BY <1>3, <1>4, FiniteParts, FS_AddElement
<1>6. CollectorTypeOK'
  BY <1>1, <1>2 DEF CInv, CollectorTypeOK
<1>7. responses' = responses \/ responses' = responses \union {s}
  BY <1>1, <1>2
<1>8. /\ Cardinality(responses) \in Nat
      /\ Cardinality(responses') \in Nat
      /\ Cardinality(responses) <= Cardinality(responses')
      /\ Cardinality(responses') <= Cardinality(responses) + 1
  BY <1>4, <1>7, FiniteParts, FS_AddElement
<1>9. AnswersOK'
  <2>1. Uncounted = 0 /\ Uncounted' = 1
    BY <1>1 DEF Uncounted
  <2>2. Cardinality(Handled) = count /\ count \in Nat
    BY <2>1 DEF CInv, AnswersOK, CollectorTypeOK
  <2>3. responses' \subseteq Handled'
    BY <1>3, <1>7 DEF CInv, AnswersOK
  <2>4. QED
    BY <1>1, <1>5, <2>1, <2>2, <2>3 DEF AnswersOK
<1>10. CollectedOK'
  <2>1. CASE Enough(Cardinality(responses))
    BY <1>1, <2>1 DEF CInv, CollectedOK, Enough
  <2>2. CASE ~ Enough(Cardinality(responses))
    <3>1. responses' = Handled' \ garbled'
      BY <1>1, <1>2, <1>3, <2>2 DEF CInv, CollectedOK
    <3>2. expected' > 0 => Cardinality(responses') <= expected'
      BY <1>1, <1>8, <2>2 DEF CInv, CollectorTypeOK, Enough
    <3>3. QED
      BY <3>1, <3>2 DEF CollectedOK
  <2>3. QED
    BY <2>1, <2>2
<1>11. ReadOK'
  <2>1. SUFFICES ASSUME caller = "counting"
                 PROVE  /\ answer.servers \subseteq responses'
                        /\ Cardinality(responses') <= Cardinality(answer.servers) + 1
    BY <1>1 DEF ReadOK
  <2>2. answer.servers \subseteq responses
        /\ Cardinality(responses) <= Cardinality(answer.servers) + 0
    BY <1>1, <2>1 DEF CInv, ReadOK
  <2>3. Cardinality(answer.servers) \in Nat
    BY FiniteParts DEF CInv, CollectorTypeOK
  <2>4. QED
    BY <1>7, <1>8, <2>2, <2>3
<1>12. ChannelOK' /\ AnswerIsConsistent' /\ EnoughMeansEnough' /\ NoSurplusNoPanic'
  BY <1>1 DEF CInv, ChannelOK, Enough, AnswerIsConsistent, EnoughMeansEnough,
       NoSurplusNoPanic
<1>13. QED
  BY <1>6, <1>9, <1>10, <1>11, <1>12 DEF CInv

\* Closing the channel again takes more answers than were expected.
LEMMA CountResponseOK ==
  ASSUME CInv, CountResponse
  PROVE  CInv'
<1>1. /\ expected' = expected /\ garbled' = garbled /\ inbox' = inbox
      /\ taken' = taken /\ responses' = responses /\ caller' = caller
      /\ answer' = answer /\ callback = "counting" /\ callback' = "idle"
      /\ count' = count + 1
      /\ closed' = (closed \/ Enough(count + 1))
      /\ crashed' = (closed /\ Enough(count + 1))
  BY DEF CountResponse
<1>2. Handled' = Handled /\ Handled \in SUBSET Servers
  BY <1>1 DEF Handled
<1>3. Uncounted = 1 /\ Uncounted' = 0
  BY <1>1 DEF Uncounted
<1>4. CollectorTypeOK'
  BY <1>1 DEF CInv, CollectorTypeOK
<1>5. AnswersOK'
  BY <1>1, <1>2, <1>3 DEF CInv, CollectorTypeOK, AnswersOK
<1>6. ChannelOK'
  <2>1. closed => closed'
    BY <1>1, Zenon
  <2>2. closed' => closed \/ Enough(count + 1)
    BY <1>1, Zenon
  <2>3. closed => Enough(count + 1)
    BY DEF CInv, CollectorTypeOK, ChannelOK, Enough
  <2>4. closed' => Enough(count + 1)
    BY <2>2, <2>3, Zenon
  <2>5. closed' => Enough(count)'
    BY <1>1, <2>4 DEF Enough
  <2>6. answer'.reason = "done" => closed'
    BY <1>1, <2>1 DEF CInv, ChannelOK
  <2>7. QED
    BY <2>5, <2>6 DEF ChannelOK
<1>7. CollectedOK' /\ ReadOK'
  BY <1>1, <1>2 DEF CInv, CollectedOK, ReadOK, Enough
<1>8. AnswerIsConsistent' /\ EnoughMeansEnough'
  BY <1>1 DEF CInv, AnswerIsConsistent, EnoughMeansEnough
<1>9. NoSurplusNoPanic'
  <2>1. SUFFICES ASSUME crashed' PROVE expected > 0 /\ Cardinality(Servers) > expected
    BY <1>1 DEF NoSurplusNoPanic
  <2>2. expected > 0 /\ count >= expected /\ count \in Nat /\ expected \in Nat
    BY <1>1, <2>1 DEF CInv, ChannelOK, Enough, CollectorTypeOK
  <2>3. count + 1 = Cardinality(Handled)
    BY <1>3 DEF CInv, AnswersOK
  <2>4. Cardinality(Handled) <= Cardinality(Servers) /\ Cardinality(Servers) \in Nat
    BY <1>2, FiniteParts
  <2>5. QED
    BY <2>2, <2>3, <2>4
<1>10. QED
  BY <1>4, <1>5, <1>6, <1>7, <1>8, <1>9 DEF CInv

\* The first read finds enough answers if the channel was closed for it.
LEMMA ReadServersOK ==
  ASSUME CInv, ReadServers
  PROVE  CInv'
<1>1. /\ expected' = expected /\ garbled' = garbled /\ inbox' = inbox
      /\ taken' = taken /\ responses' = responses /\ closed' = closed
      /\ callback' = callback /\ count' = count /\ crashed' = crashed
      /\ caller' = "counting" /\ answer' = [answer EXCEPT !.servers = responses]
  BY DEF ReadServers
<1>2. /\ answer'.servers = responses /\ answer'.total = answer.total
      /\ answer'.reason = answer.reason
  BY <1>1 DEF CInv, CollectorTypeOK
<1>3. Handled' = Handled /\ Uncounted' = Uncounted
  BY <1>1 DEF Handled, Uncounted
<1>4. CollectorTypeOK'
  BY <1>1 DEF CInv, CollectorTypeOK
<1>5. AnswersOK' /\ ChannelOK' /\ CollectedOK'
  BY <1>1, <1>2, <1>3 DEF CInv, AnswersOK, ChannelOK, CollectedOK, Enough
<1>6. Cardinality(responses) \in Nat
  BY FiniteParts DEF CInv, CollectorTypeOK
<1>7. ReadOK'
  BY <1>1, <1>2, <1>6 DEF ReadOK
<1>8. AnswerIsConsistent' /\ NoSurplusNoPanic'
  BY <1>1 DEF CInv, AnswerIsConsistent, NoSurplusNoPanic
<1>9. ASSUME expected > 0, answer.reason = "done"
      PROVE  Cardinality(responses) + Cardinality(garbled) >= expected
  <2>1. count >= expected /\ expected \in Nat /\ count \in Nat
    BY <1>9 DEF CInv, ChannelOK, Enough, CollectorTypeOK
  <2>2. garbled \in SUBSET Servers /\ Handled \in SUBSET Servers
    BY DEF CInv, CollectorTypeOK, Handled
  <2>3. Cardinality(garbled) \in Nat
    BY <2>2, FiniteParts
  <2>4. CASE Enough(Cardinality(responses))
    BY <1>6, <2>1, <2>3, <2>4 DEF Enough
  <2>5. CASE responses = Handled \ garbled
    <3>1. /\ IsFiniteSet(Handled) /\ Cardinality(Handled) \in Nat
          /\ Cardinality(Handled \intersect garbled) \in Nat
          /\ Cardinality(Handled \intersect garbled) <= Cardinality(garbled)
      BY <2>2, FiniteParts, FS_Subset
    <3>2. Cardinality(Handled \ garbled)
            = Cardinality(Handled) - Cardinality(Handled \intersect garbled)
      BY <3>1, FS_Difference
    <3>3. Cardinality(Handled) >= count
      BY <2>1 DEF CInv, AnswersOK, Uncounted
    <3>4. QED
      BY <2>1, <2>3, <2>5, <3>1, <3>2, <3>3
  <2>6. QED
    BY <2>4, <2>5 DEF CInv, CollectedOK
<1>10. EnoughMeansEnough'
  BY <1>1, <1>2, <1>9 DEF CInv, CollectedOK, EnoughMeansEnough
<1>11. QED
  BY <1>4, <1>5, <1>7, <1>8, <1>10 DEF CInv

\* The other steps of the caller.
LEMMA CallerStepsOK ==
  ASSUME CInv,
         StopWaiting \/ Unsubscribe \/ ReadTotal \/ UNCHANGED collectorVars
  PROVE  CInv'
<1>1. /\ expected' = expected /\ garbled' = garbled /\ inbox' = inbox
      /\ taken' = taken /\ responses' = responses /\ closed' = closed
      /\ callback' = callback /\ count' = count /\ crashed' = crashed
  BY DEF StopWaiting, Unsubscribe, ReadTotal, collectorVars
<1>2. Handled' = Handled /\ Uncounted' = Uncounted
  BY <1>1 DEF Handled, Uncounted
<1>3. AnswersOK' /\ CollectedOK' /\ NoSurplusNoPanic'
  BY <1>1, <1>2 DEF CInv, AnswersOK, CollectedOK, Enough, NoSurplusNoPanic
<1>4. Cardinality(responses) \in Nat
  BY FiniteParts DEF CInv, CollectorTypeOK
<1>5. CASE StopWaiting
  <2>1. PICK why \in {"done", "timeout"} :
          /\ answer' = [answer EXCEPT !.reason = why]
          /\ why = "done" => closed
          /\ caller' = "returning"
    BY <1>5 DEF StopWaiting
  <2>2. CollectorTypeOK'
    BY <1>1, <2>1 DEF CInv, CollectorTypeOK
  <2>3. answer'.reason = why
    BY <2>1 DEF CInv, CollectorTypeOK
  <2>4. ChannelOK'
    BY <1>1, <2>1, <2>3 DEF CInv, ChannelOK, Enough
  <2>5. ReadOK' /\ AnswerIsConsistent' /\ EnoughMeansEnough'
    BY <2>1 DEF ReadOK, AnswerIsConsistent, EnoughMeansEnough
  <2>6. QED
    BY <1>3, <2>2, <2>4, <2>5 DEF CInv
<1>6. CASE Unsubscribe
  <2>1. answer' = answer /\ caller' = "reading"
    BY <1>6 DEF Unsubscribe
  <2>2. CollectorTypeOK' /\ ChannelOK'
    BY <1>1, <2>1 DEF CInv, CollectorTypeOK, ChannelOK, Enough
  <2>3. ReadOK' /\ AnswerIsConsistent' /\ EnoughMeansEnough'
    BY <2>1 DEF ReadOK, AnswerIsConsistent, EnoughMeansEnough
  <2>4. QED
    BY <1>3, <2>2, <2>3 DEF CInv
<1>7. CASE ReadTotal
  <2>1. /\ answer' = [answer EXCEPT !.total = Cardinality(responses)]
        /\ caller = "counting" /\ caller' = "answered"
    BY <1>7 DEF ReadTotal
  <2>2. /\ answer'.servers = answer.servers /\ answer'.reason = answer.reason
        /\ answer'.total = Cardinality(responses)
    BY <2>1 DEF CInv, CollectorTypeOK
  <2>3. CollectorTypeOK'
    BY <1>1, <1>4, <2>1 DEF CInv, CollectorTypeOK
  <2>4. ChannelOK'
    BY <1>1, <2>2 DEF CInv, ChannelOK, Enough
  <2>5. AnswerIsConsistent'
    <3>1. /\ answer.servers \subseteq responses
          /\ \/ Cardinality(responses) <= Cardinality(answer.servers) + 0
             \/ Cardinality(responses) <= Cardinality(answer.servers) + 1
      BY <2>1 DEF CInv, ReadOK
    <3>2. IsFiniteSet(responses) /\ Cardinality(answer.servers) \in Nat
      BY FiniteParts DEF CInv, CollectorTypeOK
    <3>3. Cardinality(answer.servers) <= Cardinality(responses)
      BY <3>1, <3>2, FS_Subset
    <3>4. QED
      BY <1>4, <2>2, <3>1, <3>2, <3>3 DEF AnswerIsConsistent
  <2>6. ReadOK' /\ EnoughMeansEnough'
    BY <1>1, <2>1, <2>2 DEF CInv, ReadOK, EnoughMeansEnough
  <2>7. QED
    BY <1>3, <2>3, <2>4, <2>5, <2>6 DEF CInv
<1>8. CASE UNCHANGED collectorVars
  <2>1. answer' = answer /\ caller' = caller
    BY <1>8 DEF collectorVars
  <2>2. CollectorTypeOK' /\ ChannelOK'
    BY <1>1, <2>1 DEF CInv, CollectorTypeOK, ChannelOK, Enough
  <2>3. ReadOK' /\ AnswerIsConsistent' /\ EnoughMeansEnough'
    BY <1>1, <2>1 DEF CInv, ReadOK, AnswerIsConsistent, EnoughMeansEnough
  <2>4. QED
    BY <1>3, <2>2, <2>3 DEF CInv
<1>9. QED
  BY <1>5, <1>6, <1>7, <1>8

LEMMA CollectorStepOK == CInv /\ [CollectorNext]_collectorVars => CInv'
  BY TakeAnswerOK, HandleResponseOK, CountResponseOK, ReadServersOK, CallerStepsOK
     DEF CollectorNext, Caller

\* The conjunction of the invariants is inductive.
THEOREM CollectorInvariant == CollectorSpec => []CInv
  BY CollectorInitOK, CollectorStepOK, PTL DEF CollectorSpec

-----------------------------------------------------------------------------
\* Whatever the servers answer and when, the process dies of a second close only if
\* more servers answer than were expected.
THEOREM OnlySurplusPanics == CollectorSpec => []NoSurplusNoPanic
<1>1. CInv => NoSurplusNoPanic
  BY DEF CInv
<1>2. QED
  BY <1>1, CollectorInvariant, PTL

\* A listing that did not time out lacks no more than the answers that could not be
\* parsed, and no listing has more than were expected.
THEOREM ListingIsComplete == CollectorSpec => []EnoughMeansEnough
<1>1. CInv => EnoughMeansEnough
  BY DEF CInv
<1>2. QED
  BY <1>1, CollectorInvariant, PTL

\* The number of servers differs from the servers listed by one at most.
THEOREM ListingIsConsistent == CollectorSpec => []AnswerIsConsistent
<1>1. CInv => AnswerIsConsistent
  BY DEF CInv
<1>2. QED
  BY <1>1, CollectorInvariant, PTL

-----------------------------------------------------------------------------
(* The topology.                                                            *)

\* Why the two hold.  What is visited is in the groups, isolated, or in the group
\* being searched, and nowhere twice; the numbers count it.
Accounted ==
  /\ visited \subseteq Members
  /\ visited = (UNION groups) \union isolated \union group
  /\ \A g1, g2 \in groups : g1 = g2 \/ g1 \intersect g2 = {}
  /\ (UNION groups) \intersect isolated = {}
  /\ group \intersect ((UNION groups) \union isolated) = {}
  /\ size = Cardinality(group)
  /\ connected = Cardinality(UNION groups)
  /\ \A g \in groups : Cardinality(g) > 1

\* What has been finished: the groups, and isolated clusters by themselves.
Finished == groups \union {{c} : c \in isolated}
Found == group \union {c \in Members : stack[c] > 0}

\* A connection is within a part, goes to one, or leads from or to a cluster
\* marked isolated.
Inside(S, T) ==
  \A e \in seen :
    /\ e[1] \in S => e[2] \in T \/ "isolated" \in {mark[e[1]], mark[e[2]]}
    /\ e[2] \in S => e[1] \in T \/ "isolated" \in {mark[e[1]], mark[e[2]]}

\* What has been found together belongs together, and no connection that counts
\* leaves it.
Searched ==
  /\ \A S \in SUBSET Members :
       Closed(S) =>
         \A g \in Finished \union {Found} : g \subseteq S \/ g \intersect S = {}
  /\ \A g \in Finished : Inside(g, g)
  /\ Inside(group, Found)

TopologyTypes ==
  /\ gateway \subseteq Gateways
  /\ seen \subseteq {e \in Gateways : e[2] \in Members}
  /\ toFetch \subseteq Members
  /\ mark \in [Members -> {"none", "connected", "isolated", "unknown"}]
  /\ stack \in [Members -> Nat]
  /\ toFetch # {} => /\ visited = {} /\ groups = {} /\ isolated = {} /\ group = {}
                      /\ stack = EmptyStack /\ size = 0

TopologyInv == TopologyTypes /\ Accounted /\ Searched

-----------------------------------------------------------------------------
\* A connection found is a pair of two clusters.
LEMMA SeenIsAPair ==
  ASSUME TopologyTypes, NEW e \in seen
  PROVE  /\ e[1] \in Members /\ e[2] \in Members /\ e[1] # e[2]
         /\ e = <<e[1], e[2]>>
  BY DEF TopologyTypes, Gateways

\* What the visit of c puts on the stack: the clusters it is connected with in
\* either direction, but for those visited and itself.
LEMMA PushesWhat ==
  ASSUME NEW c \in Members, NEW d \in Members
  PROVE  /\ Pushes(c, d) \in Nat
         /\ Pushes(c, d) > 0 <=> /\ d \notin visited \union {c}
                                /\ (<<c, d>> \in seen \/ <<d, c>> \in seen)
  <1>1. CASE d \in visited \union {c}
    BY <1>1 DEF Pushes
  <1>2. CASE d \notin visited \union {c}
    <2>1. Pushes(c, d) = (IF <<c, d>> \in seen THEN 1 ELSE 0)
                           + (IF <<d, c>> \in seen THEN 1 ELSE 0)
      BY <1>2 DEF Pushes, OutgoingOf, IncomingOf
    <2> QED  BY <1>2, <2>1
  <1> QED  BY <1>1, <1>2

\* Parts of the clusters are finite.
LEMMA PartsAreFinite ==
  ASSUME NEW S \in SUBSET Members
  PROVE  IsFiniteSet(S) /\ Cardinality(S) \in Nat
  BY FS_Subset, FS_CardinalityType, TopologyAssumption

\* Parts that have nothing in common add up.
LEMMA PartsAddUp ==
  ASSUME NEW S \in SUBSET Members, NEW T \in SUBSET Members, S \intersect T = {}
  PROVE  Cardinality(S \union T) = Cardinality(S) + Cardinality(T)
  <1>1. /\ IsFiniteSet(S) /\ IsFiniteSet(T)
        /\ Cardinality(S) \in Nat /\ Cardinality(T) \in Nat
    BY PartsAreFinite
  <1>2. Cardinality(S \union T)
          = Cardinality(S) + Cardinality(T) - Cardinality(S \intersect T)
    BY <1>1, FS_Union
  <1>3. Cardinality(S \intersect T) = 0
    BY FS_EmptySet
  <1> QED  BY <1>1, <1>2, <1>3

\* Nothing is being searched as long as the group is empty and so is the stack.
LEMMA NothingFound ==
  ASSUME TopologyTypes, Accounted, stack = EmptyStack, size = 0
  PROVE  group = {} /\ Found = {}
  <1>1. group \subseteq Members
    BY DEF Accounted
  <1>2. group = {}
    BY <1>1, PartsAreFinite, FS_EmptySet DEF Accounted
  <1> QED  BY <1>2 DEF Found, EmptyStack

\* In the beginning there is nothing to account for.
LEMMA TopologyInitInv == TopologyInit => TopologyInv
  <1> SUFFICES ASSUME TopologyInit PROVE TopologyInv
    OBVIOUS
  <1> USE DEF TopologyInit
  <1>1. TopologyTypes
    BY DEF TopologyTypes, EmptyStack
  <1>2. Accounted
    BY FS_EmptySet DEF Accounted
  <1>3. Found = {} /\ Finished = {}
    BY DEF Found, Finished, EmptyStack
  <1>4. Searched
    BY <1>3 DEF Searched, Inside
  <1> QED  BY <1>1, <1>2, <1>4 DEF TopologyInv

\* While the gateways are fetched, nothing has been searched.
LEMMA FetchKeeps ==
  ASSUME TopologyInv, NEW c \in Members, FetchGateways(c)
  PROVE  TopologyInv'
  <1> USE DEF FetchGateways, searchVars
  <1>0. /\ visited = {} /\ groups = {} /\ isolated = {} /\ group = {}
        /\ stack = EmptyStack /\ size = 0
    BY DEF TopologyInv, TopologyTypes
  <1>1. TopologyTypes'
    <2>1. MarkOf(c, seen') \in {"none", "connected", "isolated", "unknown"}
      BY DEF MarkOf
    <2>2. mark' \in [Members -> {"none", "connected", "isolated", "unknown"}]
      BY <2>1 DEF TopologyInv, TopologyTypes
    <2>3. seen' \subseteq {e \in Gateways : e[2] \in Members}
      BY DEF TopologyInv, TopologyTypes
    <2> QED  BY <1>0, <2>2, <2>3 DEF TopologyInv, TopologyTypes, EmptyStack
  <1>2. Accounted'
    BY DEF TopologyInv, Accounted
  <1>3. Found' = {} /\ Finished' = {} /\ group' = {}
    BY <1>0 DEF Found, Finished, EmptyStack
  <1>4. Searched'
    BY <1>3 DEF Searched, Inside
  <1> QED  BY <1>1, <1>2, <1>4 DEF TopologyInv

\* A gateway that changes is none that has been found.
LEMMA ChangeKeeps ==
  ASSUME TopologyInv, NEW e \in Gateways, GatewayChanges(e)
  PROVE  TopologyInv'
  <1> USE DEF GatewayChanges, searchVars
  <1>1. TopologyTypes'
    BY DEF TopologyInv, TopologyTypes, EmptyStack
  <1>2. Accounted'
    BY DEF TopologyInv, Accounted
  <1>3. Searched'
    <2>1. UNCHANGED <<seen, mark, stack, group, groups, isolated>>
      OBVIOUS
    <2>2. Finished' = Finished /\ Found' = Found
      BY <2>1 DEF Finished, Found
    <2>3. \A S : Closed(S)' = Closed(S)
      BY <2>1 DEF Closed
    <2>4. \A S, T : Inside(S, T)' = Inside(S, T)
      BY <2>1 DEF Inside
    <2>5. Searched
      BY DEF TopologyInv
    <2>6. \A g \in Finished : Inside(g, g)'
      BY <2>4, <2>5 DEF Searched
    <2>7. Inside(group, Found)'
      BY <2>1, <2>2, <2>4, <2>5 DEF Searched
    <2>8. \A S \in SUBSET Members :
            Closed(S)' =>
              \A g \in Finished \union {Found} : g \subseteq S \/ g \intersect S = {}
      BY <2>3, <2>5 DEF Searched
    <2> QED  BY <2>1, <2>2, <2>6, <2>7, <2>8 DEF Searched, Closed, Inside
  <1> QED  BY <1>1, <1>2, <1>3 DEF TopologyInv

\* Steps of the search leave what was found of the connections.
LEMMA WalkKeeps ==
  ASSUME TopologyInv, NEW c \in Members, WalkTo(c)
  PROVE  TopologyInv'
  <1> USE DEF WalkTo, fetchVars
  <1>0. group = {} /\ Found = {} /\ group' = {}
    BY NothingFound DEF TopologyInv
  <1>1. CASE mark[c] = "isolated"
    <2>1. isolated' = isolated \union {c} /\ visited' = visited \union {c} /\ stack' = stack
      BY <1>1
    <2>2. TopologyTypes'
      BY <2>1 DEF TopologyInv, TopologyTypes, EmptyStack
    <2>3. Accounted'
      <3>1. c \in Members /\ c \notin visited
        OBVIOUS
      <3>2. /\ group' = group /\ size' = size /\ groups' = groups /\ connected' = connected
        OBVIOUS
      <3>3. Accounted
        BY DEF TopologyInv
      <3> HIDE DEF WalkTo
      <3> QED  BY <2>1, <3>1, <3>2, <3>3 DEF Accounted
    <2>4. Finished' = Finished \union {{c}} /\ Found' = {}
      BY <1>0, <2>1 DEF Finished, Found
    <2>5. Inside({c}, {c})
      BY <1>1 DEF Inside
    <2>6. \A g : Inside(g, g)' <=> Inside(g, g)
      BY DEF Inside
    <2>7. \A S : Closed(S)' <=> Closed(S)
      BY DEF Closed
    <2>8. \A g \in Finished' : Inside(g, g)'
      BY <2>4, <2>5, <2>6 DEF TopologyInv, Searched
    <2>9. Inside(group, Found)'
      BY <1>0 DEF Inside
    <2>10. ASSUME NEW S \in SUBSET Members, Closed(S)', NEW g \in (Finished \union {Found})'
           PROVE  g \subseteq S \/ g \intersect S = {}
      BY <2>4, <2>7, <2>10 DEF TopologyInv, Searched
    <2> QED  BY <2>2, <2>3, <2>8, <2>9, <2>10 DEF TopologyInv, Searched
  <1>2. CASE mark[c] # "isolated"
    <2>1. stack' = [stack EXCEPT ![c] = 1] /\ isolated' = isolated /\ visited' = visited
      BY <1>2
    <2>2. TopologyTypes'
      BY <2>1 DEF TopologyInv, TopologyTypes, EmptyStack
    <2>3. Accounted'
      BY <2>1 DEF TopologyInv, Accounted
    <2>4. Finished' = Finished /\ Found' = {c}
      BY <1>0, <2>1 DEF Finished, Found, EmptyStack
    <2>6. \A g : Inside(g, g)' <=> Inside(g, g)
      BY DEF Inside
    <2>7. \A S : Closed(S)' <=> Closed(S)
      BY DEF Closed
    <2>8. \A g \in Finished' : Inside(g, g)'
      BY <2>4, <2>6 DEF TopologyInv, Searched
    <2>9. Inside(group, Found)'
      BY <1>0 DEF Inside
    <2>10. ASSUME NEW S \in SUBSET Members, Closed(S)', NEW g \in (Finished \union {Found})'
           PROVE  g \subseteq S \/ g \intersect S = {}
      BY <2>4, <2>7, <2>10 DEF TopologyInv, Searched
    <2> QED  BY <2>2, <2>3, <2>8, <2>9, <2>10 DEF TopologyInv, Searched
  <1> QED  BY <1>1, <1>2

\* The part that a finished cluster is in.
LEMMA FinishedPart ==
  ASSUME Accounted, NEW d \in visited, d \notin group
  PROVE  \E g \in Finished : d \in g /\ g \subseteq visited /\ g \intersect group = {}
  <1>1. CASE \E g \in groups : d \in g
    BY <1>1 DEF Accounted, Finished
  <1>2. CASE d \in isolated
    <2>1. {d} \in Finished
      BY <1>2 DEF Finished
    <2> QED  BY <2>1
  <1>3. d \in UNION groups \/ d \in isolated
    BY DEF Accounted
  <1> QED  BY <1>1, <1>2, <1>3

\* A cluster that is skipped is in the group, or no connection that counts leads
\* to it from there.
LEMMA SkipKeeps ==
  ASSUME TopologyInv, NEW c \in Members, PopStack(c), c \in visited
  PROVE  TopologyInv'
  <1> USE DEF PopStack, Visit, fetchVars
  <1>1. stack' = [stack EXCEPT ![c] = @ - 1] /\ UNCHANGED <<visited, group, size>>
    OBVIOUS
  <1>2. TopologyTypes'
    BY <1>1 DEF TopologyInv, TopologyTypes, EmptyStack
  <1>3. Accounted'
    BY <1>1 DEF TopologyInv, Accounted
  <1>4. Finished' = Finished /\ Found' \subseteq Found /\ Found \subseteq Found' \union {c}
        /\ group \subseteq Found'
    BY <1>1 DEF TopologyInv, TopologyTypes, Finished, Found
  <1>5. \A g : Inside(g, g)' <=> Inside(g, g)
    BY DEF Inside
  <1>6. \A S : Closed(S)' <=> Closed(S)
    BY DEF Closed
  <1>7. \A g \in Finished' : Inside(g, g)'
    BY <1>4, <1>5 DEF TopologyInv, Searched
  <1>8. Inside(group, Found)'
    <2>1. CASE c \in group
      BY <1>1, <1>4, <2>1 DEF TopologyInv, Searched, Inside
    <2>2. CASE c \notin group
      <3>1. PICK g \in Finished : c \in g /\ g \intersect group = {}
        BY <2>2, FinishedPart DEF TopologyInv
      <3>2. Inside(g, g) /\ Inside(group, Found)
        BY DEF TopologyInv, Searched
      <3> QED  BY <1>1, <1>4, <3>1, <3>2 DEF Inside
    <2> QED  BY <2>1, <2>2
  <1>9. ASSUME NEW S \in SUBSET Members, Closed(S)', NEW g \in (Finished \union {Found})'
        PROVE  g \subseteq S \/ g \intersect S = {}
    <2>1. Closed(S)
      BY <1>6, <1>9
    <2>2. \A h \in Finished \union {Found} : h \subseteq S \/ h \intersect S = {}
      BY <2>1 DEF TopologyInv, Searched
    <2> QED  BY <1>4, <2>2
  <1> QED  BY <1>2, <1>3, <1>7, <1>8, <1>9 DEF TopologyInv, Searched

\* A cluster that is visited brings what it is connected with onto the stack; what
\* was finished before is cut off from it.
LEMMA VisitKeeps ==
  ASSUME TopologyInv, NEW c \in Members, PopStack(c), c \notin visited
  PROVE  TopologyInv'
  <1> USE DEF PopStack, Visit, fetchVars
  <1>1. /\ visited' = visited \union {c} /\ group' = group \union {c} /\ size' = size + 1
        /\ stack' = [d \in Members |->
                      IF d = c THEN stack[c] - 1 ELSE stack[d] + Pushes(c, d)]
    OBVIOUS
  <1>2. TopologyTypes'
    <2>1. stack[c] > 0 /\ stack # EmptyStack
      BY DEF EmptyStack
    <2>2. stack' \in [Members -> Nat]
      <3>1. \A d \in Members : Pushes(c, d) \in Nat
        BY PushesWhat
      <3>2. stack \in [Members -> Nat] /\ stack[c] - 1 \in Nat
        BY <2>1 DEF TopologyInv, TopologyTypes
      <3> QED  BY <1>1, <3>1, <3>2
    <2>3. toFetch = {}
      BY <2>1 DEF TopologyInv, TopologyTypes
    <2> QED  BY <1>1, <2>2, <2>3 DEF TopologyInv, TopologyTypes
  <1>3. Accounted'
    <2>1. group \in SUBSET Members /\ c \notin group
      BY DEF TopologyInv, Accounted
    <2>2. Cardinality(group \union {c}) = Cardinality(group) + 1
      BY <2>1, PartsAreFinite, FS_AddElement
    <2> QED  BY <1>1, <2>2 DEF TopologyInv, Accounted
  <1>4. \A d \in Members : d \in Found' <=>
          \/ d \in Found
          \/ d \notin visited \union {c} /\ (<<c, d>> \in seen \/ <<d, c>> \in seen)
    <2> SUFFICES ASSUME NEW d \in Members
                 PROVE  d \in Found' <=>
          \/ d \in Found
          \/ d \notin visited \union {c} /\ (<<c, d>> \in seen \/ <<d, c>> \in seen)
      OBVIOUS
    <2>1. CASE d = c
      BY <1>1, <2>1 DEF Found
    <2>2. CASE d # c
      <3>1. stack'[d] = stack[d] + Pushes(c, d) /\ stack[d] \in Nat
        BY <1>1, <2>2 DEF TopologyInv, TopologyTypes
      <3>3. Pushes(c, d) \in Nat
        BY PushesWhat
      <3>2. stack'[d] > 0 <=> stack[d] > 0 \/ Pushes(c, d) > 0
        BY <3>1, <3>3
      <3> QED  BY <1>1, <2>2, <3>2, PushesWhat DEF Found
    <2> QED  BY <2>1, <2>2
  <1>5. Finished' = Finished /\ c \in Found /\ Found \subseteq Members /\ Found' \subseteq Members
    BY <1>1 DEF TopologyInv, Accounted, Finished, Found
  <1>6. \A g : Inside(g, g)' <=> Inside(g, g)
    BY DEF Inside
  <1>7. \A S : Closed(S)' <=> Closed(S)
    BY DEF Closed
  <1>8. \A g \in Finished' : Inside(g, g)'
    BY <1>5, <1>6 DEF TopologyInv, Searched
  <1>9. Inside(group, Found)'
    <2>1. ASSUME NEW e \in seen, NEW d \in Members, e = <<c, d>> \/ e = <<d, c>>
          PROVE  d \in Found' \/ "isolated" \in {mark[e[1]], mark[e[2]]}
      <3>1. CASE d \notin visited
        BY <1>4, <1>5, <2>1, <3>1
      <3>2. CASE d \in group
        BY <1>4, <3>2 DEF Found
      <3>3. CASE d \in visited /\ d \notin group
        <4>1. PICK g \in Finished : d \in g /\ g \subseteq visited
          BY <3>3, FinishedPart DEF TopologyInv
        <4>2. Inside(g, g) /\ c \notin g
          BY <4>1 DEF TopologyInv, Searched
        <4> QED  BY <2>1, <4>1, <4>2 DEF Inside
      <3> QED  BY <3>1, <3>2, <3>3
    <2>2. ASSUME NEW e \in seen
          PROVE  /\ e[1] \in group' => e[2] \in Found' \/ "isolated" \in {mark[e[1]], mark[e[2]]}
                 /\ e[2] \in group' => e[1] \in Found' \/ "isolated" \in {mark[e[1]], mark[e[2]]}
      <3>1. e[1] \in Members /\ e[2] \in Members /\ e = <<e[1], e[2]>>
        BY SeenIsAPair DEF TopologyInv
      <3>2. /\ e[1] \in group => e[2] \in Found \/ "isolated" \in {mark[e[1]], mark[e[2]]}
            /\ e[2] \in group => e[1] \in Found \/ "isolated" \in {mark[e[1]], mark[e[2]]}
        BY DEF TopologyInv, Searched, Inside
      <3>3. /\ e[1] = c => e[2] \in Found' \/ "isolated" \in {mark[e[1]], mark[e[2]]}
            /\ e[2] = c => e[1] \in Found' \/ "isolated" \in {mark[e[1]], mark[e[2]]}
        BY <2>1, <3>1
      <3> QED  BY <1>1, <1>4, <3>1, <3>2, <3>3
    <2> QED  BY <2>2 DEF Inside
  <1>10. ASSUME NEW S \in SUBSET Members, Closed(S)', NEW g \in (Finished \union {Found})'
         PROVE  g \subseteq S \/ g \intersect S = {}
    <2>1. Closed(S)
      BY <1>7, <1>10
    <2>2. \A h \in Finished \union {Found} : h \subseteq S \/ h \intersect S = {}
      BY <2>1 DEF TopologyInv, Searched
    <2>3. \A d \in Members : (<<c, d>> \in seen \/ <<d, c>> \in seen) => (c \in S <=> d \in S)
      BY <2>1 DEF Closed
    <2>4. Found' \subseteq S \/ Found' \intersect S = {}
      <3>1. CASE Found \subseteq S
        BY <1>4, <1>5, <2>3, <3>1
      <3>2. CASE Found \intersect S = {}
        BY <1>4, <1>5, <2>3, <3>2
      <3> QED  BY <2>2, <3>1, <3>2
    <2> QED  BY <1>5, <2>2, <2>4
  <1> QED  BY <1>2, <1>3, <1>8, <1>9, <1>10 DEF TopologyInv, Searched

\* The group that is finished has everything its clusters are connected with.
LEMMA FinishKeeps ==
  ASSUME TopologyInv, FinishGroup
  PROVE  TopologyInv'
  <1> USE DEF FinishGroup, fetchVars
  <1>1. Found = group /\ Found' = {} /\ group' = {} /\ size' = 0
    BY DEF Found, EmptyStack
  <1>2. group \in SUBSET Members /\ UNION groups \in SUBSET Members /\ size = Cardinality(group)
    BY DEF TopologyInv, Accounted
  <1>3. TopologyTypes'
    BY DEF TopologyInv, TopologyTypes, EmptyStack
  <1>4. Accounted' /\ Finished' = Finished \union {group}
    <2>1. CASE size > 1
      <3>1. groups' = groups \union {group} /\ connected' = connected + size /\ isolated' = isolated
        BY <2>1
      <3>2. UNION groups' = (UNION groups) \union group
        BY <3>1
      <3>3. (UNION groups) \intersect group = {}
        BY DEF TopologyInv, Accounted
      <3>4. Cardinality((UNION groups) \union group) = Cardinality(UNION groups) + Cardinality(group)
        BY <1>2, <3>3, PartsAddUp
      <3>5. Finished' = Finished \union {group}
        BY <3>1 DEF Finished
      <3>6. Cardinality({}) = 0
        BY FS_EmptySet
      <3>7. \A g1, g2 \in groups' : g1 = g2 \/ g1 \intersect g2 = {}
        BY <3>1, <3>3 DEF TopologyInv, Accounted
      <3>8. connected' = Cardinality(UNION groups')
        BY <1>2, <3>1, <3>2, <3>4 DEF TopologyInv, Accounted
      <3>9. \A g \in groups' : Cardinality(g) > 1
        BY <1>2, <2>1, <3>1 DEF TopologyInv, Accounted
      <3>10. /\ visited' = (UNION groups') \union isolated' \union group'
             /\ (UNION groups') \intersect isolated' = {}
             /\ group' \intersect ((UNION groups') \union isolated') = {}
             /\ visited' \subseteq Members
        BY <1>1, <3>1, <3>2 DEF TopologyInv, Accounted
      <3> QED  BY <1>1, <3>5, <3>6, <3>7, <3>8, <3>9, <3>10 DEF Accounted
    <2>2. CASE ~ (size > 1)
      <3>1. isolated' = isolated \union group /\ groups' = groups /\ connected' = connected
        BY <2>2
      <3>2. Cardinality(group) = 1
        BY <1>2, <2>2, PartsAreFinite
      <3>3. PICK c : group = {c}
        BY <1>2, <3>2, PartsAreFinite, FS_Singleton
      <3>4. Finished' = Finished \union {group}
        BY <3>1, <3>3 DEF Finished
      <3>5. Cardinality({}) = 0
        BY FS_EmptySet
      <3> QED  BY <1>1, <3>1, <3>4, <3>5 DEF TopologyInv, Accounted
    <2> QED  BY <2>1, <2>2
  <1>5. \A g : Inside(g, g)' <=> Inside(g, g)
    BY DEF Inside
  <1>6. \A S : Closed(S)' <=> Closed(S)
    BY DEF Closed
  <1>7. \A g \in Finished' : Inside(g, g)'
    BY <1>1, <1>4, <1>5 DEF TopologyInv, Searched
  <1>8. Inside(group, Found)'
    BY <1>1 DEF Inside
  <1>9. ASSUME NEW S \in SUBSET Members, Closed(S)', NEW g \in (Finished \union {Found})'
        PROVE  g \subseteq S \/ g \intersect S = {}
    <2>1. Closed(S)
      BY <1>6, <1>9
    <2>2. \A h \in Finished \union {Found} : h \subseteq S \/ h \intersect S = {}
      BY <2>1 DEF TopologyInv, Searched
    <2> QED  BY <1>1, <1>4, <2>2
  <1> QED  BY <1>3, <1>4, <1>7, <1>8, <1>9 DEF TopologyInv, Searched

\* The accounts of the search and what it has found together are kept by every step.
THEOREM TopologyIsAccounted == TopologySpec => []TopologyInv
  <1>1. TopologyInv /\ [TopologyNext]_topologyVars => TopologyInv'
    <2> SUFFICES ASSUME TopologyInv, [TopologyNext]_topologyVars PROVE TopologyInv'
      OBVIOUS
    <2>1. ASSUME NEW c \in Members, FetchGateways(c) PROVE TopologyInv'
      BY <2>1, FetchKeeps
    <2>2. ASSUME NEW c \in Members, WalkTo(c) PROVE TopologyInv'
      BY <2>2, WalkKeeps
    <2>3. ASSUME NEW c \in Members, PopStack(c) PROVE TopologyInv'
      BY <2>3, SkipKeeps, VisitKeeps
    <2>4. CASE FinishGroup
      BY <2>4, FinishKeeps
    <2>5. ASSUME NEW e \in Gateways, GatewayChanges(e) PROVE TopologyInv'
      BY <2>5, ChangeKeeps
    <2>6. CASE UNCHANGED topologyVars
      BY <2>6 DEF topologyVars, fetchVars, searchVars, TopologyInv, TopologyTypes,
         Accounted, Searched, Inside, Closed, Finished, Found, EmptyStack
    <2> QED  BY <2>1, <2>2, <2>3, <2>4, <2>5, <2>6 DEF TopologyNext
  <1> QED  BY TopologyInitInv, <1>1, PTL DEF TopologySpec

\* Every active cluster is in the answer exactly once and the numbers add up, for
\* any clusters and gateways.
THEOREM ClustersAreListedOnce == TopologySpec => []EveryClusterOnce
  <1>1. TopologyInv => EveryClusterOnce
    <2> SUFFICES ASSUME TopologyInv, Answered PROVE EveryClusterOnce
      BY DEF EveryClusterOnce
    <2>1. group = {} /\ visited = Members
      BY NothingFound DEF TopologyInv, Answered
    <2>2. /\ (UNION groups) \union isolated = Members
          /\ \A g1, g2 \in groups : g1 = g2 \/ g1 \intersect g2 = {}
          /\ (UNION groups) \intersect isolated = {}
          /\ connected = Cardinality(UNION groups)
      BY <2>1 DEF TopologyInv, Accounted
    <2>3. UNION groups \in SUBSET Members /\ isolated \in SUBSET Members
      BY <2>2
    <2>4. connected + Cardinality(isolated) = Cardinality(Members)
      BY <2>2, <2>3, PartsAddUp
    <2> QED  BY <2>2, <2>4 DEF EveryClusterOnce
  <1> QED  BY TopologyIsAccounted, <1>1, PTL

\* A component of the connections is what no connection leaves.
LEMMA ComponentIsClosed ==
  ASSUME TopologyTypes, NEW c \in Members
  PROVE  c \in Component(c) /\ Component(c) \subseteq Members /\ Closed(Component(c))
  <1>1. c \in Component(c) /\ Component(c) \subseteq Members
    BY DEF Component
  <1>2. ASSUME NEW e \in seen
        PROVE  e[1] \in Component(c) <=> e[2] \in Component(c)
    <2>1. e[1] \in Members /\ e[2] \in Members
      BY SeenIsAPair
    <2>2. \A S \in SUBSET Members : Closed(S) => (e[1] \in S <=> e[2] \in S)
      BY DEF Closed
    <2> QED  BY <2>1, <2>2 DEF Component
  <1> QED  BY <1>1, <1>2 DEF Closed

\* A component without clusters marked isolated is a group, or one isolated
\* cluster, for any clusters and gateways.
THEOREM ComponentsAreGrouped == TopologySpec => []GroupsAreComponents
  <1>1. TopologyInv => GroupsAreComponents
    <2> SUFFICES ASSUME TopologyInv, Answered, NEW c \in Members,
                        \A d \in Component(c) : mark[d] # "isolated"
                 PROVE  IF Component(c) = {c} THEN c \in isolated ELSE Component(c) \in groups
      BY DEF GroupsAreComponents
    <2>1. group = {} /\ visited = Members
      BY NothingFound DEF TopologyInv, Answered
    <2>2. PICK g \in Finished : c \in g
      BY <2>1, FinishedPart DEF TopologyInv
    <2>3. g \subseteq Members
      BY <2>1, <2>2 DEF TopologyInv, Accounted, Finished
    <2>4. c \in Component(c) /\ Component(c) \subseteq Members /\ Closed(Component(c))
      BY ComponentIsClosed DEF TopologyInv
    <2>5. g \subseteq Component(c)
      BY <2>2, <2>4 DEF TopologyInv, Searched
    <2>6. Closed(g)
      <3> SUFFICES ASSUME NEW e \in seen PROVE e[1] \in g <=> e[2] \in g
        BY DEF Closed
      <3>1. e[1] \in Component(c) <=> e[2] \in Component(c)
        BY <2>4 DEF Closed
      <3>2. Inside(g, g)
        BY DEF TopologyInv, Searched
      <3> QED  BY <2>5, <3>1, <3>2 DEF Inside
    <2>7. Component(c) = g
      BY <2>2, <2>3, <2>5, <2>6 DEF Component
    <2>8. CASE g \in groups
      <3>1. Cardinality(g) > 1
        BY <2>8 DEF TopologyInv, Accounted
      <3>2. Cardinality({c}) = 1
        BY FS_Singleton
      <3>3. g # {c}
        BY <3>1, <3>2
      <3> QED  BY <2>7, <2>8, <3>3
    <2>9. CASE g \notin groups
      <3>1. c \in isolated /\ g = {c}
        BY <2>2, <2>9 DEF Finished
      <3> QED  BY <2>7, <3>1
    <2> QED  BY <2>8, <2>9
  <1> QED  BY TopologyIsAccounted, <1>1, PTL
=============================================================================
