--------------------------- MODULE ClusterMonitor ---------------------------
(***************************************************************************)
(* The clusters' records, the loop of ClusterMonitorService that tests the *)
(* active ones, and the handlers that change clusters, test one by hand or *)
(* show the dashboard.  The loop works from a list read at its beginning;  *)
(* the test reads the cluster again; only failures are saved.  Updates     *)
(* read a whole record, change the copy and save it.                       *)
(*                                                                         *)
(* All health records say "unhealthy", and none is ever deleted: all that  *)
(* the queries tell apart is which clusters have one.  Clusters are never  *)
(* deleted either.                                                         *)
(***************************************************************************)
EXTENDS Integers, FiniteSets

CONSTANTS
  Clusters,
  Hosts,         \* addresses a cluster may have
  Unsteady,      \* bound: the hosts that come and go; the others are up
  Handlers,      \* concurrent requests
  NoCluster,
  MaxFaults,     \* bound: failed database calls and process crashes
  MaxEvents      \* bound: requests accepted and faults, together

VARIABLES
  cluster,    \* cluster[c]: the record of c, or NoCluster
  up,         \* the hosts that accept the connection test
  recorded,   \* the clusters that have a health record
  loop,       \* where the monitoring loop is: at, and the copies still to test
  stopped,    \* has StopMonitoring closed the channel
  req,        \* req[h]: the local state of handler h
  failing,    \* history: the clusters whose last test failed
  late,       \* history: automatic tests recorded since a cluster was disabled
  promised,   \* history: the clusters as the answered requests left them
  disturbed,  \* history: clusters of which two changes overlapped
  asked,
  monitorFaults

monitorVars == <<cluster, up, recorded, loop, stopped, req, failing, late,
                 promised, disturbed, asked, monitorFaults>>
history == <<late, promised, disturbed>>

-----------------------------------------------------------------------------
Statuses == {"active", "disabled"}
Cluster == [status : Statuses, host : Hosts]

ASSUME MonitorAssumption ==
  /\ IsFiniteSet(Clusters)
  /\ Hosts # {}
  /\ Unsteady \subseteq Hosts
  /\ MaxFaults \in Nat
  /\ MaxEvents \in Nat
  /\ NoCluster \notin Cluster

\* A copy of a cluster a check works from; its record will name this address.
Copy == [id : Clusters, host : Hosts]
Check == [copy : Copy, ok : BOOLEAN]

Loop ==
  [at : {"top", "sleep", "ended"}, todo : {{}}]
  \union [at : {"next"}, todo : SUBSET Copy]
  \union [at : {"record"}, todo : SUBSET Copy, check : Check]

\* What a request holds between its steps: a copy to change and save, a check,
\* or what the dashboard has counted so far.
Request ==
  [at : {"idle"}]
  \union [at : {"save"}, id : Clusters, field : {"status"}, value : Statuses,
          copy : Cluster]
  \union [at : {"save"}, id : Clusters, field : {"host"}, value : Hosts,
          copy : Cluster]
  \union [at : {"test"}, copy : Copy]
  \union [at : {"record"}, check : Check]
  \union [at : {"health"}, total : Nat, known : SUBSET Clusters]
  \union [at : {"list"}, known : SUBSET Clusters, sick : Nat, unknown : Int]
  \union [at : {"shown"}, known : SUBSET Clusters, sick : Nat, unknown : Int,
          listed : SUBSET Clusters]

\* What a check keeps of the record of c while it tests c.
CopyOf(c) == [id |-> c, host |-> cluster[c].host]

IdleRequest == [at |-> "idle"]
Busy == {h \in Handlers : req[h] # IdleRequest}
Known == {c \in Clusters : cluster[c] # NoCluster}
Active == {c \in Known : cluster[c].status = "active"}

MonitorFault ==
  /\ monitorFaults < MaxFaults
  /\ asked + monitorFaults < MaxEvents
  /\ monitorFaults' = monitorFaults + 1
NoMonitorFault == UNCHANGED monitorFaults

\* Handler h, an idle one, accepts a request.
AcceptRequest(h, state) ==
  /\ Busy # Handlers
  /\ h = CHOOSE idle \in Handlers \ Busy : TRUE
  /\ asked + monitorFaults < MaxEvents
  /\ asked' = asked + 1
  /\ req' = [req EXCEPT ![h] = state]

Reply(h) == req' = [req EXCEPT ![h] = IdleRequest]

MonitorInit ==
  /\ \E a \in {CHOOSE a \in Hosts : TRUE} :
       cluster \in [Clusters -> {NoCluster, [status |-> "active", host |-> a]}]
  /\ up \in {Hosts \ off : off \in SUBSET Unsteady}
  /\ recorded = {}
  /\ loop = [at |-> "top", todo |-> {}]
  /\ stopped = FALSE
  /\ req = [h \in Handlers |-> IdleRequest]
  /\ failing = {}
  /\ late = [c \in Clusters |-> 0]
  /\ promised = cluster
  /\ disturbed = {}
  /\ asked = 0
  /\ monitorFaults = 0

-----------------------------------------------------------------------------
CreateCluster(c, a) ==
  /\ cluster[c] = NoCluster
  /\ Busy # Handlers
  /\ asked + monitorFaults < MaxEvents
  /\ asked' = asked + 1
  /\ cluster' = [cluster EXCEPT ![c] = [status |-> "active", host |-> a]]
  /\ promised' = [promised EXCEPT ![c] = cluster'[c]]
  /\ UNCHANGED <<up, recorded, loop, stopped, req, failing, late, disturbed,
                 monitorFaults>>

\* UpdateCluster and SetClusterStatus read the record, ...
LoadCluster(h, c, field, value) ==
  /\ c \in Known
  /\ AcceptRequest(h, [at |-> "save", id |-> c, field |-> field, value |-> value,
                       copy |-> cluster[c]])
  /\ disturbed' = IF \E x \in Busy : req[x].at = "save" /\ req[x].id = c
                    THEN disturbed \union {c} ELSE disturbed
  /\ UNCHANGED <<cluster, up, recorded, loop, stopped, failing, late, promised,
                 monitorFaults>>

\* Mutant of Changed: a status that is not given is the default one.
ChangedWithDefaults(copy, field, value) ==
  IF field = "status" THEN [copy EXCEPT !.status = value]
                      ELSE [copy EXCEPT !.host = value, !.status = "active"]

Changed(copy, field, value) ==
  IF field = "status" THEN [copy EXCEPT !.status = value]
                      ELSE [copy EXCEPT !.host = value]

\* ... change the copy and save the whole of it.
SaveCluster(h) ==
  LET c == req[h].id
      saved == Changed(req[h].copy, req[h].field, req[h].value)
  IN
  /\ req[h].at = "save"
  /\ \/ /\ NoMonitorFault
        /\ cluster' = [cluster EXCEPT ![c] = saved]
        /\ promised' = [promised EXCEPT
             ![c] = IF req[h].field = "status" THEN [@ EXCEPT !.status = req[h].value]
                                               ELSE [@ EXCEPT !.host = req[h].value]]
        /\ late' = [late EXCEPT ![c] = IF saved.status = "active" THEN 0 ELSE @]
     \/ /\ MonitorFault
        /\ UNCHANGED <<cluster, promised, late>>
  /\ Reply(h)
  /\ UNCHANGED <<up, recorded, loop, stopped, failing, disturbed, asked>>

-----------------------------------------------------------------------------
\* TestClusterNATSConnection: a host that is down is found out by the time limit.
Accepts(a) == a \in up

\* TestClusterConnection: the record is read again and its host connected to.
\* An error of the read counts as a failure.
TestClusterConnection(c, ok) ==
  \/ NoMonitorFault /\ ok = Accepts(cluster[c].host)
  \/ MonitorFault /\ ok = FALSE

Failing(c, ok) == IF ok THEN failing \ {c} ELSE failing \union {c}

\* Mutant of Recorded: a result of a cluster that moved meanwhile is dropped.
RecordedIfCurrent(check) ==
  IF check.ok \/ check.copy.host # cluster[check.copy.id].host
    THEN recorded ELSE recorded \union {check.copy.id}

\* The clusters with a record after a check: only failures are saved.
Recorded(check) ==
  IF check.ok THEN recorded ELSE recorded \union {check.copy.id}

\* Mutant of ListedNow: clusters that have failed stay on the list for ever.
ListedEver == Active \union recorded

\* Mutant of ListedNow: an inner join with the health records.
ListedRecorded == Active \intersect recorded

\* The clusters GetActiveClusters lists.
ListedNow == Active

\* The loop looks at the channel first; performHealthChecks lists the active
\* clusters.
BeginRound ==
  /\ loop.at = "top"
  /\ IF stopped
       THEN loop' = [at |-> "ended", todo |-> {}] /\ NoMonitorFault
       ELSE \/ /\ NoMonitorFault
               /\ loop' = [at |-> "next", todo |-> {CopyOf(c) : c \in ListedNow}]
            \/ MonitorFault /\ loop' = [at |-> "sleep", todo |-> {}]
  /\ UNCHANGED <<cluster, up, recorded, stopped, req, failing, history, asked>>

\* checkClusterHealth of the next cluster of the list: the test ...
TestNext ==
  /\ loop.at = "next"
  /\ \E k \in loop.todo, ok \in BOOLEAN :
       /\ TestClusterConnection(k.id, ok)
       /\ loop' = [at |-> "record", todo |-> loop.todo \ {k},
                   check |-> [copy |-> k, ok |-> ok]]
       /\ failing' = Failing(k.id, ok)
  /\ UNCHANGED <<cluster, up, recorded, stopped, req, history, asked>>

\* ... and the record; a failed insert is only logged.
RecordHealth ==
  LET c == loop.check.copy.id IN
  /\ loop.at = "record"
  /\ loop' = [at |-> "next", todo |-> loop.todo]
  /\ \/ /\ NoMonitorFault
        /\ recorded' = Recorded(loop.check)
        /\ late' = [late EXCEPT ![c] =
             IF cluster[c].status = "active" \/ loop.check.ok \/ @ = 2 THEN @
             ELSE @ + 1]
     \/ MonitorFault /\ UNCHANGED <<recorded, late>>
  /\ UNCHANGED <<cluster, up, stopped, req, failing, promised, disturbed, asked>>

EndRound ==
  /\ loop.at \in {"next", "sleep"}
  /\ loop.todo = {}
  /\ loop' = [at |-> "top", todo |-> {}]
  /\ UNCHANGED <<cluster, up, recorded, stopped, req, failing, history, asked,
                 monitorFaults>>

\* main's deferred call, when the process is told to end.
StopMonitoring ==
  /\ ~ stopped
  /\ stopped' = TRUE
  /\ UNCHANGED <<cluster, up, recorded, loop, req, failing, history, asked,
                 monitorFaults>>

-----------------------------------------------------------------------------
\* TriggerManualHealthCheck reads the cluster, tests it ...
ReadForCheck(h, c) ==
  /\ c \in Known
  /\ AcceptRequest(h, [at |-> "test", copy |-> CopyOf(c)])
  /\ UNCHANGED <<cluster, up, recorded, loop, stopped, failing, history,
                 monitorFaults>>

TestByHand(h) ==
  /\ req[h].at = "test"
  /\ \E ok \in BOOLEAN :
       /\ TestClusterConnection(req[h].copy.id, ok)
       /\ req' = [req EXCEPT ![h] =
            [at |-> "record", check |-> [copy |-> @.copy, ok |-> ok]]]
       /\ failing' = Failing(req[h].copy.id, ok)
  /\ UNCHANGED <<cluster, up, recorded, loop, stopped, history, asked>>

\* ... and saves a failure; when that fails the request does.
RecordByHand(h) ==
  /\ req[h].at = "record"
  /\ Reply(h)
  /\ \/ /\ NoMonitorFault
        /\ recorded' = Recorded(req[h].check)
     \/ MonitorFault /\ UNCHANGED recorded
  /\ UNCHANGED <<cluster, up, loop, stopped, failing, history, asked>>

-----------------------------------------------------------------------------
Unhealthy == recorded

\* Mutant of CountClusters: only active clusters are counted.
CountActive(h) ==
  /\ AcceptRequest(h, [at |-> "health", total |-> Cardinality(Active),
                       known |-> Known])
  /\ UNCHANGED <<cluster, up, recorded, loop, stopped, failing, history,
                 monitorFaults>>

\* GetMonitoringDashboardData: the clusters are counted, ...
CountClusters(h) ==
  /\ AcceptRequest(h, [at |-> "health", total |-> Cardinality(Known),
                       known |-> Known])
  /\ UNCHANGED <<cluster, up, recorded, loop, stopped, failing, history,
                 monitorFaults>>

\* ... the latest health records read; what has none is unknown; ...
CountHealth(h) ==
  LET sick == Cardinality(Unhealthy) IN
  /\ req[h].at = "health"
  /\ req' = [req EXCEPT ![h] = [at |-> "list", known |-> @.known, sick |-> sick,
                                unknown |-> @.total - sick]]
  /\ UNCHANGED <<cluster, up, recorded, loop, stopped, failing, history, asked,
                 monitorFaults>>

\* ... and the latest health records read again for the unhealthy clusters.
ListUnhealthy(h) ==
  /\ req[h].at = "list"
  /\ req' = [req EXCEPT ![h] = [at |-> "shown", known |-> @.known, sick |-> @.sick,
                                unknown |-> @.unknown, listed |-> Unhealthy]]
  /\ UNCHANGED <<cluster, up, recorded, loop, stopped, failing, history, asked,
                 monitorFaults>>

ShowDashboard(h) ==
  /\ req[h].at = "shown"
  /\ Reply(h)
  /\ UNCHANGED <<cluster, up, recorded, loop, stopped, failing, history, asked,
                 monitorFaults>>

-----------------------------------------------------------------------------
HostChanges(a) ==
  /\ up' = IF a \in up THEN up \ {a} ELSE up \union {a}
  /\ UNCHANGED <<cluster, recorded, loop, stopped, req, failing, history, asked,
                 monitorFaults>>

\* The process dies and is started again, with the monitoring loop.
MonitorCrash ==
  /\ MonitorFault
  /\ loop' = [at |-> "top", todo |-> {}]
  /\ stopped' = FALSE
  /\ req' = [h \in Handlers |-> IdleRequest]
  /\ UNCHANGED <<cluster, up, recorded, failing, history, asked>>

MonitorLoop == BeginRound \/ TestNext \/ RecordHealth \/ EndRound
HandleRequest(h) ==
  \/ SaveCluster(h) \/ TestByHand(h) \/ RecordByHand(h)
  \/ CountHealth(h) \/ ListUnhealthy(h) \/ ShowDashboard(h)

MonitorNext ==
  \/ MonitorLoop
  \/ StopMonitoring
  \/ \E c \in Clusters, a \in Hosts :
       \/ CreateCluster(c, a)
       \/ \E h \in Handlers : LoadCluster(h, c, "host", a)
  \/ \E h \in Handlers, c \in Clusters :
       \/ \E s \in {"active", "disabled"} : LoadCluster(h, c, "status", s)
       \/ ReadForCheck(h, c)
  \/ \E h \in Handlers : CountClusters(h) \/ HandleRequest(h)
  \/ \E a \in Unsteady : HostChanges(a)
  \/ MonitorCrash

\* The test of a connection has a time limit, so the loop goes on.
MonitorFairness == WF_monitorVars(MonitorLoop)

MonitorSpec == MonitorInit /\ [][MonitorNext]_monitorVars /\ MonitorFairness

-----------------------------------------------------------------------------
\* The clusters that requests and the loop have copies of, or have seen.
Seen(r) ==
  CASE r.at = "save" -> {r.id}
    [] r.at = "test" -> {r.copy.id}
    [] r.at = "record" -> {r.check.copy.id}
    [] r.at \in {"health", "list"} -> r.known
    [] r.at = "shown" -> r.known \union r.listed
    [] OTHER -> {}

\* Every variable keeps its shape; copies are of clusters that exist.
MonitorTypeOK ==
  /\ cluster \in [Clusters -> Cluster \union {NoCluster}]
  /\ promised \in [Clusters -> Cluster \union {NoCluster}]
  /\ \A c \in Clusters : promised[c] = NoCluster <=> cluster[c] = NoCluster
  /\ up \in SUBSET Hosts
  /\ recorded \subseteq Known
  /\ loop \in Loop
  /\ \A k \in loop.todo : k.id \in Known
  /\ loop.at = "record" => loop.check.copy.id \in Known
  /\ stopped \in BOOLEAN
  /\ req \in [Handlers -> Request]
  /\ \A h \in Handlers : Seen(req[h]) \subseteq Known
  /\ failing \subseteq Known
  /\ late \in [Clusters -> 0..2]
  /\ disturbed \in SUBSET Clusters
  /\ asked \in 0..MaxEvents
  /\ monitorFaults \in 0..MaxFaults

\* A cluster is what the answered requests made of it, except where two changes
\* of it overlapped: each of them saves the whole record as it read it.
NoLostClusterUpdate ==
  \A c \in Clusters \ disturbed : cluster[c] = promised[c]

BeingChecked(c) ==
  \/ loop.at = "record" /\ loop.check.copy.id = c
  \/ \E h \in Busy : req[h].at = "record" /\ req[h].check.copy.id = c

\* Unless the database or the process failed: a cluster whose last test failed,
\* by whomever and whatever else was going on, is on the list of unhealthy
\* clusters as soon as the test is over.
NoFailureIsHidden ==
  \A c \in Clusters :
    c \in failing /\ ~ BeingChecked(c) /\ monitorFaults = 0 =>
      c \in Unhealthy

\* The loop works from a list that may be old; still a cluster that has been
\* disabled gets at most one more automatic record.
AtMostOneLateRecord == \A c \in Clusters : late[c] <= 1

\* The three queries of the dashboard are no snapshot; the number of unknown
\* clusters is below zero by no more than the clusters that were created in
\* between, and the list has no fewer clusters than were counted as unhealthy.
DashboardNearTruth ==
  \A h \in Handlers :
    req[h].at = "shown" =>
      /\ req[h].unknown + Cardinality(Known \ req[h].known) >= 0
      /\ req[h].sick <= Cardinality(req[h].listed)

\* An active cluster that cannot be reached gets a health record, unless it is
\* changed or comes back before, monitoring is stopped or a fault happens.
FailureIsSeen ==
  \A c \in Clusters :
    c \in Active /\ cluster[c].host \notin up ~>
      \/ c \in Unhealthy
      \/ c \notin Active \/ cluster[c].host \in up
      \/ stopped
      \/ monitorFaults > 0

\* "GetUnhealthyClusters retrieves clusters that are currently unhealthy":
\* clusters that passed their last test are not on the list.
ListedIsUnhealthy ==
  \A c \in Unhealthy : c \in failing \/ BeingChecked(c)
=============================================================================
