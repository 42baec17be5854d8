---------------------------- MODULE MCComponents ----------------------------
(***************************************************************************)
(* Instances for TLC of components that share nothing but the process:     *)
(* accounts and users, the migration (which runs while the program does    *)
(* not), the monitor, the topology and the collector of answers.  To bound *)
(* the instance, one of them is at work in a behaviour.                    *)
(***************************************************************************)
EXTENDS AccountUsers, IDMigration, ClusterMonitor, ClusterTopology, RequestCollector

CONSTANTS
  a1, a2, u1, u2, c1, c2,    \* accounts, users, clients
  k1, k2, k3, j1, m1, x1,    \* clusters, a stream, a consumer, another cluster
  o1, o2, s1, s2, s3,        \* hosts, servers
  Parts                      \* which of the components are looked at

VARIABLE part                \* bound: the one at work

AllParts == {"users", "migration", "monitor", "topology", "servers"}
JustUsers == {"users"}
JustMonitor == {"monitor"}

TwoAccounts == {a1, a2}
TwoUsers == {u1, u2}
TwoClients == {c1, c2}
TwoClusters == {k1, k2}
TwoHosts == {o1, o2}
OneHost == {o1}
ThreeMembers == {k1, k2, k3}
OneStranger == {x1}
ThreeServers == {s1, s2, s3}

SixRows == {a1, a2, k1, u1, j1, m1}
TheirTables ==
  [r \in SixRows |->
     CASE r \in {a1, a2} -> "accounts"
       [] r = k1 -> "clusters"
       [] r = u1 -> "users"
       [] r = j1 -> "jetstreams"
       [] r = m1 -> "consumers"]

\* One reference in every column.
TheirReferences ==
  {[column |-> "users.account_id", to |-> a1],
   [column |-> "clusters.system_account_id", to |-> a2],
   [column |-> "jetstreams.cluster_id", to |-> k1],
   [column |-> "clusters.system_user_id", to |-> u1],
   [column |-> "jetstreams.nats_operate_user_id", to |-> u1],
   [column |-> "consumers.nats_operate_user_id", to |-> u1],
   [column |-> "consumers.jetstream_id", to |-> j1],
   [column |-> "accounts.origin_cluster_id", to |-> k1],
   [column |-> "jwt_tasks.entity_id", to |-> a1],
   [column |-> "jwt_tasks.cluster_ids", to |-> k1],
   [column |-> "cluster_healths.cluster_id", to |-> k1]}

-----------------------------------------------------------------------------
\* A component that is not at work stays in one of its initial states.
PartsInit ==
  /\ part \in Parts
  /\ Init
  /\ MigrationInit /\ (part # "migration" => id = [r \in Rows |-> 0])
  /\ MonitorInit
  /\ part # "monitor" => cluster = [c \in Clusters |-> NoCluster] /\ up = Hosts
  /\ TopologyInit /\ (part # "topology" => gateway = {})
  /\ CollectorInit /\ (part # "servers" => expected = 0 /\ garbled = {})

PartsNext ==
  /\ UNCHANGED part
  /\ IF part = "users" THEN Next ELSE UNCHANGED vars
  /\ IF part = "migration" THEN MigrationNext ELSE UNCHANGED migrationVars
  /\ IF part = "monitor" THEN MonitorNext ELSE UNCHANGED monitorVars
  /\ IF part = "topology" THEN TopologyNext ELSE UNCHANGED topologyVars
  /\ IF part = "servers" THEN CollectorNext ELSE UNCHANGED collectorVars

PartsSpec ==
  /\ PartsInit
  /\ [][PartsNext]_<<vars, migrationVars, monitorVars, topologyVars, collectorVars, part>>
  /\ WF_monitorVars(part = "monitor" /\ MonitorLoop)
=============================================================================
