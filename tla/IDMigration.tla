----------------------------- MODULE IDMigration -----------------------------
(***************************************************************************)
(* The tool migrate_ids gives the rows of five tables IDs of the new form, *)
(* one table after the other and one transaction for each, and changes the *)
(* columns that hold these IDs with them.  It may fail or be killed at any *)
(* point and is then run again, and passes over the rows it has done.  The *)
(* program itself is not running.                                          *)
(***************************************************************************)
EXTENDS Naturals, Sequences

CONSTANTS
  Rows,       \* the rows of the five tables
  TableOf,    \* TableOf[r]: the table of row r
  Refs,       \* references: [column, to], the row "to" is meant
  MaxRuns     \* bound: how often the tool is run

Tables == <<"accounts", "clusters", "users", "jetstreams", "consumers">>

\* The columns that hold IDs of these tables' rows.
IdColumns ==
  [accounts |-> {"users.account_id", "clusters.system_account_id",
                 "jwt_tasks.entity_id"},
   clusters |-> {"jetstreams.cluster_id", "accounts.origin_cluster_id",
                 "jwt_tasks.cluster_ids", "cluster_healths.cluster_id"},
   users |-> {"clusters.system_user_id", "jetstreams.nats_operate_user_id",
              "consumers.nats_operate_user_id", "jwt_tasks.entity_id"},
   jetstreams |-> {"consumers.jetstream_id"},
   consumers |-> {}]

ASSUME MigrationAssumption ==
  /\ TableOf \in [Rows -> {Tables[i] : i \in 1..5}]
  /\ \A x \in Refs : x.to \in Rows /\ x.column \in IdColumns[TableOf[x.to]]
  /\ MaxRuns \in Nat

VARIABLES
  id,        \* id[r]: 0 for the old ID of r, else the run that made the new one
  ref,       \* ref[x]: which of these IDs of its row x holds
  run,       \* the runs so far
  at,        \* "stopped", "table", "rows", "finished"
  table,     \* the number of the table being migrated
  cursor,    \* its rows still to come
  txId,      \* id and ref as the transaction sees them
  txRef,
  cut        \* history: did the list of rows break off in this run

migrationVars == <<id, ref, run, at, table, cursor, txId, txRef, cut>>

-----------------------------------------------------------------------------
\* The columns that are changed with the IDs of each table.
AccountColumns == {"users.account_id", "clusters.system_account_id"}
ClusterColumns == {"jetstreams.cluster_id"}

\* Mutant of UserColumns: one of the statements is missing.
UserColumnsButConsumers == {"clusters.system_user_id", "jetstreams.nats_operate_user_id"}

UserColumns == {"clusters.system_user_id", "jetstreams.nats_operate_user_id",
                "consumers.nats_operate_user_id"}
StreamColumns == {"consumers.jetstream_id"}

Columns == <<AccountColumns, ClusterColumns, UserColumns, StreamColumns, {}>>

\* Some rows may have been made with IDs of the new form.
MigrationInit ==
  /\ id \in [Rows -> {0, 1}]
  /\ ref = [x \in Refs |-> id[x.to]]
  /\ run = 1
  /\ at = "stopped"
  /\ table = 1
  /\ cursor = {}
  /\ txId = id
  /\ txRef = ref
  /\ cut = FALSE

\* The operator starts the tool.
StartMigration ==
  /\ at \in {"stopped", "finished"}
  /\ run <= MaxRuns
  /\ run' = run + 1
  /\ at' = "table"
  /\ table' = 1
  /\ cut' = FALSE
  /\ UNCHANGED <<id, ref, cursor, txId, txRef>>

\* The query for the IDs of the table, and the transaction.
BeginTable ==
  /\ at = "table"
  /\ table <= 5
  /\ at' = "rows"
  /\ cursor' = {r \in Rows : TableOf[r] = Tables[table]}
  /\ txId' = id
  /\ txRef' = ref
  /\ UNCHANGED <<id, ref, run, table, cut>>

\* One row, with the columns that hold its old ID; a row with an ID of the new form
\* is passed over.
MigrateRow(r) ==
  /\ at = "rows"
  /\ r \in cursor
  /\ cursor' = cursor \ {r}
  /\ IF txId[r] # 0
       THEN UNCHANGED <<txId, txRef>>
       ELSE /\ txId' = [txId EXCEPT ![r] = run]
            /\ txRef' = [x \in Refs |->
                 IF x.to = r /\ x.column \in Columns[table] /\ txRef[x] = txId[r]
                   THEN run ELSE txRef[x]]
  /\ UNCHANGED <<id, ref, run, at, table, cut>>

\* The list of rows ends with an error, which nobody asks for.
CursorFails ==
  /\ at = "rows"
  /\ cursor # {}
  /\ cursor' = {}
  /\ cut' = TRUE
  /\ UNCHANGED <<id, ref, run, at, table, txId, txRef>>

\* Mutant of CommitTable: the tool goes on while rows are left.
CommitTableEarly ==
  /\ at = "rows"
  /\ id' = txId
  /\ ref' = txRef
  /\ cursor' = {}
  /\ at' = "table"
  /\ table' = table + 1
  /\ UNCHANGED <<run, txId, txRef, cut>>

CommitTable ==
  /\ at = "rows"
  /\ cursor = {}
  /\ id' = txId
  /\ ref' = txRef
  /\ at' = "table"
  /\ table' = table + 1
  /\ UNCHANGED <<run, cursor, txId, txRef, cut>>

FinishMigration ==
  /\ at = "table"
  /\ table = 6
  /\ at' = "finished"
  /\ UNCHANGED <<id, ref, run, table, cursor, txId, txRef, cut>>

\* A statement or the commit fails and the tool ends, or the process is killed:
\* the transaction is rolled back.
Abort ==
  /\ at \in {"table", "rows"}
  /\ at' = "stopped"
  /\ cursor' = {}
  /\ UNCHANGED <<id, ref, run, table, txId, txRef, cut>>

MigrationNext ==
  \/ StartMigration \/ BeginTable \/ CursorFails \/ CommitTable
  \/ FinishMigration \/ Abort
  \/ \E r \in Rows : MigrateRow(r)

MigrationSpec == MigrationInit /\ [][MigrationNext]_migrationVars

-----------------------------------------------------------------------------
\* Columns that hold IDs of these rows and that no statement changes: the cluster
\* an account comes from, the entity and the clusters of a task, the cluster of a
\* health record.
Forgotten == {"accounts.origin_cluster_id", "jwt_tasks.entity_id",
              "jwt_tasks.cluster_ids", "cluster_healths.cluster_id"}

\* Whatever fails and however often the tool is run, every reference holds the ID
\* its row has, but for those in the forgotten columns.
ReferencesLead ==
  \A x \in Refs : x.column \notin Forgotten => ref[x] = id[x.to]

\* An ID of the new form never changes again, although the tool starts over with
\* the first table.
NewIdsStay == [][\A r \in Rows : id[r] # 0 => id'[r] = id[r]]_migrationVars

\* When the tool says that it is finished every row has an ID of the new form,
\* unless a list broke off in this run, which it does not notice.
FinishedMeansMigrated ==
  at = "finished" /\ ~ cut => \A r \in Rows : id[r] # 0
=============================================================================
