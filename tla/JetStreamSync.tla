--------------------------- MODULE JetStreamSync ---------------------------
(***************************************************************************)
(* The JetStream records of JetStreamManageService and the streams of one  *)
(* cluster.  A handler writes the record with the sync status "pending"    *)
(* and starts a goroutine, which applies the configuration it was given to *)
(* the cluster and then records "synced" or "failed".  Goroutines of one   *)
(* record run side by side and nothing orders them.                        *)
(*                                                                         *)
(* A handler is a thread with one database or NATS call per step.  A       *)
(* configuration is one value: UpdateJetStream saves the whole record.     *)
(*                                                                         *)
(* Requests may overlap in any way, and streams may be deleted past their  *)
(* records.  "disturbed" remembers the names of which that happened, so    *)
(* that a property can say what holds elsewhere.                           *)
(***************************************************************************)
EXTENDS Naturals, FiniteSets

CONSTANTS
  Ids,         \* identifiers of the records that may ever be made
  Names,       \* stream names
  Configs,     \* configurations of a stream
  Clients,     \* concurrent handlers
  Jobs,        \* bound: goroutines at a time
  None,
  MaxFaults    \* bound: failed database writes and process crashes

VARIABLES
  rows,     \* rows[i]: the record with ID i, or None
  made,     \* the identifiers used so far
  stream,   \* stream[n]: the configuration of stream n on the cluster, or None
  h,        \* h[c]: the local state of handler c
  job,      \* job[j]: goroutine j, or None
  disturbed,  \* names of which requests overlapped, or the stream was deleted
  faults

vars == <<rows, made, stream, h, job, disturbed, faults>>

-----------------------------------------------------------------------------
Row == [name : Names, cfg : Configs, sync : {"pending", "synced", "failed"}]

\* What a handler holds between its calls; once it has read a record, its ID too.
IdleHandler == [at |-> "idle"]
Holding == {"update", "probe", "retry update", "retry create"}
Handler ==
  {IdleHandler}
    \union [at : {"insert"}, name : Names, cfg : Configs]
    \union [at : Holding, id : Ids, name : Names, cfg : Configs]

Job == [at : {"send", "record"}, kind : {"create", "update"}, id : Ids,
        name : Names, cfg : Configs, ok : BOOLEAN]

ASSUME JetStreamAssumption ==
  /\ MaxFaults \in Nat
  /\ IsFiniteSet(Jobs) /\ IsFiniteSet(Clients)
  /\ None \notin Ids \union Names \union Configs \union Row \union Job

Records == {i \in Ids : rows[i] # None}
RecordsNamed(n) == {i \in Records : rows[i].name = n}
BusyHandlers == {c \in Clients : h[c] # IdleHandler}
RunningJobs == {j \in Jobs : job[j] # None}

WorkedOn(n) ==
  \/ \E c \in BusyHandlers : h[c].name = n
  \/ \E j \in RunningJobs : job[j].name = n

\* A request about stream n overlaps with what is going on there, if anything.
Overlap(n) ==
  disturbed' = IF WorkedOn(n) THEN disturbed \union {n} ELSE disturbed

\* Handler c takes a request about stream n; the second conjunct is the bound
\* on goroutines.
Take(c, n, state) ==
  /\ h[c] = IdleHandler
  /\ Cardinality(RunningJobs) + Cardinality(BusyHandlers) < Cardinality(Jobs)
  /\ h' = [h EXCEPT ![c] = state]
  /\ Overlap(n)
  /\ UNCHANGED <<rows, made, stream, job, faults>>

Fault == faults < MaxFaults /\ faults' = faults + 1
NoFault == UNCHANGED faults

\* The handler of c ends by starting a goroutine for record i.
Start(c, kind, i, n, g) ==
  /\ \E j \in {CHOOSE free \in Jobs \ RunningJobs : TRUE} :
       job' = [job EXCEPT ![j] =
         [at |-> "send", kind |-> kind, id |-> i, name |-> n, cfg |-> g,
          ok |-> FALSE]]
  /\ h' = [h EXCEPT ![c] = IdleHandler]

\* Its write failed: the request is answered with an error.
GiveUp(c) ==
  /\ Fault
  /\ h' = [h EXCEPT ![c] = IdleHandler]
  /\ UNCHANGED <<rows, made, job>>

-----------------------------------------------------------------------------
Init ==
  /\ rows = [i \in Ids |-> None]
  /\ made = {}
  /\ stream = [n \in Names |-> None]
  /\ h = [c \in Clients |-> IdleHandler]
  /\ job = [j \in Jobs |-> None]
  /\ disturbed = {}
  /\ faults = 0

\* Mutant of CheckName: the name is looked up and the result not used.
CheckNothing(c, n, g) ==
  Take(c, n, [at |-> "insert", name |-> n, cfg |-> g])

\* CreateJetStream up to the check of the name ...
CheckName(c, n, g) ==
  /\ RecordsNamed(n) = {}
  /\ Take(c, n, [at |-> "insert", name |-> n, cfg |-> g])

\* ... and from the insert on.  The table has no unique index on names.
CreateJetStream(c) ==
  /\ h[c].at = "insert"
  /\ \/ \E i \in Ids \ made :
          /\ rows' = [rows EXCEPT ![i] =
               [name |-> h[c].name, cfg |-> h[c].cfg, sync |-> "pending"]]
          /\ made' = made \union {i}
          /\ Start(c, "create", i, h[c].name, h[c].cfg)
          /\ NoFault
     \/ GiveUp(c)
  /\ UNCHANGED <<stream, disturbed>>

\* UpdateJetStream reads the record and changes its copy ...
LoadJetStream(c, i, g) ==
  /\ i \in Records
  /\ Take(c, rows[i].name,
          [at |-> "update", id |-> i, name |-> rows[i].name, cfg |-> g])

\* ... and saves it as a whole; Save inserts it again when it is gone.
UpdateJetStream(c) ==
  LET i == h[c].id IN
  /\ h[c].at = "update"
  /\ \/ /\ rows' = [rows EXCEPT ![i] =
             [name |-> h[c].name, cfg |-> h[c].cfg, sync |-> "pending"]]
        /\ Start(c, "update", i, h[c].name, h[c].cfg)
        /\ NoFault
        /\ UNCHANGED made
     \/ GiveUp(c)
  /\ UNCHANGED <<stream, disturbed>>

\* RetryFailedSync reads the record, which must have failed ...
RetryFailedSync(c, i) ==
  /\ i \in Records
  /\ rows[i].sync = "failed"
  /\ Take(c, rows[i].name, [at |-> "probe", id |-> i, name |-> rows[i].name,
                            cfg |-> rows[i].cfg])

\* ... asks the cluster whether the stream is there (no answer counts as no),
\* or cannot connect and gives up ...
ProbeStream(c) ==
  /\ h[c].at = "probe"
  /\ \/ \E there \in {stream[h[c].name] # None, FALSE} :
          h' = [h EXCEPT ![c] = [at |-> IF there THEN "retry update"
                                                 ELSE "retry create",
                                 id |-> h[c].id, name |-> h[c].name,
                                 cfg |-> h[c].cfg]]
     \/ h' = [h EXCEPT ![c] = IdleHandler]
  /\ UNCHANGED <<rows, made, stream, job, disturbed, faults>>

\* Mutant of ResetSync: the goroutine is forgotten.
ResetSyncOnly(c) ==
  LET i == h[c].id IN
  /\ h[c].at \in {"retry update", "retry create"}
  /\ rows' = IF i \in Records THEN [rows EXCEPT ![i].sync = "pending"] ELSE rows
  /\ h' = [h EXCEPT ![c] = IdleHandler]
  /\ UNCHANGED <<made, stream, job, disturbed, faults>>

\* ... and sets the status, whatever it is by now, and starts over.
ResetSync(c) ==
  LET i == h[c].id IN
  /\ h[c].at \in {"retry update", "retry create"}
  /\ \/ /\ rows' = IF i \in Records THEN [rows EXCEPT ![i].sync = "pending"]
                   ELSE rows
        /\ Start(c, IF h[c].at = "retry update" THEN "update" ELSE "create",
                 i, h[c].name, h[c].cfg)
        /\ NoFault
        /\ UNCHANGED made
     \/ GiveUp(c)
  /\ UNCHANGED <<stream, disturbed>>

\* DeleteJetStream: the record goes, the stream stays.
DeleteJetStream(i) ==
  /\ i \in Records
  /\ rows' = [rows EXCEPT ![i] = None]
  /\ Overlap(rows[i].name)
  /\ UNCHANGED <<made, stream, h, job, faults>>

-----------------------------------------------------------------------------
\* Creating a stream that is there succeeds if nothing about it changes.
Applicable(j) ==
  LET there == stream[job[j].name] IN
  IF job[j].kind = "create" THEN there \in {None, job[j].cfg} ELSE there # None

\* Mutant of SendToCluster: an answer that does not come counts as success.
SendAndHope(j) ==
  /\ job[j] # None
  /\ job[j].at = "send"
  /\ \E effect \in BOOLEAN :
       /\ effect => Applicable(j)
       /\ stream' = IF effect THEN [stream EXCEPT ![job[j].name] = job[j].cfg]
                    ELSE stream
       /\ job' = [job EXCEPT ![j].at = "record", ![j].ok = TRUE]
  /\ UNCHANGED <<rows, made, h, disturbed, faults>>

\* The goroutine's call: it cannot connect, is refused, takes effect without
\* the answer coming back, or succeeds.
SendToCluster(j) ==
  /\ job[j] # None
  /\ job[j].at = "send"
  /\ \E effect, answered \in BOOLEAN :
       /\ effect => Applicable(j)
       /\ answered => effect
       /\ stream' = IF effect THEN [stream EXCEPT ![job[j].name] = job[j].cfg]
                    ELSE stream
       /\ job' = [job EXCEPT ![j].at = "record", ![j].ok = answered]
  /\ UNCHANGED <<rows, made, h, disturbed, faults>>

\* Mutant of RecordSync: a failure is logged and not recorded.
RecordSuccess(j) ==
  LET i == job[j].id IN
  /\ job[j] # None
  /\ job[j].at = "record"
  /\ rows' = IF i \in Records /\ job[j].ok
               THEN [rows EXCEPT ![i].sync = "synced"] ELSE rows
  /\ job' = [job EXCEPT ![j] = None]
  /\ UNCHANGED <<made, stream, h, disturbed, faults>>

\* It records the outcome, whatever happened to the record since; a failed
\* write is only logged.
RecordSync(j) ==
  LET i == job[j].id IN
  /\ job[j] # None
  /\ job[j].at = "record"
  /\ \/ /\ rows' = IF i \in Records
                     THEN [rows EXCEPT ![i].sync =
                             IF job[j].ok THEN "synced" ELSE "failed"]
                     ELSE rows
        /\ NoFault
     \/ Fault /\ UNCHANGED rows
  /\ job' = [job EXCEPT ![j] = None]
  /\ UNCHANGED <<made, stream, h, disturbed>>

\* DELETE /clusters/:id/jetstream/stream leaves the records alone.
DeleteStreamOnCluster(n) ==
  /\ stream[n] # None
  /\ stream' = [stream EXCEPT ![n] = None]
  /\ disturbed' = disturbed \union {n}
  /\ UNCHANGED <<rows, made, h, job, faults>>

\* Nothing resumes the goroutines of the process that died.
Crash ==
  /\ Fault
  /\ h' = [c \in Clients |-> IdleHandler]
  /\ job' = [j \in Jobs |-> None]
  /\ UNCHANGED <<rows, made, stream, disturbed>>

Goroutine(j) == SendToCluster(j) \/ RecordSync(j)
Handle(c) ==
  CreateJetStream(c) \/ UpdateJetStream(c) \/ ProbeStream(c) \/ ResetSync(c)

Next ==
  \/ \E c \in Clients, n \in Names, g \in Configs : CheckName(c, n, g)
  \/ \E c \in Clients, i \in Ids, g \in Configs : LoadJetStream(c, i, g)
  \/ \E c \in Clients, i \in Ids : RetryFailedSync(c, i)
  \/ \E c \in Clients : Handle(c)
  \/ \E i \in Ids : DeleteJetStream(i)
  \/ \E j \in Jobs : Goroutine(j)
  \/ \E n \in Names : DeleteStreamOnCluster(n)
  \/ Crash

\* NATS calls time out, so handlers and goroutines run to their end.
Fairness ==
  /\ \A c \in Clients : WF_vars(Handle(c))
  /\ \A j \in Jobs : WF_vars(Goroutine(j))

Spec == Init /\ [][Next]_vars
FairSpec == Spec /\ Fairness

-----------------------------------------------------------------------------
TypeOK ==
  /\ rows \in [Ids -> Row \union {None}]
  /\ made \in SUBSET Ids
  /\ Records \subseteq made
  /\ stream \in [Names -> Configs \union {None}]
  /\ h \in [Clients -> Handler]
  /\ \A c \in Clients : h[c].at \in Holding => h[c].id \in made
  /\ job \in [Jobs -> Job \union {None}]
  /\ \A j \in RunningJobs : /\ job[j].id \in made
                            /\ job[j].ok => job[j].at = "record"
  /\ disturbed \in SUBSET Names
  /\ faults \in 0..MaxFaults

\* While nothing but NATS fails, a record that says "pending" has a goroutine
\* that will say how it went, however many requests and goroutines cross.
PendingIsBeingSynced ==
  faults = 0 =>
    \A i \in Records :
      rows[i].sync = "pending" => \E j \in RunningJobs : job[j].id = i

\* Where requests did not overlap, a record that says "synced" and is not being
\* worked on says what the cluster has: through lost answers, retries, records
\* made again, and crashes.  (Goroutines of overlapping updates reach the
\* cluster in any order.)
SyncedMeansInSync ==
  \A i \in Records :
    rows[i].sync = "synced" /\ rows[i].name \notin disturbed
        /\ ~ WorkedOn(rows[i].name) =>
      stream[rows[i].name] = rows[i].cfg

\* Where requests did not overlap, a cluster has no two records of one stream
\* name, also when a save inserts a record again, and after faults.  (Creations
\* that overlap can both pass the check; the table does not forbid it.)
OneRecordPerName ==
  \A n \in Names \ disturbed : Cardinality(RecordsNamed(n)) <= 1

\* Every synchronisation that is started ends, unless a fault intervenes.
EverySyncEnds ==
  \A i \in Ids :
    rows[i] # None /\ rows[i].sync = "pending" ~>
      rows[i] = None \/ rows[i].sync # "pending" \/ faults > 0
=============================================================================
