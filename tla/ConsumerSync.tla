---------------------------- MODULE ConsumerSync ----------------------------
(***************************************************************************)
(* The consumer records of ConsumerManageService and the consumers of one  *)
(* cluster.  As for streams, a handler writes the record as "pending" and  *)
(* starts a goroutine that applies it and records the outcome.  Besides,   *)
(* a consumer is looked up through the record of its stream, which may be  *)
(* gone; an update may move it to another name or stream; and pausing      *)
(* saves the whole record as it was read before the cluster was asked.     *)
(*                                                                         *)
(* A stream on the cluster outlives its record, and the record that is     *)
(* made of it again has another ID.  Names of consumers are unique under   *)
(* that ID only, so that two records may stand for one consumer.           *)
(*                                                                         *)
(* Requests may overlap in any way.  Two history variables remember places *)
(* (stream and name) on the cluster, so that a property can say what holds *)
(* elsewhere: "disturbed" where requests overlapped or went past the       *)
(* records, "shared" where more than one record stood for a consumer.      *)
(***************************************************************************)
EXTENDS Naturals, FiniteSets

CONSTANTS
  Ids,          \* identifiers of the records that may ever be made
  Streams,      \* identifiers of the stream records that may ever be made
  StreamOf,     \* StreamOf[s]: the stream on the cluster that record s is of;
                \* neither its name nor its cluster ever changes
  Names,        \* consumer names
  Configs,      \* configurations of a consumer
  Clients,      \* concurrent handlers
  Jobs,         \* bound: goroutines at a time
  None,
  MaxFaults,    \* bound: failed database calls and process crashes
  MaxEvents     \* bound: requests accepted and faults, together

VARIABLES
  rows,       \* rows[i]: the record with ID i, or None
  made,       \* the identifiers used so far
  streams,    \* the stream records there are
  known,      \* those there ever were: a client may still name their IDs
  consumer,   \* consumer[k]: the consumer at place k on the cluster, or None
  h,          \* h[c]: the local state of handler c
  job,        \* job[j]: goroutine j, or None
  disturbed,  \* history: places where requests overlapped
  shared,     \* history: places of more than one record
  panicked,   \* has a goroutine brought the process down
  asked,
  faults

store == <<rows, made, streams, known>>
vars == <<store, consumer, h, job, disturbed, shared, panicked, asked, faults>>

-----------------------------------------------------------------------------
Places == {StreamOf[s] : s \in Streams} \X Names
Place(r) == <<StreamOf[r.stream], r.name>>

Row == [name : Names, stream : Streams, cfg : Configs,
        sync : {"pending", "synced", "failed"}, status : {"active", "paused"}]
OnCluster == [cfg : Configs, paused : BOOLEAN]
IdleHandler == [at |-> "idle"]
Handler == [at : {"insert", "update", "start", "probe", "retry update",
                  "retry create", "pause", "resume", "save"},
            id : Ids \union {None}, row : Row]
Job == [at : {"send", "record"}, kind : {"create", "update"}, id : Ids,
        row : Row, found : BOOLEAN, ok : BOOLEAN]

ASSUME ConsumerAssumption ==
  /\ IsFiniteSet(Clients)
  /\ IsFiniteSet(Jobs)
  /\ Clients \intersect Jobs = {}
  /\ MaxFaults \in Nat
  /\ MaxEvents \in Nat
  /\ None \notin Ids \union Row \union OnCluster \union Job

Records == {i \in Ids : rows[i] # None}
RecordsAt(k) == {i \in Records : Place(rows[i]) = k}
BusyHandlers == {c \in Clients : h[c] # IdleHandler}
RunningJobs == {j \in Jobs : job[j] # None}

\* Handlers and goroutines, and the record each of them is about.
Workers == BusyHandlers \union RunningJobs
Work(w) == IF w \in Clients THEN h[w] ELSE job[w]

\* The places w reads or writes: where it takes its record to be, and where the
\* record is, on which a goroutine leaves its outcome wherever it has moved.
Touches(w) ==
  {Place(Work(w).row)} \union {Place(rows[i]) : i \in {Work(w).id} \intersect Records}

WorkedOn(k) == \E w \in Workers : k \in Touches(w)

\* Places disturbed by a request that touches the places ks: if somebody is at
\* work on one of them, those and all that anybody it overlaps with touches.
Disturbs(ks) ==
  LET others == {w \in Workers : Touches(w) \intersect ks # {}}
  IN IF \E k \in ks : WorkedOn(k)
       THEN ks \union UNION {Touches(w) : w \in others} ELSE {}

\* Places of ks that record i shares with another.
Shares(i, ks) == {k \in ks : RecordsAt(k) \ {i} # {}}

\* Handler c takes a request that touches the places ks for record i.
Take(c, state, i, ks) ==
  /\ h[c] = IdleHandler
  /\ asked + faults < MaxEvents
  /\ Cardinality(Workers) < Cardinality(Jobs)
  /\ h' = [h EXCEPT ![c] = state]
  /\ asked' = asked + 1
  /\ disturbed' = disturbed \union Disturbs(ks)
  /\ shared' = shared \union Shares(i, ks)
  /\ UNCHANGED <<store, consumer, job, panicked, faults>>

Fault ==
  /\ faults < MaxFaults
  /\ asked + faults < MaxEvents
  /\ faults' = faults + 1
NoFault == UNCHANGED faults

Finish(c) == h' = [h EXCEPT ![c] = IdleHandler]
Proceed(c, at) == h' = [h EXCEPT ![c].at = at]

\* Its database call failed: the request is answered with an error.
GiveUp(c) == Fault /\ Finish(c) /\ UNCHANGED <<store, job>>

\* Handler c ends by starting a goroutine; "found" says whether the record of
\* the stream it was given is there.
Start(c, kind, i, r, found) ==
  /\ Finish(c)
  /\ \E j \in {CHOOSE free \in Jobs \ RunningJobs : TRUE} :
       job' = [job EXCEPT ![j] = [at |-> "send", kind |-> kind, id |-> i,
                                  row |-> r, found |-> found, ok |-> FALSE]]

-----------------------------------------------------------------------------
Init ==
  /\ rows = [i \in Ids |-> None]
  /\ made = {}
  /\ streams = {}
  /\ known = {}
  /\ consumer = [k \in Places |-> None]
  /\ h = [c \in Clients |-> IdleHandler]
  /\ job = [j \in Jobs |-> None]
  /\ disturbed = {}
  /\ shared = {}
  /\ panicked = FALSE
  /\ asked = 0
  /\ faults = 0

\* CreateJetStream of the stream service makes a record with an ID of its own,
\* be the stream on the cluster or not; the save of an update that overlaps with
\* a deletion makes the old one again.  As its check of the name may overlap
\* with another's insert (JetStreamSync), there may be two of one stream.
CreateJetStream(s) ==
  /\ s \in Streams \ streams
  /\ streams' = streams \union {s}
  /\ known' = known \union {s}
  /\ UNCHANGED <<rows, made, consumer, h, job, disturbed, shared, panicked,
                 asked, faults>>

\* CreateConsumer up to the check that no record has the name under the ID of
\* the stream's record ...
CheckConsumer(c, s, n, g) ==
  /\ s \in streams
  /\ ~ \E i \in Records : rows[i].stream = s /\ rows[i].name = n
  /\ Take(c, [at |-> "insert", id |-> None,
              row |-> [name |-> n, stream |-> s, cfg |-> g, sync |-> "pending",
                       status |-> "active"]], None, {<<StreamOf[s], n>>})

\* ... and from the insert on, with the stream record read before.
CreateConsumer(c) ==
  /\ h[c].at = "insert"
  /\ \/ /\ Ids # made
        /\ \E i \in {CHOOSE fresh \in Ids \ made : TRUE} :
             /\ rows' = [rows EXCEPT ![i] = h[c].row]
             /\ made' = made \union {i}
             /\ Start(c, "create", i, h[c].row, TRUE)
        /\ NoFault
        /\ UNCHANGED <<streams, known>>
     \/ GiveUp(c)
  /\ UNCHANGED <<consumer, disturbed, shared, panicked, asked>>

\* UpdateConsumer reads the record and changes its copy, also the name and the
\* stream, which are not looked up ...
LoadConsumer(c, i, s, n, g) ==
  LET r == [rows[i] EXCEPT !.name = n, !.stream = s, !.cfg = g, !.sync = "pending"]
  IN /\ i \in Records
     /\ s \in known
     /\ Take(c, [at |-> "update", id |-> i, row |-> r], i,
             {Place(rows[i]), Place(r)})

\* ... saves it as a whole; Save inserts it again when it is gone ...
UpdateConsumer(c) ==
  /\ h[c].at = "update"
  /\ \/ /\ rows' = [rows EXCEPT ![h[c].id] = h[c].row]
        /\ Proceed(c, "start")
        /\ NoFault
        /\ UNCHANGED <<made, streams, known, job>>
     \/ GiveUp(c)
  /\ UNCHANGED <<consumer, disturbed, shared, panicked, asked>>

\* ... and only then looks for the stream.  The look-up returns nil without an
\* error when the record is missing; when it fails, the request is answered
\* with success and nothing is started.
StartUpdate(c) ==
  /\ h[c].at = "start"
  /\ \/ /\ Start(c, "update", h[c].id, h[c].row, h[c].row.stream \in streams)
        /\ NoFault
        /\ UNCHANGED store
     \/ GiveUp(c)
  /\ UNCHANGED <<consumer, disturbed, shared, panicked, asked>>

\* RetryFailedSync reads the record, which must have failed, and the record of
\* its stream.  (Without the latter the handler panics; gin recovers, nothing
\* has changed.)  ...
RetryFailedSync(c, i) ==
  /\ i \in Records
  /\ rows[i].sync = "failed"
  /\ rows[i].stream \in streams
  /\ Take(c, [at |-> "probe", id |-> i, row |-> rows[i]], i, {Place(rows[i])})

\* ... asks the cluster whether the consumer is there (no answer counts as
\* no), or cannot connect and gives up ...
ProbeConsumer(c) ==
  /\ h[c].at = "probe"
  /\ \/ \E there \in {consumer[Place(h[c].row)] # None, FALSE} :
          Proceed(c, IF there THEN "retry update" ELSE "retry create")
     \/ Finish(c)
  /\ UNCHANGED <<store, consumer, job, disturbed, shared, panicked, asked,
                 faults>>

\* ... sets the status, whatever it is by now, and starts over.
ResetSync(c) ==
  LET i == h[c].id IN
  /\ h[c].at \in {"retry update", "retry create"}
  /\ \/ /\ rows' = IF i \in Records THEN [rows EXCEPT ![i].sync = "pending"]
                   ELSE rows
        /\ Start(c, IF h[c].at = "retry update" THEN "update" ELSE "create",
                 i, h[c].row, TRUE)
        /\ NoFault
        /\ UNCHANGED <<made, streams, known>>
     \/ GiveUp(c)
  /\ UNCHANGED <<consumer, disturbed, shared, panicked, asked>>

\* PauseConsumer and ResumeConsumer read the record and that of the stream ...
LoadToPause(c, i, verb) ==
  /\ i \in Records
  /\ rows[i].stream \in streams
  /\ Take(c, [at |-> verb, id |-> i, row |-> rows[i]], i, {Place(rows[i])})

\* ... ask the cluster, which may do it without the answer coming back ...
PauseOnCluster(c) ==
  LET k == Place(h[c].row) IN
  /\ h[c].at \in {"pause", "resume"}
  /\ \E effect, answered \in BOOLEAN :
       /\ effect => consumer[k] # None
       /\ answered => effect
       /\ consumer' = IF effect
            THEN [consumer EXCEPT ![k].paused = (h[c].at = "pause")]
            ELSE consumer
       /\ IF answered
            THEN LET s == IF h[c].at = "pause" THEN "paused" ELSE "active"
                 IN h' = [h EXCEPT ![c] = [at |-> "save", id |-> h[c].id,
                                           row |-> [h[c].row EXCEPT !.status = s]]]
            ELSE Finish(c)
  /\ UNCHANGED <<store, job, disturbed, shared, panicked, asked, faults>>

\* Mutant of SavePaused: a pause is taken for a configuration still to be sent.
SavePausedAsPending(c) ==
  /\ h[c].at = "save"
  /\ rows' = [rows EXCEPT ![h[c].id] = [h[c].row EXCEPT !.sync = "pending"]]
  /\ Finish(c)
  /\ UNCHANGED <<made, streams, known, consumer, job, disturbed, shared, panicked,
                 asked, faults>>

\* ... and save the whole record as it was read, with the new status.
SavePaused(c) ==
  /\ h[c].at = "save"
  /\ \/ /\ rows' = [rows EXCEPT ![h[c].id] = h[c].row]
        /\ Finish(c)
        /\ NoFault
        /\ UNCHANGED <<made, streams, known, job>>
     \/ GiveUp(c)
  /\ UNCHANGED <<consumer, disturbed, shared, panicked, asked>>

\* DeleteConsumer: the record goes, the consumer stays on the cluster.
DeleteConsumer(i) ==
  /\ i \in Records
  /\ rows' = [rows EXCEPT ![i] = None]
  /\ disturbed' = disturbed \union Disturbs({Place(rows[i])})
  /\ UNCHANGED <<made, streams, known, consumer, h, job, shared, panicked, asked, faults>>

\* DeleteJetStream of the stream service: nobody asks for consumers, and the
\* stream stays on the cluster.
DeleteJetStream(s) ==
  /\ s \in streams
  /\ streams' = streams \ {s}
  /\ UNCHANGED <<rows, made, known, consumer, h, job, disturbed, shared, panicked,
                 asked, faults>>

-----------------------------------------------------------------------------
\* Creating a consumer that is there succeeds if nothing about it changes;
\* updating one needs it to be there.
Applicable(j) ==
  LET there == consumer[Place(job[j].row)] IN
  IF job[j].kind = "create"
    THEN there = None \/ (there # None /\ there.cfg = job[j].row.cfg)
    ELSE there # None

\* The consumer after the call; the configuration sent says nothing of pauses.
Applied(j) ==
  LET there == consumer[Place(job[j].row)] IN
  {[cfg |-> job[j].row.cfg, paused |-> p] :
     p \in IF there = None THEN {FALSE} ELSE {FALSE, there.paused}}

\* A goroutine that was given no stream record dereferences nil: nothing
\* recovers the panic and the process dies with all it was doing.
Panic(j) ==
  /\ job[j] # None
  /\ ~ job[j].found
  /\ panicked' = TRUE
  /\ h' = [c \in Clients |-> IdleHandler]
  /\ job' = [i \in Jobs |-> None]
  /\ UNCHANGED <<store, consumer, disturbed, shared, asked, faults>>

\* Mutant of SendToCluster: an answer that does not come counts as success.
SendAndHope(j) ==
  /\ job[j] # None
  /\ job[j].at = "send"
  /\ job[j].found
  /\ \E effect \in BOOLEAN :
       /\ effect => Applicable(j)
       /\ \E x \in IF effect THEN Applied(j) ELSE {consumer[Place(job[j].row)]} :
            consumer' = [consumer EXCEPT ![Place(job[j].row)] = x]
       /\ job' = [job EXCEPT ![j].at = "record", ![j].ok = TRUE]
  /\ UNCHANGED <<store, h, disturbed, shared, panicked, asked, faults>>

\* Mutant of SendToCluster: a consumer that is there counts as created.
SendUnlessThere(j) ==
  LET k == Place(job[j].row) IN
  /\ job[j] # None
  /\ job[j].at = "send"
  /\ job[j].found
  /\ \E effect, answered \in BOOLEAN :
       /\ effect => Applicable(j)
       /\ answered => effect \/ (job[j].kind = "create" /\ consumer[k] # None)
       /\ \E x \in IF effect THEN Applied(j) ELSE {consumer[k]} :
            consumer' = [consumer EXCEPT ![k] = x]
       /\ job' = [job EXCEPT ![j].at = "record", ![j].ok = answered]
  /\ UNCHANGED <<store, h, disturbed, shared, panicked, asked, faults>>

\* The goroutine's call: it cannot connect, is refused, takes effect without
\* the answer coming back, or succeeds.
SendToCluster(j) ==
  /\ job[j] # None
  /\ job[j].at = "send"
  /\ job[j].found
  /\ \E effect, answered \in BOOLEAN :
       /\ effect => Applicable(j)
       /\ answered => effect
       /\ \E x \in IF effect THEN Applied(j) ELSE {consumer[Place(job[j].row)]} :
            consumer' = [consumer EXCEPT ![Place(job[j].row)] = x]
       /\ job' = [job EXCEPT ![j].at = "record", ![j].ok = answered]
  /\ UNCHANGED <<store, h, disturbed, shared, panicked, asked, faults>>

\* Mutant of RecordSync: a failure is logged and not recorded.
RecordSuccess(j) ==
  LET i == job[j].id IN
  /\ job[j] # None
  /\ job[j].at = "record"
  /\ rows' = IF i \in Records /\ job[j].ok
               THEN [rows EXCEPT ![i].sync = "synced"] ELSE rows
  /\ job' = [job EXCEPT ![j] = None]
  /\ UNCHANGED <<made, streams, known, consumer, h, disturbed, shared, panicked, asked,
                 faults>>

\* updateSyncStatus writes the outcome to the record, if it is still there; a
\* failed write is only logged.
RecordSync(j) ==
  LET i == job[j].id IN
  /\ job[j] # None
  /\ job[j].at = "record"
  /\ \/ /\ rows' = IF i \in Records
                     THEN [rows EXCEPT ![i].sync =
                             IF job[j].ok THEN "synced" ELSE "failed"]
                     ELSE rows
        /\ NoFault
     \/ Fault /\ UNCHANGED rows
  /\ job' = [job EXCEPT ![j] = None]
  /\ UNCHANGED <<made, streams, known, consumer, h, disturbed, shared, panicked, asked>>

\* DELETE /clusters/:id/jetstream/consumer goes past the records.
DeleteConsumerFromCluster(k) ==
  /\ consumer[k] # None
  /\ consumer' = [consumer EXCEPT ![k] = None]
  /\ disturbed' = disturbed \union {k}
  /\ UNCHANGED <<store, h, job, shared, panicked, asked, faults>>

Crash ==
  /\ Fault
  /\ h' = [c \in Clients |-> IdleHandler]
  /\ job' = [j \in Jobs |-> None]
  /\ UNCHANGED <<store, consumer, disturbed, shared, panicked, asked>>

Handle(c) ==
  \/ CreateConsumer(c) \/ UpdateConsumer(c) \/ StartUpdate(c)
  \/ ProbeConsumer(c) \/ ResetSync(c) \/ PauseOnCluster(c) \/ SavePaused(c)
Goroutine(j) == SendToCluster(j) \/ RecordSync(j) \/ Panic(j)

Next ==
  \/ \E c \in Clients, s \in Streams, n \in Names, g \in Configs :
       CheckConsumer(c, s, n, g)
  \/ \E c \in Clients, i \in Ids, s \in Streams, n \in Names, g \in Configs :
       LoadConsumer(c, i, s, n, g)
  \/ \E c \in Clients, i \in Ids : RetryFailedSync(c, i)
  \/ \E c \in Clients, i \in Ids, verb \in {"pause", "resume"} :
       LoadToPause(c, i, verb)
  \/ \E c \in Clients : Handle(c)
  \/ \E i \in Ids : DeleteConsumer(i)
  \/ \E s \in Streams : CreateJetStream(s) \/ DeleteJetStream(s)
  \/ \E j \in Jobs : Goroutine(j)
  \/ \E k \in Places : DeleteConsumerFromCluster(k)
  \/ Crash

\* NATS calls time out, so handlers and goroutines run to their end.
Fairness ==
  /\ \A c \in Clients : WF_vars(Handle(c))
  /\ \A j \in Jobs : WF_vars(Goroutine(j))

Spec == Init /\ [][Next]_vars
FairSpec == Spec /\ Fairness

-----------------------------------------------------------------------------
\* Every variable keeps its shape, the records' IDs have been given out, and
\* only a goroutine that has sent its call knows that it succeeded.
TypeOK ==
  /\ rows \in [Ids -> Row \union {None}]
  /\ made \in SUBSET Ids
  /\ Records \subseteq made
  /\ streams \subseteq known
  /\ known \in SUBSET Streams
  /\ consumer \in [Places -> OnCluster \union {None}]
  /\ h \in [Clients -> Handler \union {IdleHandler}]
  /\ \A c \in BusyHandlers :
       IF h[c].at = "insert" THEN h[c].id = None ELSE h[c].id \in made
  /\ job \in [Jobs -> Job \union {None}]
  /\ \A j \in RunningJobs : /\ job[j].id \in made
                            /\ job[j].ok => job[j].at = "record"
  /\ disturbed \in SUBSET Places
  /\ shared \in SUBSET Places
  /\ panicked \in BOOLEAN
  /\ asked \in 0..MaxEvents
  /\ faults \in 0..MaxFaults
  /\ asked + faults <= MaxEvents

Undisturbed(i) == Place(rows[i]) \notin disturbed
InSync(r) == LET there == consumer[Place(r)] IN there # None /\ there.cfg = r.cfg

\* Where requests did not overlap, a record that says "synced" and is the only
\* one of its consumer says what the cluster has: through renames and moves,
\* streams and records made again after a deletion, lost answers, retries, pauses
\* and crashes.  (A second record, of the stream's next record, changes the
\* consumer without overlap and leaves the first one "synced".)
SyncedMeansInSync ==
  \A i \in Records :
    rows[i].sync = "synced" /\ Undisturbed(i) /\ Place(rows[i]) \notin shared =>
      InSync(rows[i])

\* However many records a consumer has: where requests did not overlap, a record
\* becomes "synced" only at a moment when the cluster has what it says.
OutcomesAreTrue ==
  [][\A i \in Records' :
       /\ rows'[i].sync = "synced"
       /\ i \in Records => rows[i].sync # "synced"
       /\ Place(rows'[i]) \notin disturbed'
       => InSync(rows[i])']_vars

\* Where requests did not overlap, and unless the process died or the database
\* failed, a record, shared or not, that says "pending" has somebody who will say
\* how it went.
\* (A pause that overlaps a synchronisation writes "pending" back for ever: a
\* retry wants "failed".)
PendingIsBeingSynced ==
  faults = 0 /\ ~ panicked =>
    \A i \in Records :
      rows[i].sync = "pending" /\ Undisturbed(i) =>
        \/ \E j \in RunningJobs : job[j].id = i
        \/ \E c \in BusyHandlers : h[c].id = i /\ h[c].at = "start"

\* Every synchronisation that is started ends, unless the process dies, the
\* database fails or requests overlap.
EverySyncEnds ==
  \A i \in Ids :
    rows[i] # None /\ rows[i].sync = "pending" ~>
      \/ rows[i] = None
      \/ rows[i].sync # "pending"
      \/ ~ Undisturbed(i)
      \/ faults > 0
      \/ panicked

\* A consumer whose stream record is missing is answered with an error, as
\* CompareConsumerConfig does; it does not bring the process down.
MissingStreamIsAnError == ~ panicked
=============================================================================
