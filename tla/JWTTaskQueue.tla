---------------------------- MODULE JWTTaskQueue ----------------------------
(***************************************************************************)
(* The queue of JWT tasks: the jwt_tasks table, the one background         *)
(* goroutine that executes tasks (JWTTaskProcessor), the handlers that     *)
(* insert tasks and the handlers of POST /jwt-tasks/:id/retry.  A database *)
(* call is one atomic step; everything between two of them interleaves     *)
(* with the other actors.  What executing a task does to the clusters is   *)
(* left open here (it returns one of Verdicts): AccountJWTSync fills it in.*)
(*                                                                         *)
(* A row is written as a whole (gorm Save), from the copy the processor    *)
(* read when it listed the pending tasks.                                  *)
(***************************************************************************)
EXTENDS Naturals, FiniteSets

CONSTANTS
  Tasks,          \* identifiers of the tasks that may ever be created
  MaxRetries,     \* JWTTask.MaxRetries: 3 in both createJWTTask functions
  UserTasks,      \* those with EntityType "user"; the others are "account"
  BatchLimit,     \* the argument of ListPendingJWTTasks: 10
  Clients,        \* concurrent handlers of the retry endpoint
  None,           \* no task / no row
  MaxResets,      \* bound: no operator retry starts after so many resets
  MaxFaults       \* bound: failed database writes and process crashes

ASSUME QueueAssumption ==
  /\ MaxRetries \in Nat \ {0}
  /\ BatchLimit \in Nat \ {0}
  /\ MaxResets \in Nat
  /\ MaxFaults \in Nat
  /\ UserTasks \subseteq Tasks
  /\ None \notin Tasks

VARIABLES
  rows,      \* rows[t]: the row of t in jwt_tasks, or None
  batch,     \* the tasks listed by this tick and not yet dealt with
  mem,       \* mem[t]: the processor's copy of the row, or None
  cur,       \* the task being executed, or None
  phase,     \* what the processor does with cur
  asked,     \* asked[c]: the task whose row handler c found failed, or None
  resets,    \* operator retries that were applied
  faults     \* faults that happened (bounded by MaxFaults)

processorVars == <<batch, mem, cur, phase>>
vars == <<rows, batch, mem, cur, phase, asked, resets, faults>>

-----------------------------------------------------------------------------
Statuses == {"pending", "processing", "completed", "failed", "retrying"}

\* SyncResults as far as its summary tells: never written, no cluster failed,
\* at least one cluster failed.
Results == {"none", "allOk", "someFailed"}

Row == [status : Statuses, retries : 0..MaxRetries, error : BOOLEAN,
        results : Results]

ASSUME NoneAssumption == None \notin Row

\* The dispatch on EntityType: an account task fails without results or hands
\* back results; a user task has no results.
Verdicts(t) ==
  IF t \in UserTasks THEN {"error", "none"} ELSE {"error", "someFailed", "allOk"}

NewRow == [status |-> "pending", retries |-> 0, error |-> FALSE,
           results |-> "none"]

Present == {t \in Tasks : rows[t] # None}

\* Mutants of Waiting: rows that failed for good are listed too; rows of a
\* task that failed an attempt are not.
WaitingOrFailed ==
  {t \in Present : rows[t].status \in {"pending", "retrying", "failed"}}
PendingOnly == {t \in Present : rows[t].status = "pending"}

\* The rows ListPendingJWTTasks selects.
Waiting == {t \in Present : rows[t].status \in {"pending", "retrying"}}

\* The answers the query may give: it has a LIMIT and no ORDER BY.
Listings ==
  {S \in SUBSET Waiting :
     /\ Cardinality(S) <= BatchLimit
     /\ S = Waiting \/ Cardinality(S) = BatchLimit}

Fault == faults < MaxFaults /\ faults' = faults + 1
NoFault == UNCHANGED faults

-----------------------------------------------------------------------------
Init ==
  /\ rows = [t \in Tasks |-> None]
  /\ batch = {}
  /\ mem = [t \in Tasks |-> None]
  /\ cur = None
  /\ phase = "idle"
  /\ asked = [c \in Clients |-> None]
  /\ resets = 0
  /\ faults = 0

\* createJWTTask: the insert of a fresh row.
CreateJWTTask(t) ==
  /\ rows[t] = None
  /\ rows' = [rows EXCEPT ![t] = NewRow]
  /\ UNCHANGED <<processorVars, asked, resets, faults>>

\* A tick that finds work: the rows are copied to memory.
ProcessPendingTasks ==
  /\ batch = {}
  /\ \E S \in Listings \ {{}} :
       /\ batch' = S
       /\ mem' = [t \in Tasks |-> IF t \in S THEN rows[t] ELSE None]
  /\ UNCHANGED <<rows, cur, phase, asked, resets, faults>>

\* The processor is done with t, whatever became of it.
Drop(t) ==
  /\ batch' = batch \ {t}
  /\ mem' = [mem EXCEPT ![t] = None]
  /\ cur' = None
  /\ phase' = "idle"

\* processTask up to the dispatch: the row is saved as processing; when that
\* save fails the task is skipped until it is listed again.
ClaimTask(t) ==
  LET claimed == [mem[t] EXCEPT !.status = "processing"] IN
  /\ cur = None
  /\ t \in batch
  /\ \/ /\ rows' = [rows EXCEPT ![t] = claimed]
        /\ mem' = [mem EXCEPT ![t] = claimed]
        /\ cur' = t
        /\ phase' = "execute"
        /\ NoFault
        /\ UNCHANGED batch
     \/ /\ Fault
        /\ Drop(t)
        /\ UNCHANGED rows
  /\ UNCHANGED <<asked, resets>>

\* The dispatch returned verdict v.  Results are first stored in the row; a
\* failure of that save is only logged.
ExecuteTask(v) ==
  LET told == IF v \in Results \ {"none"}
                THEN [mem[cur] EXCEPT !.results = v]
                ELSE mem[cur]
  IN
  /\ phase = "execute"
  /\ v \in Verdicts(cur)
  /\ mem' = [mem EXCEPT ![cur] = told]
  /\ \/ rows' = [rows EXCEPT ![cur] = told] /\ NoFault
     \/ told # mem[cur] /\ Fault /\ UNCHANGED rows
  /\ phase' = IF v \in {"error", "someFailed"} THEN "fail" ELSE "complete"
  /\ UNCHANGED <<batch, cur, asked, resets>>

\* The row is saved as r and the task forgotten; when the save fails the row
\* keeps the status "processing".
SaveAndForget(r) ==
  /\ \/ rows' = [rows EXCEPT ![cur] = r] /\ NoFault
     \/ UNCHANGED rows /\ Fault
  /\ Drop(cur)
  /\ UNCHANGED <<asked, resets>>

\* Mutant of CompleteTask: the error of an earlier attempt is not cleared.
CompleteTaskKeepError ==
  /\ phase = "complete"
  /\ SaveAndForget([mem[cur] EXCEPT !.status = "completed"])

CompleteTask ==
  /\ phase = "complete"
  /\ SaveAndForget([mem[cur] EXCEPT !.status = "completed", !.error = FALSE])

\* Mutants of HandleTaskError: the limit is not tested; the row is not saved.
HandleTaskErrorForEver ==
  /\ phase = "fail"
  /\ SaveAndForget([mem[cur] EXCEPT !.retries = @ + 1, !.error = TRUE,
                                    !.status = "retrying"])
HandleTaskErrorUnsaved ==
  /\ phase = "fail"
  /\ Drop(cur)
  /\ UNCHANGED <<rows, asked, resets, faults>>

HandleTaskError ==
  LET n == mem[cur].retries + 1 IN
  /\ phase = "fail"
  /\ SaveAndForget([mem[cur] EXCEPT
       !.status = IF n >= MaxRetries THEN "failed" ELSE "retrying",
       !.retries = n,
       !.error = TRUE])

\* JWTTaskService.RetryJWTTask reads the row and goes on if it is failed ...
RetryCheck(c, t) ==
  /\ asked[c] = None
  /\ t \in Present
  /\ rows[t].status = "failed"
  /\ resets < MaxResets
  /\ asked' = [asked EXCEPT ![c] = t]
  /\ UNCHANGED <<rows, processorVars, resets, faults>>

\* ... and resets it with an UPDATE that is conditional on the status.
ResetRow(t) ==
  [rows[t] EXCEPT !.status = "pending", !.retries = 0, !.error = FALSE]

\* Mutant of RetryJWTTask: the UPDATE trusts the status read before.
RetryJWTTaskUnchecked(c) ==
  /\ asked[c] # None
  /\ rows' = [rows EXCEPT ![asked[c]] = ResetRow(asked[c])]
  /\ resets' = resets + 1
  /\ asked' = [asked EXCEPT ![c] = None]
  /\ UNCHANGED <<processorVars, faults>>

RetryJWTTask(c) ==
  LET t == asked[c] IN
  /\ t # None
  /\ \/ /\ rows[t].status = "failed"
        /\ rows' = [rows EXCEPT ![t] = ResetRow(t)]
        /\ resets' = resets + 1
     \/ /\ rows[t].status # "failed"      \* RowsAffected = 0
        /\ UNCHANGED <<rows, resets>>
  /\ asked' = [asked EXCEPT ![c] = None]
  /\ UNCHANGED <<processorVars, faults>>

\* The process dies and is started again: only the table survives.
Crash ==
  /\ Fault
  /\ batch' = {}
  /\ mem' = [t \in Tasks |-> None]
  /\ cur' = None
  /\ phase' = "idle"
  /\ asked' = [c \in Clients |-> None]
  /\ UNCHANGED <<rows, resets>>

Processor ==
  \/ ProcessPendingTasks
  \/ \E t \in Tasks : ClaimTask(t)
  \/ \E v \in {"error"} \union Results : ExecuteTask(v)
  \/ CompleteTask
  \/ HandleTaskError

Next ==
  \/ \E t \in Tasks : CreateJWTTask(t)
  \/ Processor
  \/ \E c \in Clients, t \in Tasks : RetryCheck(c, t)
  \/ \E c \in Clients : RetryJWTTask(c)
  \/ Crash

\* The goroutine never blocks for ever: every push has a time limit and the
\* ticker fires every five seconds.
Fairness == WF_vars(Processor)

Spec == Init /\ [][Next]_vars
FairSpec == Spec /\ Fairness

-----------------------------------------------------------------------------
TypeOK ==
  /\ rows \in [Tasks -> Row \union {None}]
  /\ batch \in SUBSET Tasks
  /\ mem \in [Tasks -> Row \union {None}]
  /\ cur \in Tasks \union {None}
  /\ phase \in {"idle", "execute", "complete", "fail"}
  /\ asked \in [Clients -> Tasks \union {None}]
  /\ resets \in Nat
  /\ faults \in 0..MaxFaults

\* The processor's copies are the rows: while a task waits in the batch nobody
\* else changes its row, and while it is executed the row differs from the
\* copy in the results at most.  So no whole-row Save of the processor undoes
\* what a handler or an earlier save wrote.
OwnedRowsAreCurrent ==
  \A t \in batch :
    /\ rows[t] # None /\ mem[t] # None
    /\ t # cur => t \in Waiting /\ mem[t] = rows[t]
    /\ t = cur => /\ rows[t].status = "processing"
                  /\ mem[t] = [rows[t] EXCEPT !.results = mem[t].results]

\* The results of a task none of whose clusters failed.
CleanResults(t) == IF t \in UserTasks THEN "none" ELSE "allOk"

\* What an operator reads in one row fits together, whatever was saved, lost
\* or reset before: a failed row has used up its attempts and carries an
\* error, a completed one carries neither an error nor a failed cluster, and
\* a pending one starts from zero.
RowsTellTheTruth ==
  \A t \in Present :
    LET r == rows[t] IN
    /\ r.status = "pending"    => r.retries = 0 /\ ~ r.error
    /\ r.status = "retrying"   => r.retries \in 1..(MaxRetries - 1) /\ r.error
    /\ r.status = "failed"     => r.retries = MaxRetries /\ r.error
    /\ r.status = "completed"  => /\ r.retries < MaxRetries /\ ~ r.error
                                  /\ r.results = CleanResults(t)
    /\ r.status = "processing" => r.retries < MaxRetries

\* Where the processor is, and what it carries there: it works on a task of
\* its batch or on none, it completes only what left clean results, no
\* results are ever attached to a user task, and a handler that goes on to
\* the UPDATE has seen a row that still exists.
ControlOK ==
  /\ phase = "idle" <=> cur = None
  /\ cur # None => cur \in batch
  /\ phase = "complete" => mem[cur].results = CleanResults(cur)
  /\ \A t \in UserTasks : /\ rows[t] # None => rows[t].results = "none"
                          /\ t \in batch => mem[t].results = "none"
  /\ \A c \in Clients : asked[c] # None => rows[asked[c]] # None

\* The inductive invariant of JWTTaskQueueProofs.
IInv == TypeOK /\ OwnedRowsAreCurrent /\ RowsTellTheTruth /\ ControlOK

\* A row in "processing" that the processor does not hold: no query ever
\* selects it again.
Stranded == {t \in Present : rows[t].status = "processing" /\ t # cur}

\* A failed write or a crash strands one task at most: the one it hits.
StrandedOnlyByFaults == Cardinality(Stranded) <= faults

\* The table implements the life cycle shown to the operator, step by step.
StatusOf(t) == IF rows[t] = None THEN "absent" ELSE rows[t].status
AttemptsOf(t) == IF rows[t] = None THEN 0 ELSE rows[t].retries

Lifecycle == INSTANCE TaskLifecycle WITH
  status <- [t \in Tasks |-> StatusOf(t)],
  attempts <- [t \in Tasks |-> AttemptsOf(t)]

ImplementsLifecycle == Lifecycle!Spec

Settled(t) == rows[t] # None /\ rows[t].status \in {"completed", "failed"}

\* Every task that is created or reset is executed to an end, or was stranded
\* by a fault; it is never passed over for ever.
EverySettles == \A t \in Tasks : t \in Present ~> Settled(t) \/ t \in Stranded
=============================================================================
