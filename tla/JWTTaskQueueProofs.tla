------------------------- MODULE JWTTaskQueueProofs -------------------------
(***************************************************************************)
(* Proofs about JWTTaskQueue, for every set of tasks and handlers and      *)
(* every bound: the inductive invariant IInv, and with it the safety       *)
(* invariants of the runs.                                                 *)
(***************************************************************************)
EXTENDS JWTTaskQueue, FiniteSetTheorems, TLAPS

USE QueueAssumption, NoneAssumption

(* A row read from the table is a record of type Row.                      *)
LEMMA PresentRow ==
  ASSUME TypeOK, NEW t \in Tasks
  PROVE  /\ rows[t] # None => rows[t] \in Row
         /\ mem[t] # None => mem[t] \in Row
BY DEF TypeOK

(* The initial state: an empty table and an idle processor.                *)
LEMMA InitIInv == Init => IInv
BY DEF Init, IInv, TypeOK, OwnedRowsAreCurrent, RowsTellTheTruth, ControlOK,
       Present, Waiting

LEMMA CreateStep ==
  ASSUME IInv, NEW t \in Tasks, CreateJWTTask(t)
  PROVE  IInv'
<1> USE DEF IInv, CreateJWTTask, processorVars
<1>0. NewRow \in Row
  BY DEF NewRow, Row, Statuses, Results
<1>1. t \notin batch
  BY DEF OwnedRowsAreCurrent
<1>2. TypeOK'
  BY <1>0 DEF TypeOK
<1>3. OwnedRowsAreCurrent'
  BY <1>1 DEF OwnedRowsAreCurrent, Waiting, Present, TypeOK
<1>4. RowsTellTheTruth'
  BY <1>0 DEF RowsTellTheTruth, Present, TypeOK, NewRow
<1>5. ControlOK'
  BY <1>1 DEF ControlOK, TypeOK, NewRow
<1> QED BY <1>2, <1>3, <1>4, <1>5

LEMMA ListStep ==
  ASSUME IInv, ProcessPendingTasks
  PROVE  IInv'
<1> USE DEF IInv, ProcessPendingTasks
<1>0. PICK S \in Listings \ {{}} :
        /\ batch' = S
        /\ mem' = [t \in Tasks |-> IF t \in S THEN rows[t] ELSE None]
  OBVIOUS
<1>1. S \subseteq Waiting
  BY DEF Listings
<1>2. cur = None
  BY DEF ControlOK
<1>3. TypeOK'
  BY <1>0, <1>1 DEF TypeOK, Waiting, Present
<1>4. OwnedRowsAreCurrent'
  BY <1>0, <1>1, <1>2 DEF OwnedRowsAreCurrent, Waiting, Present, TypeOK
<1>5. RowsTellTheTruth'
  BY DEF RowsTellTheTruth, Present, CleanResults
<1>6. ControlOK'
  BY <1>0, <1>1, <1>2 DEF ControlOK, Waiting, Present, CleanResults
<1> QED BY <1>3, <1>4, <1>5, <1>6

(* The copy of the claimed task is its row.                                *)
LEMMA ClaimStep ==
  ASSUME IInv, NEW t \in Tasks, ClaimTask(t)
  PROVE  IInv'
<1> DEFINE claimed == [mem[t] EXCEPT !.status = "processing"]
<1>1. /\ mem[t] = rows[t] /\ rows[t] \in Row /\ t \in batch /\ cur = None
      /\ rows[t].retries < MaxRetries
  <2>1. t \in Waiting /\ mem[t] = rows[t] /\ t \in batch /\ cur = None
    BY DEF IInv, OwnedRowsAreCurrent, ClaimTask, TypeOK
  <2>2. rows[t] \in Row /\ rows[t].retries < MaxRetries
    BY <2>1 DEF IInv, RowsTellTheTruth, Waiting, Present, TypeOK, Row
  <2> QED BY <2>1, <2>2
<1>2. CASE /\ rows' = [rows EXCEPT ![t] = claimed]
           /\ mem' = [mem EXCEPT ![t] = claimed]
           /\ cur' = t
           /\ phase' = "execute"
           /\ UNCHANGED <<batch, asked, resets, faults>>
  <2> USE <1>1, <1>2 DEF IInv
  <2>1. claimed \in Row /\ claimed # None
    BY DEF Row, Statuses
  <2>2. TypeOK'
    BY <2>1 DEF TypeOK
  <2>3. OwnedRowsAreCurrent'
    BY <2>1 DEF OwnedRowsAreCurrent, Waiting, Present, TypeOK, Row
  <2>4. RowsTellTheTruth'
    BY <2>1 DEF RowsTellTheTruth, Present, TypeOK, Row, CleanResults
  <2>5. ControlOK'
    BY <2>1 DEF ControlOK, TypeOK, Row, CleanResults
  <2> QED BY <2>2, <2>3, <2>4, <2>5
<1>3. CASE Fault /\ Drop(t) /\ UNCHANGED <<rows, asked, resets>>
  <2> USE <1>1, <1>3 DEF IInv, Fault, Drop
  <2>2. TypeOK'
    BY DEF TypeOK
  <2>3. OwnedRowsAreCurrent'
    BY DEF OwnedRowsAreCurrent, Waiting, Present, TypeOK
  <2>4. RowsTellTheTruth'
    BY DEF RowsTellTheTruth, Present, CleanResults
  <2>5. ControlOK'
    BY DEF ControlOK, TypeOK, CleanResults
  <2> QED BY <2>2, <2>3, <2>4, <2>5
<1> QED BY <1>2, <1>3 DEF ClaimTask, NoFault

(* The task being executed: its row is in processing, and the copy differs *)
(* from it in the results at most.                                         *)
LEMMA CurrentTask ==
  ASSUME IInv, phase # "idle"
  PROVE  /\ cur \in Tasks /\ cur \in batch /\ cur # None
         /\ rows[cur] \in Row /\ mem[cur] \in Row
         /\ rows[cur].status = "processing"
         /\ mem[cur] = [rows[cur] EXCEPT !.results = mem[cur].results]
         /\ rows[cur].retries < MaxRetries
         /\ mem[cur].retries < MaxRetries
<1>1. cur \in Tasks /\ cur \in batch /\ cur # None
  BY DEF IInv, ControlOK, TypeOK
<1>2. /\ rows[cur] \in Row /\ mem[cur] \in Row
      /\ rows[cur].status = "processing"
      /\ mem[cur] = [rows[cur] EXCEPT !.results = mem[cur].results]
  BY <1>1 DEF IInv, TypeOK, OwnedRowsAreCurrent
<1>3. rows[cur].retries < MaxRetries
  BY <1>1, <1>2 DEF IInv, RowsTellTheTruth, Present
<1>4. mem[cur].retries = rows[cur].retries
  BY <1>2 DEF Row
<1> QED BY <1>1, <1>2, <1>3, <1>4

LEMMA ExecuteStep ==
  ASSUME IInv, NEW v \in {"error"} \union Results, ExecuteTask(v)
  PROVE  IInv'
<1> DEFINE told == IF v \in Results \ {"none"}
                     THEN [mem[cur] EXCEPT !.results = v] ELSE mem[cur]
<1>1. /\ cur \in Tasks /\ cur \in batch /\ cur # None
      /\ rows[cur] \in Row /\ mem[cur] \in Row
      /\ rows[cur].status = "processing"
      /\ mem[cur] = [rows[cur] EXCEPT !.results = mem[cur].results]
      /\ rows[cur].retries < MaxRetries
  BY CurrentTask DEF ExecuteTask
<1>2. told \in Row /\ told # None /\ told = [rows[cur] EXCEPT !.results = told.results]
  BY <1>1 DEF Row
<1>3. /\ mem' = [mem EXCEPT ![cur] = told]
      /\ rows' = [rows EXCEPT ![cur] = told] \/ UNCHANGED rows
      /\ phase' = IF v \in {"error", "someFailed"} THEN "fail" ELSE "complete"
      /\ v \in Verdicts(cur)
      /\ UNCHANGED <<batch, cur, asked, resets>>
      /\ faults' \in 0..MaxFaults
  BY DEF ExecuteTask, Fault, NoFault, IInv, TypeOK
<1> USE <1>1, <1>2, <1>3 DEF IInv
<1> HIDE DEF told
<1>4. TypeOK'
  BY DEF TypeOK
<1>5. OwnedRowsAreCurrent'
  BY DEF OwnedRowsAreCurrent, Waiting, Present, TypeOK, Row
<1>6. RowsTellTheTruth'
  BY DEF RowsTellTheTruth, Present, TypeOK, Row, CleanResults
<1>7. ControlOK'
  <2>1. cur \in UserTasks => told.results = "none"
    BY DEF told, ControlOK, Verdicts, Results
  <2>2. phase' = "complete" => told.results = CleanResults(cur)
    BY <2>1 DEF told, Verdicts, Results, CleanResults, Row
  <2> QED BY <2>1, <2>2 DEF ControlOK, TypeOK, CleanResults
<1> QED BY <1>4, <1>5, <1>6, <1>7

(* What both ways of finishing a task share: the row r to be saved agrees   *)
(* with what its new status says, and the task leaves the batch.            *)
LEMMA FinishStep ==
  ASSUME IInv, phase \in {"complete", "fail"},
         NEW r \in Row, SaveAndForget(r),
         r.results = mem[cur].results,
         \/ /\ r.status = "completed" /\ ~ r.error
            /\ r.retries < MaxRetries /\ r.results = CleanResults(cur)
         \/ r.status = "retrying" /\ r.error /\ r.retries \in 1..(MaxRetries - 1)
         \/ r.status = "failed" /\ r.error /\ r.retries = MaxRetries
  PROVE  IInv'
<1>1. /\ cur \in Tasks /\ cur \in batch
      /\ rows[cur] # None /\ mem[cur] \in Row
  BY CurrentTask
<1>2. /\ rows' = [rows EXCEPT ![cur] = r] \/ UNCHANGED rows
      /\ batch' = batch \ {cur}
      /\ mem' = [mem EXCEPT ![cur] = None]
      /\ cur' = None /\ phase' = "idle"
      /\ UNCHANGED <<asked, resets>>
      /\ faults' \in 0..MaxFaults
  BY DEF SaveAndForget, Drop, Fault, NoFault, IInv, TypeOK
<1>3. r # None
  OBVIOUS
<1> USE <1>1, <1>2, <1>3 DEF IInv
<1>4. TypeOK'
  BY DEF TypeOK
<1>5. OwnedRowsAreCurrent'
  BY DEF OwnedRowsAreCurrent, Waiting, Present, TypeOK
<1>6. RowsTellTheTruth'
  BY DEF RowsTellTheTruth, Present, TypeOK, CleanResults
<1>7. ControlOK'
  BY DEF ControlOK, TypeOK, CleanResults
<1> QED BY <1>4, <1>5, <1>6, <1>7

LEMMA CompleteStep ==
  ASSUME IInv, CompleteTask
  PROVE  IInv'
<1> DEFINE r == [mem[cur] EXCEPT !.status = "completed", !.error = FALSE]
<1>1. /\ cur \in Tasks /\ mem[cur] \in Row /\ mem[cur].retries < MaxRetries
      /\ mem[cur].results = CleanResults(cur) /\ phase = "complete"
  BY CurrentTask DEF CompleteTask, IInv, ControlOK
<1>2. /\ r \in Row /\ r.status = "completed" /\ ~ r.error
      /\ r.retries < MaxRetries /\ r.results = mem[cur].results
  BY <1>1 DEF Row, Statuses
<1>3. SaveAndForget(r)
  BY DEF CompleteTask
<1> HIDE DEF r
<1> QED BY <1>1, <1>2, <1>3, FinishStep

LEMMA ErrorStep ==
  ASSUME IInv, HandleTaskError
  PROVE  IInv'
<1> DEFINE n == mem[cur].retries + 1
           s == IF n >= MaxRetries THEN "failed" ELSE "retrying"
           r == [mem[cur] EXCEPT !.status = s, !.retries = n, !.error = TRUE]
<1>1. /\ cur \in Tasks /\ mem[cur] \in Row /\ mem[cur].retries < MaxRetries
      /\ phase = "fail"
  BY CurrentTask DEF HandleTaskError
<1>2. n \in 1..MaxRetries
  BY <1>1 DEF Row
<1>3. /\ r \in Row /\ r.error /\ r.results = mem[cur].results /\ r.retries = n
      /\ r.status = s
  <2>1. s \in Statuses /\ n \in 0..MaxRetries
    BY <1>2 DEF Statuses
  <2>2. r = [mem[cur] EXCEPT !.status = s, !.retries = n, !.error = TRUE]
    OBVIOUS
  <2> HIDE DEF s, n, r
  <2>3. mem[cur] \in Row
    BY <1>1
  <2> QED BY <2>1, <2>2, <2>3 DEF Row
<1>4. SaveAndForget(r)
  BY DEF HandleTaskError
<1>5. \/ r.status = "retrying" /\ r.error /\ r.retries \in 1..(MaxRetries - 1)
      \/ r.status = "failed" /\ r.error /\ r.retries = MaxRetries
  BY <1>2, <1>3
<1> HIDE DEF r, s, n
<1> QED BY <1>1, <1>3, <1>4, <1>5, FinishStep

(* The reset touches a failed row, and no failed row is in the batch.      *)
LEMMA RetryStep ==
  ASSUME IInv, NEW c \in Clients, RetryJWTTask(c)
  PROVE  IInv'
<1> DEFINE t == asked[c]
<1>1. t \in Tasks /\ UNCHANGED <<batch, mem, cur, phase, faults>>
      /\ asked' = [asked EXCEPT ![c] = None]
  BY DEF RetryJWTTask, IInv, TypeOK, processorVars
<1>2. CASE rows[t].status # "failed" /\ UNCHANGED <<rows, resets>>
  <2> USE <1>1, <1>2 DEF IInv
  <2>1. TypeOK' BY DEF TypeOK
  <2>2. OwnedRowsAreCurrent' BY DEF OwnedRowsAreCurrent, Waiting, Present
  <2>3. RowsTellTheTruth' BY DEF RowsTellTheTruth, Present, CleanResults
  <2>4. ControlOK' BY DEF ControlOK, CleanResults
  <2> QED BY <2>1, <2>2, <2>3, <2>4
<1>3. CASE /\ rows[t].status = "failed"
           /\ rows' = [rows EXCEPT ![t] = ResetRow(t)]
           /\ resets' = resets + 1
  <2>0. PICK row : row = ResetRow(t)
    OBVIOUS
  <2>1. rows[t] # None
    BY <1>1, NoneAssumption DEF RetryJWTTask, IInv, ControlOK
  <2>2. /\ row \in Row /\ row # None /\ row.status = "pending"
        /\ row.retries = 0 /\ ~ row.error /\ row.results = rows[t].results
    <3>1. rows[t] \in Row
      BY <1>1, <2>1 DEF IInv, TypeOK
    <3>2. "pending" \in Statuses /\ 0 \in 0..MaxRetries /\ FALSE \in BOOLEAN
      BY DEF Statuses
    <3>3. row = [rows[t] EXCEPT !.status = "pending", !.retries = 0, !.error = FALSE]
      BY <2>0 DEF ResetRow
    <3> HIDE DEF t
    <3>4. /\ row \in Row /\ row.status = "pending" /\ row.retries = 0
          /\ row.error = FALSE /\ row.results = rows[t].results
      BY <3>1, <3>2, <3>3 DEF Row
    <3> QED BY <3>4
  <2>3. t \notin batch
    BY <1>1, <1>3 DEF IInv, OwnedRowsAreCurrent, Waiting
  <2> USE <1>1, <1>3, <2>0, <2>1, <2>2, <2>3 DEF IInv
  <2>4. TypeOK' BY DEF TypeOK
  <2>5. OwnedRowsAreCurrent'
    BY DEF OwnedRowsAreCurrent, Waiting, Present, TypeOK
  <2>6. RowsTellTheTruth'
    BY DEF RowsTellTheTruth, Present, TypeOK, CleanResults
  <2>7. ControlOK'
    BY DEF ControlOK, TypeOK, CleanResults
  <2> QED BY <2>4, <2>5, <2>6, <2>7
<1> QED BY <1>2, <1>3 DEF RetryJWTTask

LEMMA CheckStep ==
  ASSUME IInv, NEW c \in Clients, NEW t \in Tasks, RetryCheck(c, t)
  PROVE  IInv'
BY DEF RetryCheck, IInv, TypeOK, OwnedRowsAreCurrent, RowsTellTheTruth,
       ControlOK, Waiting, Present, CleanResults, processorVars

LEMMA CrashStep ==
  ASSUME IInv, Crash
  PROVE  IInv'
BY DEF Crash, Fault, IInv, TypeOK, OwnedRowsAreCurrent, RowsTellTheTruth,
       ControlOK, Present, CleanResults

LEMMA StutterStep ==
  ASSUME IInv, UNCHANGED vars
  PROVE  IInv'
BY DEF vars, IInv, TypeOK, OwnedRowsAreCurrent, RowsTellTheTruth,
       ControlOK, Waiting, Present, CleanResults

(* IInv is inductive.                                                      *)
LEMMA NextIInv == IInv /\ [Next]_vars => IInv'
<1> SUFFICES ASSUME IInv, [Next]_vars PROVE IInv'
  OBVIOUS
<1>1. ASSUME NEW t \in Tasks, CreateJWTTask(t) PROVE IInv'
  BY <1>1, CreateStep
<1>2. CASE Processor
  BY <1>2, ListStep, ClaimStep, ExecuteStep, CompleteStep, ErrorStep
     DEF Processor
<1>3. ASSUME NEW c \in Clients, NEW t \in Tasks, RetryCheck(c, t) PROVE IInv'
  BY <1>3, CheckStep
<1>4. ASSUME NEW c \in Clients, RetryJWTTask(c) PROVE IInv'
  BY <1>4, RetryStep
<1>5. CASE Crash
  BY <1>5, CrashStep
<1>6. CASE UNCHANGED vars
  BY <1>6, StutterStep
<1> QED BY <1>1, <1>2, <1>3, <1>4, <1>5, <1>6 DEF Next

(* Every behaviour keeps the inductive invariant.                          *)
THEOREM QueueInvariant == Spec => []IInv
<1>1. Init => IInv BY InitIInv
<1>2. IInv /\ [Next]_vars => IInv' BY NextIInv
<1> QED BY <1>1, <1>2, PTL DEF Spec

(* Types: no counter, status or memory of the processor leaves its range.  *)
THEOREM QueueTypes == Spec => []TypeOK
<1>1. IInv => TypeOK BY DEF IInv
<1> QED BY <1>1, QueueInvariant, PTL

(* No whole-row Save of the processor undoes another actor's write: between *)
(* ListPendingJWTTasks and the last save of a task, nobody else writes it. *)
THEOREM NoLostTaskUpdate == Spec => []OwnedRowsAreCurrent
<1>1. IInv => OwnedRowsAreCurrent BY DEF IInv
<1> QED BY <1>1, QueueInvariant, PTL

(* The fields of every row fit its status, after any mix of failed saves,  *)
(* crashes and operator retries.                                           *)
THEOREM TruthfulRows == Spec => []RowsTellTheTruth
<1>1. IInv => RowsTellTheTruth BY DEF IInv
<1> QED BY <1>1, QueueInvariant, PTL

-----------------------------------------------------------------------------
(* The table implements the life cycle: every step of the queue moves one  *)
(* task along it or leaves every status and attempt count alone.           *)

(* What a change of one row looks like to the operator.                    *)
LEMMA OneRowMoves ==
  ASSUME TypeOK, NEW t \in Tasks, NEW r \in Row, NEW from,
         StatusOf(t) \in from,
         rows' = [rows EXCEPT ![t] = r]
  PROVE  Lifecycle!Move(t, from, r.status, r.retries)
BY NoneAssumption DEF Lifecycle!Move, StatusOf, AttemptsOf, TypeOK

(* Rewriting a row with the same status and retries shows nothing.         *)
LEMMA SameRowStutters ==
  ASSUME TypeOK, NEW t \in Tasks, NEW r \in Row, rows[t] # None,
         r.status = rows[t].status, r.retries = rows[t].retries,
         rows' = [rows EXCEPT ![t] = r]
  PROVE  UNCHANGED Lifecycle!vars
BY NoneAssumption DEF Lifecycle!vars, StatusOf, AttemptsOf, TypeOK

LEMMA UntouchedRowsStutter ==
  ASSUME UNCHANGED rows
  PROVE  UNCHANGED Lifecycle!vars
BY DEF Lifecycle!vars, StatusOf, AttemptsOf

LEMMA LifecycleStep == IInv /\ [Next]_vars => [Lifecycle!Next]_(Lifecycle!vars)
<1> SUFFICES ASSUME IInv, [Next]_vars
             PROVE  Lifecycle!Next \/ UNCHANGED Lifecycle!vars
  OBVIOUS
<1> USE DEF IInv
<1>1. ASSUME NEW t \in Tasks, CreateJWTTask(t) PROVE Lifecycle!Next
  <2>1. StatusOf(t) \in {"absent"} /\ NewRow \in Row
    BY <1>1 DEF CreateJWTTask, StatusOf, NewRow, Row, Statuses, Results
  <2>2. Lifecycle!Move(t, {"absent"}, "pending", 0)
    <3>1. Lifecycle!Move(t, {"absent"}, NewRow.status, NewRow.retries)
      BY <1>1, <2>1, OneRowMoves DEF CreateJWTTask
    <3> QED BY <3>1 DEF NewRow
  <2> QED BY <2>2 DEF Lifecycle!Next, Lifecycle!Create
<1>2. ASSUME NEW t \in Tasks, ClaimTask(t)
      PROVE  Lifecycle!Next \/ UNCHANGED Lifecycle!vars
  <2>1. CASE UNCHANGED rows
    BY <2>1, UntouchedRowsStutter
  <2>2. CASE rows' = [rows EXCEPT ![t] = [mem[t] EXCEPT !.status = "processing"]]
    <3>1. mem[t] = rows[t] /\ t \in Waiting /\ rows[t] \in Row
      BY <1>2 DEF ClaimTask, OwnedRowsAreCurrent, TypeOK
    <3>2. PICK r : r = [rows[t] EXCEPT !.status = "processing"]
      OBVIOUS
    <3>3. r \in Row /\ r.status = "processing" /\ r.retries = rows[t].retries
      BY <3>1, <3>2 DEF Row, Statuses
    <3>4. StatusOf(t) \in Lifecycle!Waiting /\ AttemptsOf(t) = rows[t].retries
      BY <3>1 DEF StatusOf, AttemptsOf, Waiting, Present, Lifecycle!Waiting
    <3>5. Lifecycle!Move(t, Lifecycle!Waiting, "processing", AttemptsOf(t))
      BY <2>2, <3>1, <3>2, <3>3, <3>4, OneRowMoves
    <3> QED BY <3>5 DEF Lifecycle!Next, Lifecycle!Begin
  <2> QED BY <1>2, <2>1, <2>2 DEF ClaimTask
<1>3. ASSUME NEW v, ExecuteTask(v) PROVE UNCHANGED Lifecycle!vars
  <2>1. CASE UNCHANGED rows
    BY <2>1, UntouchedRowsStutter
  <2>2. ASSUME NEW r, r \in {mem[cur], [mem[cur] EXCEPT !.results = v]},
               v \in Results \/ r = mem[cur],
               rows' = [rows EXCEPT ![cur] = r]
        PROVE  UNCHANGED Lifecycle!vars
    <3>1. /\ cur \in Tasks /\ rows[cur] \in Row /\ mem[cur] \in Row
          /\ mem[cur] = [rows[cur] EXCEPT !.results = mem[cur].results]
      BY <1>3, CurrentTask DEF ExecuteTask
    <3>2. /\ r \in Row /\ r.status = rows[cur].status
          /\ r.retries = rows[cur].retries
      BY <2>2, <3>1 DEF Row
    <3> QED BY <2>2, <3>1, <3>2, SameRowStutters
  <2> QED BY <1>3, <2>1, <2>2 DEF ExecuteTask
<1>4. CASE CompleteTask
  <2>1. CASE UNCHANGED rows
    BY <2>1, UntouchedRowsStutter
  <2>2. CASE rows' = [rows EXCEPT ![cur] =
                 [mem[cur] EXCEPT !.status = "completed", !.error = FALSE]]
    <3>1. /\ cur \in Tasks /\ rows[cur] \in Row /\ mem[cur] \in Row
          /\ rows[cur].status = "processing"
          /\ mem[cur] = [rows[cur] EXCEPT !.results = mem[cur].results]
      BY <1>4, CurrentTask DEF CompleteTask
    <3>2. PICK r : r = [mem[cur] EXCEPT !.status = "completed", !.error = FALSE]
      OBVIOUS
    <3>3. r \in Row /\ r.status = "completed" /\ r.retries = mem[cur].retries
      BY <3>1, <3>2 DEF Row, Statuses
    <3>4. StatusOf(cur) \in {"processing"} /\ AttemptsOf(cur) = r.retries
      BY <3>1, <3>3 DEF StatusOf, AttemptsOf, Row
    <3>5. Lifecycle!Move(cur, {"processing"}, "completed", AttemptsOf(cur))
      <4>1. rows' = [rows EXCEPT ![cur] = r]
        BY <2>2, <3>2
      <4>2. Lifecycle!Move(cur, {"processing"}, r.status, r.retries)
        BY <3>1, <3>3, <3>4, <4>1, OneRowMoves
      <4> QED BY <3>3, <3>4, <4>2
    <3> QED BY <3>1, <3>5 DEF Lifecycle!Next, Lifecycle!Succeed
  <2> QED BY <1>4, <2>1, <2>2 DEF CompleteTask, SaveAndForget
<1>5. CASE HandleTaskError
  <2> DEFINE n == mem[cur].retries + 1
             s == IF n >= MaxRetries THEN "failed" ELSE "retrying"
  <2>1. CASE UNCHANGED rows
    BY <2>1, UntouchedRowsStutter
  <2>2. CASE rows' = [rows EXCEPT ![cur] =
                 [mem[cur] EXCEPT !.status = s, !.retries = n, !.error = TRUE]]
    <3>1. /\ cur \in Tasks /\ rows[cur] \in Row /\ mem[cur] \in Row
          /\ rows[cur].status = "processing"
          /\ mem[cur] = [rows[cur] EXCEPT !.results = mem[cur].results]
          /\ mem[cur].retries < MaxRetries
      BY <1>5, CurrentTask DEF HandleTaskError
    <3>2. mem[cur].retries = rows[cur].retries /\ n \in 1..MaxRetries
      BY <3>1 DEF Row
    <3>3. StatusOf(cur) \in {"processing"} /\ n = AttemptsOf(cur) + 1
      BY <3>1, <3>2 DEF StatusOf, AttemptsOf
    <3>4. s \in Statuses /\ mem[cur] \in Row /\ n \in 0..MaxRetries
      BY <3>1, <3>2 DEF Statuses
    <3>5. Lifecycle!Move(cur, {"processing"}, s, n)
      <4> HIDE DEF s, n
      <4>1. PICK r : r = [mem[cur] EXCEPT !.status = s, !.retries = n, !.error = TRUE]
        OBVIOUS
      <4>2. r \in Row /\ r.status = s /\ r.retries = n
        BY <3>4, <4>1 DEF Row
      <4>3. rows' = [rows EXCEPT ![cur] = r]
        BY <2>2, <4>1
      <4>4. Lifecycle!Move(cur, {"processing"}, r.status, r.retries)
        BY <3>1, <3>3, <4>2, <4>3, OneRowMoves
      <4> QED BY <4>2, <4>4
    <3>6. \/ s = "retrying" /\ AttemptsOf(cur) + 1 < MaxRetries
          \/ s = "failed" /\ AttemptsOf(cur) + 1 = MaxRetries /\ n = MaxRetries
      BY <3>2, <3>3
    <3> HIDE DEF s
    <3>7. Lifecycle!FailAttempt(cur) \/ Lifecycle!GiveUp(cur)
      BY <3>1, <3>3, <3>5, <3>6 DEF Lifecycle!FailAttempt, Lifecycle!GiveUp
    <3> QED BY <3>1, <3>7 DEF Lifecycle!Next
  <2> QED BY <1>5, <2>1, <2>2 DEF HandleTaskError, SaveAndForget
<1>6. ASSUME NEW c \in Clients, RetryJWTTask(c)
      PROVE  Lifecycle!Next \/ UNCHANGED Lifecycle!vars
  <2> DEFINE t == asked[c]
  <2>1. CASE UNCHANGED rows
    BY <2>1, UntouchedRowsStutter
  <2>2. CASE rows[t].status = "failed" /\ rows' = [rows EXCEPT ![t] = ResetRow(t)]
    <3>1. t \in Tasks /\ rows[t] # None /\ rows[t] \in Row
      BY <1>6 DEF RetryJWTTask, TypeOK, ControlOK
    <3>2. PICK r : r = ResetRow(t)
      OBVIOUS
    <3>3. r \in Row /\ r.status = "pending" /\ r.retries = 0
      <4>1. r = [rows[t] EXCEPT !.status = "pending", !.retries = 0, !.error = FALSE]
        BY <3>2 DEF ResetRow
      <4>2. "pending" \in Statuses /\ 0 \in 0..MaxRetries
        BY DEF Statuses
      <4> HIDE DEF t
      <4> QED BY <3>1, <4>1, <4>2 DEF Row
    <3>4. StatusOf(t) \in {"failed"}
      BY <2>2, <3>1 DEF StatusOf
    <3>5. Lifecycle!Move(t, {"failed"}, "pending", 0)
      BY <2>2, <3>1, <3>2, <3>3, <3>4, OneRowMoves
    <3> QED BY <3>1, <3>5 DEF Lifecycle!Next, Lifecycle!OperatorRetry
  <2> QED BY <1>6, <2>1, <2>2 DEF RetryJWTTask
<1>7. CASE ProcessPendingTasks
  BY <1>7, UntouchedRowsStutter DEF ProcessPendingTasks
<1>8. ASSUME NEW c \in Clients, NEW t \in Tasks, RetryCheck(c, t)
      PROVE  UNCHANGED Lifecycle!vars
  BY <1>8, UntouchedRowsStutter DEF RetryCheck
<1>9. CASE Crash
  BY <1>9, UntouchedRowsStutter DEF Crash
<1>10. CASE UNCHANGED vars
  BY <1>10, UntouchedRowsStutter DEF vars
<1> QED BY <1>1, <1>2, <1>3, <1>4, <1>5, <1>6, <1>7, <1>8, <1>9, <1>10
        DEF Next, Processor

(* The queue implements TaskLifecycle: an operator who polls the table     *)
(* sees every task follow the life cycle, never skip a state, lose an      *)
(* attempt or come back from completed.                                    *)
THEOREM QueueImplementsLifecycle == Spec => ImplementsLifecycle
<1>1. Init => Lifecycle!Init
  BY DEF Init, Lifecycle!Init, StatusOf, AttemptsOf
<1>2. IInv /\ [Next]_vars => [Lifecycle!Next]_(Lifecycle!vars)
  BY LifecycleStep
<1> QED BY <1>1, <1>2, QueueInvariant, PTL
        DEF Spec, ImplementsLifecycle, Lifecycle!Spec

-----------------------------------------------------------------------------
(* A task is left in "processing" only by a fault, and by its own one.     *)

LEMMA StrandedStep ==
  ASSUME IInv, [Next]_vars
  PROVE  \/ Stranded' \subseteq Stranded /\ faults' = faults
         \/ Stranded' \subseteq Stranded \union {cur} /\ faults' = faults + 1
         \/ Stranded' \subseteq Stranded /\ faults' = faults + 1
<1> USE DEF Stranded, Present
<1>1. ASSUME NEW t \in Tasks, CreateJWTTask(t)
      PROVE  Stranded' \subseteq Stranded /\ faults' = faults
  BY <1>1 DEF CreateJWTTask, NewRow, processorVars, IInv, TypeOK
<1>2. CASE ProcessPendingTasks
  BY <1>2 DEF ProcessPendingTasks
<1>3. ASSUME NEW t \in Tasks, ClaimTask(t)
      PROVE  Stranded' \subseteq Stranded /\ faults' \in {faults, faults + 1}
  BY <1>3 DEF ClaimTask, Drop, Fault, NoFault, IInv, TypeOK
<1>4. ASSUME NEW v, ExecuteTask(v)
      PROVE  Stranded' \subseteq Stranded /\ faults' \in {faults, faults + 1}
  BY <1>4 DEF ExecuteTask, Fault, NoFault, IInv, TypeOK
<1>5. ASSUME NEW r, r.status # "processing", SaveAndForget(r), cur \in Tasks
      PROVE  \/ Stranded' \subseteq Stranded /\ faults' = faults
             \/ Stranded' \subseteq Stranded \union {cur} /\ faults' = faults + 1
  BY <1>5 DEF SaveAndForget, Drop, Fault, NoFault, IInv, TypeOK
<1>6. CASE CompleteTask
  <2>1. mem[cur] \in Row /\ cur \in Tasks
    BY <1>6, CurrentTask DEF CompleteTask
  <2>2. [mem[cur] EXCEPT !.status = "completed", !.error = FALSE].status # "processing"
    BY <2>1 DEF Row
  <2> QED BY <1>5, <1>6, <2>1, <2>2 DEF CompleteTask
<1>7. CASE HandleTaskError
  <2> DEFINE n == mem[cur].retries + 1
             s == IF n >= MaxRetries THEN "failed" ELSE "retrying"
             r == [mem[cur] EXCEPT !.status = s, !.retries = n, !.error = TRUE]
  <2>1. mem[cur] \in Row /\ cur \in Tasks
    BY <1>7, CurrentTask DEF HandleTaskError
  <2>2. r.status = s
    BY <2>1 DEF Row
  <2>3. SaveAndForget(r)
    BY <1>7 DEF HandleTaskError
  <2> HIDE DEF r
  <2> QED BY <1>5, <2>1, <2>2, <2>3
<1>8. ASSUME NEW c \in Clients, NEW t \in Tasks, RetryCheck(c, t)
      PROVE  Stranded' \subseteq Stranded /\ faults' = faults
  BY <1>8 DEF RetryCheck, processorVars
<1>9. ASSUME NEW c \in Clients, RetryJWTTask(c)
      PROVE  Stranded' \subseteq Stranded /\ faults' = faults
  <2>1. asked[c] \in Tasks /\ rows[asked[c]] \in Row
    BY <1>9 DEF RetryJWTTask, IInv, TypeOK, ControlOK
  <2>2. ResetRow(asked[c]).status # "processing"
    BY <2>1 DEF ResetRow, Row
  <2>3. rows' = [rows EXCEPT ![asked[c]] = ResetRow(asked[c])] \/ UNCHANGED rows
    BY <1>9 DEF RetryJWTTask
  <2>4. UNCHANGED <<cur, faults>>
    BY <1>9 DEF RetryJWTTask, processorVars
  <2> QED BY <2>1, <2>2, <2>3, <2>4 DEF IInv, TypeOK
<1>10. CASE Crash
  BY <1>10 DEF Crash, Fault
<1>11. CASE UNCHANGED vars
  BY <1>11 DEF vars
<1> QED BY <1>1, <1>2, <1>3, <1>4, <1>6, <1>7, <1>8, <1>9, <1>10, <1>11
        DEF Next, Processor

(* Each failed write and each crash strands one task at most.              *)
THEOREM FaultsBoundStrandedTasks == Spec => []StrandedOnlyByFaults
<1> DEFINE SInv == IsFiniteSet(Stranded) /\ StrandedOnlyByFaults
<1>1. Init => SInv
  <2> SUFFICES ASSUME Init PROVE SInv
    OBVIOUS
  <2>1. Stranded = {} /\ faults = 0
    BY DEF Init, Stranded, Present
  <2> QED BY <2>1, FS_EmptySet DEF StrandedOnlyByFaults
<1>2. IInv /\ SInv /\ [Next]_vars => SInv'
  <2> SUFFICES ASSUME IInv, SInv, [Next]_vars PROVE SInv'
    OBVIOUS
  <2>1. faults \in Nat /\ IsFiniteSet(Stranded) /\ Cardinality(Stranded) \in Nat
        /\ Cardinality(Stranded) <= faults
    BY FS_CardinalityType DEF StrandedOnlyByFaults, IInv, TypeOK
  <2>2. CASE Stranded' \subseteq Stranded /\ faults' \in {faults, faults + 1}
    <3>1. IsFiniteSet(Stranded') /\ Cardinality(Stranded') <= Cardinality(Stranded)
      BY <2>1, <2>2, FS_Subset
    <3>2. Cardinality(Stranded') \in Nat
      BY <3>1, FS_CardinalityType
    <3> QED BY <2>1, <2>2, <3>1, <3>2 DEF StrandedOnlyByFaults
  <2>3. CASE Stranded' \subseteq Stranded \union {cur} /\ faults' = faults + 1
    <3>1. /\ IsFiniteSet(Stranded \union {cur})
          /\ Cardinality(Stranded \union {cur}) \in
               {Cardinality(Stranded), Cardinality(Stranded) + 1}
      BY <2>1, FS_AddElement
    <3>2. /\ IsFiniteSet(Stranded')
          /\ Cardinality(Stranded') <= Cardinality(Stranded \union {cur})
      BY <2>3, <3>1, FS_Subset
    <3>3. Cardinality(Stranded') \in Nat
      BY <3>2, FS_CardinalityType
    <3> QED BY <2>1, <2>3, <3>1, <3>2, <3>3 DEF StrandedOnlyByFaults
  <2> QED BY <2>2, <2>3, StrandedStep
<1>3. SInv => StrandedOnlyByFaults
  OBVIOUS
<1> HIDE DEF SInv
<1> QED BY <1>1, <1>2, <1>3, QueueInvariant, PTL DEF Spec
=============================================================================
