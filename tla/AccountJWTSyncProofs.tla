------------------------ MODULE AccountJWTSyncProofs ------------------------
(***************************************************************************)
(* Proofs about AccountJWTSync, for any accounts, clusters, requests,      *)
(* handlers and tasks and every bound: it implements the queue, so that    *)
(* the theorems of JWTTaskQueueProofs hold in it, and its own invariants.  *)
(***************************************************************************)
EXTENDS AccountJWTSync, FiniteSetTheorems, TLAPS

P == INSTANCE JWTTaskQueueProofs

USE DEF history

-----------------------------------------------------------------------------
(* The two instances of the queue are one.                                 *)
LEMMA QueueAssumptionHolds == P!QueueAssumption
BY SyncAssumption, NoneIsNoValue DEF P!QueueAssumption

\* The rows of the queue are those it is proved about.
LEMMA SameRow == Q!Row = P!Row
BY DEF Q!Row, P!Row, Q!Statuses, P!Statuses, Q!Results, P!Results

\* What the proofs about the queue assume of None holds.
LEMMA NoneAssumptionHolds == P!NoneAssumption
BY SameRow, NoneIsNoValue DEF P!NoneAssumption

\* Both start alike,
LEMMA SameInit == Q!Init <=> P!Init
BY DEF Q!Init, P!Init

\* take the same steps,
LEMMA SameNext == Q!Next <=> P!Next
<1> USE DEF Q!processorVars, P!processorVars, Q!Fault, P!Fault, Q!NoFault, P!NoFault,
            Q!Drop, P!Drop
<1>1. \A t : Q!CreateJWTTask(t) <=> P!CreateJWTTask(t)
  BY DEF Q!CreateJWTTask, P!CreateJWTTask, Q!NewRow, P!NewRow
<1>2. Q!Waiting = P!Waiting
  BY DEF Q!Waiting, P!Waiting, Q!Present, P!Present
<1>3. Q!Listings = P!Listings
  <2>1. \A S : Q!Cardinality(S) = P!Cardinality(S)
    BY DEF Q!Cardinality, P!Cardinality
  <2> QED BY <1>2, <2>1 DEF Q!Listings, P!Listings
<1>4. Q!ProcessPendingTasks <=> P!ProcessPendingTasks
  BY <1>3 DEF Q!ProcessPendingTasks, P!ProcessPendingTasks
<1>5. \A t : Q!ClaimTask(t) <=> P!ClaimTask(t)
  BY DEF Q!ClaimTask, P!ClaimTask
<1>6. \A v : Q!ExecuteTask(v) <=> P!ExecuteTask(v)
  BY DEF Q!ExecuteTask, P!ExecuteTask, Q!Results, P!Results, Q!Verdicts, P!Verdicts
<1>7. Q!CompleteTask <=> P!CompleteTask
  BY DEF Q!CompleteTask, P!CompleteTask, Q!SaveAndForget, P!SaveAndForget
<1>8. Q!HandleTaskError <=> P!HandleTaskError
  BY DEF Q!HandleTaskError, P!HandleTaskError, Q!SaveAndForget, P!SaveAndForget
<1>9. Q!Processor <=> P!Processor
  BY <1>4, <1>5, <1>6, <1>7, <1>8 DEF Q!Processor, P!Processor, Q!Results, P!Results
<1>10. \A c, t : Q!RetryCheck(c, t) <=> P!RetryCheck(c, t)
  BY DEF Q!RetryCheck, P!RetryCheck, Q!Present, P!Present
<1>11. \A c : Q!RetryJWTTask(c) <=> P!RetryJWTTask(c)
  BY DEF Q!RetryJWTTask, P!RetryJWTTask, Q!ResetRow, P!ResetRow
<1>12. Q!Crash <=> P!Crash
  BY DEF Q!Crash, P!Crash
<1> QED BY <1>1, <1>9, <1>10, <1>11, <1>12 DEF Q!Next, P!Next

\* and keep the same invariant.
LEMMA SameInvariant == (Q!IInv <=> P!IInv) /\ (Q!IInv' <=> P!IInv')
BY DEF Q!IInv, P!IInv, Q!TypeOK, P!TypeOK, Q!OwnedRowsAreCurrent,
   P!OwnedRowsAreCurrent, Q!RowsTellTheTruth, P!RowsTellTheTruth,
   Q!ControlOK, P!ControlOK, Q!Row, P!Row, Q!Statuses, P!Statuses,
   Q!Results, P!Results, Q!Waiting, P!Waiting, Q!Present, P!Present,
   Q!CleanResults, P!CleanResults

(* The queue's inductive invariant is inductive here.                      *)
LEMMA QueueInit == Q!Init => Q!IInv
BY SameInit, SameInvariant, P!InitIInv, QueueAssumptionHolds, NoneAssumptionHolds

\* A step of the queue, taken here, keeps the queue's invariant.
LEMMA QueueStep ==
  ASSUME Q!IInv, [Q!Next]_(Q!vars)
  PROVE  Q!IInv'
<1>1. P!IInv /\ [P!Next]_(P!vars)
  BY SameInvariant, SameNext DEF Q!vars, P!vars
<1>2. P!IInv'
  BY <1>1, P!NextIInv, QueueAssumptionHolds, NoneAssumptionHolds
<1> QED BY <1>2, SameInvariant

-----------------------------------------------------------------------------
USE SyncAssumption, NoneIsNoValue

(* What the steps of the queue do, as far as accounts are concerned.       *)

\* The tasks the processor has, and their rows.
LEMMA Current ==
  ASSUME Q!IInv, phase # "idle"
  PROVE  /\ cur \in Tasks /\ rows[cur] # None
         /\ rows[cur].status = "processing"
         /\ mem[cur] \in Q!Row /\ mem[cur].status = "processing"
<1>1. cur \in Tasks /\ cur \in batch
  BY DEF Q!IInv, Q!ControlOK, Q!TypeOK
<1>2. /\ rows[cur] # None /\ mem[cur] # None /\ rows[cur].status = "processing"
      /\ mem[cur] = [rows[cur] EXCEPT !.results = mem[cur].results]
  BY <1>1 DEF Q!IInv, Q!OwnedRowsAreCurrent
<1>3. rows[cur] \in Q!Row /\ mem[cur] \in Q!Row
  BY <1>1, <1>2 DEF Q!IInv, Q!TypeOK
<1>4. mem[cur].status = "processing"
  BY <1>2, <1>3 DEF Q!Row
<1> QED BY <1>1, <1>2, <1>3, <1>4

\* ProcessPendingTasks changes neither a row nor what is executed.
LEMMA Listed ==
  ASSUME Q!ProcessPendingTasks
  PROVE  UNCHANGED <<rows, cur, phase, faults>>
BY DEF Q!ProcessPendingTasks

\* CreateJWTTask inserts one pending row under a free identifier.
LEMMA Created ==
  ASSUME NEW t \in Tasks, Q!CreateJWTTask(t), Q!TypeOK
  PROVE  /\ rows[t] = None /\ rows'[t] # None /\ rows'[t].status = "pending"
         /\ \A u \in Tasks \ {t} : rows'[u] = rows[u]
         /\ UNCHANGED <<cur, phase, faults>>
<1>1. Q!NewRow \in Q!Row /\ Q!NewRow.status = "pending"
  BY DEF Q!NewRow, Q!Row, Q!Statuses, Q!Results
<1> QED BY <1>1 DEF Q!CreateJWTTask, Q!TypeOK, Q!processorVars

\* ClaimTask takes a waiting row from an idle processor, or fails to.
LEMMA Claimed ==
  ASSUME Q!IInv, NEW t \in Tasks, Q!ClaimTask(t)
  PROVE  /\ phase = "idle" /\ cur = None
         /\ rows[t] # None /\ rows[t].status \in {"pending", "retrying"}
         /\ \/ /\ rows'[t] # None /\ rows'[t].status = "processing"
               /\ cur' = t /\ phase' = "execute" /\ faults' = faults
            \/ /\ rows'[t] = rows[t] /\ cur' = None /\ phase' = "idle"
               /\ faults' = faults + 1
         /\ \A u \in Tasks \ {t} : rows'[u] = rows[u]
<1>1. cur = None /\ t \in batch /\ phase = "idle"
  BY DEF Q!ClaimTask, Q!IInv, Q!ControlOK
<1>2. t \in Q!Waiting /\ mem[t] = rows[t]
  BY <1>1 DEF Q!IInv, Q!OwnedRowsAreCurrent
<1>3. /\ rows[t] # None /\ rows[t].status \in {"pending", "retrying"}
      /\ rows[t] \in Q!Row
  BY <1>2 DEF Q!Waiting, Q!Present, Q!IInv, Q!TypeOK
<1>4. PICK r : r = [mem[t] EXCEPT !.status = "processing"]
  OBVIOUS
<1>5. r \in Q!Row /\ r.status = "processing"
  BY <1>2, <1>3, <1>4 DEF Q!Row, Q!Statuses
<1>6. rows \in [Tasks -> Q!Row \union {None}]
  BY DEF Q!IInv, Q!TypeOK
<1>7. \/ /\ rows' = [rows EXCEPT ![t] = r] /\ cur' = t /\ phase' = "execute"
         /\ faults' = faults
      \/ /\ rows' = rows /\ cur' = None /\ phase' = "idle" /\ faults' = faults + 1
  BY <1>4 DEF Q!ClaimTask, Q!NoFault, Q!Fault, Q!Drop
<1> QED BY <1>1, <1>3, <1>5, <1>6, <1>7

\* ExecuteTask leaves the row claimed and decides how the attempt ends.
LEMMA Executed ==
  ASSUME Q!IInv, NEW v, Q!ExecuteTask(v)
  PROVE  /\ phase = "execute" /\ cur \in Tasks
         /\ rows[cur] # None /\ rows[cur].status = "processing"
         /\ rows'[cur] # None /\ rows'[cur].status = "processing"
         /\ \A u \in Tasks \ {cur} : rows'[u] = rows[u]
         /\ cur' = cur /\ faults' \in {faults, faults + 1}
         /\ phase' = IF v \in {"error", "someFailed"} THEN "fail" ELSE "complete"
<1>1. phase = "execute" /\ cur' = cur /\ faults' \in {faults, faults + 1}
      /\ phase' = IF v \in {"error", "someFailed"} THEN "fail" ELSE "complete"
  BY DEF Q!ExecuteTask, Q!Fault, Q!NoFault
<1>2. /\ cur \in Tasks /\ rows[cur] # None /\ rows[cur].status = "processing"
      /\ mem[cur] \in Q!Row /\ mem[cur].status = "processing"
  BY <1>1, Current
<1>3. PICK r : r = IF v \in Q!Results \ {"none"}
                     THEN [mem[cur] EXCEPT !.results = v] ELSE mem[cur]
  OBVIOUS
<1>4. r \in Q!Row /\ r.status = "processing"
  BY <1>2, <1>3 DEF Q!Row
<1>5. rows' = [rows EXCEPT ![cur] = r] \/ rows' = rows
  BY <1>3 DEF Q!ExecuteTask
<1>6. rows \in [Tasks -> Q!Row \union {None}]
  BY DEF Q!IInv, Q!TypeOK
<1> QED BY <1>1, <1>2, <1>4, <1>5, <1>6

\* The last save of an attempt is made or fails; the task is let go.
LEMMA Saved ==
  ASSUME Q!IInv, phase # "idle", NEW r \in Q!Row, Q!SaveAndForget(r)
  PROVE  /\ cur \in Tasks
         /\ rows[cur] # None /\ rows[cur].status = "processing"
         /\ \/ rows'[cur] = r /\ faults' = faults
            \/ rows'[cur] = rows[cur] /\ faults' = faults + 1
         /\ \A u \in Tasks \ {cur} : rows'[u] = rows[u]
         /\ cur' = None /\ phase' = "idle"
<1>1. rows \in [Tasks -> Q!Row \union {None}]
  BY DEF Q!IInv, Q!TypeOK
<1> QED BY <1>1, Current DEF Q!SaveAndForget, Q!Fault, Q!NoFault, Q!Drop

\* CompleteTask leaves the row completed, or claimed when the save fails.
LEMMA Completed ==
  ASSUME Q!IInv, Q!CompleteTask
  PROVE  /\ phase = "complete" /\ cur \in Tasks
         /\ rows[cur] # None /\ rows[cur].status = "processing"
         /\ rows'[cur] # None /\ rows'[cur].status \in {"completed", "processing"}
         /\ \A u \in Tasks \ {cur} : rows'[u] = rows[u]
         /\ cur' = None /\ phase' = "idle" /\ faults' \in {faults, faults + 1}
<1>1. phase = "complete"
  BY DEF Q!CompleteTask
<1>2. mem[cur] \in Q!Row
  BY <1>1, Current
<1>3. PICK r : r = [mem[cur] EXCEPT !.status = "completed", !.error = FALSE]
  OBVIOUS
<1>4. r \in Q!Row /\ r.status = "completed"
  BY <1>2, <1>3 DEF Q!Row, Q!Statuses
<1>5. Q!SaveAndForget(r)
  BY <1>3 DEF Q!CompleteTask
<1> QED BY <1>1, <1>4, <1>5, Saved

\* HandleTaskError leaves the row failed or waiting again, or claimed when
\* the save fails.
LEMMA Failed ==
  ASSUME Q!IInv, Q!HandleTaskError
  PROVE  /\ phase = "fail" /\ cur \in Tasks
         /\ rows[cur] # None /\ rows[cur].status = "processing"
         /\ rows'[cur] # None
         /\ \/ rows'[cur].status \in {"failed", "retrying"} /\ faults' = faults
            \/ rows'[cur].status = "processing" /\ faults' = faults + 1
         /\ \A u \in Tasks \ {cur} : rows'[u] = rows[u]
         /\ cur' = None /\ phase' = "idle"
<1> DEFINE n == mem[cur].retries + 1
           s == IF n >= MaxRetries THEN "failed" ELSE "retrying"
<1>1. phase = "fail"
  BY DEF Q!HandleTaskError
<1>2. mem[cur] \in Q!Row /\ cur \in Tasks
  BY <1>1, Current
<1>3. mem[cur].retries < MaxRetries
  <2>1. rows[cur] # None /\ rows[cur].status = "processing"
        /\ mem[cur] = [rows[cur] EXCEPT !.results = mem[cur].results]
        /\ rows[cur] \in Q!Row
    BY <1>1, <1>2 DEF Q!IInv, Q!ControlOK, Q!OwnedRowsAreCurrent, Q!TypeOK
  <2>2. rows[cur].retries < MaxRetries
    BY <1>2, <2>1 DEF Q!IInv, Q!RowsTellTheTruth, Q!Present
  <2> QED BY <2>1, <2>2 DEF Q!Row
<1>4. n \in 0..MaxRetries /\ s \in {"failed", "retrying"}
  BY <1>2, <1>3 DEF Q!Row
<1>5. PICK r : r = [mem[cur] EXCEPT !.status = s, !.retries = n, !.error = TRUE]
  OBVIOUS
<1>6. Q!SaveAndForget(r)
  BY <1>5 DEF Q!HandleTaskError
<1> HIDE DEF n, s
<1>7. r \in Q!Row /\ r.status = s
  BY <1>2, <1>4, <1>5 DEF Q!Row, Q!Statuses
<1> QED BY <1>1, <1>4, <1>6, <1>7, Saved

\* RetryCheck only looks.
LEMMA Checked ==
  ASSUME NEW c \in Clients, NEW t \in Tasks, Q!RetryCheck(c, t)
  PROVE  UNCHANGED <<rows, cur, phase, faults>>
BY DEF Q!RetryCheck, Q!processorVars

\* RetryJWTTask makes a failed row pending, or changes nothing.
LEMMA Retried ==
  ASSUME Q!IInv, NEW c \in Clients, Q!RetryJWTTask(c)
  PROVE  /\ asked[c] \in Tasks /\ rows[asked[c]] # None
         /\ rows'[asked[c]] # None
         /\ \/ rows' = rows
            \/ /\ rows[asked[c]].status = "failed"
               /\ rows'[asked[c]].status = "pending"
         /\ \A u \in Tasks \ {asked[c]} : rows'[u] = rows[u]
         /\ UNCHANGED <<cur, phase, faults>>
<1> DEFINE t == asked[c]
<1>1. t \in Tasks /\ rows[t] # None /\ rows[t] \in Q!Row
  BY DEF Q!RetryJWTTask, Q!IInv, Q!TypeOK, Q!ControlOK
<1>2. PICK r : r = Q!ResetRow(t)
  OBVIOUS
<1>3. r \in Q!Row /\ r.status = "pending"
  <2>1. r = [rows[t] EXCEPT !.status = "pending", !.retries = 0, !.error = FALSE]
    BY <1>2 DEF Q!ResetRow
  <2>2. "pending" \in Q!Statuses /\ 0 \in 0..MaxRetries /\ FALSE \in BOOLEAN
    BY DEF Q!Statuses
  <2>3. rows[t] \in Q!Row
    BY <1>1
  <2> HIDE DEF t
  <2> QED BY <2>1, <2>2, <2>3 DEF Q!Row
<1>4. rows \in [Tasks -> Q!Row \union {None}]
  BY DEF Q!IInv, Q!TypeOK
<1>5. \/ rows' = rows
      \/ rows' = [rows EXCEPT ![t] = r] /\ rows[t].status = "failed"
  BY <1>2 DEF Q!RetryJWTTask
<1>6. UNCHANGED <<cur, phase, faults>>
  BY DEF Q!RetryJWTTask, Q!processorVars
<1> QED BY <1>1, <1>3, <1>4, <1>5, <1>6

\* A crash leaves the table and nothing of the processor.
LEMMA Crashed ==
  ASSUME Q!Crash
  PROVE  rows' = rows /\ cur' = None /\ phase' = "idle" /\ faults' = faults + 1
BY DEF Q!Crash, Q!Fault

-----------------------------------------------------------------------------
(* Types, the room for tasks, and the refinement of the queue.             *)

\* A handler finds a task identifier for what it will insert.
RoomOK == Cardinality(Busy) <= Cardinality(FreeTasks)

\* Somebody created the accounts that are there or that handlers work on.
HistoryOK ==
  /\ \A a \in Accounts : account[a] # None => intended[a] # None
  /\ \A c \in Busy : intended[h[c].req.acct] # None

BaseInv == TypeOK /\ Q!IInv /\ RoomOK /\ HistoryOK

\* What a request may ask for.
LEMMA RequestFields ==
  ASSUME NEW r \in Requests
  PROVE  /\ r.acct \in Accounts
         /\ r.op \in {"add", "drop"} => r.item \in Items
         /\ r.op = "update" => r.limits \in {None} \union SUBSET Items
         /\ r.op = "sync" => r.clusters \in SUBSET Clusters
BY DEF AllRequests

\* A change of the content leaves a content, of the same version.
LEMMA AppliedFields ==
  ASSUME NEW r \in Requests, NEW row \in Content
  PROVE  /\ Applied(r, row) \in Content
         /\ Applied(r, row).ver = row.ver
         /\ Applied(r, row).items = Edited(r, row.items)
<1>1. Edited(r, row.items) \in SUBSET Items
  BY RequestFields DEF Edited, Content
<1>2. (WantsDisabled(r) \/ (row.disabled /\ ~ WantsEnabled(r))) \in BOOLEAN
  BY DEF WantsDisabled, WantsEnabled, Content
<1> QED BY <1>1, <1>2 DEF Applied, Content

\* The sets that are counted are finite.
LEMMA Counted ==
  /\ IsFiniteSet(Busy) /\ Cardinality(Busy) \in Nat
  /\ IsFiniteSet(FreeTasks) /\ Cardinality(FreeTasks) \in Nat
<1>1. Busy \subseteq Handlers /\ FreeTasks \subseteq Tasks
  BY DEF Busy, FreeTasks
<1> QED BY <1>1, FS_Subset, FS_CardinalityType

\* Whoever is at work finds a free identifier.
LEMMA FreeTask ==
  ASSUME RoomOK, NEW c \in Busy
  PROVE  (CHOOSE free \in FreeTasks : TRUE) \in FreeTasks
<1>1. Cardinality(Busy) # 0
  BY Counted, FS_EmptySet
<1>2. FreeTasks # {}
  BY <1>1, Counted, FS_EmptySet DEF RoomOK
<1> QED BY <1>2

\* There is room for whoever goes on, when no identifier is taken;
LEMMA RoomStays ==
  ASSUME RoomOK, FreeTasks' = FreeTasks, Busy' \subseteq Busy
  PROVE  RoomOK'
<1> DEFINE B == Busy  C == Busy'  F == FreeTasks  G == FreeTasks'
<1>1. /\ IsFiniteSet(B) /\ Cardinality(B) \in Nat /\ Cardinality(F) \in Nat
      /\ Cardinality(B) <= Cardinality(F)
  BY Counted DEF RoomOK
<1>2. Cardinality(C) <= Cardinality(B) /\ Cardinality(C) \in Nat
  BY <1>1, FS_Subset, FS_CardinalityType
<1>3. G = F
  OBVIOUS
<1> HIDE DEF B, C, F, G
<1>4. Cardinality(C) <= Cardinality(G)
  BY <1>1, <1>2, <1>3
<1> QED BY <1>4 DEF C, G, RoomOK

\* for who starts while an identifier is left over;
LEMMA RoomTaken ==
  ASSUME FreeTasks' = FreeTasks, NEW c, Busy' \subseteq Busy \union {c},
         Cardinality(FreeTasks) > Cardinality(Busy)
  PROVE  RoomOK'
<1> DEFINE B == Busy  C == Busy'  F == FreeTasks  G == FreeTasks'
<1>1. /\ IsFiniteSet(B) /\ Cardinality(B) \in Nat /\ Cardinality(F) \in Nat
      /\ Cardinality(B) < Cardinality(F)
  BY Counted
<1>2. /\ IsFiniteSet(B \union {c})
      /\ Cardinality(B \union {c}) \in {Cardinality(B), Cardinality(B) + 1}
  BY <1>1, FS_AddElement
<1>3. /\ Cardinality(C) <= Cardinality(B \union {c})
      /\ Cardinality(C) \in Nat
  BY <1>2, FS_Subset, FS_CardinalityType
<1>4. G = F
  OBVIOUS
<1> HIDE DEF B, C, F, G
<1>5. Cardinality(C) <= Cardinality(G)
  BY <1>1, <1>2, <1>3, <1>4
<1> QED BY <1>5 DEF C, G, RoomOK

\* and for the others when one who is done takes one.
LEMMA RoomSpent ==
  ASSUME RoomOK, NEW t \in FreeTasks, FreeTasks' = FreeTasks \ {t},
         NEW c \in Busy, Busy' \subseteq Busy \ {c}
  PROVE  RoomOK'
<1> DEFINE B == Busy  C == Busy'  F == FreeTasks  G == FreeTasks'
<1>1. /\ IsFiniteSet(B) /\ Cardinality(B) \in Nat
      /\ IsFiniteSet(F) /\ Cardinality(F) \in Nat
      /\ Cardinality(B) <= Cardinality(F)
  BY Counted DEF RoomOK
<1>2. /\ IsFiniteSet(B \ {c}) /\ Cardinality(B \ {c}) = Cardinality(B) - 1
      /\ Cardinality(F \ {t}) = Cardinality(F) - 1
  BY <1>1, FS_RemoveElement
<1>3. Cardinality(C) <= Cardinality(B \ {c}) /\ Cardinality(C) \in Nat
  BY <1>2, FS_Subset, FS_CardinalityType
<1>4. G = F \ {t}
  OBVIOUS
<1> HIDE DEF B, C, F, G
<1>5. Cardinality(C) <= Cardinality(G)
  BY <1>1, <1>2, <1>3, <1>4
<1> QED BY <1>5 DEF C, G, RoomOK

\* The first state.
LEMMA BaseInit == Init => BaseInv
<1> SUFFICES ASSUME Init PROVE BaseInv
  OBVIOUS
<1>1. Q!IInv
  BY QueueInit DEF Init
<1>2. /\ phase = "idle" /\ \A t \in Tasks : rows[t] = None
  BY DEF Init, Q!Init
<1>3. [ver |-> 0, items |-> {}, disabled |-> FALSE] \in Content
  BY DEF Content
<1>4. TypeOK
  BY <1>1, <1>2, <1>3 DEF Init, TypeOK, Q!IInv
<1>5. RoomOK
  <2>1. Busy = {}
    BY DEF Init, Busy
  <2> QED BY <2>1, Counted, FS_EmptySet DEF RoomOK
<1>6. HistoryOK
  BY DEF Init, HistoryOK, Busy
<1> QED BY <1>1, <1>4, <1>5, <1>6 DEF BaseInv

\* A step of a handler that does not touch the queue.
LEMMA Quiet ==
  ASSUME Q!IInv, UNCHANGED queueVars
  PROVE  Q!IInv' /\ [Q!Next]_(Q!vars) /\ FreeTasks' = FreeTasks
<1>1. UNCHANGED Q!vars
  BY DEF queueVars, Q!vars
<1>2. Q!IInv'
  BY <1>1, QueueStep
<1>3. FreeTasks' = FreeTasks
  BY DEF queueVars, FreeTasks
<1> QED BY <1>1, <1>2, <1>3

\* A step of the queue that inserts no task.
LEMMA Moved ==
  ASSUME Q!IInv, Q!Next,
         \A t \in Tasks : rows'[t] = None <=> rows[t] = None
  PROVE  Q!IInv' /\ [Q!Next]_(Q!vars) /\ FreeTasks' = FreeTasks
BY QueueStep DEF FreeTasks

\* The handlers at work, and what they hold.
LEMMA Working ==
  ASSUME TypeOK, NEW c \in Handlers
  PROVE  /\ c \in Busy <=> h[c] # IdleHandler
         /\ h[c].at \in {"loaded", "saved"} => c \in Busy
         /\ c \in Busy => /\ h[c] \in State /\ h[c].req \in Requests
                          /\ h[c].req.acct \in Accounts
                          /\ h[c].copy \in Content
<1>1. IdleHandler.at = "idle"
  BY DEF IdleHandler
<1>2. h[c].at \in {"loaded", "saved"} => h[c] # IdleHandler
  BY <1>1
<1> QED BY <1>2, RequestFields DEF TypeOK, Busy, State

\* The steps of the handlers keep BaseInv, and are steps of the queue or none.
LEMMA LoadBase ==
  ASSUME BaseInv, NEW c \in Handlers, NEW r \in Requests, Load(c, r)
  PROVE  BaseInv' /\ [Q!Next]_(Q!vars)
<1>1. TypeOK /\ Q!IInv /\ RoomOK /\ HistoryOK
  BY DEF BaseInv
<1>2. account[r.acct] \in Content /\ r.acct \in Accounts /\ account[r.acct] # None
  BY <1>1, RequestFields DEF Load, Accepted, TypeOK
<1>3. PICK s : s = [at |-> IF r.op = "sync" THEN "saved" ELSE "loaded",
                    req |-> r, copy |-> Applied(r, account[r.acct])]
  OBVIOUS
<1>4. s \in State /\ s.req = r
  BY <1>2, <1>3, AppliedFields DEF State
<1>5. /\ h' = [h EXCEPT ![c] = s] /\ Cardinality(FreeTasks) > Cardinality(Busy)
      /\ UNCHANGED <<queueVars, account, order, push, failures, resolver, history>>
  BY <1>3 DEF Load
<1>6. Q!IInv' /\ [Q!Next]_(Q!vars) /\ FreeTasks' = FreeTasks
  BY <1>1, <1>5, Quiet
<1>7. TypeOK'
  BY <1>1, <1>4, <1>5, <1>6 DEF TypeOK, State, queueVars, Q!IInv, Targets
<1>8. Busy' \subseteq Busy \union {c}
  BY <1>1, <1>5 DEF Busy, TypeOK
<1>9. RoomOK'
  BY <1>5, <1>6, <1>8, RoomTaken
<1>10. HistoryOK'
  BY <1>1, <1>2, <1>4, <1>5, <1>8 DEF HistoryOK, Busy, TypeOK
<1> QED BY <1>6, <1>7, <1>9, <1>10 DEF BaseInv

\* CreateAccount: the handler and the account it inserts are typed.
LEMMA CreateAccountBase ==
  ASSUME BaseInv, NEW c \in Handlers, NEW r \in Requests, CreateAccount(c, r)
  PROVE  BaseInv' /\ [Q!Next]_(Q!vars)
<1>1. TypeOK /\ Q!IInv /\ RoomOK /\ HistoryOK /\ r.acct \in Accounts
  BY RequestFields DEF BaseInv
<1>2. PICK row : row = [ver |-> saves + 1, items |-> {}, disabled |-> FALSE]
  OBVIOUS
<1>3. row \in Content /\ saves + 1 \in Nat
  BY <1>1, <1>2 DEF Content, TypeOK
<1>4. PICK s : s = [at |-> "loaded", req |-> r, copy |-> row]
  OBVIOUS
<1>5. s \in State /\ s.req = r
  BY <1>3, <1>4 DEF State
<1>6. /\ h' = [h EXCEPT ![c] = s] /\ account' = [account EXCEPT ![r.acct] = row]
      /\ intended' = [intended EXCEPT ![r.acct] = {}]
      /\ saves' = saves + 1 /\ Cardinality(FreeTasks) > Cardinality(Busy)
      /\ UNCHANGED <<queueVars, order, push, failures, resolver, missed, undone>>
  BY <1>2, <1>4 DEF CreateAccount
<1>7. Q!IInv' /\ [Q!Next]_(Q!vars) /\ FreeTasks' = FreeTasks
  BY <1>1, <1>6, Quiet
<1>8. TypeOK'
  BY <1>1, <1>3, <1>5, <1>6, <1>7 DEF TypeOK, queueVars, Q!IInv, Targets
<1>9. Busy' \subseteq Busy \union {c}
  BY <1>1, <1>6 DEF Busy, TypeOK
<1>10. RoomOK'
  BY <1>6, <1>7, <1>9, RoomTaken
<1>11. HistoryOK'
  BY <1>1, <1>3, <1>5, <1>6, <1>9 DEF HistoryOK, Busy, TypeOK
<1> QED BY <1>7, <1>8, <1>10, <1>11 DEF BaseInv

\* A handler ends without touching the queue, the accounts or what was intended.
LEMMA EndBase ==
  ASSUME BaseInv, NEW c \in Busy, h' = [h EXCEPT ![c] = IdleHandler],
         account' \in [Accounts -> Content \union {None}],
         \A a \in Accounts : account'[a] # None => account[a] # None,
         failures' \in 0..MaxFaults,
         missed' \in [Handlers -> SUBSET Items],
         UNCHANGED <<queueVars, order, push, resolver, saves, intended, undone>>
  PROVE  BaseInv' /\ [Q!Next]_(Q!vars)
<1>1. TypeOK /\ Q!IInv /\ RoomOK /\ HistoryOK
  BY DEF BaseInv
<1>2. Q!IInv' /\ [Q!Next]_(Q!vars) /\ FreeTasks' = FreeTasks
  BY <1>1, Quiet
<1>3. TypeOK'
  BY <1>1, <1>2 DEF TypeOK, queueVars, Q!IInv, Targets
<1>4. Busy' \subseteq Busy /\ \A d \in Busy' : h'[d] = h[d]
  BY <1>1 DEF Busy, TypeOK
<1>5. RoomOK'
  BY <1>1, <1>2, <1>4, RoomStays
<1>6. HistoryOK'
  BY <1>1, <1>4 DEF HistoryOK
<1> QED BY <1>2, <1>3, <1>5, <1>6 DEF BaseInv

\* DeleteAccount: the handler ends.
LEMMA DeleteAccountBase ==
  ASSUME BaseInv, NEW c \in Handlers, DeleteAccount(c)
  PROVE  BaseInv' /\ [Q!Next]_(Q!vars)
<1>1. TypeOK
  BY DEF BaseInv
<1>2. c \in Busy /\ h[c].req.acct \in Accounts
  BY <1>1, Working DEF DeleteAccount
<1>3. /\ account' \in [Accounts -> Content \union {None}]
      /\ \A a \in Accounts : account'[a] # None => account[a] # None
  BY <1>1, <1>2 DEF DeleteAccount, TypeOK
<1>4. failures' \in 0..MaxFaults /\ missed' \in [Handlers -> SUBSET Items]
  BY <1>1 DEF DeleteAccount, WriteWorks, WriteFails, TypeOK
<1> QED BY <1>2, <1>3, <1>4, EndBase DEF DeleteAccount

\* What requests change are items,
LEMMA ChangesTyped ==
  ASSUME NEW r \in Requests
  PROVE  Granted(r) \subseteq Items /\ Withdrawn(r) \subseteq Items
BY RequestFields DEF Granted, Withdrawn, LimitsOf

\* and so is what the history says of a save.
LEMMA RecordTyped ==
  ASSUME TypeOK, NEW c \in Handlers, NEW r \in Requests, Record(c, r)
  PROVE  /\ missed' \in [Handlers -> SUBSET Items]
         /\ undone' \in [Accounts -> SUBSET Items]
<1> DEFINE D == Changed(r)
           seen == [d \in Handlers |->
             IF d = c THEN {}
             ELSE missed[d] \union (IF HoldsCopy(d, r.acct) THEN D ELSE {})]
<1>1. /\ D \subseteq Items
      /\ missed' = seen
      /\ undone' = [undone EXCEPT ![r.acct] = (@ \union missed[c]) \ D]
  BY ChangesTyped DEF Changed, Record
<1> HIDE DEF D
<1>2. seen \in [Handlers -> SUBSET Items]
  BY <1>1 DEF TypeOK
<1> QED BY <1>1, <1>2 DEF TypeOK

\* SaveAccount: saved, given up, or gone on without the creds.
LEMMA SaveAccountBase ==
  ASSUME BaseInv, NEW c \in Handlers, SaveAccount(c)
  PROVE  BaseInv' /\ [Q!Next]_(Q!vars)
<1> DEFINE r == h[c].req  a == h[c].req.acct
<1>1. TypeOK /\ Q!IInv /\ RoomOK /\ HistoryOK
  BY DEF BaseInv
<1>2. /\ c \in Busy /\ h[c] \in State /\ r \in Requests /\ a \in Accounts
      /\ h[c].copy \in Content /\ h[c].at = "loaded"
  BY <1>1, Working DEF SaveAccount
<1>3. UNCHANGED <<queueVars, order, push, resolver>>
  BY DEF SaveAccount
<1>4. Q!IInv' /\ [Q!Next]_(Q!vars) /\ FreeTasks' = FreeTasks
  BY <1>1, <1>3, Quiet
<1>5. CASE WriteFails /\ h' = [h EXCEPT ![c] = IdleHandler]
           /\ missed' = [missed EXCEPT ![c] = {}]
           /\ UNCHANGED <<account, saves, intended, undone>>
  <2>1. failures' \in 0..MaxFaults
    BY <1>1, <1>5 DEF WriteFails, TypeOK
  <2>2. /\ account' \in [Accounts -> Content \union {None}]
        /\ missed' \in [Handlers -> SUBSET Items]
    BY <1>1, <1>5 DEF TypeOK
  <2> QED BY <1>2, <1>3, <1>5, <2>1, <2>2, EndBase
<1>6. ASSUME NEW s \in State, s.req = r, h' = [h EXCEPT ![c] = s],
             account' \in [Accounts -> Content \union {None}],
             \A b \in Accounts : account'[b] # None => account[b] # None \/ b = a,
             intended' \in [Accounts -> {None} \union SUBSET Items],
             \A b \in Accounts : intended[b] # None => intended'[b] # None,
             saves' \in Nat, failures' \in 0..MaxFaults,
             missed' \in [Handlers -> SUBSET Items],
             undone' \in [Accounts -> SUBSET Items]
      PROVE  BaseInv'
  <2>1. TypeOK'
    BY <1>1, <1>2, <1>3, <1>4, <1>6 DEF TypeOK, queueVars, Q!IInv, Targets
  <2>2. Busy' \subseteq Busy /\ \A d \in Busy' : h'[d].req = h[d].req
    BY <1>1, <1>2, <1>6 DEF Busy, TypeOK
  <2>3. RoomOK'
    BY <1>1, <1>4, <2>2, RoomStays
  <2>4. HistoryOK'
    <3>1. \A d \in Busy : h[d].req.acct \in Accounts
      BY <1>1, Working DEF Busy
    <3>2. intended[a] # None
      BY <1>1, <1>2 DEF HistoryOK
    <3> QED BY <1>1, <1>2, <1>6, <2>2, <3>1, <3>2 DEF HistoryOK
  <2> QED BY <1>4, <2>1, <2>3, <2>4 DEF BaseInv
<1>7. CASE WriteFails /\ h' = [h EXCEPT ![c] = [@ EXCEPT !.at = "saved"]]
           /\ missed' = [missed EXCEPT ![c] = {}]
           /\ UNCHANGED <<account, saves, intended, undone>>
  <2>1. PICK s : s = [h[c] EXCEPT !.at = "saved"]
    OBVIOUS
  <2>2. s \in State /\ s.req = r /\ h' = [h EXCEPT ![c] = s]
    BY <1>2, <1>7, <2>1 DEF State
  <2>3. failures' \in 0..MaxFaults
    BY <1>1, <1>7 DEF WriteFails, TypeOK
  <2> QED BY <1>1, <1>4, <1>6, <1>7, <2>2, <2>3 DEF TypeOK
<1>8. CASE /\ account' = [account EXCEPT ![a] = [h[c].copy EXCEPT !.ver = saves + 1]]
           /\ Record(c, r)
           /\ h' = [h EXCEPT ![c].at = "saved",
                            ![c].copy = [h[c].copy EXCEPT !.ver = saves + 1]]
           /\ WriteWorks
  <2>1. PICK w : w = [h[c].copy EXCEPT !.ver = saves + 1]
    OBVIOUS
  <2>2. w \in Content /\ saves + 1 \in Nat /\ w # None
    <3>1. saves + 1 \in Nat
      BY <1>1 DEF TypeOK
    <3>2. w \in Content
      BY <1>2, <2>1, <3>1 DEF Content
    <3> QED BY <3>1, <3>2
  <2>3. PICK s : s = [h[c] EXCEPT !.at = "saved", !.copy = w]
    OBVIOUS
  <2>4. s \in State /\ s.req = r
    BY <1>2, <2>2, <2>3 DEF State
  <2>5. h' = [h EXCEPT ![c] = s]
    BY <1>1, <1>2, <1>8, <2>1, <2>3 DEF TypeOK
  <2>6. /\ intended[a] \in SUBSET Items /\ saves' = saves + 1
        /\ intended' = [intended EXCEPT ![a] = (@ \ Withdrawn(r)) \union Granted(r)]
    BY <1>1, <1>2, <1>8 DEF HistoryOK, TypeOK, Record
  <2>7. failures' \in 0..MaxFaults
    BY <1>1, <1>8 DEF WriteWorks, TypeOK
  <2>8. /\ account' \in [Accounts -> Content \union {None}]
        /\ \A b \in Accounts : account'[b] # None => account[b] # None \/ b = a
    BY <1>1, <1>2, <1>8, <2>1, <2>2 DEF TypeOK
  <2>9. /\ intended' \in [Accounts -> {None} \union SUBSET Items]
        /\ \A b \in Accounts : intended[b] # None => intended'[b] # None
    <3> DEFINE gone == Withdrawn(r)  new == Granted(r)
    <3>1. (intended[a] \ gone) \union new \in SUBSET Items
      BY <1>2, <2>6, ChangesTyped
    <3> HIDE DEF gone, new
    <3>2. intended' = [intended EXCEPT ![a] = (intended[a] \ gone) \union new]
      BY <2>6 DEF gone, new
    <3> QED BY <1>1, <1>2, <3>1, <3>2, NoneIsNoValue DEF TypeOK
  <2>10. /\ missed' \in [Handlers -> SUBSET Items]
         /\ undone' \in [Accounts -> SUBSET Items]
    BY <1>1, <1>2, <1>8, RecordTyped
  <2> QED BY <1>4, <1>6, <1>8, <2>2, <2>4, <2>5, <2>6, <2>7, <2>8, <2>9, <2>10
<1> HIDE DEF a, r
<1>9. BaseInv'
  BY <1>5, <1>7, <1>8 DEF SaveAccount, a, r
<1> QED BY <1>4, <1>9

\* CreateTask inserts row and order together, under an identifier there is.
LEMMA CreateTaskBase ==
  ASSUME BaseInv, NEW c \in Handlers, CreateTask(c)
  PROVE  BaseInv' /\ [Q!Next]_(Q!vars)
<1> DEFINE r == h[c].req
           t == CHOOSE free \in FreeTasks : TRUE
           o == [acct |-> r.acct, disable |-> WantsDisabled(r), ver |-> h[c].copy.ver,
                 clusters |-> IF r.op = "sync" THEN r.clusters ELSE None]
<1>1. TypeOK /\ Q!IInv /\ RoomOK /\ HistoryOK
  BY DEF BaseInv
<1>2. /\ c \in Busy /\ r \in Requests /\ r.acct \in Accounts
      /\ h[c].copy \in Content
  BY <1>1, Working DEF CreateTask
<1>3. /\ h' = [h EXCEPT ![c] = IdleHandler]
      /\ UNCHANGED <<account, push, resolver, history>>
  BY DEF CreateTask
<1>4. CASE WriteFails /\ UNCHANGED <<queueVars, order>>
  <2>1. failures' \in 0..MaxFaults
    BY <1>1, <1>4 DEF WriteFails, TypeOK
  <2>2. /\ account' \in [Accounts -> Content \union {None}]
        /\ missed' \in [Handlers -> SUBSET Items]
    BY <1>1, <1>3 DEF TypeOK
  <2> QED BY <1>2, <1>3, <1>4, <2>1, <2>2, EndBase
<1>5. CASE Q!CreateJWTTask(t) /\ order' = [order EXCEPT ![t] = o] /\ WriteWorks
  <2>1. t \in FreeTasks /\ t \in Tasks
    BY <1>1, <1>2, FreeTask DEF FreeTasks
  <2>2. Q!Next
    BY <1>5, <2>1 DEF Q!Next
  <2>3. Q!IInv'
    BY <1>1, <2>2, QueueStep
  <2>4. o \in Order /\ o # None
    <3>1. o.clusters \in {None} \union SUBSET Clusters
      BY <1>2, RequestFields
    <3>2. WantsDisabled(r) \in BOOLEAN
      BY DEF WantsDisabled
    <3> QED BY <1>2, <3>1, <3>2 DEF Order, Content
  <2> HIDE DEF t, o, r
  <2>5. /\ rows[t] = None /\ rows'[t] # None
        /\ \A u \in Tasks \ {t} : rows'[u] = rows[u]
        /\ UNCHANGED <<cur, phase, faults>>
    BY <1>1, <1>5, <2>1, Created DEF Q!IInv
  <2>6. FreeTasks' = FreeTasks \ {t}
    BY <2>1, <2>5 DEF FreeTasks
  <2>7. push # None => cur # t
    BY <1>1, <2>5, Current DEF TypeOK
  <2>8. push # None => Targets(cur)' = Targets(cur)
    BY <1>1, <1>5, <2>5, <2>7 DEF Targets, TypeOK
  <2>9. TypeOK'
    <3>1. order' \in [Tasks -> Order \union {None}]
      BY <1>1, <1>5, <2>1, <2>4 DEF TypeOK
    <3>2. \A u \in Tasks : rows'[u] = None <=> order'[u] = None
      BY <1>1, <1>5, <2>1, <2>4, <2>5 DEF TypeOK
    <3>3. push' # None => push' \in Push /\ push'.todo \subseteq Targets(cur)'
      BY <1>1, <1>3, <2>8 DEF TypeOK
    <3>4. failures' \in 0..MaxFaults
      BY <1>1, <1>5 DEF TypeOK, WriteWorks
    <3>5. h' \in [Handlers -> {IdleHandler} \union State]
      BY <1>1, <1>3 DEF TypeOK
    <3> QED BY <1>1, <1>3, <2>3, <2>5, <3>1, <3>2, <3>3, <3>4, <3>5 DEF TypeOK, Q!IInv
  <2>10. Busy' \subseteq Busy \ {c} /\ \A d \in Busy' : h'[d] = h[d]
    BY <1>1, <1>2, <1>3 DEF Busy, TypeOK
  <2>11. RoomOK'
    BY <1>1, <1>2, <2>1, <2>6, <2>10, RoomSpent
  <2>12. HistoryOK'
    BY <1>1, <1>3, <2>10 DEF HistoryOK
  <2> QED BY <2>2, <2>3, <2>9, <2>11, <2>12 DEF BaseInv
<1> QED BY <1>4, <1>5 DEF CreateTask

-----------------------------------------------------------------------------
\* A step of the queue that leaves handlers, accounts and pushes alone.
LEMMA QueueMoveBase ==
  ASSUME BaseInv, Q!Next, UNCHANGED syncVars,
         \A t \in Tasks : rows'[t] = None <=> rows[t] = None,
         push # None => phase' = phase /\ cur' = cur
  PROVE  BaseInv' /\ [Q!Next]_(Q!vars)
<1>1. TypeOK /\ Q!IInv /\ RoomOK /\ HistoryOK
  BY DEF BaseInv
<1>2. Q!IInv' /\ [Q!Next]_(Q!vars) /\ FreeTasks' = FreeTasks
  BY <1>1, Moved
<1>3. TypeOK'
  BY <1>1, <1>2 DEF TypeOK, syncVars, Q!IInv, Targets
<1>4. Busy' = Busy
  BY DEF syncVars, Busy
<1>5. RoomOK'
  BY <1>1, <1>2, <1>4, RoomStays
<1>6. HistoryOK'
  BY <1>1, <1>4 DEF HistoryOK, syncVars
<1> QED BY <1>2, <1>3, <1>5, <1>6 DEF BaseInv

\* Dispatch never moves the queue away from a task that is being pushed.
LEMMA DispatchBase ==
  ASSUME BaseInv, Dispatch
  PROVE  BaseInv' /\ [Q!Next]_(Q!vars)
<1>1. TypeOK /\ Q!IInv /\ UNCHANGED syncVars /\ Q!Next
  BY DEF BaseInv, Dispatch, Q!Next, Q!Processor
<1>2. \A t \in Tasks : rows'[t] = None <=> rows[t] = None
  BY <1>1, Listed, Claimed, Completed, Failed DEF Dispatch
<1>3. push # None => phase' = phase /\ cur' = cur
  BY <1>1, Listed, Claimed, Completed, Failed DEF Dispatch, TypeOK
<1> QED BY <1>1, <1>2, <1>3, QueueMoveBase

\* The operator's retries.
LEMMA OperatorRetryBase ==
  ASSUME BaseInv, OperatorRetry
  PROVE  BaseInv' /\ [Q!Next]_(Q!vars)
<1>1. TypeOK /\ Q!IInv /\ UNCHANGED syncVars /\ Q!Next
  BY DEF BaseInv, OperatorRetry, Q!Next
<1>2. \A t \in Tasks : rows'[t] = None <=> rows[t] = None
  BY <1>1, Checked, Retried DEF OperatorRetry
<1>3. phase' = phase /\ cur' = cur
  BY <1>1, Checked, Retried DEF OperatorRetry
<1> QED BY <1>1, <1>2, <1>3, QueueMoveBase

\* An attempt that ends before its push.
LEMMA PrepareFailsBase ==
  ASSUME BaseInv, PrepareFails
  PROVE  BaseInv' /\ [Q!Next]_(Q!vars)
<1>1. TypeOK /\ Q!IInv /\ UNCHANGED syncVars /\ push = None
      /\ Q!ExecuteTask("error") /\ Q!Next
  BY DEF BaseInv, PrepareFails, Q!Next, Q!Processor
<1>2. \A t \in Tasks : rows'[t] = None <=> rows[t] = None
  BY <1>1, Executed
<1> QED BY <1>1, <1>2, QueueMoveBase

\* ReadAccount: what it signs is a JWT, what it has to do are clusters.
LEMMA ReadAccountBase ==
  ASSUME BaseInv, ReadAccount
  PROVE  BaseInv' /\ [Q!Next]_(Q!vars)
<1> DEFINE a == order[cur].acct
           p == [jwt |-> Signed(a, account[a]), todo |-> Targets(cur), failed |-> FALSE]
<1>1. TypeOK /\ Q!IInv /\ RoomOK /\ HistoryOK
  BY DEF BaseInv
<1>2. /\ phase = "execute" /\ account[a] # None /\ push' = p
      /\ UNCHANGED <<queueVars, account, order, h, failures, resolver, history>>
  BY DEF ReadAccount
<1>3. cur \in Tasks /\ order[cur] \in Order /\ a \in Accounts
      /\ account[a] \in Content
  <2>1. cur \in Tasks /\ rows[cur] # None
    BY <1>1, <1>2, Current
  <2>2. order[cur] \in Order
    BY <1>1, <2>1 DEF TypeOK
  <2>3. a \in Accounts
    BY <2>2 DEF Order
  <2> QED BY <1>1, <1>2, <2>1, <2>2, <2>3 DEF TypeOK
<1>4. Signed(a, account[a]) \in Token
  BY <1>3 DEF Signed, Token, Content
<1>5. Targets(cur) \in SUBSET Clusters
  BY <1>3 DEF Targets, Order
<1>6. p \in Push /\ p.todo = Targets(cur)
  BY <1>4, <1>5 DEF Push
<1>7. Q!IInv' /\ [Q!Next]_(Q!vars) /\ FreeTasks' = FreeTasks
  BY <1>1, <1>2, Quiet
<1> HIDE DEF p, a
<1>8. TypeOK'
  BY <1>1, <1>2, <1>6, <1>7 DEF TypeOK, queueVars, Q!IInv, Targets
<1>9. Busy' = Busy
  BY <1>2 DEF Busy
<1>10. RoomOK' /\ HistoryOK'
  BY <1>1, <1>2, <1>7, <1>9, RoomStays DEF HistoryOK
<1> QED BY <1>7, <1>8, <1>10 DEF BaseInv

\* A push keeps what clusters hold typed.
LEMMA PushBase ==
  ASSUME BaseInv, NEW k \in Clusters, PushAccountJWTToCluster(k)
  PROVE  BaseInv' /\ [Q!Next]_(Q!vars)
<1> DEFINE a == order[cur].acct
<1>1. TypeOK /\ Q!IInv /\ RoomOK /\ HistoryOK
  BY DEF BaseInv
<1>2. PICK effect \in BOOLEAN, answered \in BOOLEAN :
        /\ resolver' = IF effect THEN [resolver EXCEPT ![k][a] = push.jwt]
                       ELSE resolver
        /\ push' = [push EXCEPT !.todo = @ \ {k}, !.failed = @ \/ ~ answered]
  BY DEF PushAccountJWTToCluster
<1>3. /\ phase = "execute" /\ push # None
      /\ UNCHANGED <<queueVars, account, order, h, failures, history>>
  BY DEF PushAccountJWTToCluster
<1>4. push \in Push /\ push.todo \subseteq Targets(cur)
  BY <1>1, <1>3 DEF TypeOK
<1>5. push' \in Push /\ push'.todo \subseteq Targets(cur)
  BY <1>2, <1>4 DEF Push
<1>6. cur \in Tasks /\ order[cur] \in Order /\ a \in Accounts
  <2>1. cur \in Tasks /\ rows[cur] # None
    BY <1>1, <1>3, Current
  <2>2. order[cur] \in Order
    BY <1>1, <2>1 DEF TypeOK
  <2> QED BY <2>1, <2>2 DEF Order
<1>7. resolver' \in [Clusters -> [Accounts -> Token \union {None}]]
  <2>1. push.jwt \in Token
    BY <1>4 DEF Push
  <2> HIDE DEF a
  <2> QED BY <1>1, <1>2, <1>6, <2>1 DEF TypeOK
<1>8. Q!IInv' /\ [Q!Next]_(Q!vars) /\ FreeTasks' = FreeTasks
  BY <1>1, <1>3, Quiet
<1>9. TypeOK'
  BY <1>1, <1>3, <1>5, <1>7, <1>8 DEF TypeOK, queueVars, Q!IInv, Targets
<1>10. Busy' = Busy
  BY <1>3 DEF Busy
<1>11. RoomOK' /\ HistoryOK'
  BY <1>1, <1>3, <1>8, <1>10, RoomStays DEF HistoryOK
<1> QED BY <1>8, <1>9, <1>11 DEF BaseInv

\* CollectResults: the queue executes, the push is over.
LEMMA CollectBase ==
  ASSUME BaseInv, CollectResults
  PROVE  BaseInv' /\ [Q!Next]_(Q!vars)
<1>1. TypeOK /\ Q!IInv /\ RoomOK /\ HistoryOK
  BY DEF BaseInv
<1>2. PICK v \in {"someFailed", "allOk"} : Q!ExecuteTask(v)
  BY DEF CollectResults
<1>3. push' = None /\ UNCHANGED <<account, order, h, failures, resolver, history>>
  BY DEF CollectResults
<1>4. Q!Next
  BY <1>2 DEF Q!Next, Q!Processor, Q!Results
<1>5. \A t \in Tasks : rows'[t] = None <=> rows[t] = None
  BY <1>1, <1>2, Executed
<1>6. Q!IInv' /\ [Q!Next]_(Q!vars) /\ FreeTasks' = FreeTasks
  BY <1>1, <1>4, <1>5, Moved
<1>7. TypeOK'
  BY <1>1, <1>3, <1>5, <1>6 DEF TypeOK, Q!IInv
<1>8. Busy' = Busy
  BY <1>3 DEF Busy
<1>9. RoomOK' /\ HistoryOK'
  BY <1>1, <1>3, <1>6, <1>8, RoomStays DEF HistoryOK
<1> QED BY <1>6, <1>7, <1>9 DEF BaseInv

\* A crash ends handlers and push.
LEMMA CrashBase ==
  ASSUME BaseInv, Crash
  PROVE  BaseInv' /\ [Q!Next]_(Q!vars)
<1>1. TypeOK /\ Q!IInv /\ RoomOK /\ HistoryOK
  BY DEF BaseInv
<1>2. /\ Q!Next /\ rows' = rows /\ push' = None /\ h' = [c \in Handlers |-> IdleHandler]
      /\ missed' = [c \in Handlers |-> {}]
      /\ UNCHANGED <<account, order, failures, resolver, saves, intended, undone>>
  BY Crashed DEF Crash, Q!Next
<1>3. Q!IInv' /\ [Q!Next]_(Q!vars) /\ FreeTasks' = FreeTasks
  BY <1>1, <1>2, Moved
<1>4. TypeOK'
  BY <1>1, <1>2, <1>3 DEF TypeOK, Q!IInv
<1>5. Busy' = {}
  BY <1>2 DEF Busy
<1>6. RoomOK'
  BY <1>1, <1>3, <1>5, RoomStays
<1>7. HistoryOK'
  BY <1>1, <1>2, <1>5 DEF HistoryOK
<1> QED BY <1>3, <1>4, <1>6, <1>7 DEF BaseInv

\* Every step keeps BaseInv and is a step of the queue or leaves it alone.
LEMMA BaseStep == BaseInv /\ [Next]_vars => BaseInv' /\ [Q!Next]_(Q!vars)
<1> SUFFICES ASSUME BaseInv, [Next]_vars
             PROVE  BaseInv' /\ [Q!Next]_(Q!vars)
  OBVIOUS
<1>1. ASSUME NEW c \in Handlers, NEW r \in Requests, Load(c, r) \/ CreateAccount(c, r)
      PROVE  BaseInv' /\ [Q!Next]_(Q!vars)
  BY <1>1, LoadBase, CreateAccountBase
<1>2. ASSUME NEW c \in Handlers, SaveAccount(c) \/ CreateTask(c) \/ DeleteAccount(c)
      PROVE  BaseInv' /\ [Q!Next]_(Q!vars)
  BY <1>2, SaveAccountBase, CreateTaskBase, DeleteAccountBase
<1>3. CASE Processor
  BY <1>3, DispatchBase, ReadAccountBase, PrepareFailsBase, PushBase, CollectBase
     DEF Processor
<1>4. CASE OperatorRetry
  BY <1>4, OperatorRetryBase
<1>5. CASE Crash
  BY <1>5, CrashBase
<1>6. CASE UNCHANGED vars
  <2>1. TypeOK /\ Q!IInv /\ RoomOK /\ HistoryOK /\ UNCHANGED queueVars
        /\ UNCHANGED syncVars
    BY <1>6 DEF BaseInv, vars
  <2>2. Q!IInv' /\ [Q!Next]_(Q!vars) /\ FreeTasks' = FreeTasks
    BY <2>1, Quiet
  <2>3. TypeOK'
    BY <2>1, <2>2 DEF TypeOK, Q!IInv, Targets, queueVars, syncVars
  <2>4. Busy' = Busy
    BY <2>1 DEF Busy, syncVars
  <2>5. RoomOK' /\ HistoryOK'
    BY <2>1, <2>2, <2>4, RoomStays DEF HistoryOK, syncVars
  <2> QED BY <2>2, <2>3, <2>5 DEF BaseInv
<1> QED BY <1>1, <1>2, <1>3, <1>4, <1>5, <1>6 DEF Next

\* BaseInv is an invariant.
LEMMA BaseAlways == Spec => []BaseInv
<1>1. BaseInv /\ [Next]_vars => BaseInv'
  BY BaseStep
<1> QED BY BaseInit, <1>1, PTL DEF Spec

\* The types, for every value of the constants.
THEOREM TypeCorrect == Spec => []TypeOK
<1>1. BaseInv => TypeOK
  BY DEF BaseInv
<1> QED BY BaseAlways, <1>1, PTL

\* Whatever the handlers, the pushes and the operator do, the queue takes a
\* step that JWTTaskQueue allows, or none: ProcessPendingTasks, ClaimTask and
\* the others keep their guards when accounts and clusters are around them.
THEOREM SyncImplementsQueue == Spec => ImplementsQueue
<1>1. Init => Q!Init
  BY DEF Init
<1>2. BaseInv /\ [Next]_vars => [Q!Next]_(Q!vars)
  BY BaseStep
<1> QED BY <1>1, <1>2, BaseAlways, PTL DEF Spec, ImplementsQueue, Q!Spec

\* What is proved of the queue alone is therefore true here: a row the
\* processor holds is the row in the table, and rows tell the truth.
THEOREM QueueInvariantsHold ==
  Spec => [](Q!OwnedRowsAreCurrent /\ Q!RowsTellTheTruth)
<1>1. BaseInv => Q!OwnedRowsAreCurrent /\ Q!RowsTellTheTruth
  BY DEF BaseInv, Q!IInv
<1> QED BY BaseAlways, <1>1, PTL

-----------------------------------------------------------------------------
(* Versions.                                                               *)

\* What a handler has read or saved is no newer than the row.
HandlersOK ==
  \A c \in Busy :
    LET a == h[c].req.acct IN
    /\ h[c].at = "loaded" => h[c].req.op # "sync"
    /\ h[c].copy.ver <= saves
    /\ account[a] # None => h[c].copy.ver <= account[a].ver

\* What a task is to deliver is no newer than the row.
OrdersOK ==
  \A t \in Tasks :
    order[t] # None =>
      LET a == order[t].acct IN
      /\ order[t].ver <= saves
      /\ account[a] # None => order[t].ver <= account[a].ver

\* No cluster is ahead of the row.
ResolversOK ==
  \A a \in Accounts :
    /\ account[a] # None => account[a].ver <= saves
    /\ \A k \in Clusters :
         resolver[k][a] # None =>
           /\ resolver[k][a].ver <= saves
           /\ account[a] # None => resolver[k][a].ver <= account[a].ver

\* The JWT being pushed is as new as the task asks and as any cluster holds;
\* when it is as new as the row, it is the row's.
PushOK ==
  push # None =>
    LET a == order[cur].acct IN
    /\ push.jwt.ver <= saves
    /\ order[cur].ver <= push.jwt.ver
    /\ \A k \in Clusters :
         resolver[k][a] # None => resolver[k][a].ver <= push.jwt.ver
    /\ account[a] # None =>
         /\ push.jwt.ver <= account[a].ver
         /\ push.jwt.ver = account[a].ver => push.jwt = Signed(a, account[a])

VersionsOK == HandlersOK /\ OrdersOK /\ ResolversOK /\ PushOK

\* Nothing has been read, ordered or pushed at first.
LEMMA VersionsInit == Init => VersionsOK
BY DEF Init, VersionsOK, HandlersOK, OrdersOK, ResolversOK, PushOK, Busy

\* The numbers that are compared are numbers.
LEMMA VersionTypes ==
  ASSUME TypeOK
  PROVE  /\ saves \in Nat
         /\ \A c \in Busy : h[c].copy.ver \in Nat /\ h[c].req.acct \in Accounts
         /\ \A a \in Accounts : account[a] # None => account[a].ver \in Nat
         /\ \A t \in Tasks : order[t] # None =>
              order[t].ver \in Nat /\ order[t].acct \in Accounts
         /\ \A k \in Clusters, a \in Accounts :
              resolver[k][a] # None => resolver[k][a].ver \in Nat
         /\ push # None => push.jwt.ver \in Nat
<1>1. \A c \in Busy : h[c].copy.ver \in Nat /\ h[c].req.acct \in Accounts
  BY Working DEF Content, Busy
<1> QED BY <1>1 DEF TypeOK, Content, Token, Order, Push

\* The task of a push has an order.
LEMMA Pushing ==
  ASSUME TypeOK, Q!IInv, phase # "idle"
  PROVE  cur \in Tasks /\ order[cur] \in Order /\ order[cur] # None
         /\ order[cur].acct \in Accounts
<1>1. cur \in Tasks /\ rows[cur] # None
  BY Current
<1>2. order[cur] \in Order /\ order[cur] # None
  BY <1>1 DEF TypeOK
<1> QED BY <1>1, <1>2 DEF Order

\* A step that writes no account, no order and no resolver.
LEMMA VersionsStay ==
  ASSUME VersionsOK,
         Busy' \subseteq Busy,
         \A c \in Busy' : /\ h'[c].req = h[c].req /\ h'[c].copy = h[c].copy
                          /\ h'[c].at = "loaded" => h[c].at = "loaded",
         TypeOK,
         \A a \in Accounts : account'[a] \in {account[a], None},
         push' = None \/ (push' = push /\ cur' = cur),
         push # None => order[cur].acct \in Accounts,
         UNCHANGED <<order, resolver, saves>>
  PROVE  VersionsOK'
<1>1. HandlersOK'
  BY VersionTypes DEF VersionsOK, HandlersOK
<1>2. OrdersOK'
  BY VersionTypes DEF VersionsOK, OrdersOK
<1>3. ResolversOK'
  BY DEF VersionsOK, ResolversOK
<1>4. PushOK'
  BY DEF VersionsOK, PushOK, Signed
<1> QED BY <1>1, <1>2, <1>3, <1>4 DEF VersionsOK
\* A step that writes the row of an account, under the next version.
LEMMA VersionsWritten ==
  ASSUME VersionsOK, TypeOK, Q!IInv,
         NEW c \in Handlers, NEW s \in State, NEW row \in Content,
         row.ver = saves + 1, s.copy.ver = saves + 1,
         s.at = "loaded" => s.req.op # "sync",
         h' = [h EXCEPT ![c] = s],
         account' = [account EXCEPT ![s.req.acct] = row],
         saves' = saves + 1,
         UNCHANGED <<queueVars, order, push, resolver>>
  PROVE  VersionsOK'
<1> DEFINE a == s.req.acct
<1>1. a \in Accounts
  BY RequestFields DEF State
<1>2. /\ \A b \in Accounts \ {a} : account'[b] = account[b]
      /\ account'[a] = row /\ row # None
      /\ saves \in Nat
  BY <1>1 DEF TypeOK
<1>3. \A d \in Handlers \ {c} : h'[d] = h[d]
  BY DEF TypeOK
<1>4. h'[c] = s
  BY DEF TypeOK
<1>5. HandlersOK'
  <2> SUFFICES ASSUME NEW d \in Handlers, h'[d] # IdleHandler
               PROVE  LET b == h'[d].req.acct IN
                      /\ h'[d].at = "loaded" => h'[d].req.op # "sync"
                      /\ h'[d].copy.ver <= saves'
                      /\ account'[b] # None => h'[d].copy.ver <= account'[b].ver
    BY DEF HandlersOK, Busy
  <2>1. CASE d = c
    BY <1>2, <1>4, <2>1
  <2>2. CASE d # c
    <3>1. d \in Busy /\ h'[d] = h[d]
      BY <1>3, <2>2 DEF Busy
    <3>2. /\ h[d].at = "loaded" => h[d].req.op # "sync"
          /\ h[d].copy.ver <= saves /\ h[d].copy.ver \in Nat
          /\ h[d].req.acct \in Accounts
          /\ account[h[d].req.acct] # None =>
               h[d].copy.ver <= account[h[d].req.acct].ver
      BY <3>1, VersionTypes DEF VersionsOK, HandlersOK
    <3> QED BY <1>2, <3>1, <3>2
  <2> QED BY <2>1, <2>2
<1>6. OrdersOK'
  BY <1>2, VersionTypes DEF VersionsOK, OrdersOK
<1>7. ResolversOK'
  BY <1>2, VersionTypes DEF VersionsOK, ResolversOK
<1>8. PushOK'
  <2> SUFFICES ASSUME push # None PROVE PushOK'
    BY DEF PushOK
  <2>1. order[cur].acct \in Accounts /\ cur' = cur
    BY Pushing DEF TypeOK, queueVars
  <2>2. push.jwt.ver \in Nat /\ push.jwt.ver <= saves
    BY VersionTypes DEF VersionsOK, PushOK
  <2>3. /\ order[cur].ver <= push.jwt.ver
        /\ \A k \in Clusters :
             resolver[k][order[cur].acct] # None =>
               resolver[k][order[cur].acct].ver <= push.jwt.ver
    BY DEF VersionsOK, PushOK
  <2> HIDE DEF a
  <2>4. CASE order[cur].acct = a
    BY <1>2, <2>1, <2>2, <2>3, <2>4 DEF PushOK
  <2>5. CASE order[cur].acct # a
    <3>1. order'[cur'] = order[cur] /\ push' = push /\ resolver' = resolver
      BY <2>1
    <3>2. account'[order[cur].acct] = account[order[cur].acct]
      BY <1>2, <2>1, <2>5
    <3>3. account[order[cur].acct] # None =>
            /\ push.jwt.ver <= account[order[cur].acct].ver
            /\ push.jwt.ver = account[order[cur].acct].ver =>
                 push.jwt = Signed(order[cur].acct, account[order[cur].acct])
      BY DEF VersionsOK, PushOK
    <3>4. account'[order'[cur'].acct] = account[order[cur].acct]
          /\ push.jwt.ver <= saves' /\ order'[cur'].acct = order[cur].acct
      BY <1>2, <2>2, <3>1, <3>2
    <3> QED BY <2>3, <3>1, <3>3, <3>4 DEF PushOK
  <2> QED BY <2>4, <2>5
<1> QED BY <1>5, <1>6, <1>7, <1>8 DEF VersionsOK

\* Load reads the row, which is the newest there is.
LEMMA LoadVersions ==
  ASSUME BaseInv, VersionsOK, NEW c \in Handlers, NEW r \in Requests, Load(c, r)
  PROVE  VersionsOK'
<1>1. TypeOK /\ Q!IInv
  BY DEF BaseInv
<1>2. account[r.acct] \in Content /\ r.acct \in Accounts /\ account[r.acct] # None
  BY <1>1, RequestFields DEF Load, Accepted, TypeOK
<1>3. PICK s : s = [at |-> IF r.op = "sync" THEN "saved" ELSE "loaded",
                    req |-> r, copy |-> Applied(r, account[r.acct])]
  OBVIOUS
<1>4. /\ s.req = r /\ s.copy.ver = account[r.acct].ver
      /\ s.at = "loaded" => s.req.op # "sync"
  BY <1>2, <1>3, AppliedFields
<1>5. /\ h' = [h EXCEPT ![c] = s]
      /\ UNCHANGED <<queueVars, account, order, push, failures, resolver, history>>
  BY <1>3 DEF Load
<1>6. account[r.acct].ver <= saves /\ saves \in Nat /\ account[r.acct].ver \in Nat
  BY <1>1, <1>2, VersionTypes DEF VersionsOK, ResolversOK
<1>7. HandlersOK'
  BY <1>1, <1>4, <1>5, <1>6 DEF VersionsOK, HandlersOK, Busy, TypeOK
<1>8. OrdersOK' /\ ResolversOK' /\ PushOK'
  BY <1>5 DEF VersionsOK, OrdersOK, ResolversOK, PushOK, Signed, queueVars
<1> QED BY <1>7, <1>8 DEF VersionsOK

\* CreateAccount writes a row newer than all before.
LEMMA CreateAccountVersions ==
  ASSUME BaseInv, VersionsOK, NEW c \in Handlers, NEW r \in Requests,
         CreateAccount(c, r)
  PROVE  VersionsOK'
<1>1. TypeOK /\ Q!IInv
  BY DEF BaseInv
<1>2. PICK row : row = [ver |-> saves + 1, items |-> {}, disabled |-> FALSE]
  OBVIOUS
<1>3. row \in Content
  BY <1>1, <1>2 DEF Content, TypeOK
<1>4. PICK s : s = [at |-> "loaded", req |-> r, copy |-> row]
  OBVIOUS
<1>5. s \in State /\ s.req = r /\ s.copy.ver = saves + 1 /\ row.ver = saves + 1
  BY <1>2, <1>3, <1>4 DEF State
<1>6. /\ h' = [h EXCEPT ![c] = s] /\ account' = [account EXCEPT ![r.acct] = row]
      /\ saves' = saves + 1 /\ UNCHANGED <<queueVars, order, push, resolver>>
  BY <1>2, <1>4 DEF CreateAccount
<1>7. r.op = "create"
  BY DEF CreateAccount
<1> QED BY <1>1, <1>3, <1>5, <1>6, <1>7, VersionsWritten

\* So does SaveAccount, even of a stale copy.
LEMMA SaveAccountVersions ==
  ASSUME BaseInv, VersionsOK, NEW c \in Handlers, SaveAccount(c)
  PROVE  VersionsOK'
<1> DEFINE r == h[c].req  a == h[c].req.acct
<1>1. TypeOK /\ Q!IInv
  BY DEF BaseInv
<1>2. /\ c \in Busy /\ h[c] \in State /\ r \in Requests /\ a \in Accounts
      /\ h[c].copy \in Content /\ h[c].at = "loaded"
  BY <1>1, Working DEF SaveAccount
<1>3. UNCHANGED <<queueVars, order, push, resolver>>
  BY DEF SaveAccount
<1>4. push # None => order[cur].acct \in Accounts
  BY <1>1, Pushing DEF TypeOK
<1>5. CASE /\ h' = [h EXCEPT ![c] = IF r.op = "create" THEN [@ EXCEPT !.at = "saved"]
                                    ELSE IdleHandler]
           /\ missed' = [missed EXCEPT ![c] = {}]
           /\ UNCHANGED <<account, saves, intended, undone>>
  <2>1. /\ Busy' \subseteq Busy
        /\ \A d \in Busy' : /\ h'[d].req = h[d].req /\ h'[d].copy = h[d].copy
                            /\ h'[d].at = "loaded" => h[d].at = "loaded"
    BY <1>1, <1>2, <1>5 DEF Busy, TypeOK, State
  <2> HIDE DEF a, r
  <2> QED BY <1>1, <1>3, <1>4, <1>5, <2>1, VersionsStay DEF queueVars
<1>6. CASE /\ account' = [account EXCEPT ![a] = [h[c].copy EXCEPT !.ver = saves + 1]]
           /\ Record(c, r)
           /\ h' = [h EXCEPT ![c].at = "saved",
                            ![c].copy = [h[c].copy EXCEPT !.ver = saves + 1]]
  <2> saves' = saves + 1
    BY <1>6 DEF Record
  <2>1. PICK w : w = [h[c].copy EXCEPT !.ver = saves + 1]
    OBVIOUS
  <2>2. w \in Content /\ w.ver = saves + 1
    <3>1. saves + 1 \in Nat
      BY <1>1 DEF TypeOK
    <3> QED BY <1>2, <2>1, <3>1 DEF Content
  <2>3. PICK s : s = [h[c] EXCEPT !.at = "saved", !.copy = w]
    OBVIOUS
  <2>4. s \in State /\ s.req = r /\ s.copy = w /\ s.at = "saved"
    BY <1>2, <2>2, <2>3 DEF State
  <2>5. h' = [h EXCEPT ![c] = s]
    BY <1>1, <1>2, <1>6, <2>1, <2>3 DEF TypeOK
  <2>6. account' = [account EXCEPT ![s.req.acct] = w]
    BY <1>6, <2>1, <2>4
  <2> HIDE DEF a, r
  <2> QED BY <1>1, <1>3, <1>6, <2>2, <2>4, <2>5, <2>6, VersionsWritten
<1> QED BY <1>5, <1>6 DEF SaveAccount

\* A task orders what its handler has read or saved.
LEMMA CreateTaskVersions ==
  ASSUME BaseInv, VersionsOK, NEW c \in Handlers, CreateTask(c)
  PROVE  VersionsOK'
<1> DEFINE r == h[c].req
           t == CHOOSE free \in FreeTasks : TRUE
           o == [acct |-> r.acct, disable |-> WantsDisabled(r), ver |-> h[c].copy.ver,
                 clusters |-> IF r.op = "sync" THEN r.clusters ELSE None]
<1>1. TypeOK /\ Q!IInv /\ RoomOK
  BY DEF BaseInv
<1>2. c \in Busy
  BY <1>1, Working DEF CreateTask
<1>3. /\ h' = [h EXCEPT ![c] = IdleHandler]
      /\ UNCHANGED <<account, push, resolver, history>>
  BY DEF CreateTask
<1>4. Busy' \subseteq Busy /\ \A d \in Busy' : h'[d] = h[d]
  BY <1>1, <1>3 DEF Busy, TypeOK
<1>5. push # None => cur \in Tasks /\ rows[cur] # None /\ order[cur].acct \in Accounts
  BY <1>1, Pushing, Current DEF TypeOK
<1>6. CASE UNCHANGED <<queueVars, order>>
  BY <1>1, <1>3, <1>4, <1>5, <1>6, VersionsStay DEF queueVars
<1>7. CASE Q!CreateJWTTask(t) /\ order' = [order EXCEPT ![t] = o]
  <2>1. t \in FreeTasks /\ t \in Tasks
    BY <1>1, <1>2, FreeTask DEF FreeTasks
  <2>2. /\ o.acct = h[c].req.acct /\ o.ver = h[c].copy.ver
    OBVIOUS
  <2>3. /\ o.ver <= saves
        /\ account[o.acct] # None => o.ver <= account[o.acct].ver
    BY <1>2, <2>2 DEF VersionsOK, HandlersOK
  <2> HIDE DEF t, o, r
  <2>4. rows[t] = None /\ UNCHANGED <<cur, phase>>
    BY <1>1, <1>7, <2>1, Created DEF Q!IInv
  <2>5. order'[t] = o /\ \A u \in Tasks \ {t} : order'[u] = order[u]
    BY <1>1, <1>7, <2>1 DEF TypeOK
  <2>6. push # None => order'[cur] = order[cur]
    BY <1>5, <2>4, <2>5
  <2>7. HandlersOK'
    BY <1>3, <1>4 DEF VersionsOK, HandlersOK
  <2>8. OrdersOK'
    BY <1>3, <2>3, <2>5 DEF VersionsOK, OrdersOK
  <2>9. ResolversOK'
    BY <1>3 DEF VersionsOK, ResolversOK
  <2>10. PushOK'
    BY <1>3, <2>4, <2>6 DEF VersionsOK, PushOK, Signed
  <2> QED BY <2>7, <2>8, <2>9, <2>10 DEF VersionsOK
<1> QED BY <1>6, <1>7 DEF CreateTask

\* ReadAccount signs a row as new as any order and any cluster.
LEMMA ReadAccountVersions ==
  ASSUME BaseInv, VersionsOK, ReadAccount
  PROVE  VersionsOK'
<1> DEFINE a == order[cur].acct
           p == [jwt |-> Signed(a, account[a]), todo |-> Targets(cur), failed |-> FALSE]
<1>1. TypeOK /\ Q!IInv
  BY DEF BaseInv
<1>2. /\ phase = "execute" /\ account[a] # None /\ push' = p
      /\ UNCHANGED <<queueVars, account, order, h, failures, resolver, history>>
  BY DEF ReadAccount
<1>3. cur \in Tasks /\ order[cur] # None /\ a \in Accounts
  BY <1>1, <1>2, Pushing
<1>4. p.jwt = Signed(a, account[a]) /\ p.jwt.ver = account[a].ver
  BY DEF Signed
<1> HIDE DEF p
<1>5. PushOK'
  BY <1>1, <1>2, <1>3, <1>4, VersionTypes
     DEF VersionsOK, OrdersOK, ResolversOK, PushOK, queueVars, Signed
<1>6. HandlersOK' /\ OrdersOK' /\ ResolversOK'
  BY <1>2 DEF VersionsOK, HandlersOK, OrdersOK, ResolversOK, Busy, queueVars
<1> QED BY <1>5, <1>6 DEF VersionsOK

\* What a push does to the resolvers and to itself.
LEMMA Pushed ==
  ASSUME TypeOK, Q!IInv, NEW k \in Clusters, PushAccountJWTToCluster(k)
  PROVE  /\ phase = "execute" /\ push # None /\ push \in Push /\ k \in push.todo
         /\ cur \in Tasks /\ order[cur] # None /\ order[cur].acct \in Accounts
         /\ UNCHANGED <<queueVars, account, order, h, failures, history>>
         /\ push' # None /\ push'.jwt = push.jwt /\ push'.todo = push.todo \ {k}
         /\ push.failed => push'.failed
         /\ \A l \in Clusters, a \in Accounts :
              \/ resolver'[l][a] = resolver[l][a]
              \/ l = k /\ a = order[cur].acct /\ resolver'[l][a] = push.jwt
         /\ ~ MayReject /\ ~ push'.failed =>
              resolver'[k][order[cur].acct] = push.jwt
<1>1. /\ phase = "execute" /\ push # None /\ k \in push.todo
      /\ UNCHANGED <<queueVars, account, order, h, failures, history>>
  BY DEF PushAccountJWTToCluster
<1>2. /\ cur \in Tasks /\ order[cur] # None /\ order[cur].acct \in Accounts
      /\ push \in Push
  BY <1>1, Pushing DEF TypeOK
<1>3. PICK effect \in BOOLEAN, answered \in BOOLEAN :
        /\ answered /\ ~ effect => MayReject
        /\ resolver' = IF effect THEN [resolver EXCEPT ![k][order[cur].acct] = push.jwt]
                       ELSE resolver
        /\ push' = [push EXCEPT !.todo = @ \ {k}, !.failed = @ \/ ~ answered]
  BY DEF PushAccountJWTToCluster
<1>4. PICK a \in Accounts : a = order[cur].acct
  BY <1>2
<1>5. PICK p : p = [push EXCEPT !.todo = @ \ {k}, !.failed = @ \/ ~ answered]
  OBVIOUS
<1>6. /\ p \in Push /\ p.jwt = push.jwt /\ p.todo = push.todo \ {k}
      /\ p.failed = (push.failed \/ ~ answered)
  BY <1>2, <1>5 DEF Push
<1>7. resolver \in [Clusters -> [Accounts -> Token \union {None}]]
  BY DEF TypeOK
<1>8. CASE effect
  <2>1. resolver' = [resolver EXCEPT ![k][a] = push.jwt]
    BY <1>3, <1>4, <1>8
  <2>2. resolver'[k][a] = push.jwt
    BY <1>7, <2>1
  <2>3. \A l \in Clusters, b \in Accounts :
          resolver'[l][b] = resolver[l][b] \/ (l = k /\ b = a)
    BY <1>7, <2>1
  <2> QED BY <1>1, <1>2, <1>3, <1>4, <1>5, <1>6, <2>2, <2>3
<1>9. CASE ~ effect
  BY <1>1, <1>2, <1>3, <1>5, <1>6, <1>9
<1> QED BY <1>8, <1>9

\* After a push a cluster holds what is being pushed.
LEMMA PushVersions ==
  ASSUME BaseInv, VersionsOK, NEW k \in Clusters, PushAccountJWTToCluster(k)
  PROVE  VersionsOK'
<1>1. TypeOK /\ Q!IInv
  BY DEF BaseInv
<1>2. /\ push # None /\ order[cur].acct \in Accounts /\ push \in Push
      /\ UNCHANGED <<queueVars, account, order, h, saves>>
      /\ push' # None /\ push'.jwt = push.jwt
      /\ \A l \in Clusters, a \in Accounts :
           \/ resolver'[l][a] = resolver[l][a]
           \/ a = order[cur].acct /\ resolver'[l][a] = push.jwt
  BY <1>1, Pushed
<1>3. HandlersOK' /\ OrdersOK'
  BY <1>2 DEF VersionsOK, HandlersOK, OrdersOK, Busy
<1>4. ResolversOK'
  BY <1>2 DEF VersionsOK, ResolversOK, PushOK
<1>5. PushOK'
  BY <1>1, <1>2, VersionTypes DEF VersionsOK, PushOK, queueVars, Signed
<1> QED BY <1>3, <1>4, <1>5 DEF VersionsOK
\* The steps that end a handler, and those of the queue.
LEMMA DeleteAccountVersions ==
  ASSUME BaseInv, VersionsOK, NEW c \in Handlers, DeleteAccount(c)
  PROVE  VersionsOK'
<1>1. TypeOK /\ Q!IInv
  BY DEF BaseInv
<1>2. push # None => order[cur].acct \in Accounts
  BY <1>1, Pushing DEF TypeOK
<1>3. /\ h' = [h EXCEPT ![c] = IdleHandler]
      /\ \/ account' = [account EXCEPT ![h[c].req.acct] = None]
         \/ account' = account
      /\ UNCHANGED <<queueVars, order, push, resolver, saves>>
  BY DEF DeleteAccount
<1>4. Busy' \subseteq Busy /\ \A d \in Busy' : h'[d] = h[d]
  BY <1>1, <1>3 DEF Busy, TypeOK
<1>5. \A a \in Accounts : account'[a] \in {account[a], None}
  BY <1>1, <1>3 DEF TypeOK
<1> QED BY <1>1, <1>2, <1>3, <1>4, <1>5, VersionsStay DEF queueVars

\* A step that leaves push and handlers alone, or ends them.
LEMMA QueueMoveVersions ==
  ASSUME BaseInv, VersionsOK,
         \/ UNCHANGED syncVars /\ (push # None => cur' = cur)
         \/ /\ push' = None
            /\ UNCHANGED <<account, order, h, resolver, saves>>
         \/ /\ push' = None /\ h' = [c \in Handlers |-> IdleHandler]
            /\ UNCHANGED <<account, order, resolver, saves>>
  PROVE  VersionsOK'
<1>1. TypeOK /\ Q!IInv
  BY DEF BaseInv
<1>2. push # None => order[cur].acct \in Accounts
  BY <1>1, Pushing DEF TypeOK
<1>3. Busy' \subseteq Busy /\ \A d \in Busy' : h'[d] = h[d]
  BY DEF Busy, syncVars
<1>4. push' = None \/ push' = push
  BY DEF syncVars
<1>5. UNCHANGED <<account, order, resolver, saves>>
  BY DEF syncVars
<1>6. push' = None \/ (push' = push /\ cur' = cur)
  BY DEF syncVars
<1> QED BY <1>1, <1>2, <1>3, <1>5, <1>6, VersionsStay

\* During a push the queue keeps the task.
LEMMA PushKeepsTask ==
  ASSUME BaseInv, push # None, Dispatch \/ OperatorRetry \/ PrepareFails
  PROVE  UNCHANGED syncVars /\ phase' = phase /\ cur' = cur
<1>1. TypeOK /\ Q!IInv
  BY DEF BaseInv
<1>2. phase = "execute"
  BY <1>1 DEF TypeOK
<1>3. CASE Dispatch
  BY <1>1, <1>2, <1>3, Listed, Claimed, Completed, Failed DEF Dispatch
<1>4. CASE OperatorRetry
  BY <1>1, <1>4, Checked, Retried DEF OperatorRetry
<1> QED BY <1>3, <1>4 DEF PrepareFails

\* Every step keeps VersionsOK.
LEMMA VersionsStep ==
  ASSUME BaseInv, VersionsOK, [Next]_vars
  PROVE  VersionsOK'
<1>1. ASSUME NEW c \in Handlers, NEW r \in Requests, Load(c, r) \/ CreateAccount(c, r)
      PROVE  VersionsOK'
  BY <1>1, LoadVersions, CreateAccountVersions
<1>2. ASSUME NEW c \in Handlers, SaveAccount(c) \/ CreateTask(c) \/ DeleteAccount(c)
      PROVE  VersionsOK'
  BY <1>2, SaveAccountVersions, CreateTaskVersions, DeleteAccountVersions
<1>3. CASE ReadAccount
  BY <1>3, ReadAccountVersions
<1>4. CASE \E k \in Clusters : PushAccountJWTToCluster(k)
  BY <1>4, PushVersions
<1>5. CASE Dispatch \/ OperatorRetry \/ PrepareFails
  BY <1>5, PushKeepsTask, QueueMoveVersions DEF Dispatch, OperatorRetry, PrepareFails
<1>6. CASE CollectResults \/ Crash
  BY <1>6, QueueMoveVersions DEF CollectResults, Crash
<1>7. CASE UNCHANGED vars
  BY <1>7, QueueMoveVersions DEF vars, queueVars
<1> QED BY <1>1, <1>2, <1>3, <1>4, <1>5, <1>6, <1>7 DEF Next, Processor

\* BaseInv and VersionsOK are invariants.
LEMMA VersionsAlways == Spec => [](BaseInv /\ VersionsOK)
<1>1. Init => BaseInv /\ VersionsOK
  BY BaseInit, VersionsInit
<1>2. BaseInv /\ VersionsOK /\ [Next]_vars => BaseInv' /\ VersionsOK'
  BY BaseStep, VersionsStep
<1> QED BY <1>1, <1>2, PTL DEF Spec

\* Only a push writes what a cluster holds.
LEMMA ResolverKept ==
  ASSUME [Next]_vars, ~ \E k \in Clusters : PushAccountJWTToCluster(k)
  PROVE  resolver' = resolver
BY DEF Next, vars, syncVars, Load, CreateAccount, SaveAccount, CreateTask, DeleteAccount,
       Processor, Dispatch, ReadAccount, PrepareFails, CollectResults, OperatorRetry, Crash

\* No step makes a cluster hold an older JWT.
LEMMA ResolverStep ==
  ASSUME BaseInv, VersionsOK, [Next]_vars, NEW k \in Clusters, NEW a \in Accounts,
         resolver[k][a] # None
  PROVE  resolver'[k][a] # None /\ resolver'[k][a].ver >= resolver[k][a].ver
<1>1. TypeOK /\ Q!IInv
  BY DEF BaseInv
<1>2. resolver[k][a].ver \in Nat
  BY <1>1, VersionTypes
<1>3. CASE \E l \in Clusters : PushAccountJWTToCluster(l)
  <2>1. PICK l \in Clusters : PushAccountJWTToCluster(l)
    BY <1>3
  <2>2. /\ push # None /\ push \in Push
        /\ \/ resolver'[k][a] = resolver[k][a]
           \/ a = order[cur].acct /\ resolver'[k][a] = push.jwt
    BY <1>1, <2>1, Pushed
  <2>3. CASE resolver'[k][a] = resolver[k][a]
    BY <1>2, <2>3
  <2>4. CASE a = order[cur].acct /\ resolver'[k][a] = push.jwt
    <3>1. push.jwt \in Token /\ push.jwt.ver \in Nat
      BY <2>2 DEF Push, Token
    <3>2. resolver[k][a].ver <= push.jwt.ver
      BY <2>2, <2>4 DEF VersionsOK, PushOK
    <3> QED BY <1>2, <2>4, <3>1, <3>2
  <2> QED BY <2>2, <2>3, <2>4
<1>4. CASE ~ \E l \in Clusters : PushAccountJWTToCluster(l)
  BY <1>2, <1>4, ResolverKept
<1> QED BY <1>3, <1>4

\* pushAccountJWTToCluster never replaces the JWT a cluster holds by an older
\* one, however many handlers, tasks, clusters, retries and restarts there
\* are: one processor pushes, and what it read is the newest there was.
THEOREM ResolverNeverGoesBackHolds == Spec => ResolverNeverGoesBack
<1>1. BaseInv /\ VersionsOK /\ [Next]_vars =>
        [\A k \in Clusters, a \in Accounts :
           resolver[k][a] # None =>
             resolver'[k][a] # None /\ resolver'[k][a].ver >= resolver[k][a].ver]_vars
  BY ResolverStep
<1> QED BY <1>1, VersionsAlways, PTL DEF Spec, ResolverNeverGoesBack
-----------------------------------------------------------------------------
(* Delivery.                                                               *)

Delivered(t) ==
  \A k \in Targets(t) :
    LET jwt == resolver[k][order[t].acct] IN
    jwt # None /\ jwt.ver >= order[t].ver

\* A push that has not failed has reached every cluster it is done with.
PushedOK ==
  push # None /\ ~ push.failed =>
    \A k \in Targets(cur) \ push.todo : resolver[k][order[cur].acct] = push.jwt

\* What is on its way to be recorded as delivered is.
DeliveryOK ==
  /\ PushedOK
  /\ phase = "complete" => Delivered(cur)
  /\ CompletedMeansDelivered

SyncInv == BaseInv /\ VersionsOK /\ DeliveryOK

\* What a task asks for is never rewritten.
LEMMA OrderKept ==
  ASSUME BaseInv, [Next]_vars, NEW t \in Tasks, rows[t] # None
  PROVE  order'[t] = order[t] /\ Targets(t)' = Targets(t)
<1>1. TypeOK /\ Q!IInv /\ RoomOK
  BY DEF BaseInv
<1>2. CASE \E c \in Handlers : CreateTask(c)
  <2>1. PICK c \in Handlers : CreateTask(c)
    BY <1>2
  <2>2. (CHOOSE free \in FreeTasks : TRUE) # t
    <3>1. c \in Busy
      BY <1>1, <2>1, Working DEF CreateTask
    <3> QED BY <1>1, <3>1, FreeTask DEF FreeTasks
  <2>3. order'[t] = order[t]
    BY <1>1, <2>1, <2>2 DEF CreateTask, TypeOK
  <2> QED BY <2>3 DEF Targets
<1>3. CASE ~ \E c \in Handlers : CreateTask(c)
  <2>1. order' = order
    BY <1>3 DEF Next, vars, syncVars, Load, CreateAccount, SaveAccount, DeleteAccount,
       Processor, Dispatch, ReadAccount, PrepareFails, PushAccountJWTToCluster,
       CollectResults, OperatorRetry, Crash
  <2> QED BY <2>1 DEF Targets
<1> QED BY <1>2, <1>3

\* The clusters of a task are clusters, its account is one.
LEMMA TargetsAreClusters ==
  ASSUME TypeOK, NEW t \in Tasks, rows[t] # None
  PROVE  Targets(t) \subseteq Clusters /\ order[t].acct \in Accounts
         /\ order[t].ver \in Nat
BY DEF TypeOK, Targets, Order

\* What is delivered stays delivered.
LEMMA DeliveredStays ==
  ASSUME BaseInv, VersionsOK, [Next]_vars,
         NEW t \in Tasks, rows[t] # None, Delivered(t)
  PROVE  Delivered(t)'
<1>1. TypeOK
  BY DEF BaseInv
<1>2. BaseInv'
  BY BaseStep
<1>3. order'[t] = order[t] /\ Targets(t)' = Targets(t)
  BY OrderKept
<1>4. /\ Targets(t) \subseteq Clusters /\ order[t].acct \in Accounts
      /\ order[t].ver \in Nat
  BY <1>1, TargetsAreClusters
<1> SUFFICES ASSUME NEW k \in Targets(t)
             PROVE  /\ resolver'[k][order[t].acct] # None
                    /\ resolver'[k][order[t].acct].ver >= order[t].ver
  BY <1>3 DEF Delivered
<1>5. /\ resolver[k][order[t].acct] # None
      /\ resolver[k][order[t].acct].ver >= order[t].ver
  BY DEF Delivered
<1>6. /\ resolver'[k][order[t].acct] # None
      /\ resolver'[k][order[t].acct].ver >= resolver[k][order[t].acct].ver
  BY <1>4, <1>5, ResolverStep
<1>7. resolver[k][order[t].acct].ver \in Nat /\ resolver'[k][order[t].acct].ver \in Nat
  <2>1. TypeOK'
    BY <1>2 DEF BaseInv
  <2> QED BY <1>1, <1>4, <1>5, <1>6, <2>1, VersionTypes DEF TypeOK, Token
<1> QED BY <1>4, <1>5, <1>6, <1>7

\* A push goes on as it is, is begun, advances or ends.
LEMMA PushMoves ==
  ASSUME BaseInv, [Next]_vars
  PROVE  \/ push' = None
         \/ ReadAccount
         \/ \E k \in Clusters : PushAccountJWTToCluster(k)
         \/ push' = push /\ cur' = cur /\ phase' = phase /\ resolver' = resolver
<1>1. TypeOK /\ Q!IInv /\ RoomOK
  BY DEF BaseInv
<1>2. ASSUME NEW c \in Handlers, NEW r \in Requests, Load(c, r) \/ CreateAccount(c, r)
      PROVE  push' = push /\ UNCHANGED <<cur, phase, resolver>>
  BY <1>2 DEF Load, CreateAccount, queueVars
<1>3. ASSUME NEW c \in Handlers, SaveAccount(c) \/ DeleteAccount(c)
      PROVE  push' = push /\ UNCHANGED <<cur, phase, resolver>>
  BY <1>3 DEF SaveAccount, DeleteAccount, queueVars
<1>4. ASSUME NEW c \in Handlers, CreateTask(c)
      PROVE  push' = push /\ UNCHANGED <<cur, phase, resolver>>
  <2>1. c \in Busy
    BY <1>1, <1>4, Working DEF CreateTask
  <2>2. (CHOOSE free \in FreeTasks : TRUE) \in Tasks
    BY <1>1, <2>1, FreeTask DEF FreeTasks
  <2> QED BY <1>1, <1>4, <2>2, Created DEF CreateTask, queueVars, Q!IInv
<1>5. CASE Dispatch \/ OperatorRetry \/ PrepareFails
  <2>1. UNCHANGED syncVars
    BY <1>5 DEF Dispatch, OperatorRetry, PrepareFails
  <2>2. CASE push = None
    BY <2>1, <2>2 DEF syncVars
  <2>3. CASE push # None
    BY <1>5, <2>1, <2>3, PushKeepsTask DEF syncVars
  <2> QED BY <2>2, <2>3
<1>6. CASE CollectResults \/ Crash
  BY <1>6 DEF CollectResults, Crash
<1>7. CASE UNCHANGED vars
  BY <1>7 DEF vars, queueVars, syncVars
<1> QED BY <1>2, <1>3, <1>4, <1>5, <1>6, <1>7 DEF Next, Processor

\* Every step keeps PushedOK.
LEMMA PushedStep ==
  ASSUME SyncInv, MayReject = FALSE, [Next]_vars
  PROVE  PushedOK'
<1>1. TypeOK /\ Q!IInv /\ BaseInv /\ PushedOK
  BY DEF SyncInv, BaseInv, DeliveryOK
<1>2. CASE push' = None
  BY <1>2 DEF PushedOK
<1>3. CASE ReadAccount
  BY <1>3 DEF ReadAccount, PushedOK, Targets, queueVars
<1>4. CASE \E k \in Clusters : PushAccountJWTToCluster(k)
  <2>1. PICK k \in Clusters : PushAccountJWTToCluster(k)
    BY <1>4
  <2>2. PICK a \in Accounts : a = order[cur].acct
    BY <1>1, <2>1, Pushed
  <2>3. /\ push # None /\ rows[cur] # None /\ cur \in Tasks
        /\ UNCHANGED <<queueVars, order>>
        /\ push' # None /\ push'.jwt = push.jwt /\ push'.todo = push.todo \ {k}
        /\ push.failed => push'.failed
        /\ \A l \in Clusters :
             \/ resolver'[l][a] = resolver[l][a]
             \/ resolver'[l][a] = push.jwt
        /\ ~ push'.failed => resolver'[k][a] = push.jwt
    BY <1>1, <2>1, <2>2, Pushed, Current
  <2>4. cur' = cur /\ order' = order
    BY <2>3 DEF queueVars
  <2>5. Targets(cur)' = Targets(cur) /\ Targets(cur) \subseteq Clusters
    BY <1>1, <2>3, <2>4, TargetsAreClusters DEF Targets
  <2> SUFFICES ASSUME ~ push'.failed, NEW l \in Targets(cur) \ push'.todo
               PROVE  resolver'[l][a] = push.jwt
    BY <2>2, <2>3, <2>4, <2>5 DEF PushedOK
  <2>6. CASE l = k
    BY <2>3, <2>6
  <2>7. CASE l # k
    <3>1. resolver[l][a] = push.jwt
      BY <1>1, <2>2, <2>3, <2>7 DEF PushedOK
    <3> QED BY <2>3, <2>5, <3>1
  <2> QED BY <2>6, <2>7
<1>5. CASE push' = push /\ cur' = cur /\ resolver' = resolver
  <2> SUFFICES ASSUME push # None PROVE PushedOK'
    BY <1>5 DEF PushedOK
  <2>1. cur \in Tasks /\ rows[cur] # None
    BY <1>1, Current DEF TypeOK
  <2>2. order'[cur] = order[cur]
    BY <1>1, <2>1, OrderKept
  <2>3. Targets(cur)' = Targets(cur)
    BY <1>5, <2>2 DEF Targets
  <2> QED BY <1>1, <1>5, <2>2, <2>3 DEF PushedOK
<1> QED BY <1>1, <1>2, <1>3, <1>4, <1>5, PushMoves

\* A task is on its way to be recorded as completed once all its clusters have
\* the JWT.
LEMMA CompletionStep ==
  ASSUME SyncInv, MayReject = FALSE, [Next]_vars, phase' = "complete"
  PROVE  Delivered(cur)'
<1>1. TypeOK /\ Q!IInv /\ BaseInv /\ VersionsOK /\ DeliveryOK
  BY DEF SyncInv, BaseInv
<1>2. /\ cur' = cur /\ phase # "idle"
      /\ phase = "complete" \/ (CollectResults /\ ~ push.failed)
  <2>1. ASSUME NEW c \in Handlers, NEW r \in Requests, Load(c, r) \/ CreateAccount(c, r)
        PROVE  UNCHANGED <<cur, phase>>
    BY <2>1 DEF Load, CreateAccount, queueVars
  <2>2. ASSUME NEW c \in Handlers, SaveAccount(c) \/ DeleteAccount(c)
        PROVE  UNCHANGED <<cur, phase>>
    BY <2>2 DEF SaveAccount, DeleteAccount, queueVars
  <2>3. ASSUME NEW c \in Handlers, CreateTask(c)
        PROVE  UNCHANGED <<cur, phase>>
    BY <2>3 DEF CreateTask, Q!CreateJWTTask, Q!processorVars, queueVars
  <2>4. CASE Dispatch
    BY <1>1, <2>4, Listed, Claimed, Completed, Failed DEF Dispatch
  <2>5. CASE OperatorRetry
    BY <1>1, <2>5, Checked, Retried DEF OperatorRetry
  <2>6. CASE PrepareFails
    BY <1>1, <2>6, Executed DEF PrepareFails
  <2>7. CASE CollectResults
    <3>1. Q!ExecuteTask(IF push.failed THEN "someFailed" ELSE "allOk")
      BY <2>7 DEF CollectResults
    <3>2. push.failed \in BOOLEAN
      BY <1>1, <2>7 DEF CollectResults, TypeOK, Push
    <3>3. CASE push.failed
      BY <1>1, <3>1, <3>3, Executed
    <3>4. CASE ~ push.failed
      BY <1>1, <2>7, <3>1, <3>4, Executed
    <3> QED BY <3>2, <3>3, <3>4
  <2>8. CASE Crash
    BY <2>8, Crashed DEF Crash
  <2>9. CASE ReadAccount \/ \E k \in Clusters : PushAccountJWTToCluster(k)
    BY <2>9 DEF ReadAccount, PushAccountJWTToCluster, queueVars
  <2>10. CASE UNCHANGED vars
    BY <2>10 DEF vars, queueVars
  <2> QED BY <2>1, <2>2, <2>3, <2>4, <2>5, <2>6, <2>7, <2>8, <2>9, <2>10
          DEF Next, Processor
<1>3. PICK t \in Tasks : t = cur /\ t = cur' /\ rows[t] # None
  BY <1>1, <1>2, Current
<1>4. Delivered(t)
  <2>1. CASE phase = "complete"
    BY <1>1, <1>3, <2>1 DEF DeliveryOK
  <2>2. CASE CollectResults /\ ~ push.failed
    <3>1. \A k \in Targets(t) : resolver[k][order[t].acct] = push.jwt
      BY <1>1, <1>3, <2>2 DEF CollectResults, DeliveryOK, PushedOK
    <3>2. push # None /\ push.jwt # None /\ push.jwt.ver >= order[t].ver
      <4>1. push # None /\ push.jwt \in Token
        BY <1>1, <2>2 DEF CollectResults, TypeOK, Push
      <4>2. order[t].ver <= push.jwt.ver
        BY <1>1, <1>3, <4>1 DEF VersionsOK, PushOK
      <4>3. order[t].ver \in Nat /\ push.jwt.ver \in Nat
        BY <1>1, <1>3, <4>1, TargetsAreClusters DEF Token
      <4> QED BY <4>1, <4>2, <4>3
    <3> QED BY <3>1, <3>2 DEF Delivered
  <2> QED BY <1>2, <2>1, <2>2
<1>5. Delivered(t)'
  BY <1>1, <1>3, <1>4, DeliveredStays
<1> QED BY <1>3, <1>5 DEF Delivered, Targets

\* Only CompleteTask makes a row say "completed".
LEMMA OnlyCompletion ==
  ASSUME BaseInv, [Next]_vars, NEW t \in Tasks,
         rows'[t] # None, rows'[t].status = "completed"
  PROVE  /\ rows[t] # None
         /\ rows[t].status = "completed" \/ (t = cur /\ phase = "complete")
<1>1. TypeOK /\ Q!IInv /\ RoomOK
  BY DEF BaseInv
<1>2. CASE rows' = rows
  BY <1>2
<1>3. ASSUME NEW c \in Handlers, CreateTask(c), rows' # rows
      PROVE  rows'[t] = rows[t]
  <2>1. c \in Busy
    BY <1>1, <1>3, Working DEF CreateTask
  <2>2. PICK u \in Tasks : u = CHOOSE free \in FreeTasks : TRUE
    BY <1>1, <2>1, FreeTask DEF FreeTasks
  <2>3. Q!CreateJWTTask(u)
    BY <1>3, <2>2 DEF CreateTask, queueVars
  <2> QED BY <1>1, <2>2, <2>3, Created DEF Q!IInv
<1>4. CASE Dispatch
  BY <1>1, <1>4, Listed, Claimed, Completed, Failed DEF Dispatch
<1>5. CASE OperatorRetry
  BY <1>1, <1>5, Checked, Retried DEF OperatorRetry
<1>6. CASE PrepareFails \/ CollectResults
  BY <1>1, <1>6, Executed DEF PrepareFails, CollectResults
<1>7. \/ rows' = rows
      \/ Dispatch \/ OperatorRetry \/ PrepareFails \/ CollectResults
      \/ \E c \in Handlers : CreateTask(c)
  BY Crashed DEF Next, Processor, vars, queueVars, Load, CreateAccount, SaveAccount,
     DeleteAccount, ReadAccount, PushAccountJWTToCluster, Crash
<1> QED BY <1>2, <1>3, <1>4, <1>5, <1>6, <1>7

\* Every step keeps DeliveryOK.
LEMMA DeliveryStep ==
  ASSUME SyncInv, MayReject = FALSE, [Next]_vars
  PROVE  DeliveryOK'
<1>1. BaseInv /\ VersionsOK /\ DeliveryOK
  BY DEF SyncInv
<1>2. CompletedMeansDelivered'
  <2> SUFFICES ASSUME NEW t \in Tasks, rows'[t] # None, rows'[t].status = "completed"
               PROVE  Delivered(t)'
    BY DEF CompletedMeansDelivered, Delivered
  <2>1. /\ rows[t] # None
        /\ rows[t].status = "completed" \/ (t = cur /\ phase = "complete")
    BY <1>1, OnlyCompletion
  <2>2. Delivered(t)
    BY <1>1, <2>1 DEF DeliveryOK, CompletedMeansDelivered, Delivered
  <2> QED BY <1>1, <2>1, <2>2, DeliveredStays
<1> QED BY <1>2, PushedStep, CompletionStep DEF DeliveryOK

\* SyncInv is an invariant when resolvers refuse nothing.
LEMMA SyncAlways ==
  ASSUME MayReject = FALSE
  PROVE  Spec => []SyncInv
<1>1. Init => SyncInv
  <2> SUFFICES ASSUME Init PROVE DeliveryOK
    BY BaseInit, VersionsInit DEF SyncInv
  <2> QED BY DEF Init, Q!Init, DeliveryOK, PushedOK, CompletedMeansDelivered
<1>2. SyncInv /\ [Next]_vars => SyncInv'
  BY BaseStep, VersionsStep, DeliveryStep DEF SyncInv
<1> QED BY <1>1, <1>2, PTL DEF Spec

\* When resolvers refuse no push, a completed task has reached every cluster it
\* was for: processAccountTask signs what it reads, which is what the task was
\* created for or newer, and CompleteTask comes only after all results.
THEOREM CompletedTasksAreDelivered ==
  ASSUME MayReject = FALSE
  PROVE  Spec => []CompletedMeansDelivered
<1>1. SyncInv => CompletedMeansDelivered
  BY DEF SyncInv, DeliveryOK
<1> QED BY <1>1, SyncAlways, PTL
-----------------------------------------------------------------------------
(* Drift.                                                                  *)

Calm == faults = 0 /\ failures = 0

Covered(a) ==
  \/ \E c \in Handlers : TaskIsComing(c, a)
  \/ \E t \in Tasks : WillDeliver(t, a)

Drifting(a) == account[a] # None /\ ~ InSync(a)

\* If nothing has failed after a step, nothing had before it.
LEMMA CalmBefore ==
  ASSUME SyncInv, DriftIsCovered, [Next]_vars, Calm'
  PROVE  Calm /\ UNCHANGED <<faults, failures>>
         /\ \A a \in Accounts \ SystemAccounts : Drifting(a) => Covered(a)
<1>1. TypeOK /\ Q!IInv /\ faults \in Nat /\ failures \in Nat
  BY DEF SyncInv, BaseInv, TypeOK, Q!TypeOK
<1>2. /\ faults' \in {faults, faults + 1}
      /\ failures' \in {failures, failures + 1}
  <2>1. ASSUME NEW c \in Handlers, NEW r \in Requests, Load(c, r) \/ CreateAccount(c, r)
        PROVE  UNCHANGED <<faults, failures>>
    BY <2>1 DEF Load, CreateAccount, queueVars
  <2>2. ASSUME NEW c \in Handlers, SaveAccount(c) \/ DeleteAccount(c) \/ CreateTask(c)
        PROVE  faults' = faults /\ failures' \in {failures, failures + 1}
    BY <2>2 DEF SaveAccount, DeleteAccount, CreateTask, queueVars, WriteWorks, WriteFails,
                Q!CreateJWTTask
  <2>3. CASE Dispatch
    BY <1>1, <2>3, Listed, Claimed, Completed, Failed DEF Dispatch, syncVars
  <2>4. CASE OperatorRetry
    BY <1>1, <2>4, Checked, Retried DEF OperatorRetry, syncVars
  <2>5. CASE PrepareFails \/ CollectResults
    BY <1>1, <2>5, Executed DEF PrepareFails, CollectResults, syncVars
  <2>6. CASE Crash
    BY <2>6, Crashed DEF Crash
  <2>7. CASE ReadAccount \/ \E k \in Clusters : PushAccountJWTToCluster(k)
    BY <2>7 DEF ReadAccount, PushAccountJWTToCluster, queueVars
  <2>8. CASE UNCHANGED vars
    BY <2>8 DEF vars, queueVars, syncVars
  <2> QED BY <2>1, <2>2, <2>3, <2>4, <2>5, <2>6, <2>7, <2>8 DEF Next, Processor
<1>3. Calm /\ UNCHANGED <<faults, failures>>
  BY <1>1, <1>2 DEF Calm
<1> QED BY <1>3 DEF Calm, DriftIsCovered, Drifting, Covered

\* A task that is not touched will deliver as before.
LEMMA WillDeliverStays ==
  ASSUME NEW t \in Tasks, NEW a \in Accounts, WillDeliver(t, a),
         rows'[t] = rows[t], order'[t] = order[t], account'[a] = account[a],
         t = cur => UNCHANGED <<cur, phase, push>>
  PROVE  WillDeliver(t, a)'
BY DEF WillDeliver, Targets, Signed

\* What covers an account still does when none of it is touched.
LEMMA CoveredStays ==
  ASSUME NEW a \in Accounts, Covered(a), account'[a] = account[a],
         \A c \in Handlers : TaskIsComing(c, a) => h'[c] = h[c],
         \A t \in Tasks : rows[t] # None =>
           /\ rows'[t] = rows[t] /\ order'[t] = order[t]
           /\ t = cur => UNCHANGED <<cur, phase, push>>
  PROVE  Covered(a)'
<1>1. CASE \E c \in Handlers : TaskIsComing(c, a)
  BY <1>1 DEF TaskIsComing, Covered
<1>2. CASE \E t \in Tasks : WillDeliver(t, a)
  <2>1. PICK t \in Tasks : WillDeliver(t, a)
    BY <1>2
  <2>2. rows[t] # None
    BY <2>1 DEF WillDeliver
  <2> QED BY <2>1, <2>2, WillDeliverStays DEF Covered
<1> QED BY <1>1, <1>2 DEF Covered

\* A step of a handler: the account it works on is covered by the handler.
LEMMA HandlerCovers ==
  ASSUME SyncInv, NEW a \in Accounts \ SystemAccounts, Drifting(a) => Covered(a),
         NEW c \in Handlers,
         \/ \E r \in Requests : Load(c, r) \/ CreateAccount(c, r)
         \/ SaveAccount(c)
         \/ DeleteAccount(c),
         UNCHANGED failures, Drifting(a)'
  PROVE  Covered(a)'
<1>1. TypeOK /\ HandlersOK
  BY DEF SyncInv, BaseInv, VersionsOK
<1>2. UNCHANGED <<queueVars, order, push, resolver>>
  BY DEF Load, CreateAccount, SaveAccount, DeleteAccount
<1>3. \A d \in Handlers \ {c} : h'[d] = h[d]
  BY <1>1 DEF Load, CreateAccount, SaveAccount, DeleteAccount, TypeOK
<1>4. ASSUME account'[a] = account[a], ~ TaskIsComing(c, a)
      PROVE  Covered(a)'
  <2>1. Drifting(a)
    BY <1>2, <1>4 DEF Drifting, InSync, Signed
  <2>2. \A d \in Handlers : TaskIsComing(d, a) => h'[d] = h[d]
    BY <1>3, <1>4
  <2> QED BY <1>2, <1>4, <2>1, <2>2, CoveredStays DEF queueVars
<1>5. CASE \E r \in Requests : Load(c, r)
  BY <1>4, <1>5 DEF Load, TaskIsComing
<1>6. CASE \E r \in Requests : CreateAccount(c, r)
  <2>1. PICK r \in Requests : CreateAccount(c, r)
    BY <1>6
  <2>2. h[c] = IdleHandler /\ h'[c].req = r /\ r.op = "create" /\ h'[c] # IdleHandler
    <3>1. PICK s : s = [at |-> "loaded", req |-> r,
                       copy |-> [ver |-> saves + 1, items |-> {}, disabled |-> FALSE]]
      OBVIOUS
    <3>2. h'[c] = s /\ h[c] = IdleHandler /\ r.op = "create"
      BY <1>1, <2>1, <3>1 DEF CreateAccount, TypeOK
    <3>3. IdleHandler.at = "idle" /\ s.at = "loaded" /\ s.req = r
      BY <3>1 DEF IdleHandler
    <3> QED BY <3>2, <3>3
  <2>3. CASE r.acct = a
    BY <2>2, <2>3 DEF Covered, TaskIsComing
  <2>4. CASE r.acct # a
    <3>1. account'[a] = account[a]
      BY <1>1, <2>1, <2>4 DEF CreateAccount, TypeOK
    <3> QED BY <1>4, <2>2, <3>1 DEF TaskIsComing
  <2> QED BY <2>3, <2>4
<1>7. CASE SaveAccount(c)
  <2>1. /\ c \in Busy /\ h[c].at = "loaded" /\ h[c] \in State
        /\ h[c].req.acct \in Accounts /\ h[c].copy \in Content
    BY <1>1, <1>7, Working DEF SaveAccount
  <2>2. PICK w : w = [h[c].copy EXCEPT !.ver = saves + 1]
    OBVIOUS
  <2>3. /\ account' = [account EXCEPT ![h[c].req.acct] = w]
        /\ h' = [h EXCEPT ![c].at = "saved", ![c].copy = w]
    <3>1. failures \in Nat
      BY <1>1 DEF TypeOK
    <3> QED BY <1>7, <2>2, <3>1 DEF SaveAccount, WriteFails
  <2>4. CASE h[c].req.acct = a
    <3>1. PICK s : s = [h[c] EXCEPT !.at = "saved", !.copy = w]
      OBVIOUS
    <3>2. h'[c] = s /\ s.at = "saved" /\ s.req = h[c].req
      BY <1>1, <2>1, <2>3, <3>1 DEF TypeOK, State
    <3>3. h'[c] # IdleHandler
      BY <3>2 DEF IdleHandler
    <3>4. h[c].req.op # "sync"
      BY <1>1, <2>1 DEF HandlersOK
    <3> QED BY <2>4, <3>2, <3>3, <3>4 DEF Covered, TaskIsComing
  <2>5. CASE h[c].req.acct # a
    BY <1>1, <1>4, <2>1, <2>3, <2>5 DEF TaskIsComing, TypeOK
  <2> QED BY <2>4, <2>5
<1>8. CASE DeleteAccount(c)
  <2>1. c \in Busy /\ h[c].req.acct \in Accounts
    BY <1>1, <1>8, Working DEF DeleteAccount
  <2>2. account' = [account EXCEPT ![h[c].req.acct] = None]
    <3>1. failures \in Nat
      BY <1>1 DEF TypeOK
    <3> QED BY <1>8, <3>1 DEF DeleteAccount, WriteFails
  <2>3. h[c].req.acct # a
    BY <1>1, <2>1, <2>2 DEF Drifting, TypeOK
  <2> QED BY <1>1, <1>4, <2>1, <2>2, <2>3 DEF TaskIsComing, TypeOK
<1> QED BY <1>5, <1>6, <1>7, <1>8

\* createJWTTask hands the account over from the handler to the task.
LEMMA TaskCovers ==
  ASSUME SyncInv, NEW a \in Accounts \ SystemAccounts, Drifting(a) => Covered(a),
         NEW c \in Handlers, CreateTask(c), UNCHANGED failures, Drifting(a)'
  PROVE  Covered(a)'
<1> DEFINE r == h[c].req
           o == [acct |-> r.acct, disable |-> WantsDisabled(r), ver |-> h[c].copy.ver,
                 clusters |-> IF r.op = "sync" THEN r.clusters ELSE None]
<1>1. TypeOK /\ Q!IInv /\ RoomOK
  BY DEF SyncInv, BaseInv
<1>2. c \in Busy
  BY <1>1, Working DEF CreateTask
<1>3. PICK t \in FreeTasks : t = CHOOSE free \in FreeTasks : TRUE
  BY <1>1, <1>2, FreeTask
<1>4. /\ Q!CreateJWTTask(t) /\ order' = [order EXCEPT ![t] = o]
      /\ h' = [h EXCEPT ![c] = IdleHandler]
      /\ UNCHANGED <<account, push, resolver>>
  <2>1. failures \in Nat
    BY <1>1 DEF TypeOK
  <2> QED BY <1>3, <2>1 DEF CreateTask, WriteFails
<1>5. t \in Tasks /\ rows[t] = None
  BY <1>3 DEF FreeTasks
<1>6. /\ rows'[t] # None /\ rows'[t].status = "pending"
      /\ \A u \in Tasks \ {t} : rows'[u] = rows[u]
      /\ UNCHANGED <<cur, phase>>
  BY <1>1, <1>4, <1>5, Created DEF Q!IInv
<1>7. /\ order'[t].acct = r.acct
      /\ order'[t].clusters = IF r.op = "sync" THEN r.clusters ELSE None
      /\ \A u \in Tasks \ {t} : order'[u] = order[u]
  BY <1>1, <1>4, <1>5 DEF TypeOK
<1> HIDE DEF o
<1>8. Drifting(a) /\ Covered(a)
  BY <1>4 DEF Drifting, InSync, Signed
<1>9. CASE TaskIsComing(c, a)
  <2>1. order'[t].acct = a /\ order'[t].clusters = None
    BY <1>7, <1>9 DEF TaskIsComing
  <2>2. Origin[a] \in Targets(t)'
    BY <2>1 DEF Targets
  <2>3. WillDeliver(t, a)'
    BY <1>6, <2>1, <2>2 DEF WillDeliver
  <2> QED BY <1>5, <2>3 DEF Covered
<1>10. CASE ~ TaskIsComing(c, a)
  <2>1. \A d \in Handlers : TaskIsComing(d, a) => h'[d] = h[d]
    BY <1>1, <1>4, <1>10 DEF TypeOK
  <2>2. \A u \in Tasks : rows[u] # None =>
          /\ rows'[u] = rows[u] /\ order'[u] = order[u]
          /\ UNCHANGED <<cur, phase, push>>
    BY <1>4, <1>5, <1>6, <1>7
  <2> QED BY <1>4, <1>8, <2>1, <2>2, CoveredStays
<1> QED BY <1>9, <1>10
\* The steps of the processor other than pushing move a task on its way: it
\* waits, is claimed, has read the account, has failed, waits again.
LEMMA TaskMovesOn ==
  ASSUME SyncInv, NEW a \in Accounts \ SystemAccounts, NEW t \in Tasks,
         WillDeliver(t, a), UNCHANGED faults,
         \/ Dispatch \/ ReadAccount \/ PrepareFails \/ CollectResults \/ OperatorRetry
  PROVE  WillDeliver(t, a)'
<1>1. /\ TypeOK /\ Q!IInv /\ faults \in Nat /\ faults # faults + 1
  BY DEF SyncInv, BaseInv, TypeOK, Q!TypeOK
<1>2. rows[t] # None /\ order[t].acct = a /\ Origin[a] \in Targets(t)
  BY DEF WillDeliver
<1>3. UNCHANGED <<account, order>>
  BY DEF Dispatch, ReadAccount, PrepareFails, CollectResults, OperatorRetry, syncVars
<1>4. order'[t].acct = a /\ Origin[a] \in Targets(t)'
  BY <1>2, <1>3 DEF Targets
<1>5. phase # "idle" => rows[cur].status = "processing"
  BY <1>1, Current
<1>6. t = cur => phase # "idle"
  BY <1>1 DEF Q!IInv, Q!ControlOK
<1>7. CASE t # cur
  <2>1. rows[t].status \in {"pending", "retrying", "failed"}
    BY <1>7 DEF WillDeliver
  <2>2. \/ rows'[t] # None /\ rows'[t].status \in {"pending", "retrying", "failed"}
        \/ rows'[t] # None /\ t = cur' /\ phase' = "execute" /\ push' = None
    <3>1. CASE Q!ProcessPendingTasks
      BY <1>2, <2>1, <3>1, Listed
    <3>2. CASE UNCHANGED syncVars /\ \E u \in Tasks : Q!ClaimTask(u)
      <4>1. PICK u \in Tasks : Q!ClaimTask(u)
        BY <3>2
      <4>2. push' = None
        BY <1>1, <3>2, <4>1, Claimed DEF TypeOK, syncVars
      <4> QED BY <1>1, <1>2, <2>1, <4>1, <4>2, Claimed
    <3>3. CASE Q!CompleteTask \/ Q!HandleTaskError
      BY <1>1, <1>2, <1>7, <2>1, <3>3, Completed, Failed
    <3>4. CASE ReadAccount
      BY <1>2, <2>1, <3>4 DEF ReadAccount, queueVars
    <3>5. CASE PrepareFails \/ CollectResults
      BY <1>1, <1>2, <1>7, <2>1, <3>5, Executed DEF PrepareFails, CollectResults
    <3>6. CASE OperatorRetry
      BY <1>1, <1>2, <2>1, <3>6, Checked, Retried DEF OperatorRetry
    <3> QED BY <3>1, <3>2, <3>3, <3>4, <3>5, <3>6 DEF Dispatch
  <2> QED BY <1>4, <2>2 DEF WillDeliver
<1>8. CASE t = cur
  <2>1. /\ rows[t].status = "processing"
        /\ \/ phase = "fail"
           \/ phase = "execute" /\ push = None
           \/ /\ phase = "execute" /\ push # None
              /\ push.jwt = Signed(a, account[a])
              /\ Origin[a] \in push.todo \/ push.failed
    BY <1>5, <1>6, <1>8 DEF WillDeliver
  <2>2. CASE Dispatch
    <3>1. CASE Q!ProcessPendingTasks
      <4>1. UNCHANGED <<rows, cur, phase, push>>
        BY <2>2, <3>1, Listed DEF Dispatch, syncVars
      <4> QED BY <1>3, <4>1, WillDeliverStays
    <3>2. CASE Q!HandleTaskError
      BY <1>1, <1>4, <1>8, <3>2, Failed DEF WillDeliver
    <3>3. ~ Q!CompleteTask /\ \A u \in Tasks : ~ Q!ClaimTask(u)
      BY <1>1, <1>6, <1>8, <2>1, Completed, Claimed
    <3> QED BY <2>2, <3>1, <3>2, <3>3 DEF Dispatch
  <2>3. CASE ReadAccount
    <3>1. PICK p : p = [jwt |-> Signed(order[cur].acct, account[order[cur].acct]),
                        todo |-> Targets(cur), failed |-> FALSE]
      OBVIOUS
    <3>2. push' = p /\ cur' = cur /\ phase' = "execute" /\ rows' = rows
      BY <2>3, <3>1 DEF ReadAccount, queueVars
    <3>3. p.jwt = Signed(a, account[a]) /\ Origin[a] \in p.todo
      BY <1>2, <1>8, <3>1
    <3> QED BY <1>2, <1>3, <1>4, <1>8, <3>2, <3>3 DEF WillDeliver, Signed
  <2>4. CASE PrepareFails
    BY <1>1, <1>4, <1>8, <2>4, Executed DEF PrepareFails, WillDeliver
  <2>5. CASE CollectResults
    <3>1. push # None /\ push.todo = {} /\ phase = "execute"
      BY <1>1, <2>5 DEF CollectResults, TypeOK
    <3>2. push.failed
      BY <2>1, <3>1
    <3>3. Q!ExecuteTask("someFailed")
      BY <2>5, <3>2 DEF CollectResults
    <3> QED BY <1>1, <1>4, <1>8, <3>3, Executed DEF WillDeliver
  <2>6. CASE OperatorRetry
    <3>1. UNCHANGED <<cur, phase, push>>
      BY <1>1, <2>6, Checked, Retried DEF OperatorRetry, syncVars
    <3>2. rows'[t] = rows[t]
      BY <1>1, <2>1, <2>6, Checked, Retried DEF OperatorRetry
    <3> QED BY <1>3, <3>1, <3>2, WillDeliverStays
  <2> QED BY <2>2, <2>3, <2>4, <2>5, <2>6
<1> QED BY <1>7, <1>8

\* So what a task covers, it still covers after these steps.
LEMMA ProcessorCovers ==
  ASSUME SyncInv, NEW a \in Accounts \ SystemAccounts, Drifting(a) => Covered(a),
         \/ Dispatch \/ ReadAccount \/ PrepareFails \/ CollectResults \/ OperatorRetry,
         UNCHANGED faults, Drifting(a)'
  PROVE  Covered(a)'
<1>1. UNCHANGED <<account, h, resolver>>
  BY DEF Dispatch, ReadAccount, PrepareFails, CollectResults, OperatorRetry, syncVars
<1>2. Drifting(a)
  BY <1>1 DEF Drifting, InSync, Signed
<1>3. CASE \E c \in Handlers : TaskIsComing(c, a)
  BY <1>1, <1>3 DEF TaskIsComing, Covered
<1>4. CASE \E t \in Tasks : WillDeliver(t, a)
  BY <1>4, TaskMovesOn DEF Covered
<1> QED BY <1>2, <1>3, <1>4 DEF Covered

\* A push either brings the account into step or leaves a task with something
\* to do or to report; a JWT of an older row cannot undo a newer one.
LEMMA PushCovers ==
  ASSUME SyncInv, MayReject = FALSE,
         NEW a \in Accounts \ SystemAccounts, Drifting(a) => Covered(a),
         NEW k \in Clusters, PushAccountJWTToCluster(k), Drifting(a)'
  PROVE  Covered(a)'
<1>1. TypeOK /\ Q!IInv /\ PushOK
  BY DEF SyncInv, BaseInv, VersionsOK
<1>2. /\ phase = "execute" /\ push # None /\ push \in Push
      /\ cur \in Tasks /\ order[cur].acct \in Accounts
      /\ UNCHANGED <<queueVars, account, order, h>>
      /\ push' # None /\ push'.jwt = push.jwt /\ push'.todo = push.todo \ {k}
      /\ push.failed => push'.failed
      /\ \A l \in Clusters, b \in Accounts :
           \/ resolver'[l][b] = resolver[l][b]
           \/ l = k /\ b = order[cur].acct /\ resolver'[l][b] = push.jwt
      /\ ~ push'.failed => resolver'[k][order[cur].acct] = push.jwt
  BY <1>1, Pushed
<1>3. UNCHANGED <<rows, cur, phase>>
  BY <1>2 DEF queueVars
<1>4. Origin[a] \in Clusters /\ account[a] # None /\ account[a] \in Content
  BY <1>1, <1>2 DEF Drifting, TypeOK
<1>5. CASE order[cur].acct # a
  <2>1. Drifting(a)
    BY <1>2, <1>4, <1>5 DEF Drifting, InSync, Signed
  <2>2. CASE \E c \in Handlers : TaskIsComing(c, a)
    BY <1>2, <2>2 DEF TaskIsComing, Covered
  <2>3. CASE \E t \in Tasks : WillDeliver(t, a)
    <3>1. PICK t \in Tasks : WillDeliver(t, a)
      BY <2>3
    <3>2. t # cur
      BY <1>5, <3>1 DEF WillDeliver
    <3> QED BY <1>2, <1>3, <3>1, <3>2, WillDeliverStays DEF Covered
  <2> QED BY <2>1, <2>2, <2>3 DEF Covered
<1>6. CASE order[cur].acct = a
  <2>1. resolver'[Origin[a]][a] # Signed(a, account[a])
    BY <1>2 DEF Drifting, InSync, Signed
  <2>2. Drifting(a)
    <3> SUFFICES ASSUME resolver[Origin[a]][a] = Signed(a, account[a])
                 PROVE  FALSE
      BY <1>4 DEF Drifting, InSync
    <3>1. resolver'[Origin[a]][a] = push.jwt
      BY <1>2, <1>4, <2>1
    <3>2. Signed(a, account[a]) \in Token /\ Signed(a, account[a]).ver = account[a].ver
      BY <1>4 DEF Signed, Token, Content
    <3>3. account[a].ver <= push.jwt.ver
      BY <1>1, <1>2, <1>4, <1>6, <3>2 DEF PushOK
    <3>4. push.jwt.ver <= account[a].ver
          /\ (push.jwt.ver = account[a].ver => push.jwt = Signed(a, account[a]))
      BY <1>1, <1>2, <1>4, <1>6 DEF PushOK
    <3>5. push.jwt.ver \in Nat /\ account[a].ver \in Nat
      BY <1>2, <1>4 DEF Push, Token, Content
    <3> QED BY <2>1, <3>1, <3>3, <3>4, <3>5
  <2>3. CASE \E c \in Handlers : TaskIsComing(c, a)
    BY <1>2, <2>3 DEF TaskIsComing, Covered
  <2>4. CASE \E t \in Tasks \ {cur} : WillDeliver(t, a)
    BY <1>2, <1>3, <2>4, WillDeliverStays DEF Covered
  <2>5. CASE WillDeliver(cur, a)
    <3>1. PICK t \in Tasks : t = cur
      BY <1>2
    <3>2. rows[t].status = "processing" /\ rows[t] # None
      BY <1>1, <1>2, <3>1, Current
    <3>3. /\ push.jwt = Signed(a, account[a])
          /\ Origin[a] \in push.todo \/ push.failed
          /\ Origin[a] \in Targets(t) /\ order[t].acct = a
      BY <1>2, <2>5, <3>1, <3>2 DEF WillDeliver
    <3>4. Origin[a] \in push'.todo \/ push'.failed
      <4>1. ASSUME Origin[a] = k, ~ push'.failed
            PROVE  FALSE
        BY <1>2, <1>6, <2>1, <3>3, <4>1
      <4> QED BY <1>2, <3>3, <4>1
    <3>5. WillDeliver(t, a)'
      <4>1. order'[t].acct = a /\ Origin[a] \in Targets(t)'
        BY <1>2, <3>3 DEF Targets
      <4> QED BY <1>2, <1>3, <3>1, <3>2, <3>3, <3>4, <4>1 DEF WillDeliver, Signed
    <3> QED BY <3>5 DEF Covered
  <2> QED BY <2>2, <2>3, <2>4, <2>5 DEF Covered
<1> QED BY <1>5, <1>6

\* Every step keeps DriftIsCovered.
LEMMA DriftStep ==
  ASSUME SyncInv, DriftIsCovered, MayReject = FALSE, [Next]_vars
  PROVE  DriftIsCovered'
<1> SUFFICES ASSUME Calm', NEW a \in Accounts \ SystemAccounts, Drifting(a)'
             PROVE  Covered(a)'
  BY DEF DriftIsCovered, Calm, Drifting, Covered
<1>1. Calm /\ UNCHANGED <<faults, failures>> /\ (Drifting(a) => Covered(a))
  BY CalmBefore
<1>2. ASSUME NEW c \in Handlers, NEW r \in Requests, Load(c, r) \/ CreateAccount(c, r)
      PROVE  Covered(a)'
  BY <1>1, <1>2, HandlerCovers
<1>3. ASSUME NEW c \in Handlers, SaveAccount(c) \/ CreateTask(c) \/ DeleteAccount(c)
      PROVE  Covered(a)'
  BY <1>1, <1>3, HandlerCovers, TaskCovers
<1>4. CASE Dispatch \/ ReadAccount \/ PrepareFails \/ CollectResults \/ OperatorRetry
  BY <1>1, <1>4, ProcessorCovers
<1>5. CASE \E k \in Clusters : PushAccountJWTToCluster(k)
  BY <1>1, <1>5, PushCovers
<1>6. ~ Crash
  <2>1. faults \in Nat
    BY DEF SyncInv, BaseInv, TypeOK, Q!TypeOK
  <2> QED BY <1>1, <2>1, Crashed DEF Crash
<1>7. CASE UNCHANGED vars
  <2>1. UNCHANGED <<rows, cur, phase, account, order, h, push, resolver>>
    BY <1>7 DEF vars, queueVars, syncVars
  <2>2. Drifting(a)
    BY <2>1 DEF Drifting, InSync, Signed
  <2> QED BY <1>1, <2>1, <2>2, CoveredStays
<1> QED BY <1>2, <1>3, <1>4, <1>5, <1>6, <1>7 DEF Next, Processor

\* As long as no write fails and the process stays up, an account that its
\* cluster of origin does not hold as the row says is never forgotten: a
\* handler is about to insert its task, or a task will push it or has failed.
\* This for any number of overlapping handlers on the same account.
THEOREM DriftIsAlwaysCovered ==
  ASSUME MayReject = FALSE
  PROVE  Spec => []DriftIsCovered
<1>1. Init => DriftIsCovered
  <2> SUFFICES ASSUME Init, NEW a \in Accounts \ SystemAccounts
               PROVE  account[a] = None
    BY DEF DriftIsCovered
  <2> QED BY DEF Init
<1>2. SyncInv /\ DriftIsCovered /\ [Next]_vars => DriftIsCovered'
  BY DriftStep
<1> QED BY <1>1, <1>2, SyncAlways, PTL DEF Spec
-----------------------------------------------------------------------------
(* Updates of one account by handlers that overlap.                        *)

\* What request r makes of a set of items.
After(r, items) == (items \ Withdrawn(r)) \union Granted(r)

\* The items in S and T are the same but for those in U.
SameBut(S, T, U) == \A i \in Items \ U : i \in S <=> i \in T

\* A row is as intended but for what was put back, and so is the copy that a
\* handler will save, but for what it has missed: of what it changes itself
\* it misses nothing.
UpdatesOK ==
  /\ \A a \in Accounts :
       account[a] # None => SameBut(account[a].items, intended[a], undone[a])
  /\ \A c \in Handlers, a \in Accounts :
       HoldsCopy(c, a) =>
         LET r == h[c].req IN
         /\ SameBut(h[c].copy.items, After(r, intended[a]), undone[a] \union missed[c])
         /\ \A i \in Changed(r) : i \in h[c].copy.items <=> i \in Granted(r)

\* What the handler does to its copy is what the request asks for.
LEMMA EditedIsAfter ==
  ASSUME NEW r \in Requests, NEW items \in SUBSET Items
  PROVE  Edited(r, items) = After(r, items)
<1>1. CASE r.op = "add"
  BY <1>1 DEF Edited, After, Granted, Withdrawn
<1>2. CASE r.op = "drop"
  BY <1>2 DEF Edited, After, Granted, Withdrawn, LimitsOf
<1>3. CASE r.op = "update" /\ r.limits # None
  <2>1. r.limits \in SUBSET Items
    BY <1>3, RequestFields
  <2> QED BY <1>3, <2>1 DEF Edited, After, Granted, Withdrawn, LimitsOf
<1>4. CASE r.op \notin {"add", "drop"} /\ ~ (r.op = "update" /\ r.limits # None)
  BY <1>4 DEF Edited, After, Granted, Withdrawn, LimitsOf
<1> QED BY <1>1, <1>2, <1>3, <1>4

\* It never asks for an item and for its removal.
LEMMA GrantedIsKept ==
  ASSUME NEW r \in Requests
  PROVE  Granted(r) \intersect Withdrawn(r) = {}
BY DEF Granted, Withdrawn, LimitsOf

\* A change made to two sets leaves them as alike as they were.
LEMMA AfterKeeps ==
  ASSUME NEW r, NEW S, NEW T, NEW U, SameBut(S, T, U)
  PROVE  SameBut(After(r, S), After(r, T), U)
BY DEF SameBut, After

\* A handler that has read the row holds the row changed as it asks for.
LEMMA CopyIsFresh ==
  ASSUME NEW r \in Requests, NEW items \in SUBSET Items, NEW T, NEW U, NEW M,
         SameBut(items, T, U)
  PROVE  /\ SameBut(Edited(r, items), After(r, T), U \union M)
         /\ \A i \in Changed(r) : i \in Edited(r, items) <=> i \in Granted(r)
<1>1. SameBut(After(r, items), After(r, T), U)
  BY AfterKeeps
<1>2. \A i \in Changed(r) : i \in After(r, items) <=> i \in Granted(r)
  BY GrantedIsKept DEF After, Changed
<1> QED BY <1>1, <1>2, EditedIsAfter DEF SameBut

\* Steps that change neither rows nor what was intended.
LEMMA UpdatesStay ==
  ASSUME UpdatesOK, UNCHANGED <<intended, undone>>,
         \A a \in Accounts : account'[a] \in {account[a], None},
         \A c \in Handlers : \/ h'[c] = h[c] /\ missed'[c] = missed[c]
                             \/ h'[c].at # "loaded"
  PROVE  UpdatesOK'
BY DEF UpdatesOK, HoldsCopy

\* Load: the copy is fresh.
LEMMA LoadUpdates ==
  ASSUME BaseInv, UpdatesOK, NEW c \in Handlers, NEW r \in Requests, Load(c, r)
  PROVE  UpdatesOK'
<1>1. TypeOK
  BY DEF BaseInv
<1>2. /\ account[r.acct] \in Content /\ account[r.acct] # None /\ r.acct \in Accounts
      /\ account[r.acct].items \in SUBSET Items
  BY <1>1, RequestFields DEF Load, Accepted, TypeOK, Content
<1>3. PICK s : s = [at |-> IF r.op = "sync" THEN "saved" ELSE "loaded",
                    req |-> r, copy |-> Applied(r, account[r.acct])]
  OBVIOUS
<1>4. s.req = r /\ s.copy.items = Edited(r, account[r.acct].items)
  BY <1>2, <1>3, AppliedFields
<1>5. h' = [h EXCEPT ![c] = s] /\ UNCHANGED <<account, intended, missed, undone>>
  BY <1>3 DEF Load
<1>6. h'[c] = s /\ \A d \in Handlers \ {c} : h'[d] = h[d]
  BY <1>1, <1>5 DEF TypeOK
<1>7. /\ SameBut(s.copy.items, After(r, intended[r.acct]),
                 undone[r.acct] \union missed[c])
      /\ \A i \in Changed(r) : i \in s.copy.items <=> i \in Granted(r)
  <2>1. SameBut(account[r.acct].items, intended[r.acct], undone[r.acct])
    BY <1>2 DEF UpdatesOK
  <2> QED BY <1>2, <1>4, <2>1, CopyIsFresh
<1> QED BY <1>4, <1>5, <1>6, <1>7 DEF UpdatesOK, HoldsCopy

\* CreateAccount: nobody else holds a copy of an account that never was.
LEMMA CreateAccountUpdates ==
  ASSUME BaseInv, UpdatesOK, NEW c \in Handlers, NEW r \in Requests, CreateAccount(c, r)
  PROVE  UpdatesOK'
<1>1. TypeOK /\ HistoryOK /\ r.acct \in Accounts
  BY RequestFields DEF BaseInv
<1>2. PICK row : row = [ver |-> saves + 1, items |-> {}, disabled |-> FALSE]
  OBVIOUS
<1>3. PICK s : s = [at |-> "loaded", req |-> r, copy |-> row]
  OBVIOUS
<1>4. row.items = {} /\ s.req = r /\ s.copy = row
  BY <1>2, <1>3
<1>5. /\ h' = [h EXCEPT ![c] = s] /\ account' = [account EXCEPT ![r.acct] = row]
      /\ intended' = [intended EXCEPT ![r.acct] = {}]
      /\ UNCHANGED <<missed, undone>> /\ r.op = "create" /\ intended[r.acct] = None
  BY <1>2, <1>3 DEF CreateAccount
<1>6. /\ h'[c] = s /\ \A d \in Handlers \ {c} : h'[d] = h[d]
      /\ account'[r.acct] = row /\ intended'[r.acct] = {}
      /\ \A b \in Accounts \ {r.acct} : account'[b] = account[b] /\ intended'[b] = intended[b]
  BY <1>1, <1>5 DEF TypeOK
<1>7. \A d \in Handlers : HoldsCopy(d, r.acct) => FALSE
  <2> SUFFICES ASSUME NEW d \in Handlers, HoldsCopy(d, r.acct) PROVE FALSE
    OBVIOUS
  <2>1. d \in Busy
    BY <1>1, Working DEF HoldsCopy
  <2> QED BY <1>1, <1>5, <2>1 DEF HistoryOK, HoldsCopy
<1>8. Granted(r) = {} /\ Withdrawn(r) = {}
  BY <1>5 DEF Granted, Withdrawn, LimitsOf
<1>9. \A a \in Accounts :
        account'[a] # None => SameBut(account'[a].items, intended'[a], undone'[a])
  BY <1>4, <1>5, <1>6 DEF UpdatesOK, SameBut
<1>10. ASSUME NEW d \in Handlers, NEW a \in Accounts, HoldsCopy(d, a)'
       PROVE  /\ SameBut(h'[d].copy.items, After(h'[d].req, intended'[a]),
                         undone'[a] \union missed'[d])
              /\ \A i \in Changed(h'[d].req) :
                   i \in h'[d].copy.items <=> i \in Granted(h'[d].req)
  <2>1. CASE d = c
    BY <1>4, <1>6, <1>8, <1>10, <2>1 DEF HoldsCopy, SameBut, After, Changed
  <2>2. CASE d # c
    <3>1. HoldsCopy(d, a) /\ h'[d] = h[d]
      BY <1>6, <1>10, <2>2 DEF HoldsCopy
    <3>2. a # r.acct
      BY <1>7, <3>1
    <3> QED BY <1>5, <1>6, <3>1, <3>2 DEF UpdatesOK
  <2> QED BY <2>1, <2>2
<1> QED BY <1>9, <1>10 DEF UpdatesOK

\* SaveAccount: what the copy lacks is what the handler has missed.
LEMMA SaveAccountUpdates ==
  ASSUME BaseInv, UpdatesOK, NEW c \in Handlers, SaveAccount(c)
  PROVE  UpdatesOK'
<1> DEFINE r == h[c].req  a == h[c].req.acct
<1>1. TypeOK
  BY DEF BaseInv
<1>2. /\ h[c].at = "loaded" /\ h[c] \in State /\ a \in Accounts /\ r \in Requests
      /\ h[c].copy \in Content /\ HoldsCopy(c, a)
  BY <1>1, Working DEF SaveAccount, HoldsCopy
<1>3. CASE /\ h' = [h EXCEPT ![c] = IF r.op = "create" THEN [@ EXCEPT !.at = "saved"]
                                    ELSE IdleHandler]
           /\ missed' = [missed EXCEPT ![c] = {}]
           /\ UNCHANGED <<account, saves, intended, undone>>
  <2>1. PICK s : s = [h[c] EXCEPT !.at = "saved"]
    OBVIOUS
  <2>2. s.at # "loaded"
    BY <1>2, <2>1 DEF State
  <2>3. h'[c] = s \/ h'[c] = IdleHandler
    BY <1>1, <1>3, <2>1 DEF TypeOK
  <2>4. \A d \in Handlers \ {c} : h'[d] = h[d] /\ missed'[d] = missed[d]
    BY <1>1, <1>3 DEF TypeOK
  <2>5. h'[c].at # "loaded"
    BY <2>2, <2>3 DEF IdleHandler
  <2> QED BY <1>3, <2>4, <2>5, UpdatesStay
<1>4. CASE /\ account' = [account EXCEPT ![a] = [h[c].copy EXCEPT !.ver = saves + 1]]
           /\ Record(c, r)
           /\ h' = [h EXCEPT ![c].at = "saved",
                            ![c].copy = [h[c].copy EXCEPT !.ver = saves + 1]]
  <2> DEFINE D == Changed(r)
  <2>1. PICK w : w = [h[c].copy EXCEPT !.ver = saves + 1]
    OBVIOUS
  <2>2. w.items = h[c].copy.items
    BY <1>2, <2>1 DEF Content
  <2>3. h'[c].at = "saved" /\ \A d \in Handlers \ {c} : h'[d] = h[d]
    <3>1. PICK s : s = [h[c] EXCEPT !.at = "saved", !.copy = w]
      OBVIOUS
    <3>2. s.at = "saved"
      BY <1>2, <3>1 DEF State
    <3> QED BY <1>1, <1>4, <2>1, <3>1, <3>2 DEF TypeOK
  <2>4. /\ account'[a] = w
        /\ \A b \in Accounts \ {a} : account'[b] = account[b]
    BY <1>1, <1>2, <1>4, <2>1 DEF TypeOK
  <2>5. /\ intended'[a] = After(r, intended[a])
        /\ undone'[a] = (undone[a] \union missed[c]) \ D
        /\ \A b \in Accounts \ {a} : intended'[b] = intended[b] /\ undone'[b] = undone[b]
        /\ \A d \in Handlers \ {c} :
             missed'[d] = missed[d] \union (IF HoldsCopy(d, a) THEN D ELSE {})
    <3> DEFINE e == After(r, intended[a])  u == (undone[a] \union missed[c]) \ D
    <3>1. /\ intended' = [intended EXCEPT ![a] = e]
          /\ undone' = [undone EXCEPT ![a] = u]
          /\ \A d \in Handlers \ {c} :
               missed'[d] = missed[d] \union (IF HoldsCopy(d, a) THEN D ELSE {})
      BY <1>4 DEF Record, After
    <3> HIDE DEF e, u, D
    <3>2. /\ intended'[a] = e /\ undone'[a] = u
          /\ \A b \in Accounts \ {a} : intended'[b] = intended[b] /\ undone'[b] = undone[b]
      BY <1>1, <1>2, <3>1 DEF TypeOK
    <3> QED BY <3>1, <3>2 DEF e, u
  <2>6. SameBut(w.items, intended'[a], undone'[a])
    <3>1. /\ SameBut(h[c].copy.items, After(r, intended[a]), undone[a] \union missed[c])
          /\ \A i \in D : i \in h[c].copy.items <=> i \in Granted(r)
      BY <1>2 DEF UpdatesOK
    <3>2. \A i \in D : i \in After(r, intended[a]) <=> i \in Granted(r)
      BY <1>2, GrantedIsKept DEF Changed, After
    <3> HIDE DEF D, r, a
    <3> QED BY <2>2, <2>5, <3>1, <3>2 DEF SameBut
  <2>7. \A b \in Accounts :
          account'[b] # None => SameBut(account'[b].items, intended'[b], undone'[b])
    BY <2>4, <2>5, <2>6 DEF UpdatesOK
  <2>8. ASSUME NEW d \in Handlers, NEW b \in Accounts, HoldsCopy(d, b)'
        PROVE  /\ SameBut(h'[d].copy.items, After(h'[d].req, intended'[b]),
                          undone'[b] \union missed'[d])
               /\ \A i \in Changed(h'[d].req) :
                    i \in h'[d].copy.items <=> i \in Granted(h'[d].req)
    <3>1. d # c /\ h'[d] = h[d] /\ HoldsCopy(d, b)
      BY <2>3, <2>8 DEF HoldsCopy
    <3>2. /\ SameBut(h[d].copy.items, After(h[d].req, intended[b]),
                     undone[b] \union missed[d])
          /\ \A i \in Changed(h[d].req) : i \in h[d].copy.items <=> i \in Granted(h[d].req)
      BY <3>1 DEF UpdatesOK
    <3>3. CASE b # a
      <4>1. missed[d] \subseteq missed'[d]
        BY <2>5, <3>1
      <4> QED BY <2>5, <3>1, <3>2, <3>3, <4>1 DEF SameBut
    <3>4. CASE b = a
      <4>1. missed'[d] = missed[d] \union D
        BY <2>5, <3>1, <3>4
      <4>2. SameBut(intended[a], intended'[a], D)
        BY <2>5 DEF SameBut, After, Changed
      <4>3. SameBut(After(h[d].req, intended[a]), After(h[d].req, intended'[a]), D)
        BY <4>2, AfterKeeps
      <4> HIDE DEF D, r, a
      <4> QED BY <2>5, <3>1, <3>2, <3>4, <4>1, <4>3 DEF SameBut
    <3> QED BY <3>3, <3>4
  <2> QED BY <2>7, <2>8 DEF UpdatesOK
<1> QED BY <1>3, <1>4 DEF SaveAccount

\* Every step keeps UpdatesOK.
LEMMA UpdatesStep ==
  ASSUME BaseInv, UpdatesOK, [Next]_vars
  PROVE  UpdatesOK'
<1>1. TypeOK
  BY DEF BaseInv
<1>2. IdleHandler.at # "loaded"
  BY DEF IdleHandler
<1>3. ASSUME NEW c \in Handlers, CreateTask(c) \/ DeleteAccount(c)
      PROVE  UpdatesOK'
  <2>1. /\ \A b \in Accounts : account'[b] \in {account[b], None}
        /\ UNCHANGED <<intended, undone, missed>>
        /\ \A d \in Handlers : h'[d] = h[d] \/ h'[d] = IdleHandler
    BY <1>1, <1>3 DEF CreateTask, DeleteAccount, TypeOK
  <2> QED BY <1>2, <2>1, UpdatesStay
<1>4. CASE Processor \/ OperatorRetry \/ UNCHANGED vars
  <2>1. UNCHANGED <<account, intended, undone, missed, h>>
    BY <1>4 DEF Processor, Dispatch, ReadAccount, PrepareFails, PushAccountJWTToCluster,
                CollectResults, OperatorRetry, vars, syncVars
  <2> QED BY <2>1, UpdatesStay
<1>5. CASE Crash
  <2>1. UNCHANGED <<account, intended, undone>> /\ \A c \in Handlers : h'[c] = IdleHandler
    BY <1>5 DEF Crash
  <2> QED BY <1>2, <2>1, UpdatesStay
<1> QED BY <1>3, <1>4, <1>5, LoadUpdates, CreateAccountUpdates, SaveAccountUpdates DEF Next

\* However the handlers of AccountService overlap, whatever failed half-way
\* and whenever the process was restarted: the only changes an account has lost
\* are those that a save from a copy read before them has put back.
THEOREM UpdatesAreKept == Spec => []NoLostUpdate
<1>1. Init => UpdatesOK
  <2> SUFFICES ASSUME Init PROVE UpdatesOK
    OBVIOUS
  <2>1. \A c \in Handlers : h[c].at # "loaded"
    BY DEF Init, IdleHandler
  <2>2. \A a \in Accounts : account[a] # None => account[a].items = {} /\ intended[a] = {}
    BY DEF Init
  <2> QED BY <2>1, <2>2 DEF UpdatesOK, HoldsCopy, SameBut
<1>2. BaseInv /\ UpdatesOK /\ [Next]_vars => UpdatesOK'
  BY UpdatesStep
<1>3. UpdatesOK => NoLostUpdate
  BY DEF UpdatesOK, NoLostUpdate, SameBut
<1> QED BY <1>1, <1>2, <1>3, BaseAlways, PTL DEF Spec
=============================================================================
