-------------------------- MODULE StoredRecordsProofs --------------------------
(***************************************************************************)
(* What is stored.  The handlers of accounts and users, for any accounts,  *)
(* users and clients: a user is left without its account only where the   *)
(* deletion ran across its handler.  The migration of IDs, for any rows and*)
(* references, any number of runs, failures at any point: no reference is  *)
(* lost but in the forgotten columns, no new ID changes, and a run that    *)
(* was not cut short is complete when it says so.                          *)
(***************************************************************************)
EXTENDS AccountUsers, IDMigration, TLAPS

USE NoneAssumption

(* The label of a handler tells what it holds.                             *)
LEMMA Holds ==
  ASSUME NEW x \in Handler
  PROVE  /\ x.at \in {"create user", "delete account"} => x.acct \in Accounts
         /\ x.at = "save account" => x.acct \in Accounts /\ x.status \in Status
         /\ x.at = "save user" => x.id \in Users /\ x.copy \in Row
<1>1. CASE x = IdleHandler
  BY <1>1 DEF IdleHandler
<1>2. CASE x \in Checked
  BY <1>2 DEF Checked
<1>3. CASE x \in AccountCopy
  BY <1>3 DEF AccountCopy
<1>4. CASE x \in UserCopy
  BY <1>4 DEF UserCopy
<1> QED BY <1>1, <1>2, <1>3, <1>4 DEF Handler

(* What the actions put into a local state is a handler's.                 *)
LEMMA Puts ==
  /\ IdleHandler \in Handler
  /\ IdleHandler.at = "idle"
  /\ \A a \in Accounts : /\ [at |-> "create user", acct |-> a] \in Handler
                         /\ [at |-> "delete account", acct |-> a] \in Handler
  /\ \A a \in Accounts, s \in Status :
       [at |-> "save account", acct |-> a, status |-> s] \in Handler
  /\ \A u \in Users, r \in Row :
       [at |-> "save user", id |-> u, copy |-> r] \in Handler
BY DEF Handler, IdleHandler, Checked, AccountCopy, UserCopy

(* The types of the state, the local states of the handlers included:      *)
(* whatever overlaps.                                                      *)
THEOREM UsersTypes == Spec => []TypeOK
<1>1. Init => TypeOK
  BY Puts DEF Init, TypeOK, Status
<1>2. ASSUME TypeOK, [Next]_vars PROVE TypeOK'
  <2> USE <1>2, Puts DEF TypeOK, Done
  <2>1. ASSUME NEW c \in Clients, NEW a \in Accounts,
               CheckAccount(c, a) \/ CheckNoUsers(c, a)
        PROVE TypeOK'
    <3>1. CASE CheckAccount(c, a)
      BY <3>1 DEF CheckAccount, Begins
    <3>2. CASE CheckNoUsers(c, a)
      BY <3>2 DEF CheckNoUsers, AtUsersOf
    <3> QED BY <2>1, <3>1, <3>2
  <2>2. ASSUME NEW c \in Clients, NEW a \in Accounts, NEW s \in Status,
               LoadAccount(c, a, s)
        PROVE TypeOK'
    BY <2>2 DEF LoadAccount
  <2>3. ASSUME NEW c \in Clients, NEW u \in Users, NEW s \in Status,
               LoadUser(c, u, s)
        PROVE TypeOK'
    <3>1. [user[u] EXCEPT !.status = s] \in Row /\ u \in made
      BY <2>3 DEF LoadUser, Row
    <3> QED BY <2>3, <3>1 DEF LoadUser, Begins
  <2>4. ASSUME NEW c \in Clients, CreateUser(c) PROVE TypeOK'
    <3>1. h[c].acct \in Accounts
      BY <2>4, Holds DEF CreateUser
    <3>2. [acct |-> h[c].acct, status |-> "active"] \in Row
      BY <3>1 DEF Row, Status
    <3> QED BY <2>4, <3>2 DEF CreateUser, Writes
  <2>5. ASSUME NEW c \in Clients, UpdateUser(c) PROVE TypeOK'
    <3>1. h[c].copy \in Row /\ h[c].id \in Users /\ h[c].id \in made
      BY <2>5, Holds DEF UpdateUser
    <3> QED BY <2>5, <3>1 DEF UpdateUser, Writes
  <2>6. ASSUME NEW c \in Clients, UpdateAccount(c) PROVE TypeOK'
    <3>1. h[c].acct \in Accounts /\ h[c].status \in Status
      BY <2>6, Holds DEF UpdateAccount
    <3> QED BY <2>6, <3>1 DEF UpdateAccount
  <2>7. ASSUME NEW c \in Clients, DeleteAccount(c) PROVE TypeOK'
    BY <2>7 DEF DeleteAccount
  <2>8. ASSUME NEW u \in Users, DeleteUser(u) PROVE TypeOK'
    BY <2>8 DEF DeleteUser
  <2>9. CASE UNCHANGED vars
    BY <2>9 DEF vars
  <2> QED BY <2>1, <2>2, <2>3, <2>4, <2>5, <2>6, <2>7, <2>8, <2>9 DEF Next
<1> QED BY <1>1, <1>2, PTL DEF Spec

-----------------------------------------------------------------------------
(* What the deletion of an account leaves behind it.  While it is under    *)
(* way, and while the account is gone, all its users are exposed and all   *)
(* handlers that may write one are crossed.                                *)
Doomed(a) == account[a] = None \/ BeingDeleted(a)

Accounted(a) == UsersOf(a) \subseteq exposed /\ AtUsersOf(a) \subseteq crossed

(* The inductive invariant: the property alone says nothing of the user a  *)
(* handler is about to write.                                              *)
UInv == TypeOK /\ \A a \in Accounts : Doomed(a) => Accounted(a)

(* A handler of users begins: it is overlapped if the account is doomed.   *)
LEMMA UserHandlerBegins ==
  ASSUME UInv, NEW c \in Clients, NEW b \in Accounts, NEW x, NEW overlapped,
         h[c] = IdleHandler, h' = [h EXCEPT ![c] = x], Begins(c, overlapped),
         \/ x.at = "create user" /\ x.acct = b
         \/ x.at = "save user" /\ x.copy.acct = b,
         Doomed(b) => overlapped,
         UNCHANGED <<account, user, exposed>>,
         NEW a \in Accounts, Doomed(a)'
  PROVE  Accounted(a)'
<1> USE Puts DEF UInv, TypeOK
<1>1. \A d \in Clients : h'[d] = IF d = c THEN x ELSE h[d]
  OBVIOUS
<1>2. Doomed(a)
  BY <1>1 DEF Doomed, BeingDeleted
<1>3. UsersOf(a) \subseteq exposed /\ AtUsersOf(a) \subseteq crossed
  BY <1>2 DEF Accounted
<1>4. crossed \subseteq crossed' /\ (a = b => c \in crossed')
  BY <1>2 DEF Begins
<1>5. AtUsersOf(a)' \subseteq AtUsersOf(a) \union (IF a = b THEN {c} ELSE {})
  BY <1>1 DEF AtUsersOf
<1>6. UsersOf(a)' = UsersOf(a)
  BY DEF UsersOf
<1> QED BY <1>3, <1>4, <1>5, <1>6 DEF Accounted

(* A handler writes a user, or fails to, and ends.                         *)
LEMMA UserHandlerEnds ==
  ASSUME UInv, NEW c \in Clients, NEW b \in Accounts, c \in AtUsersOf(b), Done(c),
         UNCHANGED account,
         \/ UNCHANGED <<user, exposed>>
         \/ \E u \in Users, r \in Row :
              user' = [user EXCEPT ![u] = r] /\ r.acct = b /\ Writes(c, u),
         NEW a \in Accounts, Doomed(a)'
  PROVE  Accounted(a)'
<1> USE Puts DEF UInv, TypeOK
<1>1. \A d \in Clients : h'[d] = IF d = c THEN IdleHandler ELSE h[d]
  BY DEF Done
<1>2. Doomed(a)
  BY <1>1 DEF Doomed, BeingDeleted
<1>3. UsersOf(a) \subseteq exposed /\ AtUsersOf(a) \subseteq crossed
  BY <1>2 DEF Accounted
<1>4. AtUsersOf(a)' \subseteq crossed'
  <2>1. AtUsersOf(a)' \subseteq AtUsersOf(a) \ {c}
    BY <1>1 DEF AtUsersOf
  <2> QED BY <1>3, <2>1 DEF Done
<1>5. UsersOf(a)' \subseteq exposed'
  <2>1. CASE UNCHANGED <<user, exposed>>
    BY <1>3, <2>1 DEF UsersOf
  <2>2. ASSUME NEW u \in Users, NEW r \in Row,
               user' = [user EXCEPT ![u] = r], r.acct = b, Writes(c, u)
        PROVE  UsersOf(a)' \subseteq exposed'
    <3>1. UsersOf(a)' \subseteq UsersOf(a) \union (IF a = b THEN {u} ELSE {})
      BY <2>2 DEF UsersOf
    <3>2. exposed \subseteq exposed' /\ (a = b => u \in exposed')
      BY <1>3, <2>2 DEF Writes
    <3> QED BY <1>3, <3>1, <3>2
  <2> QED BY <2>1, <2>2
<1> QED BY <1>4, <1>5 DEF Accounted

(* Whatever a handler or a request does, the doomed accounts stay accounted *)
(* for.                                                                     *)
LEMMA DoomedStayAccounted ==
  ASSUME UInv, [Next]_vars, NEW a \in Accounts, Doomed(a)'
  PROVE  Accounted(a)'
<1> USE Puts DEF UInv, TypeOK
<1>1. ASSUME NEW c \in Clients, NEW b \in Accounts, CheckAccount(c, b)
      PROVE  Accounted(a)'
  <2> DEFINE x == [at |-> "create user", acct |-> b]
  <2>1. /\ h[c] = IdleHandler /\ h' = [h EXCEPT ![c] = x]
        /\ Begins(c, BeingDeleted(b)) /\ UNCHANGED <<account, user, exposed>>
        /\ account[b] # None
    BY <1>1 DEF CheckAccount, Status
  <2>2. x.at = "create user" /\ x.acct = b /\ (Doomed(b) => BeingDeleted(b))
    BY <2>1 DEF Doomed
  <2> HIDE DEF x, UInv, TypeOK
  <2> QED BY <2>1, <2>2, UserHandlerBegins
<1>2. ASSUME NEW c \in Clients, NEW u \in Users, NEW s \in Status, LoadUser(c, u, s)
      PROVE  Accounted(a)'
  <2> DEFINE r == [user[u] EXCEPT !.status = s]
             b == user[u].acct
             x == [at |-> "save user", id |-> u, copy |-> r]
  <2>1. /\ h[c] = IdleHandler /\ h' = [h EXCEPT ![c] = x] /\ user[u] # None
        /\ Begins(c, u \in exposed \/ BeingDeleted(b))
        /\ UNCHANGED <<account, user, exposed>>
    BY <1>2 DEF LoadUser
  <2>2. b \in Accounts /\ x.at = "save user" /\ x.copy.acct = b
    BY <2>1 DEF Row
  <2>3. Doomed(b) => u \in exposed \/ BeingDeleted(b)
    BY <2>1, <2>2 DEF Accounted, UsersOf
  <2> HIDE DEF x, b, r, UInv, TypeOK
  <2> QED BY <2>1, <2>2, <2>3, UserHandlerBegins
<1>3. ASSUME NEW c \in Clients, NEW b \in Accounts, CheckNoUsers(c, b)
      PROVE  Accounted(a)'
  <2>1. /\ h' = [h EXCEPT ![c] = [at |-> "delete account", acct |-> b]]
        /\ crossed' = crossed \union AtUsersOf(b) /\ UsersOf(b) = {}
        /\ UNCHANGED <<account, user, exposed>>
    BY <1>3 DEF CheckNoUsers
  <2>2. UsersOf(a)' = UsersOf(a) /\ AtUsersOf(a)' \subseteq AtUsersOf(a)
    BY <2>1 DEF UsersOf, AtUsersOf
  <2>3. a = b \/ Doomed(a)
    BY <2>1 DEF Doomed, BeingDeleted
  <2> QED BY <2>1, <2>2, <2>3 DEF Accounted
<1>4. ASSUME NEW c \in Clients, NEW b \in Accounts, NEW s \in Status, LoadAccount(c, b, s)
      PROVE  Accounted(a)'
  <2>1. /\ h' = [h EXCEPT ![c] = [at |-> "save account", acct |-> b, status |-> s]]
        /\ UNCHANGED <<account, user, crossed, exposed>>
    BY <1>4 DEF LoadAccount
  <2>2. UsersOf(a)' = UsersOf(a) /\ AtUsersOf(a)' \subseteq AtUsersOf(a)
    BY <2>1 DEF UsersOf, AtUsersOf
  <2>3. Doomed(a)
    BY <2>1 DEF Doomed, BeingDeleted
  <2> QED BY <2>1, <2>2, <2>3 DEF Accounted
<1>5. ASSUME NEW c \in Clients, CreateUser(c) PROVE Accounted(a)'
  <2> DEFINE b == h[c].acct
             r == [acct |-> b, status |-> "active"]
  <2>1. b \in Accounts /\ c \in AtUsersOf(b)
    BY <1>5, Holds DEF CreateUser, AtUsersOf
  <2>2. r \in Row /\ r.acct = b
    BY <2>1 DEF Row, Status
  <2>3. /\ Done(c) /\ UNCHANGED account
        /\ \/ UNCHANGED <<user, exposed>>
           \/ \E u \in Users : user' = [user EXCEPT ![u] = r] /\ Writes(c, u)
    BY <1>5 DEF CreateUser
  <2> HIDE DEF b, r, UInv, TypeOK
  <2> QED BY <2>1, <2>2, <2>3, UserHandlerEnds
<1>6. ASSUME NEW c \in Clients, UpdateUser(c) PROVE Accounted(a)'
  <2> DEFINE r == h[c].copy
             b == r.acct
  <2>1. r \in Row /\ h[c].id \in Users
    BY <1>6, Holds DEF UpdateUser
  <2>2. b \in Accounts /\ c \in AtUsersOf(b)
    BY <1>6, <2>1 DEF UpdateUser, AtUsersOf, Row
  <2>3. /\ Done(c) /\ UNCHANGED account
        /\ \/ UNCHANGED <<user, exposed>>
           \/ user' = [user EXCEPT ![h[c].id] = r] /\ Writes(c, h[c].id)
    BY <1>6 DEF UpdateUser
  <2> HIDE DEF b, r, UInv, TypeOK
  <2> QED BY <2>1, <2>2, <2>3, UserHandlerEnds DEF b
<1>7. ASSUME NEW c \in Clients, UpdateAccount(c) \/ DeleteAccount(c)
      PROVE  Accounted(a)'
  <2>1. /\ h' = [h EXCEPT ![c] = IdleHandler] /\ crossed' = crossed \ {c}
        /\ UNCHANGED <<user, exposed>> /\ c \notin AtUsersOf(a)
    BY <1>7 DEF UpdateAccount, DeleteAccount, Done, AtUsersOf
  <2>2. UsersOf(a)' = UsersOf(a) /\ AtUsersOf(a)' \subseteq AtUsersOf(a)
    BY <2>1 DEF UsersOf, AtUsersOf
  <2>3. Doomed(a)
    <3>1. BeingDeleted(a)' => BeingDeleted(a)
      BY <2>1 DEF BeingDeleted
    <3>2. CASE UpdateAccount(c)
      <4>1. h[c].status # None
        BY <3>2, Holds DEF UpdateAccount, Status
      <4> QED BY <3>1, <3>2, <4>1 DEF UpdateAccount, Doomed
    <3>3. CASE DeleteAccount(c)
      BY <3>1, <3>3 DEF DeleteAccount, Doomed, BeingDeleted
    <3> QED BY <1>7, <3>2, <3>3
  <2> QED BY <2>1, <2>2, <2>3 DEF Accounted
<1>8. ASSUME NEW u \in Users, DeleteUser(u) PROVE Accounted(a)'
  <2>1. UNCHANGED <<account, h, crossed, exposed>> /\ user' = [user EXCEPT ![u] = None]
    BY <1>8 DEF DeleteUser
  <2>2. UsersOf(a)' \subseteq UsersOf(a) /\ AtUsersOf(a)' = AtUsersOf(a)
    BY <2>1 DEF UsersOf, AtUsersOf
  <2>3. Doomed(a)
    BY <2>1 DEF Doomed, BeingDeleted
  <2> QED BY <2>1, <2>2, <2>3 DEF Accounted
<1>9. CASE UNCHANGED vars
  BY <1>9 DEF vars, Doomed, Accounted, BeingDeleted, UsersOf, AtUsersOf
<1> QED BY <1>1, <1>2, <1>3, <1>4, <1>5, <1>6, <1>7, <1>8, <1>9 DEF Next

(* A user without its account was written by a handler that the deletion    *)
(* overlapped, however handlers of users and accounts cross and whatever    *)
(* their whole-row saves bring back.                                        *)
THEOREM OrphansAreExplained == Spec => []OrphansCrossedADeletion
<1>1. Init => \A a \in Accounts : Doomed(a) => Accounted(a)
  BY Puts, NoneAssumption DEF Init, Doomed, BeingDeleted, Status
<1>2. UInv /\ [Next]_vars => (\A a \in Accounts : Doomed(a) => Accounted(a))'
  BY DoomedStayAccounted
<1>3. UInv => OrphansCrossedADeletion
  BY DEF UInv, TypeOK, Doomed, Accounted, UsersOf, OrphansCrossedADeletion, Row
<1> QED BY <1>1, <1>2, <1>3, UsersTypes, PTL DEF Spec, UInv

-----------------------------------------------------------------------------
(* The migration of IDs.                                                    *)

MigrationTypeOK ==
  /\ id \in [Rows -> Nat]
  /\ ref \in [Refs -> Nat]
  /\ txId \in [Rows -> Nat]
  /\ txRef \in [Refs -> Nat]
  /\ run \in Nat \ {0}
  /\ at \in {"stopped", "table", "rows", "finished"}
  /\ table \in 1..6
  /\ cursor \in SUBSET Rows
  /\ cut \in BOOLEAN

\* The transaction has lost no reference either, and changed no new ID.
TransactionOK ==
  at = "rows" =>
    /\ table \in 1..5
    /\ \A r \in cursor : TableOf[r] = Tables[table]
    /\ \A x \in Refs : x.column \notin Forgotten => txRef[x] = txId[x.to]
    /\ \A r \in Rows : id[r] # 0 => txId[r] = id[r]

\* What is done of a run that was not cut short.
ProgressOK ==
  ~ cut /\ at # "stopped" =>
    /\ \A r \in Rows, i \in 1..5 : i < table /\ TableOf[r] = Tables[i] => id[r] # 0
    /\ at = "rows" =>
         \A r \in Rows : TableOf[r] = Tables[table] => r \in cursor \/ txId[r] # 0
    /\ at = "finished" => table = 6

MInv == MigrationTypeOK /\ TransactionOK /\ ReferencesLead /\ ProgressOK

-----------------------------------------------------------------------------
\* Every column that holds IDs of a table is changed with them or forgotten.
LEMMA ColumnsKnown ==
  ASSUME NEW x \in Refs, NEW n \in 1..5, TableOf[x.to] = Tables[n],
         x.column \notin Forgotten
  PROVE  x.column \in Columns[n]
<1>1. x.column \in IdColumns[Tables[n]]
  BY MigrationAssumption
<1>2. CASE n = 1
  BY <1>1, <1>2 DEF Tables, IdColumns, Columns, AccountColumns, Forgotten
<1>3. CASE n = 2
  BY <1>1, <1>3 DEF Tables, IdColumns, Columns, ClusterColumns, Forgotten
<1>4. CASE n = 3
  BY <1>1, <1>4 DEF Tables, IdColumns, Columns, UserColumns, Forgotten
<1>5. CASE n = 4
  BY <1>1, <1>5 DEF Tables, IdColumns, Columns, StreamColumns, Forgotten
<1>6. CASE n = 5
  BY <1>1, <1>6 DEF Tables, IdColumns
<1>7. QED
  BY <1>2, <1>3, <1>4, <1>5, <1>6

LEMMA MigrationInitOK == MigrationInit => MInv
<1>1. SUFFICES ASSUME MigrationInit PROVE MInv
  OBVIOUS
<1>2. MigrationTypeOK
  <2>1. id \in [Rows -> Nat]
    BY <1>1 DEF MigrationInit
  <2>2. \A x \in Refs : x.to \in Rows
    BY MigrationAssumption
  <2>3. ref \in [Refs -> Nat]
    BY <1>1, <2>1, <2>2 DEF MigrationInit
  <2>4. txId \in [Rows -> Nat] /\ txRef \in [Refs -> Nat]
    BY <1>1, <2>1, <2>3 DEF MigrationInit
  <2>5. run \in Nat \ {0} /\ table \in 1..6 /\ cursor \in SUBSET Rows
    BY <1>1 DEF MigrationInit
  <2>6. at \in {"stopped", "table", "rows", "finished"} /\ cut \in BOOLEAN
    BY <1>1, Zenon DEF MigrationInit
  <2>7. QED
    BY <2>1, <2>3, <2>4, <2>5, <2>6 DEF MigrationTypeOK
<1>3. ReferencesLead
  BY <1>1 DEF MigrationInit, ReferencesLead
<1>4. TransactionOK /\ ProgressOK
  BY <1>1 DEF MigrationInit, TransactionOK, ProgressOK
<1>5. QED
  BY <1>2, <1>3, <1>4 DEF MInv

LEMMA MigrateRowOK ==
  ASSUME MInv, NEW r \in Rows, MigrateRow(r)
  PROVE  MInv'
<1>1. /\ at = "rows" /\ at' = at /\ table' = table /\ table \in 1..5
      /\ r \in cursor /\ cursor' = cursor \ {r}
      /\ TableOf[r] = Tables[table]
      /\ id' = id /\ ref' = ref /\ run' = run /\ cut' = cut
  BY DEF MInv, TransactionOK, MigrateRow
<1>2. run # 0 /\ run \in Nat
  BY DEF MInv, MigrationTypeOK
<1>3. CASE txId[r] # 0
  <2>1. txId' = txId /\ txRef' = txRef
    BY <1>3 DEF MigrateRow
  <2>2. MigrationTypeOK'
    BY <1>1, <2>1 DEF MInv, MigrationTypeOK
  <2>3. TransactionOK'
    BY <1>1, <2>1 DEF MInv, TransactionOK
  <2>4. ReferencesLead'
    BY <1>1 DEF MInv, ReferencesLead
  <2>5. ProgressOK'
    BY <1>1, <1>3, <2>1 DEF MInv, ProgressOK
  <2>6. QED
    BY <2>2, <2>3, <2>4, <2>5 DEF MInv
<1>4. CASE txId[r] = 0
  <2>1. /\ txId' = [txId EXCEPT ![r] = run]
        /\ txRef' = [x \in Refs |->
             IF x.to = r /\ x.column \in Columns[table] /\ txRef[x] = txId[r]
               THEN run ELSE txRef[x]]
    BY <1>4 DEF MigrateRow
  <2>2. MigrationTypeOK'
    BY <1>1, <1>2, <2>1 DEF MInv, MigrationTypeOK
  <2>3. ASSUME NEW x \in Refs, x.column \notin Forgotten
        PROVE  txRef'[x] = txId'[x.to]
    <3>1. x.to \in Rows /\ txRef[x] = txId[x.to]
      BY <1>1, <2>3, MigrationAssumption DEF MInv, TransactionOK
    <3>2. CASE x.to = r
      <4>1. x.column \in Columns[table]
        BY <1>1, <2>3, <3>2, ColumnsKnown
      <4>2. QED
        BY <2>1, <3>1, <3>2, <4>1 DEF MInv, MigrationTypeOK
    <3>3. CASE x.to # r
      BY <2>1, <3>1, <3>3 DEF MInv, MigrationTypeOK
    <3>4. QED
      BY <3>2, <3>3
  <2>4. \A q \in Rows : txId'[q] = IF q = r THEN run ELSE txId[q]
    BY <2>1 DEF MInv, MigrationTypeOK
  <2>5. \A q \in Rows : id'[q] # 0 => txId'[q] = id'[q]
    BY <1>1, <1>4, <2>4 DEF MInv, TransactionOK
  <2>6. TransactionOK'
    BY <1>1, <2>3, <2>5 DEF MInv, TransactionOK
  <2>7. ReferencesLead'
    BY <1>1 DEF MInv, ReferencesLead
  <2>8. ProgressOK'
    BY <1>1, <1>2, <2>4 DEF MInv, ProgressOK
  <2>9. QED
    BY <2>2, <2>6, <2>7, <2>8 DEF MInv
<1>5. QED
  BY <1>3, <1>4

LEMMA BeginTableOK ==
  ASSUME MInv, BeginTable
  PROVE  MInv'
<1>1. MigrationTypeOK'
  BY DEF MInv, MigrationTypeOK, BeginTable
<1>2. TransactionOK'
  BY DEF MInv, MigrationTypeOK, BeginTable, TransactionOK, ReferencesLead
<1>3. ReferencesLead'
  BY DEF MInv, ReferencesLead, BeginTable
<1>4. ProgressOK'
  BY DEF MInv, ProgressOK, BeginTable
<1>5. QED
  BY <1>1, <1>2, <1>3, <1>4 DEF MInv

LEMMA CommitTableOK ==
  ASSUME MInv, CommitTable
  PROVE  MInv'
<1>1. table \in 1..5 /\ table' = table + 1 /\ at = "rows" /\ at' = "table"
      /\ id' = txId /\ ref' = txRef /\ cursor = {} /\ cut' = cut
  BY DEF MInv, TransactionOK, CommitTable
<1>2. MigrationTypeOK'
  BY <1>1 DEF MInv, MigrationTypeOK, CommitTable
<1>3. ReferencesLead'
  BY <1>1 DEF MInv, TransactionOK, ReferencesLead
<1>4. TransactionOK'
  BY <1>1 DEF TransactionOK
<1>5. ASSUME ~ cut, NEW r \in Rows, NEW i \in 1..5, i < table + 1,
             TableOf[r] = Tables[i]
      PROVE  txId[r] # 0
  <2>1. CASE i = table
    BY <1>1, <1>5, <2>1 DEF MInv, ProgressOK
  <2>2. CASE i # table
    <3>1. id[r] # 0
      BY <1>1, <1>5, <2>2 DEF MInv, ProgressOK
    <3>2. QED
      BY <1>1, <3>1 DEF MInv, TransactionOK
  <2>3. QED
    BY <2>1, <2>2
<1>6. ProgressOK'
  BY <1>1, <1>5 DEF ProgressOK
<1>7. QED
  BY <1>2, <1>3, <1>4, <1>6 DEF MInv

\* The actions that touch neither the rows nor the transaction.
LEMMA OtherStepsOK ==
  ASSUME MInv,
         \/ StartMigration \/ CursorFails \/ FinishMigration \/ Abort
         \/ UNCHANGED migrationVars
  PROVE  MInv'
<1>1. id' = id /\ ref' = ref /\ txId' = txId /\ txRef' = txRef
  BY DEF StartMigration, CursorFails, FinishMigration, Abort, migrationVars
<1>2. MigrationTypeOK'
  <2>1. run' = run + 1 \/ run' = run
    BY DEF StartMigration, CursorFails, FinishMigration, Abort, migrationVars
  <2>2. run' \in Nat \ {0}
    BY <2>1 DEF MInv, MigrationTypeOK
  <2>3. at' \in {"stopped", "table", "rows", "finished"} /\ table' \in 1..6
    BY DEF MInv, MigrationTypeOK, StartMigration, CursorFails, FinishMigration,
         Abort, migrationVars
  <2>4. cursor' = {} \/ cursor' = cursor
    BY DEF StartMigration, CursorFails, FinishMigration, Abort, migrationVars
  <2>5. cursor' \in SUBSET Rows
    BY <2>4 DEF MInv, MigrationTypeOK
  <2>6. cut' = FALSE \/ cut' = TRUE \/ cut' = cut
    BY Zenon DEF StartMigration, CursorFails, FinishMigration, Abort, migrationVars
  <2>7. cut' \in BOOLEAN
    BY <2>6, Zenon DEF MInv, MigrationTypeOK
  <2>8. QED
    BY <1>1, <2>2, <2>3, <2>5, <2>7 DEF MInv, MigrationTypeOK
<1>3. TransactionOK'
  BY <1>1 DEF MInv, TransactionOK, StartMigration, CursorFails, FinishMigration,
       Abort, migrationVars
<1>4. ReferencesLead'
  BY <1>1 DEF MInv, ReferencesLead
<1>5. ProgressOK'
  BY <1>1 DEF MInv, MigrationTypeOK, ProgressOK, StartMigration, CursorFails,
       FinishMigration, Abort, migrationVars
<1>6. QED
  BY <1>2, <1>3, <1>4, <1>5 DEF MInv

LEMMA MigrationStepOK == MInv /\ [MigrationNext]_migrationVars => MInv'
  BY MigrateRowOK, BeginTableOK, CommitTableOK, OtherStepsOK DEF MigrationNext

\* The conjunction of the invariants is inductive.
THEOREM MigrationInvariant == MigrationSpec => []MInv
  BY MigrationInitOK, MigrationStepOK, PTL DEF MigrationSpec

-----------------------------------------------------------------------------
\* Whatever fails and however often the tool is run, no reference is lost but those
\* in the forgotten columns.
THEOREM ReferencesSurvive == MigrationSpec => []ReferencesLead
<1>1. MInv => ReferencesLead
  BY DEF MInv
<1>2. QED
  BY <1>1, MigrationInvariant, PTL

\* When the tool says that it is finished and its lists did not break off, every
\* row has an ID of the new form.
THEOREM MigrationIsComplete == MigrationSpec => []FinishedMeansMigrated
<1>1. ASSUME MInv, at = "finished", ~ cut, NEW r \in Rows
      PROVE  id[r] # 0
  <2>1. table = 6
    BY <1>1 DEF MInv, ProgressOK
  <2>2. PICK i \in 1..5 : TableOf[r] = Tables[i]
    BY MigrationAssumption
  <2>3. QED
    BY <1>1, <2>1, <2>2 DEF MInv, ProgressOK
<1>2. MInv => FinishedMeansMigrated
  BY <1>1 DEF FinishedMeansMigrated
<1>3. QED
  BY <1>2, MigrationInvariant, PTL

\* IDs of the new form never change again, also when the tool starts over.
THEOREM NewIdsNeverChange == MigrationSpec => NewIdsStay
<1>1. ASSUME MInv, [MigrationNext]_migrationVars
      PROVE  \A r \in Rows : id[r] # 0 => id'[r] = id[r]
  <2>1. CASE CommitTable
    BY <1>1, <2>1 DEF MInv, TransactionOK, CommitTable
  <2>2. CASE ~ CommitTable
    <3>1. id' = id
      BY <1>1, <2>2 DEF MigrationNext, migrationVars, StartMigration, BeginTable,
           CursorFails, FinishMigration, Abort, MigrateRow
    <3>2. QED
      BY <3>1
  <2>3. QED
    BY <2>1, <2>2
<1>2. QED
  BY <1>1, MigrationInvariant, PTL DEF MigrationSpec, NewIdsStay
=============================================================================
