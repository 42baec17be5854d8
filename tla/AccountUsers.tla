---------------------------- MODULE AccountUsers ----------------------------
(***************************************************************************)
(* Accounts and the users in them: the handlers of UserService and those   *)
(* of AccountService that depend on users.  A handler is a thread with one *)
(* database call per step; nothing in the database ties a user to its      *)
(* account, only the checks the handlers make before they write.  The JWT  *)
(* tasks these handlers insert are the subject of AccountJWTSync and       *)
(* JWTTaskQueue.                                                           *)
(***************************************************************************)
EXTENDS FiniteSets

CONSTANTS
  Accounts,
  Users,         \* identifiers of the users that may ever be made
  Clients,       \* concurrent handlers
  None

VARIABLES
  account,   \* account[a]: the status of the account, or None
  user,      \* user[u]: the row of the user, or None
  made,      \* the identifiers of users used so far
  h,         \* h[c]: the local state of handler c
  crossed,   \* history: handlers of users that a deletion of the account overlaps
  exposed    \* history: users that such a handler has written

vars == <<account, user, made, h, crossed, exposed>>

-----------------------------------------------------------------------------
Status == {"active", "disabled"}
ASSUME NoneAssumption == None \notin Status
Row == [acct : Accounts, status : Status]
IdleHandler == [at |-> "idle"]
UsersOf(a) == {u \in Users : user[u] # None /\ user[u].acct = a}

\* The handlers at work on users of an account, and whether it is being deleted.
AtUsersOf(a) ==
  {c \in Clients : \/ h[c].at = "create user" /\ h[c].acct = a
                   \/ h[c].at = "save user" /\ h[c].copy.acct = a}
BeingDeleted(a) == \E c \in Clients : h[c].at = "delete account" /\ h[c].acct = a

\* History: a handler begins, is overlapped by the deletion of an account, or writes.
Begins(c, overlapped) == crossed' = IF overlapped THEN crossed \union {c} ELSE crossed
Writes(c, u) == exposed' = IF c \in crossed THEN exposed \union {u} ELSE exposed

\* The handler ends, after its write or without having written.
Done(c) ==
  /\ h' = [h EXCEPT ![c] = IdleHandler]
  /\ crossed' = crossed \ {c}

Init ==
  /\ account = [a \in Accounts |-> "active"]
  /\ user = [u \in Users |-> None]
  /\ made = {}
  /\ h = [c \in Clients |-> IdleHandler]
  /\ crossed = {}
  /\ exposed = {}

\* CreateUser checks the account ...
CheckAccount(c, a) ==
  /\ h[c] = IdleHandler
  /\ account[a] = "active"
  /\ h' = [h EXCEPT ![c] = [at |-> "create user", acct |-> a]]
  /\ Begins(c, BeingDeleted(a))
  /\ UNCHANGED <<account, user, made, exposed>>

\* ... and inserts the user, or fails to.
CreateUser(c) ==
  /\ h[c].at = "create user"
  /\ \/ \E u \in Users \ made :
          /\ user' = [user EXCEPT ![u] = [acct |-> h[c].acct, status |-> "active"]]
          /\ made' = made \union {u}
          /\ Writes(c, u)
     \/ UNCHANGED <<user, made, exposed>>
  /\ Done(c)
  /\ UNCHANGED account

\* UpdateUser, DisableUser and EnableUser read the user ...
LoadUser(c, u, s) ==
  /\ h[c] = IdleHandler
  /\ user[u] # None
  /\ h' = [h EXCEPT ![c] = [at |-> "save user", id |-> u,
                            copy |-> [user[u] EXCEPT !.status = s]]]
  /\ Begins(c, u \in exposed \/ BeingDeleted(user[u].acct))
  /\ UNCHANGED <<account, user, made, exposed>>

\* ... and save the whole copy, which inserts it again when it is gone.
UpdateUser(c) ==
  /\ h[c].at = "save user"
  /\ \/ /\ user' = [user EXCEPT ![h[c].id] = h[c].copy]
        /\ Writes(c, h[c].id)
     \/ UNCHANGED <<user, exposed>>
  /\ Done(c)
  /\ UNCHANGED <<account, made>>

DeleteUser(u) ==
  /\ user[u] # None
  /\ user' = [user EXCEPT ![u] = None]
  /\ UNCHANGED <<account, made, h, crossed, exposed>>

\* UpdateAccount, DisableAccount and EnableAccount, as far as users depend on
\* them.
LoadAccount(c, a, s) ==
  /\ h[c] = IdleHandler
  /\ account[a] # None
  /\ h' = [h EXCEPT ![c] = [at |-> "save account", acct |-> a, status |-> s]]
  /\ UNCHANGED <<account, user, made, crossed, exposed>>

UpdateAccount(c) ==
  /\ h[c].at = "save account"
  /\ account' = [account EXCEPT ![h[c].acct] = h[c].status] \/ UNCHANGED account
  /\ Done(c)
  /\ UNCHANGED <<user, made, exposed>>

\* Mutant of CheckNoUsers: disabled users do not count.
CheckNoActiveUsers(c, a) ==
  /\ h[c] = IdleHandler
  /\ account[a] # None
  /\ \A u \in UsersOf(a) : user[u].status = "disabled"
  /\ h' = [h EXCEPT ![c] = [at |-> "delete account", acct |-> a]]
  /\ crossed' = crossed \union AtUsersOf(a)
  /\ UNCHANGED <<account, user, made, exposed>>

\* DeleteAccount looks for users of the account ...
CheckNoUsers(c, a) ==
  /\ h[c] = IdleHandler
  /\ account[a] # None
  /\ UsersOf(a) = {}
  /\ h' = [h EXCEPT ![c] = [at |-> "delete account", acct |-> a]]
  /\ crossed' = crossed \union AtUsersOf(a)
  /\ UNCHANGED <<account, user, made, exposed>>

\* ... and deletes the row.
DeleteAccount(c) ==
  /\ h[c].at = "delete account"
  /\ account' = [account EXCEPT ![h[c].acct] = None] \/ UNCHANGED account
  /\ Done(c)
  /\ UNCHANGED <<user, made, exposed>>

Next ==
  \/ \E c \in Clients, a \in Accounts : CheckAccount(c, a) \/ CheckNoUsers(c, a)
  \/ \E c \in Clients, a \in Accounts, s \in Status : LoadAccount(c, a, s)
  \/ \E c \in Clients, u \in Users, s \in Status : LoadUser(c, u, s)
  \/ \E c \in Clients : CreateUser(c)
  \/ \E c \in Clients : UpdateUser(c)
  \/ \E c \in Clients : UpdateAccount(c)
  \/ \E c \in Clients : DeleteAccount(c)
  \/ \E u \in Users : DeleteUser(u)

Spec == Init /\ [][Next]_vars

-----------------------------------------------------------------------------
\* What a handler holds between its read and its write.
Checked == [at : {"create user", "delete account"}, acct : Accounts]
AccountCopy == [at : {"save account"}, acct : Accounts, status : Status]
UserCopy == [at : {"save user"}, id : Users, copy : Row]
Handler == {IdleHandler} \union Checked \union AccountCopy \union UserCopy

TypeOK ==
  /\ account \in [Accounts -> Status \union {None}]
  /\ user \in [Users -> Row \union {None}]
  /\ made \in SUBSET Users
  /\ \A u \in Users : user[u] # None => u \in made
  /\ h \in [Clients -> Handler]
  /\ \A c \in Clients : h[c].at = "save user" => h[c].id \in made
  /\ crossed \in SUBSET Clients
  /\ exposed \in SUBSET Users

\* No account is deleted that has users, as the handler documents: every user has
\* its account.  The check and the deletion are two calls of the database, so the
\* handlers of users that run across a deletion break it.
NoOrphans ==
  \A u \in Users : user[u] # None => account[user[u].acct] # None

\* They alone do: a user without its account was written by a handler that began
\* before the deletion of the account ended and wrote after its check for users, or
\* that had read such a user.
OrphansCrossedADeletion ==
  \A u \in Users \ exposed : user[u] # None => account[user[u].acct] # None
=============================================================================
