--------------------------- MODULE AccountJWTSync ---------------------------
(***************************************************************************)
(* The path of an account change to the clusters: the handlers of          *)
(* AccountService rewrite the account row and insert a JWT task; the task  *)
(* processor of JWTTaskQueue executes the task by reading the row again    *)
(* and pushing a freshly signed JWT to the resolvers of the clusters.      *)
(*                                                                         *)
(* A handler is a thread with one database call per step.  It reads the    *)
(* row, changes its copy, and saves the whole copy; gorm's Save inserts    *)
(* the row again when it is gone.  The content of an account is a version  *)
(* (which save wrote it: a history value, no column), the set of its       *)
(* exports and imports, and whether it is disabled.  A JWT carries the     *)
(* first two.                                                              *)
(***************************************************************************)
EXTENDS Naturals, FiniteSets

CONSTANTS
  Tasks, MaxRetries, UserTasks, BatchLimit, Clients, None, MaxResets, MaxFaults,
  Accounts,        \* the accounts that may exist
  SystemAccounts,  \* those with IsSystemAccount
  Clusters,        \* the managed clusters
  Origin,          \* Origin[a]: OriginClusterID
  Items,           \* names of exports and imports
  Handlers,        \* concurrent handlers of the account endpoints
  Requests,        \* the requests clients send (a subset of AllRequests)
  MayReject        \* may a resolver answer a push with an error

VARIABLES
  rows, batch, mem, cur, phase, asked, resets, faults,  \* of JWTTaskQueue
  account,   \* account[a]: the row of a, or None
  order,     \* order[t]: what the row of task t asks for, or None
  h,         \* h[c]: the local state of handler c
  push,      \* the processor's progress in pushing one JWT, or None
  failures,  \* failed writes of the handlers (bounded by MaxFaults)
  resolver,  \* resolver[k][a]: the JWT of a that cluster k holds, or None
  saves,     \* history: saves of account rows so far
  intended,  \* history: intended[a]: its items had no change been undone, or
             \* None before a is created
  missed,    \* history: missed[c]: what others changed of the account of handler
             \* c between its read and its save
  undone     \* history: undone[a]: what a save from such a copy put back

Q == INSTANCE JWTTaskQueue

queueVars == <<rows, batch, mem, cur, phase, asked, resets, faults>>
history == <<saves, intended, missed, undone>>
syncVars == <<account, order, h, push, failures, resolver, history>>
vars == <<queueVars, syncVars>>

\* A row of accounts, a signed JWT, what a task asks for, a JWT under way.
Content == [ver : Nat, items : SUBSET Items, disabled : BOOLEAN]
Token == [ver : Nat, items : SUBSET Items]
Order == [acct : Accounts, disable : BOOLEAN, ver : Nat,
          clusters : {None} \union SUBSET Clusters]
Push == [jwt : Token, todo : SUBSET Clusters, failed : BOOLEAN]

\* UpdateAccount may carry new limits, which replace all exports and imports,
\* and a new status.
AllRequests ==
  [op : {"create", "disable", "enable", "delete"}, acct : Accounts]
  \union [op : {"update"}, acct : Accounts, limits : {None} \union SUBSET Items,
          disabled : {None} \union BOOLEAN]
  \union [op : {"add", "drop"}, acct : Accounts, item : Items]
  \union [op : {"sync"}, acct : Accounts, clusters : SUBSET Clusters]

\* The queue's assumptions, and those on accounts; user tasks push nothing.
ASSUME SyncAssumption ==
  /\ MaxRetries \in Nat \ {0} /\ BatchLimit \in Nat \ {0}
  /\ MaxResets \in Nat /\ MaxFaults \in Nat
  /\ IsFiniteSet(Tasks) /\ IsFiniteSet(Handlers)
  /\ UserTasks = {}
  /\ SystemAccounts \subseteq Accounts
  /\ Origin \in [Accounts -> Clusters]
  /\ Requests \subseteq AllRequests
  /\ MayReject \in BOOLEAN

\* None (nil, no row, no result) is none of the values it stands next to.
ASSUME NoneIsNoValue ==
  /\ None \notin Tasks
  /\ None \notin Q!Row
  /\ None \notin Content
  /\ None \notin Token
  /\ None \notin Order
  /\ None \notin Push
  /\ \A S \in SUBSET Items : S # None
  /\ \A S \in SUBSET Clusters : S # None
  /\ None \notin BOOLEAN

\* What a handler holds between its database calls.
IdleHandler == [at |-> "idle"]
State == [at : {"loaded", "saved"}, req : Requests, copy : Content]
Busy == {c \in Handlers : h[c] # IdleHandler}
FreeTasks == {t \in Tasks : rows[t] = None}

\* Mutant of Targets: only a manual task pushes.
TargetsByHand(t) == IF order[t].clusters # None THEN order[t].clusters ELSE {}

\* The clusters task t pushes to: those a manual task names, else the origin;
\* an automatic task of a system account pushes nowhere.
Targets(t) ==
  LET o == order[t] IN
  IF o.clusters # None THEN o.clusters
  ELSE IF o.acct \in SystemAccounts THEN {}
  ELSE {Origin[o.acct]}

\* CreateAccountJWT: whether the account is disabled leaves no trace.
Signed(a, row) ==
  [ver |-> row.ver, items |-> IF a \in SystemAccounts THEN {} ELSE row.items]

\* No endpoint makes a system account: their rows are there from the start.
Init ==
  /\ Q!Init
  /\ account = [a \in Accounts |->
       IF a \in SystemAccounts
         THEN [ver |-> 0, items |-> {}, disabled |-> FALSE] ELSE None]
  /\ order = [t \in Tasks |-> None]
  /\ h = [c \in Handlers |-> IdleHandler]
  /\ push = None
  /\ resolver = [k \in Clusters |-> [a \in Accounts |-> None]]
  /\ failures = 0
  /\ saves = 0
  /\ intended = [a \in Accounts |-> IF a \in SystemAccounts THEN {} ELSE None]
  /\ missed = [c \in Handlers |-> {}]
  /\ undone = [a \in Accounts |-> {}]

-----------------------------------------------------------------------------
(* The handlers.                                                           *)

\* What request r makes of a set of exports and imports.
Edited(r, items) ==
  CASE r.op = "add"  -> items \union {r.item}
    [] r.op = "drop" -> items \ {r.item}
    [] r.op = "update" /\ r.limits # None ->
         IF r.acct \in SystemAccounts THEN {} ELSE r.limits
    [] OTHER         -> items

WantsDisabled(r) == r.op = "disable" \/ (r.op = "update" /\ r.disabled = TRUE)
WantsEnabled(r) == r.op = "enable" \/ (r.op = "update" /\ r.disabled = FALSE)

\* Mutant of Applied: a change of the status saves a row of its own making.
AppliedAfresh(r, row) ==
  [row EXCEPT !.items = IF r.op \in {"disable", "enable"} THEN {} ELSE Edited(r, @),
              !.disabled = WantsDisabled(r) \/ (@ /\ ~ WantsEnabled(r))]

\* What the copy of the account becomes before it is saved.
Applied(r, row) ==
  [row EXCEPT !.items = Edited(r, @),
              !.disabled = WantsDisabled(r) \/ (@ /\ ~ WantsEnabled(r))]

\* The checks a handler makes on the row it read; when one fails the request
\* is answered with an error and nothing has changed.
Accepted(r) ==
  /\ account[r.acct] # None
  /\ r.op = "add" => r.item \notin account[r.acct].items
  /\ r.op = "drop" => r.item \in account[r.acct].items

\* The first read of a handler, and the changes it makes in memory.  Bound: a
\* request starts only while there is a task identifier left for it.
Load(c, r) ==
  /\ h[c] = IdleHandler
  /\ r.op # "create" /\ Accepted(r)
  /\ Cardinality(FreeTasks) > Cardinality(Busy)
  /\ h' = [h EXCEPT ![c] = [at |-> IF r.op = "sync" THEN "saved" ELSE "loaded",
                            req |-> r, copy |-> Applied(r, account[r.acct])]]
  /\ UNCHANGED <<queueVars, account, order, push, failures, resolver, history>>

\* CreateAccount inserts the row, under a fresh identifier.
CreateAccount(c, r) ==
  LET row == [ver |-> saves + 1, items |-> {}, disabled |-> FALSE] IN
  /\ h[c] = IdleHandler
  /\ r.op = "create"
  /\ intended[r.acct] = None
  /\ Cardinality(FreeTasks) > Cardinality(Busy)
  /\ account' = [account EXCEPT ![r.acct] = row]
  /\ intended' = [intended EXCEPT ![r.acct] = {}]
  /\ saves' = saves + 1
  /\ h' = [h EXCEPT ![c] = [at |-> "loaded", req |-> r, copy |-> row]]
  /\ UNCHANGED <<queueVars, order, push, failures, resolver, missed, undone>>

\* A database call of a handler fails.
WriteFails == failures < MaxFaults /\ failures' = failures + 1
WriteWorks == UNCHANGED failures

\* History: handler c is about to save the copy of account a that it read;
HoldsCopy(c, a) ==
  h[c].at = "loaded" /\ h[c].req.op # "delete" /\ h[c].req.acct = a

\* what request r asks to be among the exports and imports, what not to be,
LimitsOf(r) ==
  IF r.op = "update" /\ r.limits # None /\ r.acct \notin SystemAccounts
    THEN r.limits ELSE {}
Granted(r) == IF r.op = "add" THEN {r.item} ELSE LimitsOf(r)
Withdrawn(r) ==
  IF r.op = "drop" THEN {r.item}
  ELSE IF r.op = "update" /\ r.limits # None THEN Items \ LimitsOf(r)
  ELSE {}
Changed(r) == Granted(r) \union Withdrawn(r)

\* and what becomes of it when c saves its copy for r.
Record(c, r) ==
  /\ saves' = saves + 1
  /\ intended' = [intended EXCEPT ![r.acct] = (@ \ Withdrawn(r)) \union Granted(r)]
  /\ missed' = [d \in Handlers |->
       IF d = c THEN {}
       ELSE missed[d] \union (IF HoldsCopy(d, r.acct) THEN Changed(r) ELSE {})]
  /\ undone' = [undone EXCEPT ![r.acct] = (@ \union missed[c]) \ Changed(r)]

\* Save of the whole copy, an upsert.  When it fails the handler gives up,
\* but a failed save of the creds of a new account is only reported.
SaveAccount(c) ==
  LET r == h[c].req
      written == [h[c].copy EXCEPT !.ver = saves + 1]
  IN
  /\ h[c].at = "loaded"
  /\ r.op # "delete"
  /\ \/ /\ account' = [account EXCEPT ![r.acct] = written]
        /\ Record(c, r)
        /\ h' = [h EXCEPT ![c].at = "saved", ![c].copy = written]
        /\ WriteWorks
     \/ /\ WriteFails
        /\ h' = [h EXCEPT ![c] = IF r.op = "create" THEN [@ EXCEPT !.at = "saved"]
                                 ELSE IdleHandler]
        /\ missed' = [missed EXCEPT ![c] = {}]
        /\ UNCHANGED <<account, saves, intended, undone>>
  /\ UNCHANGED <<queueVars, order, push, resolver>>

\* Mutant of CreateTask: none is created while one for the account is unfinished.
CreateTaskOnce(c) ==
  LET r == h[c].req
      unfinished == {t \in Tasks \ FreeTasks :
        /\ order[t].acct = r.acct
        /\ rows[t].status \notin {"completed", "failed"}}
  IN
  /\ h[c].at = "saved"
  /\ IF unfinished # {} THEN UNCHANGED <<queueVars, order>>
     ELSE \E t \in {CHOOSE free \in FreeTasks : TRUE} :
            /\ Q!CreateJWTTask(t)
            /\ order' = [order EXCEPT ![t] =
                 [acct |-> r.acct, disable |-> WantsDisabled(r),
                  ver |-> h[c].copy.ver, clusters |-> None]]
  /\ h' = [h EXCEPT ![c] = IdleHandler]
  /\ UNCHANGED <<account, push, failures, resolver, history>>

\* createJWTTask and CreateManualSyncJWTTask: the task is inserted after the
\* account was saved, not with it.  The version is history: what the task was
\* created to deliver.
CreateTask(c) ==
  LET r == h[c].req IN
  /\ h[c].at = "saved"
  /\ \/ \E t \in {CHOOSE free \in FreeTasks : TRUE} :
          /\ Q!CreateJWTTask(t)
          /\ order' = [order EXCEPT ![t] =
               [acct |-> r.acct, disable |-> WantsDisabled(r),
                ver |-> h[c].copy.ver,
                clusters |-> IF r.op = "sync" THEN r.clusters ELSE None]]
          /\ WriteWorks
     \/ WriteFails /\ UNCHANGED <<queueVars, order>>
  /\ h' = [h EXCEPT ![c] = IdleHandler]
  /\ UNCHANGED <<account, push, resolver, history>>

\* Mutant of DeleteAccount: the tasks of the account are deleted with it.
DeleteAccountWithTasks(c) ==
  /\ h[c].at = "loaded"
  /\ h[c].req.op = "delete"
  /\ account' = [account EXCEPT ![h[c].req.acct] = None]
  /\ rows' = [t \in Tasks |->
       IF rows[t] # None /\ order[t].acct = h[c].req.acct THEN None ELSE rows[t]]
  /\ h' = [h EXCEPT ![c] = IdleHandler]
  /\ UNCHANGED <<batch, mem, cur, phase, asked, resets, faults,
                 order, push, failures, resolver, history>>

\* DeleteAccount for an account without users: neither a task nor a push.
DeleteAccount(c) ==
  /\ h[c].at = "loaded"
  /\ h[c].req.op = "delete"
  /\ \/ account' = [account EXCEPT ![h[c].req.acct] = None] /\ WriteWorks
     \/ WriteFails /\ UNCHANGED account
  /\ h' = [h EXCEPT ![c] = IdleHandler]
  /\ UNCHANGED <<queueVars, order, push, resolver, history>>

-----------------------------------------------------------------------------
(* The processor.                                                          *)

\* The steps of the queue that touch neither accounts nor clusters.
Dispatch ==
  /\ \/ Q!ProcessPendingTasks
     \/ \E t \in Tasks : Q!ClaimTask(t)
     \/ Q!CompleteTask
     \/ Q!HandleTaskError
  /\ UNCHANGED syncVars

\* Mutant of ReadAccount: the JWT is made of what was saved when the task was
\* created.
ReadSnapshot ==
  LET a == order[cur].acct IN
  /\ phase = "execute"
  /\ push = None
  /\ account[a] # None
  /\ push' = [jwt |-> [Signed(a, account[a]) EXCEPT !.ver = order[cur].ver],
              todo |-> Targets(cur), failed |-> FALSE]
  /\ UNCHANGED <<queueVars, account, order, h, failures, resolver, history>>

\* processAccountTask reads the account and signs a JWT of what it read.
ReadAccount ==
  /\ phase = "execute"
  /\ push = None
  /\ account[order[cur].acct] # None
  /\ push' = [jwt |-> Signed(order[cur].acct, account[order[cur].acct]),
              todo |-> Targets(cur), failed |-> FALSE]
  /\ UNCHANGED <<queueVars, account, order, h, failures, resolver, history>>

\* The account is gone, reading it fails or signing fails: the attempt ends
\* with an error and without results.
PrepareFails ==
  /\ push = None
  /\ Q!ExecuteTask("error")
  /\ UNCHANGED syncVars

\* pushAccountJWTToCluster: connecting fails, or the request is sent.  Sent, it
\* takes effect or not, and is answered or times out; an answer counts as
\* success whatever it says.
PushAccountJWTToCluster(k) ==
  LET a == order[cur].acct IN
  /\ phase = "execute"
  /\ push # None
  /\ k \in push.todo
  /\ \E effect, answered \in BOOLEAN :
       /\ answered /\ ~ effect => MayReject
       /\ resolver' = IF effect THEN [resolver EXCEPT ![k][a] = push.jwt]
                      ELSE resolver
       /\ push' = [push EXCEPT !.todo = @ \ {k}, !.failed = @ \/ ~ answered]
  /\ UNCHANGED <<queueVars, account, order, h, failures, history>>

\* Mutant of CollectResults: the results are not looked at.
CollectAnyResults ==
  /\ push # None
  /\ push.todo = {}
  /\ Q!ExecuteTask("allOk")
  /\ push' = None
  /\ UNCHANGED <<account, order, h, failures, resolver, history>>

\* The results of all clusters are in.
CollectResults ==
  /\ push # None
  /\ push.todo = {}
  /\ Q!ExecuteTask(IF push.failed THEN "someFailed" ELSE "allOk")
  /\ push' = None
  /\ UNCHANGED <<account, order, h, failures, resolver, history>>

\* The operator's retries.
OperatorRetry ==
  /\ \/ \E c \in Clients, t \in Tasks : Q!RetryCheck(c, t)
     \/ \E c \in Clients : Q!RetryJWTTask(c)
  /\ UNCHANGED syncVars

Crash ==
  /\ Q!Crash
  /\ h' = [c \in Handlers |-> IdleHandler]
  /\ push' = None
  /\ missed' = [c \in Handlers |-> {}]
  /\ UNCHANGED <<account, order, failures, resolver, saves, intended, undone>>

Processor ==
  \/ Dispatch
  \/ ReadAccount
  \/ PrepareFails
  \/ \E k \in Clusters : PushAccountJWTToCluster(k)
  \/ CollectResults

\* What a handler that has started does next.
Handle(c) == SaveAccount(c) \/ CreateTask(c) \/ DeleteAccount(c)

Next ==
  \/ \E c \in Handlers, r \in Requests : Load(c, r) \/ CreateAccount(c, r)
  \/ \E c \in Handlers : SaveAccount(c)
  \/ \E c \in Handlers : CreateTask(c)
  \/ \E c \in Handlers : DeleteAccount(c)
  \/ Processor
  \/ OperatorRetry
  \/ Crash

\* The processor never waits for ever (JWTTaskQueue), and a handler runs to
\* its end.
Fairness == WF_vars(Processor) /\ \A c \in Handlers : WF_vars(Handle(c))

Spec == Init /\ [][Next]_vars
FairSpec == Spec /\ Fairness

-----------------------------------------------------------------------------
TypeOK ==
  /\ Q!TypeOK
  /\ account \in [Accounts -> Content \union {None}]
  /\ order \in [Tasks -> Order \union {None}]
  /\ h \in [Handlers -> {IdleHandler} \union State]
  /\ \A t \in Tasks : rows[t] = None <=> order[t] = None
  /\ push # None => phase = "execute"
  /\ push # None =>
       push \in Push /\ push.todo \subseteq Targets(cur)
  /\ resolver \in [Clusters -> [Accounts -> Token \union {None}]]
  /\ failures \in 0..MaxFaults
  /\ saves \in Nat
  /\ intended \in [Accounts -> {None} \union SUBSET Items]
  /\ missed \in [Handlers -> SUBSET Items]
  /\ undone \in [Accounts -> SUBSET Items]

InSync(a) == resolver[Origin[a]][a] = Signed(a, account[a])

\* Handler c has written the row of a and is about to insert the task.
TaskIsComing(c, a) ==
  /\ h[c] # IdleHandler
  /\ h[c].req.acct = a
  /\ \/ h[c].at = "saved" /\ h[c].req.op # "sync"
     \/ h[c].req.op = "create"

\* Task t will still push what the row of a now says, or has failed and shows.
WillDeliver(t, a) ==
  /\ rows[t] # None
  /\ order[t].acct = a
  /\ Origin[a] \in Targets(t)
  /\ \/ rows[t].status \in {"pending", "retrying", "failed"}
     \/ t = cur /\ phase = "fail"
     \/ t = cur /\ phase = "execute" /\ push = None
     \/ /\ t = cur /\ phase = "execute"
        /\ push.jwt = Signed(a, account[a])
        /\ Origin[a] \in push.todo \/ push.failed

\* As long as nothing fails but pushes, an account whose cluster of origin
\* holds something else than its row says has a task under way that will
\* bring it there, or one that tells the operator that it did not.
DriftIsCovered ==
  faults = 0 /\ failures = 0 =>
    \A a \in Accounts \ SystemAccounts :
      account[a] # None /\ ~ InSync(a) =>
        \/ \E c \in Handlers : TaskIsComing(c, a)
        \/ \E t \in Tasks : WillDeliver(t, a)

\* A completed task means that every cluster it was for holds the account as
\* of the change the task was created for, or newer.
CompletedMeansDelivered ==
  \A t \in Tasks :
    rows[t] # None /\ rows[t].status = "completed" =>
      \A k \in Targets(t) :
        LET jwt == resolver[k][order[t].acct] IN
        jwt # None /\ jwt.ver >= order[t].ver

\* Tasks are executed in any order and again after failures and restarts, yet
\* no push replaces the JWT a cluster holds by an older one.
ResolverNeverGoesBack ==
  [][\A k \in Clusters, a \in Accounts :
       resolver[k][a] # None =>
         resolver'[k][a] # None /\ resolver'[k][a].ver >= resolver[k][a].ver]_vars

\* However handlers overlap, fail half-way and die, each export and import of
\* an account is as the last request whose save succeeded asked for, but for
\* those a save has put back whose handler had read the account before another
\* handler changed them: no handler saves a row of its own making, and no
\* other change goes with the ones that are lost.
NoLostUpdate ==
  \A a \in Accounts :
    account[a] # None =>
      \A i \in Items \ undone[a] : i \in account[a].items <=> i \in intended[a]

\* With these handlers and pushes around it, the queue still behaves as
\* JWTTaskQueue says, so what is shown and proved there holds here.
ImplementsQueue == Q!Spec

\* An account out of step with its cluster of origin gets there, or is deleted,
\* or has a failed task to show for it, unless a write or the process failed.
EventuallyInSync ==
  \A a \in Accounts \ SystemAccounts :
    account[a] # None ~>
      \/ account[a] = None
      \/ InSync(a)
      \/ \E t \in Tasks : rows[t] # None /\ rows[t].status = "failed"
                          /\ order[t].acct = a
      \/ faults + failures > 0
=============================================================================
