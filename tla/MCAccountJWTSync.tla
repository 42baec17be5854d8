-------------------------- MODULE MCAccountJWTSync --------------------------
(***************************************************************************)
(* Instances of AccountJWTSync for TLC, and what the documents say of it.  *)
(* To bound the instance, a behaviour has the requests of one part; what   *)
(* edits of accounts do to each other is looked at while the processor     *)
(* sleeps, for it only reads accounts.                                     *)
(***************************************************************************)
EXTENDS AccountJWTSync

CONSTANTS t1, t2, c1, h1, h2, a1, a2, k1, k2, x, y,
          Parts    \* which of them are looked at

VARIABLE part      \* bound: the one of this behaviour

TwoTasks == {t1, t2}
OneClient == {c1}
TwoHandlers == {h1, h2}
TwoAccounts == {a1, a2}
TheSecondAccount == {a2}
TwoClusters == {k1, k2}
FirstIsOrigin == [a \in Accounts |-> k1]
TwoItems == {x, y}
PushesAndEdits == {"pushes", "edits"}
JustDisabling == {"disabling"}

Create(a) == [op |-> "create", acct |-> a]
Disable(a) == [op |-> "disable", acct |-> a]
Enable(a) == [op |-> "enable", acct |-> a]
Delete(a) == [op |-> "delete", acct |-> a]
Add(a, i) == [op |-> "add", acct |-> a, item |-> i]
Drop(a, i) == [op |-> "drop", acct |-> a, item |-> i]
Update(a, L) ==
  [op |-> "update", acct |-> a, limits |-> L, disabled |-> None]
Sync(a, K) == [op |-> "sync", acct |-> a, clusters |-> K]

PushRequests ==
  {Create(a1), Add(a1, x), Delete(a1), Add(a2, x), Sync(a2, {k2})}
EditRequests ==
  {Create(a1), Add(a1, x), Update(a1, {y}), Delete(a1),
   Add(a2, x), Drop(a2, x), Add(a2, y), Update(a2, {y}), Disable(a2)}
DisableRequests == {Create(a1), Disable(a1), Enable(a1)}
TheRequests == PushRequests \union EditRequests \union DisableRequests

RequestsOf ==
  CASE part = "pushes" -> PushRequests
    [] part = "edits" -> EditRequests
    [] part = "disabling" -> DisableRequests

\* Handlers at rest are alike: the first one that is takes the request.
InOrder == h[h1] = IdleHandler /\ h[h2] = IdleHandler => h'[h2] = IdleHandler

\* Bound: one crash or failed write, of the processor or of a handler.
OneFault == faults' + failures' <= 1

PartsInit == Init /\ part \in Parts

PartsNext ==
  /\ Next
  /\ \A c \in Handlers : h'[c] # IdleHandler => h'[c].req \in RequestsOf
  /\ part = "edits" => batch' = {}
  /\ OneFault
  /\ InOrder
  /\ UNCHANGED part

PartsSpec == PartsInit /\ [][PartsNext]_<<vars, part>> /\ Fairness

-----------------------------------------------------------------------------
(* README, "JWT Task Processing": a disable operation deletes the JWT from *)
(* the NATS server.                                                        *)
DisabledIsRemoved ==
  \A t \in Tasks :
    /\ rows[t] # None
    /\ rows[t].status = "completed"
    /\ order[t].disable
    /\ account[order[t].acct] # None
    /\ account[order[t].acct].disabled
    => \A k \in Targets(t) : resolver[k][order[t].acct] = None
=============================================================================
