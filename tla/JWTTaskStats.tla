---------------------------- MODULE JWTTaskStats ----------------------------
(***************************************************************************)
(* GET /jwt-tasks/stats: GetJWTTaskStats lists the tasks of one status     *)
(* after the other, with five queries, while tasks move between statuses.  *)
(***************************************************************************)
EXTENDS TaskLifecycle, Sequences, FiniteSets

CONSTANTS
  StatLimit,   \* the limit of each query: 1000
  MaxMoves     \* bound: steps of the tasks during one call

ASSUME StatsAssumption ==
  IsFiniteSet(Tasks) /\ StatLimit \in Nat \ {0} /\ MaxMoves \in Nat

VARIABLES
  stats,       \* stats[s]: the number of tasks with status s, as read by the call
  asked,       \* how many of its queries the call has made
  moves        \* history: steps of the tasks since its first query

statVars == <<stats, asked, moves>>

\* Mutant of Asked: the query added last is missing.
AskedBefore == <<"pending", "processing", "completed", "failed">>

Asked == <<"pending", "processing", "completed", "failed", "retrying">>

With(s) == {t \in Tasks : status[t] = s}
Present == {t \in Tasks : status[t] # "absent"}

\* Len(list) of a query with a limit.
Listed(s) ==
  IF Cardinality(With(s)) > StatLimit THEN StatLimit ELSE Cardinality(With(s))

NoStats == [s \in {"pending", "processing", "completed", "failed", "retrying"} |-> 0]

StatsInit ==
  /\ Init
  /\ stats = NoStats
  /\ asked = 0
  /\ moves = 0

\* The next of the five queries.
CountNext ==
  /\ asked < Len(Asked)
  /\ asked' = asked + 1
  /\ stats' = [stats EXCEPT ![Asked[asked']] = Listed(Asked[asked'])]
  /\ UNCHANGED <<vars, moves>>

\* The call returns, with its answer or the error of a query; another may follow.
Return ==
  /\ asked > 0
  /\ stats' = NoStats
  /\ asked' = 0
  /\ moves' = 0
  /\ UNCHANGED vars

TaskMoves ==
  /\ Next
  /\ asked > 0 => moves < MaxMoves
  /\ moves' = IF asked = 0 THEN 0 ELSE moves + 1
  /\ UNCHANGED <<stats, asked>>

StatsNext == CountNext \/ Return \/ TaskMoves

StatsSpec == StatsInit /\ [][StatsNext]_<<vars, statVars>>

Total == stats["pending"] + stats["processing"] + stats["completed"]
           + stats["failed"] + stats["retrying"]

-----------------------------------------------------------------------------
\* The queries are no snapshot, a task may be counted in two statuses or in
\* none; but the total is off by no more than the tasks moved during the call,
\* and exact when none did, provided that no query hit its limit.
ErrorBoundedByMoves ==
  asked = Len(Asked) /\ Cardinality(Tasks) <= StatLimit =>
    /\ Total <= Cardinality(Present) + moves
    /\ Cardinality(Present) <= Total + moves
=============================================================================
