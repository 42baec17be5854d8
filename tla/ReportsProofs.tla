---------------------------- MODULE ReportsProofs ----------------------------
(***************************************************************************)
(* Proofs about what the API tells: the statistics of the JWT tasks are as *)
(* wrong as tasks moved while they were counted, and every handler answers *)
(* with what has happened.                                                 *)
(***************************************************************************)
EXTENDS JWTTaskStats, ApiAnswers, FiniteSetTheorems, TLAPS

Statuses == {"absent", "pending", "processing", "completed", "failed", "retrying"}

\* The tasks whose status has been asked for.
Covered == {t \in Tasks : \E i \in 1..asked : status[t] = Asked[i]}

StatsTypeOK ==
  /\ status \in [Tasks -> Statuses]
  /\ stats \in [Statuses \ {"absent"} -> Nat]
  /\ asked \in 0..5
  /\ moves \in Nat
  /\ \A i \in asked + 1..5 : stats[Asked[i]] = 0

\* What was counted so far is what has the statuses asked for, but for the moves.
CoveredOK ==
  Cardinality(Tasks) <= StatLimit =>
    /\ Total <= Cardinality(Covered) + moves
    /\ Cardinality(Covered) <= Total + moves

StatsInv == StatsTypeOK /\ CoveredOK

\* Any tasks are finitely many.
LEMMA TasksAreFinite ==
  ASSUME NEW S \in SUBSET Tasks
  PROVE  /\ IsFiniteSet(S) /\ Cardinality(S) \in Nat
         /\ Cardinality(S) <= Cardinality(Tasks) /\ Cardinality(Tasks) \in Nat
  BY FS_Subset, FS_CardinalityType, StatsAssumption

\* Two sets of tasks that differ in one task differ in number by one at most.
LEMMA OffByOne ==
  ASSUME NEW S \in SUBSET Tasks, NEW T \in SUBSET Tasks, NEW t \in Tasks,
         S \ {t} = T \ {t}
  PROVE  Cardinality(S) <= Cardinality(T) + 1
  <1>1. /\ IsFiniteSet(S) /\ Cardinality(S) \in Nat
        /\ IsFiniteSet(T) /\ Cardinality(T) \in Nat
    BY TasksAreFinite
  <1>2. /\ Cardinality(S \ {t}) = IF t \in S THEN Cardinality(S) - 1 ELSE Cardinality(S)
        /\ Cardinality(T \ {t}) = IF t \in T THEN Cardinality(T) - 1 ELSE Cardinality(T)
    BY <1>1, FS_RemoveElement
  <1> QED BY <1>1, <1>2

\* A task that moves stays a task with a status, and no other moves.
LEMMA OneTaskMoves ==
  ASSUME status \in [Tasks -> Statuses], Next
  PROVE  /\ status' \in [Tasks -> Statuses]
         /\ \E t \in Tasks : \A u \in Tasks : u # t => status'[u] = status[u]
  <1>1. PICK t \in Tasks :
          \E s \in Statuses : status' = [status EXCEPT ![t] = s]
    BY DEF Next, Create, Begin, Succeed, FailAttempt, GiveUp, OperatorRetry, Move, Statuses
  <1> QED BY <1>1

\* The next query adds the tasks with its status.
LEMMA CountKeeps ==
  ASSUME StatsInv, CountNext
  PROVE  StatsInv'
  <1> USE DEF CountNext, vars
  <1>1. /\ asked \in 0..4 /\ asked' = asked + 1 /\ asked' \in 1..5
        /\ status' = status /\ moves' = moves
    BY DEF StatsInv, StatsTypeOK, Asked
  <1>2. PICK s \in Statuses \ {"absent"} : s = Asked[asked + 1]
    BY <1>1 DEF Asked, Statuses
  <1>3. /\ With(s) \in SUBSET Tasks
        /\ Covered \in SUBSET Tasks
        /\ Covered' = Covered \union With(s)
    BY <1>1, <1>2 DEF Covered, With
  <1>4. Covered \intersect With(s) = {}
    <2>1. \A i \in 1..asked : Asked[i] # s
      BY <1>1, <1>2 DEF Asked
    <2> QED BY <2>1 DEF Covered, With
  <1>5. /\ Cardinality(Covered') = Cardinality(Covered) + Cardinality(With(s))
        /\ Cardinality(Covered) \in Nat /\ Cardinality(With(s)) \in Nat
        /\ Cardinality(With(s)) <= Cardinality(Tasks) /\ Cardinality(Tasks) \in Nat
    <2>1. /\ IsFiniteSet(Covered) /\ IsFiniteSet(With(s))
          /\ Cardinality(Covered) \in Nat /\ Cardinality(With(s)) \in Nat
          /\ Cardinality(With(s)) <= Cardinality(Tasks) /\ Cardinality(Tasks) \in Nat
      BY <1>3, TasksAreFinite
    <2>2. Cardinality(Covered \union With(s))
            = Cardinality(Covered) + Cardinality(With(s))
                - Cardinality(Covered \intersect With(s))
      BY <2>1, FS_Union
    <2>3. Cardinality(Covered \intersect With(s)) = 0
      BY <1>4, FS_EmptySet
    <2> QED BY <1>3, <2>1, <2>2, <2>3
  <1>6. PICK n \in Nat : n = Listed(s)
    BY <1>5, StatsAssumption DEF Listed
  <1>7. /\ stats \in [Statuses \ {"absent"} -> Nat]
        /\ stats' = [stats EXCEPT ![s] = n]
        /\ stats[s] = 0
    BY <1>1, <1>2, <1>6 DEF StatsInv, StatsTypeOK
  <1>8. StatsTypeOK'
    <2>1. stats' \in [Statuses \ {"absent"} -> Nat]
      BY <1>7
    <2>2. \A i \in asked' + 1..5 : stats'[Asked[i]] = 0
      <3>1. \A i \in asked + 2..5 : Asked[i] # s /\ Asked[i] \in Statuses \ {"absent"}
        BY <1>1, <1>2 DEF Asked, Statuses
      <3> QED BY <1>1, <1>7, <3>1 DEF StatsInv, StatsTypeOK
    <2> QED BY <1>1, <2>1, <2>2 DEF StatsInv, StatsTypeOK
  <1>9. Total' = Total + n /\ Total \in Nat
    <2> DEFINE five == {"pending", "processing", "completed", "failed", "retrying"}
    <2>1. five = Statuses \ {"absent"} /\ s \in five
      BY DEF Statuses
    <2>2. \A x \in five : stats[x] \in Nat /\ stats'[x] = IF x = s THEN n ELSE stats[x]
      BY <1>7, <2>1
    <2>3. \/ s = "pending" \/ s = "processing" \/ s = "completed"
          \/ s = "failed" \/ s = "retrying"
      BY <2>1
    <2>4. PICK a \in Nat : a = stats["pending"]
      BY <2>2
    <2>5. PICK b \in Nat : b = stats["processing"]
      BY <2>2
    <2>6. PICK c \in Nat : c = stats["completed"]
      BY <2>2
    <2>7. PICK d \in Nat : d = stats["failed"]
      BY <2>2
    <2>8. PICK e \in Nat : e = stats["retrying"]
      BY <2>2
    <2>9. Total = a + b + c + d + e
      BY <2>4, <2>5, <2>6, <2>7, <2>8 DEF Total
    <2>10. CASE s = "pending"
      <3>1. Total' = n + b + c + d + e
        BY <2>2, <2>4, <2>5, <2>6, <2>7, <2>8, <2>10 DEF Total
      <3>2. a = 0
        BY <1>7, <2>4, <2>10
      <3> HIDE DEF Total
      <3> QED BY <2>9, <3>1, <3>2
    <2>11. CASE s = "processing"
      <3>1. Total' = a + n + c + d + e
        BY <2>2, <2>4, <2>5, <2>6, <2>7, <2>8, <2>11 DEF Total
      <3>2. b = 0
        BY <1>7, <2>5, <2>11
      <3> HIDE DEF Total
      <3> QED BY <2>9, <3>1, <3>2
    <2>12. CASE s = "completed"
      <3>1. Total' = a + b + n + d + e
        BY <2>2, <2>4, <2>5, <2>6, <2>7, <2>8, <2>12 DEF Total
      <3>2. c = 0
        BY <1>7, <2>6, <2>12
      <3> HIDE DEF Total
      <3> QED BY <2>9, <3>1, <3>2
    <2>13. CASE s = "failed"
      <3>1. Total' = a + b + c + n + e
        BY <2>2, <2>4, <2>5, <2>6, <2>7, <2>8, <2>13 DEF Total
      <3>2. d = 0
        BY <1>7, <2>7, <2>13
      <3> HIDE DEF Total
      <3> QED BY <2>9, <3>1, <3>2
    <2>14. CASE s = "retrying"
      <3>1. Total' = a + b + c + d + n
        BY <2>2, <2>4, <2>5, <2>6, <2>7, <2>8, <2>14 DEF Total
      <3>2. e = 0
        BY <1>7, <2>8, <2>14
      <3> HIDE DEF Total
      <3> QED BY <2>9, <3>1, <3>2
    <2> QED BY <2>3, <2>10, <2>11, <2>12, <2>13, <2>14
  <1>10. CoveredOK'
    <2> SUFFICES ASSUME Cardinality(Tasks) <= StatLimit
                 PROVE  /\ Total' <= Cardinality(Covered') + moves'
                        /\ Cardinality(Covered') <= Total' + moves'
      BY DEF CoveredOK
    <2>1. n = Cardinality(With(s))
      BY <1>5, <1>6, StatsAssumption DEF Listed
    <2>2. /\ Total <= Cardinality(Covered) + moves
          /\ Cardinality(Covered) <= Total + moves
          /\ moves \in Nat
      BY DEF StatsInv, CoveredOK, StatsTypeOK
    <2> QED BY <1>1, <1>5, <1>9, <2>1, <2>2
  <1> QED BY <1>8, <1>10 DEF StatsInv

\* A task that moves changes the number of those covered by one at most, and of
\* none before the first query.
LEMMA MoveKeeps ==
  ASSUME StatsInv, TaskMoves
  PROVE  StatsInv'
  <1> USE DEF TaskMoves
  <1>1. PICK t \in Tasks : \A u \in Tasks : u # t => status'[u] = status[u]
    BY OneTaskMoves DEF StatsInv, StatsTypeOK
  <1>2. /\ asked \in 0..5 /\ asked' = asked /\ stats' = stats
        /\ Total' = Total /\ moves \in Nat
        /\ Total \in Nat
    BY DEF StatsInv, StatsTypeOK, Total, Statuses
  <1>3. StatsTypeOK'
    <2>1. status' \in [Tasks -> Statuses]
      BY OneTaskMoves DEF StatsInv, StatsTypeOK
    <2> QED BY <1>2, <2>1 DEF StatsInv, StatsTypeOK
  <1>4. /\ Covered \in SUBSET Tasks /\ Covered' \in SUBSET Tasks
        /\ Covered \ {t} = Covered' \ {t}
    BY <1>1, <1>2 DEF Covered
  <1>5. /\ Cardinality(Covered) <= Cardinality(Covered') + 1
        /\ Cardinality(Covered') <= Cardinality(Covered) + 1
        /\ Cardinality(Covered) \in Nat /\ Cardinality(Covered') \in Nat
    BY <1>4, OffByOne, TasksAreFinite
  <1>6. CoveredOK'
    <2>1. CASE asked = 0
      <3>1. Covered' = {} /\ Covered = {} /\ moves' = 0
        BY <1>2, <2>1 DEF Covered
      <3>2. Total = 0
        BY <2>1 DEF StatsInv, StatsTypeOK, Total, Asked
      <3>3. Cardinality(Covered') = 0
        BY <3>1, FS_EmptySet
      <3> QED BY <1>2, <3>1, <3>2, <3>3 DEF CoveredOK
    <2>2. CASE asked # 0
      <3>1. moves' = moves + 1
        BY <2>2
      <3> QED BY <1>2, <1>5, <3>1 DEF StatsInv, CoveredOK
    <2> QED BY <2>1, <2>2
  <1> QED BY <1>3, <1>6 DEF StatsInv

\* In the beginning, and between two calls, nothing is counted.
LEMMA NothingCounted ==
  ASSUME NEW st \in [Tasks -> Statuses]
  PROVE  status = st /\ stats = NoStats /\ asked = 0 /\ moves = 0 => StatsInv
  <1> SUFFICES ASSUME status = st, stats = NoStats, asked = 0, moves = 0 PROVE StatsInv
    OBVIOUS
  <1>1. StatsTypeOK
    BY DEF StatsTypeOK, NoStats, Asked, Statuses
  <1>2. Covered = {} /\ Total = 0
    BY DEF Covered, Total, NoStats
  <1>3. Cardinality(Covered) = 0
    BY <1>2, FS_EmptySet
  <1> QED BY <1>1, <1>2, <1>3 DEF StatsInv, CoveredOK

\* The total of the statistics is off by no more than the tasks that moved during
\* the call, for any tasks, in whatever order they move.
THEOREM StatisticsAreNearTruth == StatsSpec => []ErrorBoundedByMoves
  <1>1. StatsInit => StatsInv
    BY NothingCounted DEF StatsInit, Init, Statuses
  <1>2. StatsInv /\ [StatsNext]_<<vars, statVars>> => StatsInv'
    <2> SUFFICES ASSUME StatsInv, [StatsNext]_<<vars, statVars>> PROVE StatsInv'
      OBVIOUS
    <2>1. CASE CountNext
      BY <2>1, CountKeeps
    <2>2. CASE Return
      <3>1. /\ status' = status /\ stats' = NoStats /\ asked' = 0 /\ moves' = 0
            /\ status \in [Tasks -> Statuses]
        BY <2>2 DEF Return, vars, StatsInv, StatsTypeOK
      <3>2. StatsTypeOK'
        BY <3>1 DEF StatsTypeOK, NoStats, Asked, Statuses
      <3>3. Covered' = {} /\ Total' = 0
        BY <3>1 DEF Covered, Total, NoStats
      <3>4. Cardinality({}) = 0
        BY FS_EmptySet
      <3> QED BY <3>1, <3>2, <3>3, <3>4 DEF StatsInv, CoveredOK
    <2>3. CASE TaskMoves
      BY <2>3, MoveKeeps
    <2>4. CASE UNCHANGED <<vars, statVars>>
      BY <2>4 DEF vars, statVars, StatsInv, StatsTypeOK, CoveredOK, Covered, Total
    <2> QED BY <2>1, <2>2, <2>3, <2>4 DEF StatsNext
  <1>3. StatsInv => ErrorBoundedByMoves
    <2> SUFFICES ASSUME StatsInv, asked = Len(Asked) PROVE Covered = Present
      BY DEF ErrorBoundedByMoves, StatsInv, CoveredOK
    <2>1. asked = 5
      BY DEF Asked
    <2>2. \A s \in Statuses : s # "absent" <=> \E i \in 1..5 : s = Asked[i]
      BY DEF Asked, Statuses
    <2> QED BY <2>1, <2>2 DEF Covered, Present, StatsInv, StatsTypeOK
  <1> QED BY <1>1, <1>2, <1>3, PTL DEF StatsSpec

-----------------------------------------------------------------------------
(* The answers of the API.  What the properties need of a handler is a         *)
(* condition on its script, which every script is shown to meet; the rest is   *)
(* the same for all of them.                                                   *)

Passive == {"check", "rule", "never", "query", "find", "unique", "skip"}
Acting == {"insert", "save", "remove", "tell", "erase", "try", "each", "spawn"}
Lasting == Acting \ {"try"}
Once == {"insert", "remove"}
Gone == {"remove", "erase", "each"}
Remote == {"tell", "erase"}
Successes == 200..299
ClientErrors == 400..499
Failures == 400..599

\* What a failure is answered with, where these answers are documented; 0 if not.
Errors(docs) == {0} \union (docs \intersect Failures)

StepOK(s, docs) ==
  /\ s.kind \in Passive \union Acting
  /\ s.no \in Errors(docs)
  /\ s.fail \in Errors(docs)
  /\ s.skip \in Nat

IsScript(q) == q \in Seq(Elements(q))

\* Nothing that a client may correct comes after an effect.
Made(q, docs) ==
  /\ IsScript(q)
  /\ \A i \in 1..Len(q) : StepOK(q[i], docs)
  /\ \A i, j \in 1..Len(q) :
       q[i].kind \in Acting /\ (i < j \/ (i = j /\ q[i].kind \in Remote)) =>
         q[j].no \notin ClientErrors /\ q[j].fail \notin ClientErrors

\* A success is told by a code of its own.
Answering(e, docs) ==
  /\ Made(e.script, docs)
  /\ e.ok \in docs \intersect Successes /\ e.partly \in docs \intersect Successes
  /\ (\E i \in 1..Len(e.script) : e.script[i].kind = "each") => e.partly # e.ok

\* What a step skips is what is done to the record it names.
Skipping(q) ==
  \A i, j \in 1..Len(q) :
    i < j /\ j <= i + q[i].skip /\ q[j].kind \in Lasting => q[j].on = q[i].on

\* A script that can be run again: nothing can fail after what must not be done
\* twice, nothing is looked for, or must not be there, that it did before, and nothing
\* is deleted on a cluster, which may have done so when it said it failed.
Repeating(q) ==
  \A i, j \in 1..Len(q) :
    /\ q[i].kind \in Once /\ i < j => q[j].fail = 0 /\ q[j].kind \notin {"find", "unique"}
    /\ q[i].kind \in Once /\ i # j => q[j].on # q[i].on \/ q[j].kind \notin Acting
    /\ q[i].kind = "each" => q[j].kind \notin Lasting \ {"each"} /\ q[j].kind # "find"
    /\ q[i].kind = "unique" /\ q[j].on = q[i].on => q[j].kind \notin Acting \ Once
    /\ q[i].kind = "never" => q[j].kind \notin Lasting
    /\ q[i].kind # "erase"

\* The same of two steps, the first of which comes before the second.
Apart(a, b) ==
  /\ a.kind \in Once => b.fail = 0 /\ b.kind \notin {"find", "unique"}
  /\ a.kind \in Once \/ b.kind \in Once =>
       a.on # b.on \/ a.kind \notin Acting \/ b.kind \notin Acting
  /\ a.kind = "each" => b.kind \notin Lasting \ {"each"} /\ b.kind # "find"
  /\ b.kind = "each" => a.kind \notin Lasting \ {"each"} /\ a.kind # "find"
  /\ a.kind = "unique" /\ b.on = a.on => b.kind \notin Acting \ Once
  /\ b.kind = "unique" /\ b.on = a.on => a.kind \notin Acting \ Once
  /\ a.kind = "never" => b.kind \notin Lasting
  /\ b.kind = "never" => a.kind \notin Lasting

KeptApart(q) ==
  /\ \A i, j \in 1..Len(q) : i < j => Apart(q[i], q[j])
  /\ \A i \in 1..Len(q) : q[i].kind # "erase"

\* The codes of a handler's documentation, and the two that it leaves out.
Told(e) ==
  e.docs \union (IF e = ListClusterServers THEN {403} ELSE {})
         \union (IF e = BatchDeleteJetStreams THEN {206} ELSE {})

\* A handler whose answers are all documented, and, if well made, one that may be
\* called again.
HalfMade(e) == Answering(e, e.docs) /\ Skipping(e.script)

WellMade(e) == HalfMade(e) /\ KeptApart(e.script)

-----------------------------------------------------------------------------
(* Scripts put together.  A handler looks first, and then works.            *)

\* A step that only looks.
LookStep(s, docs) ==
  /\ StepOK(s, docs)
  /\ s.kind \in Passive \ {"never"}

Looks(q, docs) == IsScript(q) /\ \A i \in 1..Len(q) : LookStep(q[i], docs)

\* The elements of the tuples that are written out.
LEMMA Tuples ==
  /\ IsScript(<<>>) /\ Len(<<>>) = 0
  /\ \A a : IsScript(<<a>>) /\ Len(<<a>>) = 1 /\ <<a>>[1] = a
  /\ \A a, b : IsScript(<<a, b>>) /\ Len(<<a, b>>) = 2 /\ <<a, b>>[1] = a /\ <<a, b>>[2] = b
  /\ \A a, b, c : /\ IsScript(<<a, b, c>>) /\ Len(<<a, b, c>>) = 3
                  /\ <<a, b, c>>[1] = a /\ <<a, b, c>>[2] = b /\ <<a, b, c>>[3] = c
  /\ \A a, b, c, d :
       /\ IsScript(<<a, b, c, d>>) /\ Len(<<a, b, c, d>>) = 4
       /\ <<a, b, c, d>>[1] = a /\ <<a, b, c, d>>[2] = b
       /\ <<a, b, c, d>>[3] = c /\ <<a, b, c, d>>[4] = d
  /\ \A a, b, c, d, e :
       /\ IsScript(<<a, b, c, d, e>>) /\ Len(<<a, b, c, d, e>>) = 5
       /\ <<a, b, c, d, e>>[1] = a /\ <<a, b, c, d, e>>[2] = b
       /\ <<a, b, c, d, e>>[3] = c /\ <<a, b, c, d, e>>[4] = d /\ <<a, b, c, d, e>>[5] = e
  BY DEF IsScript, Elements

\* One script after another is a script.
LEMMA Join ==
  ASSUME NEW s, NEW t, IsScript(s), IsScript(t)
  PROVE  /\ IsScript(s \o t) /\ Len(s) \in Nat /\ Len(t) \in Nat
         /\ Len(s \o t) = Len(s) + Len(t)
         /\ \A k \in 1..Len(s \o t) :
              \/ k \in 1..Len(s) /\ (s \o t)[k] = s[k]
              \/ k - Len(s) \in 1..Len(t) /\ (s \o t)[k] = t[k - Len(s)]
  <1>1. PICK S : s \in Seq(S) /\ t \in Seq(S)
    <2>1. /\ s \in Seq(Elements(s) \union Elements(t))
          /\ t \in Seq(Elements(s) \union Elements(t))
      BY DEF IsScript
    <2> QED BY <2>1
  <1>2. /\ s \o t \in Seq(S) /\ Len(s) \in Nat /\ Len(t) \in Nat
        /\ Len(s \o t) = Len(s) + Len(t)
    BY <1>1
  <1>3. PICK u : u = s \o t
    OBVIOUS
  <1>4. u \in Seq(Elements(u))
    <2>1. u \in Seq(S) /\ Len(u) \in Nat
      BY <1>2, <1>3
    <2>2. u = [i \in 1..Len(u) |-> u[i]] /\ \A i \in 1..Len(u) : u[i] \in Elements(u)
      BY <2>1 DEF Elements
    <2> QED BY <2>1, <2>2
  <1>5. IsScript(s \o t)
    BY <1>3, <1>4 DEF IsScript
  <1>6. \A k \in 1..Len(s \o t) :
              \/ k \in 1..Len(s) /\ (s \o t)[k] = s[k]
              \/ k - Len(s) \in 1..Len(t) /\ (s \o t)[k] = t[k - Len(s)]
    BY <1>1, <1>2
  <1> QED BY <1>2, <1>5, <1>6

\* The steps that only look.
LEMMA LookSteps ==
  ASSUME NEW docs, NEW no \in Errors(docs), NEW fail \in Errors(docs), NEW x, NEW n \in Nat
  PROVE  /\ LookStep(Check(no), docs) /\ LookStep(Rule(no), docs)
         /\ LookStep(Query(fail), docs) /\ LookStep(Find(x, no, fail), docs)
         /\ LookStep(Unique(x, no), docs) /\ LookStep(Skip(x, n), docs)
  BY DEF LookStep, StepOK, Check, Rule, Query, Find, Unique, Skip, Step, Errors, Passive

\* A script that only looks.
LEMMA Readers ==
  ASSUME NEW docs, NEW q, Looks(q, docs)
  PROVE  Made(q, docs) /\ Skipping(q) /\ KeptApart(q)
  <1>1. \A i \in 1..Len(q) : StepOK(q[i], docs) /\ q[i].kind \in Passive \ {"never"}
    BY DEF Looks, LookStep
  <1>2. Passive \intersect Acting = {} /\ Lasting \subseteq Acting /\ Once \subseteq Acting
    BY DEF Passive, Acting, Lasting, Once
  <1>3. \A i, j \in 1..Len(q) : Apart(q[i], q[j])
    BY <1>1 DEF Apart, Passive, Acting, Lasting, Once
  <1>4. \A i \in 1..Len(q) : q[i].kind # "erase"
    BY <1>1 DEF Passive
  <1> QED BY <1>1, <1>2, <1>3, <1>4 DEF Made, Skipping, KeptApart, Looks

\* A script that looks, before another.
LEMMA Prepend ==
  ASSUME NEW docs, NEW q, NEW w, Looks(q, docs), Made(w, docs)
  PROVE  /\ Made(q \o w, docs)
         /\ KeptApart(w)
              /\ (\A j \in 1..Len(w) : w[j].kind # "each")
              /\ (\A i \in 1..Len(q), j \in 1..Len(w) :
                    q[i].kind = "unique" /\ w[j].on = q[i].on =>
                      w[j].kind \notin Acting \ Once) =>
            KeptApart(q \o w)
         /\ Skipping(w)
              /\ (\A i \in 1..Len(q), j \in 1..Len(w) :
                    \/ i + q[i].skip <= Len(q)
                    \/ w[j].kind \in Lasting => w[j].on = q[i].on) =>
            Skipping(q \o w)
         /\ (\A j \in 1..Len(w) : w[j].kind # "each") =>
              \A i \in 1..Len(q \o w) : (q \o w)[i].kind # "each"
  <1> DEFINE sc == q \o w
  <1>1. /\ IsScript(q) /\ IsScript(w)
        /\ \A i \in 1..Len(q) : StepOK(q[i], docs) /\ q[i].kind \in Passive \ {"never"}
        /\ \A i \in 1..Len(w) : StepOK(w[i], docs)
    BY DEF Looks, LookStep, Made
  <1>2. /\ IsScript(sc) /\ Len(q) \in Nat /\ Len(w) \in Nat
        /\ \A k \in 1..Len(sc) :
             \/ k \in 1..Len(q) /\ sc[k] = q[k]
             \/ k - Len(q) \in 1..Len(w) /\ sc[k] = w[k - Len(q)]
        /\ Len(sc) = Len(q) + Len(w)
    BY <1>1, Join
  <1> HIDE DEF sc
  <1>3. Passive \intersect Acting = {} /\ Lasting \subseteq Acting /\ Once \subseteq Acting
    BY DEF Passive, Acting, Lasting, Once
  <1>4. \A i, j \in 1..Len(sc) :
          sc[i].kind \in Acting /\ (i < j \/ (i = j /\ sc[i].kind \in Remote)) =>
            sc[j].no \notin ClientErrors /\ sc[j].fail \notin ClientErrors
    <2> SUFFICES ASSUME NEW i \in 1..Len(sc), NEW j \in 1..Len(sc), sc[i].kind \in Acting,
                        i < j \/ (i = j /\ sc[i].kind \in Remote)
        PROVE  sc[j].no \notin ClientErrors /\ sc[j].fail \notin ClientErrors
      OBVIOUS
    <2>1. i - Len(q) \in 1..Len(w) /\ sc[i] = w[i - Len(q)]
      BY <1>1, <1>2, <1>3
    <2>2. j - Len(q) \in 1..Len(w) /\ sc[j] = w[j - Len(q)]
      BY <1>2, <2>1
    <2>3. i - Len(q) < j - Len(q) \/ i - Len(q) = j - Len(q)
      BY <1>2
    <2> QED BY <2>1, <2>2, <2>3, <1>2 DEF Made
  <1>5. Made(sc, docs)
    BY <1>1, <1>2, <1>4 DEF Made
  <1>6. ASSUME KeptApart(w), \A j \in 1..Len(w) : w[j].kind # "each",
               \A i \in 1..Len(q), j \in 1..Len(w) :
                 q[i].kind = "unique" /\ w[j].on = q[i].on => w[j].kind \notin Acting \ Once
        PROVE  KeptApart(sc)
    <2>0. \A i \in 1..Len(sc) : sc[i].kind # "erase"
      BY <1>1, <1>2, <1>6 DEF KeptApart, Passive
    <2> SUFFICES ASSUME NEW i \in 1..Len(sc), NEW j \in 1..Len(sc), i < j
        PROVE  Apart(sc[i], sc[j])
      BY <2>0 DEF KeptApart
    <2>1. CASE i \in 1..Len(q) /\ sc[i] = q[i] /\ j \in 1..Len(q) /\ sc[j] = q[j]
      BY <1>1, <2>1 DEF Apart, Passive, Acting, Lasting, Once
    <2>2. CASE /\ i \in 1..Len(q) /\ sc[i] = q[i]
               /\ j - Len(q) \in 1..Len(w) /\ sc[j] = w[j - Len(q)]
      <3>1. PICK k \in 1..Len(w) : sc[j] = w[k]
        BY <2>2
      <3>2. /\ sc[i].kind \in Passive \ {"never"} /\ sc[j].kind # "each"
            /\ sc[i].kind = "unique" /\ sc[j].on = sc[i].on => sc[j].kind \notin Acting \ Once
        BY <1>1, <1>6, <2>2, <3>1
      <3> QED BY <3>2 DEF Apart, Passive, Acting, Lasting, Once
    <2>3. CASE /\ i - Len(q) \in 1..Len(w) /\ sc[i] = w[i - Len(q)]
               /\ j - Len(q) \in 1..Len(w) /\ sc[j] = w[j - Len(q)]
      <3>1. i - Len(q) < j - Len(q)
        BY <1>2
      <3> QED BY <1>6, <2>3, <3>1 DEF KeptApart
    <2> QED BY <1>2, <2>1, <2>2, <2>3
  <1>7. ASSUME Skipping(w),
               \A i \in 1..Len(q), j \in 1..Len(w) :
                 i + q[i].skip <= Len(q) \/ (w[j].kind \in Lasting => w[j].on = q[i].on)
        PROVE  Skipping(sc)
    <2> SUFFICES ASSUME NEW i \in 1..Len(sc), NEW j \in 1..Len(sc), i < j,
                        j <= i + sc[i].skip, sc[j].kind \in Lasting
        PROVE  sc[j].on = sc[i].on
      BY DEF Skipping
    <2>1. PICK k \in 1..Len(w) : k = j - Len(q) /\ sc[j] = w[k]
      BY <1>1, <1>2, <1>3
    <2>2. CASE i \in 1..Len(q) /\ sc[i] = q[i]
      <3>1. q[i].skip \in Nat
        BY <1>1, <2>2 DEF StepOK
      <3>2. ~ (i + q[i].skip <= Len(q))
        BY <1>2, <2>1, <2>2, <3>1
      <3> QED BY <1>7, <2>1, <2>2, <3>2
    <2>3. CASE i - Len(q) \in 1..Len(w) /\ sc[i] = w[i - Len(q)]
      <3>1. w[i - Len(q)].skip \in Nat
        BY <1>1, <2>3 DEF StepOK
      <3>2. i - Len(q) < k /\ k <= i - Len(q) + w[i - Len(q)].skip
        BY <1>2, <2>1, <2>3, <3>1
      <3> QED BY <1>7, <2>1, <2>3, <3>2 DEF Skipping
    <2> QED BY <1>2, <2>2, <2>3
  <1>8. ASSUME \A j \in 1..Len(w) : w[j].kind # "each"
        PROVE  \A i \in 1..Len(sc) : sc[i].kind # "each"
    BY <1>1, <1>2, <1>8 DEF Passive
  <1> QED BY <1>5, <1>6, <1>7, <1>8 DEF sc
\* A step that only looks, and neither skips others nor looks for what it must not find.
PlainStep(s, docs) == LookStep(s, docs) /\ s.skip = 0 /\ s.kind # "unique"

Plain(q, docs) == IsScript(q) /\ \A i \in 1..Len(q) : PlainStep(q[i], docs)

Works(w, docs) ==
  /\ Made(w, docs)
  /\ \A j \in 1..Len(w) : w[j].kind # "each" /\ w[j].skip = 0

\* Short scripts of plain steps,
LEMMA PlainTuples ==
  ASSUME NEW docs
  PROVE  /\ \A a : PlainStep(a, docs) => Plain(<<a>>, docs)
         /\ \A a, b : PlainStep(a, docs) /\ PlainStep(b, docs) => Plain(<<a, b>>, docs)
         /\ \A a, b, c : PlainStep(a, docs) /\ PlainStep(b, docs) /\ PlainStep(c, docs) =>
              Plain(<<a, b, c>>, docs)
         /\ \A a, b, c, d :
              PlainStep(a, docs) /\ PlainStep(b, docs) /\ PlainStep(c, docs)
                /\ PlainStep(d, docs) => Plain(<<a, b, c, d>>, docs)
         /\ \A a, b, c, d, e :
              PlainStep(a, docs) /\ PlainStep(b, docs) /\ PlainStep(c, docs)
                /\ PlainStep(d, docs) /\ PlainStep(e, docs) =>
                  Plain(<<a, b, c, d, e>>, docs)
  BY Tuples DEF Plain

\* and longer ones.
LEMMA PlainJoin ==
  ASSUME NEW docs, NEW s, NEW t, Plain(s, docs), Plain(t, docs)
  PROVE  Plain(s \o t, docs)
  BY Join DEF Plain

\* The steps that are plain.
LEMMA PlainSteps ==
  ASSUME NEW docs, NEW no \in Errors(docs), NEW fail \in Errors(docs), NEW x
  PROVE  /\ PlainStep(Check(no), docs) /\ PlainStep(Rule(no), docs)
         /\ PlainStep(Query(fail), docs) /\ PlainStep(Find(x, no, fail), docs)
  BY DEF PlainStep, LookStep, StepOK, Check, Rule, Query, Find, Step, Errors, Passive

\* They only look.
LEMMA PlainLooks ==
  ASSUME NEW docs, NEW q, Plain(q, docs)
  PROVE  Looks(q, docs)
  BY DEF Plain, PlainStep, Looks

\* A handler that only reads.
LEMMA Reading ==
  ASSUME NEW docs, NEW ok \in docs \intersect Successes, NEW q, Plain(q, docs)
  PROVE  WellMade(Endpoint(q, ok, docs))
  <1> DEFINE e == Endpoint(q, ok, docs)
  <1>1. e.script = q /\ e.ok = ok /\ e.partly = ok /\ e.docs = docs
    BY DEF Endpoint
  <1>2. Looks(q, docs)
    BY PlainLooks
  <1>3. Made(q, docs) /\ Skipping(q) /\ KeptApart(q)
    BY <1>2, Readers
  <1>4. \A i \in 1..Len(q) : q[i].kind # "each"
    BY <1>2 DEF Looks, LookStep, Passive
  <1> QED BY <1>1, <1>3, <1>4 DEF WellMade, HalfMade, Answering

\* A handler that checks all before it writes.
LEMMA Writing ==
  ASSUME NEW docs, NEW ok \in docs \intersect Successes, NEW q, NEW w,
         Plain(q, docs), Works(w, docs)
  PROVE  LET e == Endpoint(q \o w, ok, docs)
         IN HalfMade(e) /\ (KeptApart(w) => WellMade(e))
  <1> DEFINE e == Endpoint(q \o w, ok, docs)
  <1>1. e.script = q \o w /\ e.ok = ok /\ e.partly = ok /\ e.docs = docs
    BY DEF Endpoint
  <1>2. /\ Looks(q, docs) /\ Made(w, docs)
        /\ \A j \in 1..Len(w) : w[j].kind # "each" /\ w[j].skip = 0
        /\ \A i \in 1..Len(q) : q[i].skip = 0 /\ q[i].kind # "unique"
    BY PlainLooks DEF Works, Plain, PlainStep
  <1>3. Len(w) \in Nat /\ Len(q) \in Nat
    BY <1>2, Join DEF Looks, Made
  <1>4. Skipping(w) /\ \A i \in 1..Len(q) : i + q[i].skip <= Len(q)
    BY <1>2, <1>3 DEF Skipping
  <1>5. /\ Made(q \o w, docs) /\ Skipping(q \o w) /\ (KeptApart(w) => KeptApart(q \o w))
        /\ \A i \in 1..Len(q \o w) : (q \o w)[i].kind # "each"
    BY <1>2, <1>4, Prepend
  <1> QED BY <1>1, <1>5 DEF WellMade, HalfMade, Answering

\* Connecting to a cluster changes nothing here.
LEMMA Connections ==
  ASSUME NEW docs, NEW code \in Errors(docs), NEW missing \in Errors(docs)
  PROVE  /\ Plain(GetConnection(code), docs)
         /\ Plain(GetConnectionWithUser(missing, code), docs)
         /\ Plain(GetConnectionWithAccount(code), docs)
  <1>1. \A x : /\ PlainStep(Rule(code), docs) /\ PlainStep(Query(code), docs)
               /\ PlainStep(Find(x, code, code), docs)
               /\ PlainStep(Find(x, missing, code), docs)
    BY PlainSteps
  <1>2. Plain(CreateConnectionWithUser(code), docs)
    BY <1>1, PlainTuples DEF CreateConnectionWithUser
  <1>3. Plain(SystemAccountAdminUser(code), docs)
    BY <1>1, PlainTuples DEF SystemAccountAdminUser
  <1>4. /\ Plain(<<Find("cluster", code, code)>>, docs)
        /\ \A x, y : /\ Plain(<<Find(x, code, code), Find(y, code, code)>>, docs)
                      /\ Plain(<<Find(x, missing, code), Find(y, code, code)>>, docs)
    BY <1>1, PlainTuples
  <1>5. Plain(<<Find("cluster", code, code)>> \o SystemAccountAdminUser(code), docs)
    BY <1>3, <1>4, PlainJoin
  <1> QED BY <1>2, <1>4, <1>5, PlainJoin
          DEF GetConnection, GetConnectionWithUser, GetConnectionWithAccount

\* The codes most handlers document.
LEMMA Codes ==
  /\ {0, 404, 500} \subseteq Errors(ReadCodes) /\ 200 \in ReadCodes \intersect Successes
  /\ {0, 500} \subseteq Errors(ListCodes) /\ 200 \in ListCodes \intersect Successes
  /\ {0, 400, 500} \subseteq Errors(QueryCodes) /\ 200 \in QueryCodes \intersect Successes
  /\ {0, 400, 404, 500} \subseteq Errors(Usual) /\ 200 \in Usual \intersect Successes
  BY DEF Errors, ReadCodes, ListCodes, QueryCodes, Usual, Successes, Failures

\* The handlers that only read one record,
LEMMA ReadCodesReaders ==
  /\ WellMade(GetCluster)
  /\ WellMade(TestClusterConnection)
  /\ WellMade(GetClusterNodeCount)
  /\ WellMade(GetAccountJetStreamListDetection)
  /\ WellMade(GetAccountStreamNames)
  /\ WellMade(GetAccount)
  /\ WellMade(GetAccountJWT)
  /\ WellMade(GetUser)
  /\ WellMade(GetUserJWT)
  /\ WellMade(CopyUserContext)
  /\ WellMade(GetJWTTask)
  /\ WellMade(GetJetStream)
  /\ WellMade(CompareJetStreamConfig)
  /\ WellMade(GetConsumer)
  /\ WellMade(CompareConsumerConfig)
  <1> DEFINE docs == ReadCodes
  <1>0. {0, 404, 500} \subseteq Errors(docs) /\ 200 \in docs \intersect Successes
    BY Codes
  <1> HIDE DEF docs
  <1>1. \A x : \A no, fail \in {0, 404, 500} :
          /\ PlainStep(Check(no), docs) /\ PlainStep(Rule(no), docs)
          /\ PlainStep(Query(fail), docs) /\ PlainStep(Find(x, no, fail), docs)
    BY <1>0, PlainSteps
  <1>2. \A q : Plain(q, docs) => WellMade(Endpoint(q, 200, docs))
    BY <1>0, Reading
  <1>3. \A code \in {0, 404, 500} :
          /\ Plain(GetConnection(code), docs)
          /\ Plain(GetConnectionWithUser(code, code), docs)
          /\ Plain(GetConnectionWithAccount(code), docs)
    BY <1>0, Connections
  <1>4. \A p, q : Plain(p, docs) /\ Plain(q, docs) => Plain(p \o q, docs)
    BY PlainJoin
  <1>5. WellMade(GetCluster)
    BY <1>1, <1>2, <1>3, <1>4, PlainTuples DEF GetCluster, docs
  <1>6. WellMade(TestClusterConnection)
    BY <1>1, <1>2, <1>3, <1>4, PlainTuples DEF TestClusterConnection, docs
  <1>7. WellMade(GetClusterNodeCount)
    BY <1>1, <1>2, <1>3, <1>4, PlainTuples DEF GetClusterNodeCount, NodeCount, docs
  <1>8. WellMade(GetAccountJetStreamListDetection)
    BY <1>1, <1>2, <1>3, <1>4, PlainTuples DEF GetAccountJetStreamListDetection, docs
  <1>9. WellMade(GetAccountStreamNames)
    BY <1>1, <1>2, <1>3, <1>4, PlainTuples DEF GetAccountStreamNames, docs
  <1>10. WellMade(GetAccount)
    BY <1>1, <1>2, <1>3, <1>4, PlainTuples DEF GetAccount, docs
  <1>11. WellMade(GetAccountJWT)
    BY <1>1, <1>2, <1>3, <1>4, PlainTuples DEF GetAccountJWT, docs
  <1>12. WellMade(GetUser)
    BY <1>1, <1>2, <1>3, <1>4, PlainTuples DEF GetUser, docs
  <1>13. WellMade(GetUserJWT)
    BY <1>1, <1>2, <1>3, <1>4, PlainTuples DEF GetUserJWT, SignedByAccount, docs
  <1>14. WellMade(CopyUserContext)
    BY <1>1, <1>2, <1>3, <1>4, PlainTuples DEF CopyUserContext, docs
  <1>15. WellMade(GetJWTTask)
    BY <1>1, <1>2, <1>3, <1>4, PlainTuples DEF GetJWTTask, docs
  <1>16. WellMade(GetJetStream)
    BY <1>1, <1>2, <1>3, <1>4, PlainTuples DEF GetJetStream, docs
  <1>17. WellMade(CompareJetStreamConfig)
    BY <1>1, <1>2, <1>3, <1>4, PlainTuples DEF CompareJetStreamConfig, docs
  <1>18. WellMade(GetConsumer)
    BY <1>1, <1>2, <1>3, <1>4, PlainTuples DEF GetConsumer, docs
  <1>19. WellMade(CompareConsumerConfig)
    BY <1>1, <1>2, <1>3, <1>4, PlainTuples DEF CompareConsumerConfig, docs
  <1> QED BY <1>5, <1>6, <1>7, <1>8, <1>9, <1>10, <1>11, <1>12, <1>13, <1>14, <1>15,
           <1>16, <1>17, <1>18, <1>19

\* that list,
LEMMA ListCodesReaders ==
  /\ WellMade(ListClusters)
  /\ WellMade(GetClusterMonitoringDashboard)
  /\ WellMade(GetClusterTopology)
  /\ WellMade(GetAccountUserCount)
  /\ WellMade(GetAccountJWTTaskCount)
  /\ WellMade(ListAdminUsersFromNonSystemAccounts)
  /\ WellMade(ListFailedJWTTasks)
  /\ WellMade(GetJWTTaskStats)
  /\ WellMade(GetJetStreamsByUser)
  /\ WellMade(GetConsumerStats)
  <1> DEFINE docs == ListCodes
  <1>0. {0, 500} \subseteq Errors(docs) /\ 200 \in docs \intersect Successes
    BY Codes
  <1> HIDE DEF docs
  <1>1. \A x : \A no, fail \in {0, 500} :
          /\ PlainStep(Check(no), docs) /\ PlainStep(Rule(no), docs)
          /\ PlainStep(Query(fail), docs) /\ PlainStep(Find(x, no, fail), docs)
    BY <1>0, PlainSteps
  <1>2. \A q : Plain(q, docs) => WellMade(Endpoint(q, 200, docs))
    BY <1>0, Reading
  <1>3. WellMade(ListClusters)
    BY <1>1, <1>2, PlainTuples DEF ListClusters, docs
  <1>4. WellMade(GetClusterMonitoringDashboard)
    BY <1>1, <1>2, PlainTuples DEF GetClusterMonitoringDashboard, docs
  <1>5. WellMade(GetClusterTopology)
    BY <1>1, <1>2, PlainTuples DEF GetClusterTopology, docs
  <1>6. WellMade(GetAccountUserCount)
    BY <1>1, <1>2, PlainTuples DEF GetAccountUserCount, docs
  <1>7. WellMade(GetAccountJWTTaskCount)
    BY <1>1, <1>2, PlainTuples DEF GetAccountJWTTaskCount, docs
  <1>8. WellMade(ListAdminUsersFromNonSystemAccounts)
    BY <1>1, <1>2, PlainTuples DEF ListAdminUsersFromNonSystemAccounts, docs
  <1>9. WellMade(ListFailedJWTTasks)
    BY <1>1, <1>2, PlainTuples DEF ListFailedJWTTasks, docs
  <1>10. WellMade(GetJWTTaskStats)
    BY <1>1, <1>2, PlainTuples DEF GetJWTTaskStats, docs
  <1>11. WellMade(GetJetStreamsByUser)
    BY <1>1, <1>2, PlainTuples DEF GetJetStreamsByUser, docs
  <1>12. WellMade(GetConsumerStats)
    BY <1>1, <1>2, PlainTuples DEF GetConsumerStats, docs
  <1> QED BY <1>3, <1>4, <1>5, <1>6, <1>7, <1>8, <1>9, <1>10, <1>11, <1>12

\* that list what the request names,
LEMMA QueryCodesReaders ==
  /\ WellMade(GetClusterHealthRecords)
  /\ WellMade(ListAccounts)
  /\ WellMade(ListUsers)
  /\ WellMade(GetAllUsers)
  /\ WellMade(ListJWTTasks)
  /\ WellMade(ListJetStreams)
  /\ WellMade(ValidateJetStreamName)
  /\ WellMade(ListConsumers)
  <1> DEFINE docs == QueryCodes
  <1>0. {0, 400, 500} \subseteq Errors(docs) /\ 200 \in docs \intersect Successes
    BY Codes
  <1> HIDE DEF docs
  <1>1. \A x : \A no, fail \in {0, 400, 500} :
          /\ PlainStep(Check(no), docs) /\ PlainStep(Rule(no), docs)
          /\ PlainStep(Query(fail), docs) /\ PlainStep(Find(x, no, fail), docs)
    BY <1>0, PlainSteps
  <1>2. \A q : Plain(q, docs) => WellMade(Endpoint(q, 200, docs))
    BY <1>0, Reading
  <1>3. WellMade(GetClusterHealthRecords)
    BY <1>1, <1>2, PlainTuples DEF GetClusterHealthRecords, docs
  <1>4. WellMade(ListAccounts)
    BY <1>1, <1>2, PlainTuples DEF ListAccounts, docs
  <1>5. WellMade(ListUsers)
    BY <1>1, <1>2, PlainTuples DEF ListUsers, docs
  <1>6. WellMade(GetAllUsers)
    BY <1>1, <1>2, PlainTuples DEF GetAllUsers, docs
  <1>7. WellMade(ListJWTTasks)
    BY <1>1, <1>2, PlainTuples DEF ListJWTTasks, docs
  <1>8. WellMade(ListJetStreams)
    BY <1>1, <1>2, PlainTuples DEF ListJetStreams, docs
  <1>9. WellMade(ValidateJetStreamName)
    BY <1>1, <1>2, PlainTuples DEF ValidateJetStreamName, docs
  <1>10. WellMade(ListConsumers)
    BY <1>1, <1>2, PlainTuples DEF ListConsumers, docs
  <1> QED BY <1>3, <1>4, <1>5, <1>6, <1>7, <1>8, <1>9, <1>10

\* and that ask a cluster.
LEMMA UsualReaders ==
  /\ WellMade(GetClusterJetStreamStreamDetail)
  /\ WellMade(GetStreamConsumerList)
  /\ WellMade(GetStreamConsumerInfo)
  <1> DEFINE docs == Usual
  <1>0. {0, 400, 404, 500} \subseteq Errors(docs) /\ 200 \in docs \intersect Successes
    BY Codes
  <1> HIDE DEF docs
  <1>1. \A x : \A no, fail \in {0, 400, 404, 500} :
          /\ PlainStep(Check(no), docs) /\ PlainStep(Rule(no), docs)
          /\ PlainStep(Query(fail), docs) /\ PlainStep(Find(x, no, fail), docs)
    BY <1>0, PlainSteps
  <1>2. \A q : Plain(q, docs) => WellMade(Endpoint(q, 200, docs))
    BY <1>0, Reading
  <1>3. \A code \in {0, 400, 404, 500} :
          /\ Plain(GetConnection(code), docs)
          /\ Plain(GetConnectionWithUser(code, code), docs)
          /\ Plain(GetConnectionWithUser(404, code), docs)
          /\ Plain(GetConnectionWithAccount(code), docs)
    BY <1>0, Connections
  <1>4. \A p, q : Plain(p, docs) /\ Plain(q, docs) => Plain(p \o q, docs)
    BY PlainJoin
  <1>5. WellMade(GetClusterJetStreamStreamDetail)
    <2> DEFINE p == <<Check(400), Find("cluster", 500, 500), Rule(400),
                    Find("admin", 500, 500)>>
               q == <<Find("stream_on_cluster", 500, 500)>>
    <2>1. Plain(p, docs) /\ Plain(q, docs)
      BY <1>1, PlainTuples
    <2>2. Plain(p \o GetConnectionWithUser(500, 500) \o q, docs)
      BY <1>3, <1>4, <2>1
    <2>3. GetClusterJetStreamStreamDetail = Endpoint(p \o GetConnectionWithUser(500, 500) \o q,
                                                     200, docs)
      BY Zenon DEF GetClusterJetStreamStreamDetail, docs
    <2> HIDE DEF p, q
    <2> QED BY <1>2, <2>2, <2>3
  <1>6. WellMade(GetStreamConsumerList)
    <2> DEFINE p == <<Check(400), Find("stream", 500, 500)>>
               q == <<Find("stream_on_cluster", 404, 500)>>
    <2>1. Plain(p, docs) /\ Plain(q, docs)
      BY <1>1, PlainTuples
    <2>2. Plain(p \o GetConnectionWithUser(404, 500) \o q, docs)
      BY <1>3, <1>4, <2>1
    <2>3. GetStreamConsumerList = Endpoint(p \o GetConnectionWithUser(404, 500) \o q, 200, docs)
      BY Zenon DEF GetStreamConsumerList, docs
    <2> HIDE DEF p, q
    <2> QED BY <1>2, <2>2, <2>3
  <1>7. WellMade(GetStreamConsumerInfo)
    <2> DEFINE p == <<Check(400), Find("stream", 500, 500)>>
               q == <<Find("consumer_on_cluster", 404, 500)>>
    <2>1. Plain(p, docs) /\ Plain(q, docs)
      BY <1>1, PlainTuples
    <2>2. Plain(p \o GetConnectionWithUser(404, 500) \o q, docs)
      BY <1>3, <1>4, <2>1
    <2>3. GetStreamConsumerInfo = Endpoint(p \o GetConnectionWithUser(404, 500) \o q, 200, docs)
      BY Zenon DEF GetStreamConsumerInfo, docs
    <2> HIDE DEF p, q
    <2> QED BY <1>2, <2>2, <2>3
  <1> QED BY <1>5, <1>6, <1>7

\* A step that works, or a query between such steps.
WorkStep(s, docs) ==
  /\ StepOK(s, docs) /\ s.kind \notin {"each", "erase"} /\ s.skip = 0
  /\ s.no \notin ClientErrors /\ s.fail \notin ClientErrors

\* Short scripts of steps that work.
LEMMA WorkTuples ==
  ASSUME NEW docs
  PROVE  /\ \A a : WorkStep(a, docs) => Works(<<a>>, docs) /\ KeptApart(<<a>>)
         /\ \A a, b : WorkStep(a, docs) /\ WorkStep(b, docs) =>
              Works(<<a, b>>, docs) /\ (Apart(a, b) => KeptApart(<<a, b>>))
         /\ \A a, b, c : WorkStep(a, docs) /\ WorkStep(b, docs) /\ WorkStep(c, docs) =>
              Works(<<a, b, c>>, docs)
         /\ \A a, b, c, d :
              WorkStep(a, docs) /\ WorkStep(b, docs) /\ WorkStep(c, docs)
                /\ WorkStep(d, docs) =>
                /\ Works(<<a, b, c, d>>, docs)
                /\ (/\ Apart(a, b) /\ Apart(a, c) /\ Apart(a, d)
                    /\ Apart(b, c) /\ Apart(b, d) /\ Apart(c, d)) =>
                     KeptApart(<<a, b, c, d>>)
  BY Tuples DEF Works, Made, WorkStep, KeptApart

\* The steps that work, and the queries between them.
LEMMA WorkSteps ==
  ASSUME NEW docs, NEW fail \in Errors(docs) \ ClientErrors, NEW x
  PROVE  /\ WorkStep(Insert(x, fail), docs) /\ WorkStep(Save(x, fail), docs)
         /\ WorkStep(Remove(x, fail), docs) /\ WorkStep(Tell(x, fail), docs)
         /\ WorkStep(Try(x), docs) /\ WorkStep(Spawn(x), docs)
         /\ WorkStep(Query(fail), docs) /\ WorkStep(Find(x, fail, fail), docs)
  BY DEF WorkStep, StepOK, Insert, Save, Remove, Tell, Try, Spawn, Query, Find, Step,
     Errors,
         Passive, Acting, ClientErrors

\* What a cluster is asked to delete is looked for first.
LEMMA EraseWorks ==
  ASSUME NEW docs, NEW fail \in Errors(docs) \ ClientErrors, NEW x
  PROVE  Works(<<Find(x, fail, fail), Erase(x, fail)>>, docs)
  <1>1. \A s \in {Find(x, fail, fail), Erase(x, fail)} :
          /\ StepOK(s, docs) /\ s.kind # "each" /\ s.skip = 0
          /\ s.no \notin ClientErrors /\ s.fail \notin ClientErrors
    BY DEF StepOK, Find, Erase, Step, Errors, Passive, Acting, ClientErrors
  <1> QED BY <1>1, Tuples DEF Works, Made, Remote

\* The steps that may follow one another when the request is repeated.
LEMMA ApartSteps ==
  ASSUME NEW f, NEW g, NEW x, NEW y
  PROVE  /\ Apart(Save(x, f), Spawn(y)) /\ Apart(Save(x, f), Try(y))
         /\ Apart(Tell(x, f), Save(y, g)) /\ Apart(Find(x, f, f), Tell(y, g))
         /\ Apart(Find(x, f, f), Query(g)) /\ Apart(Find(x, f, f), Save(y, g))
         /\ Apart(Query(f), Save(y, g))
         /\ Apart(Save(x, f), Query(g)) /\ Apart(Query(f), Query(g))
         /\ Apart(Query(f), Insert(y, g))
         /\ x # y => Apart(Save(x, f), Insert(y, g)) /\ Apart(Insert(x, f), Spawn(y))
  BY DEF Apart, Insert, Save, Remove, Tell, Try, Spawn, Query, Find, Step,
         Passive, Acting, Lasting, Once

\* The handlers that write with a body to check,
LEMMA UsualWriters ==
  /\ WellMade(UpdateCluster)
  /\ WellMade(UpdateAccount)
  /\ WellMade(DeleteAccount)
  /\ WellMade(ManualSyncAccountJWT)
  /\ WellMade(UpdateUser)
  /\ WellMade(UpdateConsumer)
  <1> DEFINE docs == Usual
  <1>0. {0, 400, 404, 500} \subseteq Errors(docs) /\ 200 \in docs \intersect Successes
    BY Codes
  <1> HIDE DEF docs
  <1>1. \A x : \A no, fail \in {0, 400, 404, 500} :
          /\ PlainStep(Check(no), docs) /\ PlainStep(Rule(no), docs)
          /\ PlainStep(Query(fail), docs) /\ PlainStep(Find(x, no, fail), docs)
    BY <1>0, PlainSteps
  <1>2. \A x : /\ WorkStep(Insert(x, 500), docs) /\ WorkStep(Save(x, 500), docs)
               /\ WorkStep(Remove(x, 500), docs) /\ WorkStep(Tell(x, 500), docs)
               /\ WorkStep(Try(x), docs) /\ WorkStep(Spawn(x), docs)
               /\ WorkStep(Query(500), docs) /\ WorkStep(Find(x, 500, 500), docs)
    <2>1. 500 \in Errors(docs) \ ClientErrors
      BY <1>0 DEF ClientErrors
    <2> QED BY <2>1, WorkSteps
  <1>3. \A q, w : Plain(q, docs) /\ Works(w, docs) =>
          LET e == Endpoint(q \o w, 200, docs)
          IN HalfMade(e) /\ (KeptApart(w) => WellMade(e))
    BY <1>0, Writing
  <1>4. WellMade(UpdateCluster)
    <2> DEFINE q == <<Check(400), Find("cluster", 500, 500), Rule(500)>>
               w == <<Save("saved", 500)>>
    <2>1. Plain(q, docs)
      BY <1>1, PlainTuples
    <2>2. Works(w, docs) /\ KeptApart(w)
      BY <1>2, WorkTuples, ApartSteps
    <2>3. UpdateCluster = Endpoint(q \o w, 200, docs)
      <3>1. PICK s : s = <<Check(400), Find("cluster", 500, 500), Rule(500),
                           Save("saved", 500)>>
        OBVIOUS
      <3>2. s = q \o w
        BY <3>1
      <3>3. UpdateCluster = Endpoint(s, 200, docs)
        BY <3>1, Zenon DEF UpdateCluster, docs
      <3> QED BY <3>2, <3>3, Zenon
    <2> HIDE DEF q, w
    <2> QED BY <1>3, <2>1, <2>2, <2>3
  <1>5. WellMade(UpdateAccount)
    <2> DEFINE q == <<Check(400), Find("account", 500, 500), Query(500), Rule(500)>>
               w == <<Save("saved", 500), Insert("task", 500)>>
    <2>1. Plain(q, docs)
      BY <1>1, PlainTuples
    <2>2. Works(w, docs) /\ KeptApart(w)
      BY <1>2, WorkTuples, ApartSteps
    <2>3. UpdateAccount = Endpoint(q \o w, 200, docs)
      <3>1. PICK s : s = <<Check(400), Find("account", 500, 500), Query(500), Rule(500),
                           Save("saved", 500)>> \o AccountTask(500)
        OBVIOUS
      <3>2. s = q \o w
        BY <3>1 DEF AccountTask
      <3>3. UpdateAccount = Endpoint(s, 200, docs)
        BY <3>1, Zenon DEF UpdateAccount, docs
      <3> QED BY <3>2, <3>3, Zenon
    <2> HIDE DEF q, w
    <2> QED BY <1>3, <2>1, <2>2, <2>3
  <1>6. WellMade(DeleteAccount)
    <2> DEFINE q == <<Find("account", 404, 500), Query(500), Rule(400)>>
               w == <<Remove("account", 500)>>
    <2>1. Plain(q, docs)
      BY <1>1, PlainTuples
    <2>2. Works(w, docs) /\ KeptApart(w)
      BY <1>2, WorkTuples, ApartSteps
    <2>3. DeleteAccount = Endpoint(q \o w, 200, docs)
      <3>1. PICK s : s = <<Find("account", 404, 500), Query(500), Rule(400),
                           Remove("account", 500)>>
        OBVIOUS
      <3>2. s = q \o w
        BY <3>1
      <3>3. DeleteAccount = Endpoint(s, 200, docs)
        BY <3>1, Zenon DEF DeleteAccount, docs
      <3> QED BY <3>2, <3>3, Zenon
    <2> HIDE DEF q, w
    <2> QED BY <1>3, <2>1, <2>2, <2>3
  <1>7. WellMade(ManualSyncAccountJWT)
    <2> DEFINE q == <<Check(400), Find("account", 404, 500), Find("cluster", 500, 500),
                      Query(500)>>
               w == <<Insert("task", 500)>>
    <2>1. Plain(q, docs)
      BY <1>1, PlainTuples
    <2>2. Works(w, docs) /\ KeptApart(w)
      BY <1>2, WorkTuples, ApartSteps
    <2>3. ManualSyncAccountJWT = Endpoint(q \o w, 200, docs)
      BY DEF ManualSyncAccountJWT, docs, AccountTask
    <2> HIDE DEF q, w
    <2> QED BY <1>3, <2>1, <2>2, <2>3
  <1>8. WellMade(UpdateUser)
    <2> DEFINE q == <<Check(400), Find("user", 404, 500)>>
               w == <<Save("saved", 500), Query(500), Query(500), Insert("task", 500)>>
    <2>1. Plain(q, docs)
      BY <1>1, PlainTuples
    <2>2. Works(w, docs) /\ KeptApart(w)
      BY <1>2, WorkTuples, ApartSteps
    <2>3. UpdateUser = Endpoint(q \o w, 200, docs)
      <3>1. PICK s : s = <<Check(400), Find("user", 404, 500),
                           Save("saved", 500)>> \o UserTask(500)
        OBVIOUS
      <3>2. s = q \o w
        BY <3>1 DEF UserTask
      <3>3. UpdateUser = Endpoint(s, 200, docs)
        BY <3>1, Zenon DEF UpdateUser, docs
      <3> QED BY <3>2, <3>3, Zenon
    <2> HIDE DEF q, w
    <2> QED BY <1>3, <2>1, <2>2, <2>3
  <1>9. WellMade(UpdateConsumer)
    <2> DEFINE q == <<Check(400), Find("consumer", 500, 500), Check(400)>>
               w == <<Save("saved", 500), Try("update")>>
    <2>1. Plain(q, docs)
      BY <1>1, PlainTuples
    <2>2. Works(w, docs) /\ KeptApart(w)
      BY <1>2, WorkTuples, ApartSteps
    <2>3. UpdateConsumer = Endpoint(q \o w, 200, docs)
      <3>1. PICK s : s = <<Check(400), Find("consumer", 500, 500), Check(400),
                           Save("saved", 500), Try("update")>>
        OBVIOUS
      <3>2. s = q \o w
        BY <3>1
      <3>3. UpdateConsumer = Endpoint(s, 200, docs)
        BY <3>1, Zenon DEF UpdateConsumer, docs
      <3> QED BY <3>2, <3>3, Zenon
    <2> HIDE DEF q, w
    <2> QED BY <1>3, <2>1, <2>2, <2>3
  <1> QED BY <1>4, <1>5, <1>6, <1>7, <1>8, <1>9

\* with an id only; after a removal its task may fail,
LEMMA ReadCodesWriters ==
  /\ WellMade(EnableCluster)
  /\ WellMade(DisableCluster)
  /\ WellMade(DisableAccount)
  /\ WellMade(EnableAccount)
  /\ HalfMade(RemoveAccountExport)
  /\ HalfMade(RemoveAccountImport)
  /\ WellMade(DisableUser)
  /\ WellMade(EnableUser)
  /\ WellMade(DeleteUser)
  /\ WellMade(RetryJetStreamCreation)
  <1> DEFINE docs == ReadCodes
  <1>0. {0, 404, 500} \subseteq Errors(docs) /\ 200 \in docs \intersect Successes
    BY Codes
  <1> HIDE DEF docs
  <1>1. \A x : \A no, fail \in {0, 404, 500} :
          /\ PlainStep(Check(no), docs) /\ PlainStep(Rule(no), docs)
          /\ PlainStep(Query(fail), docs) /\ PlainStep(Find(x, no, fail), docs)
    BY <1>0, PlainSteps
  <1>2. \A x : /\ WorkStep(Insert(x, 500), docs) /\ WorkStep(Save(x, 500), docs)
               /\ WorkStep(Remove(x, 500), docs) /\ WorkStep(Tell(x, 500), docs)
               /\ WorkStep(Try(x), docs) /\ WorkStep(Spawn(x), docs)
               /\ WorkStep(Query(500), docs) /\ WorkStep(Find(x, 500, 500), docs)
    <2>1. 500 \in Errors(docs) \ ClientErrors
      BY <1>0 DEF ClientErrors
    <2> QED BY <2>1, WorkSteps
  <1>3. \A q, w : Plain(q, docs) /\ Works(w, docs) =>
          LET e == Endpoint(q \o w, 200, docs)
          IN HalfMade(e) /\ (KeptApart(w) => WellMade(e))
    BY <1>0, Writing
  <1>4. \A code \in {0, 404, 500} :
          /\ Plain(GetConnectionWithUser(code, code), docs)
          /\ Plain(GetConnectionWithAccount(code), docs)
    BY <1>0, Connections
  <1>5. \A p, q : Plain(p, docs) /\ Plain(q, docs) => Plain(p \o q, docs)
    BY PlainJoin
  <1>6. WellMade(EnableCluster)
    <2> DEFINE q == <<Find("cluster", 500, 500)>>
               w == <<Save("enabled", 500)>>
    <2>1. Plain(q, docs)
      BY <1>1, <1>4, <1>5, PlainTuples
    <2>2. Works(w, docs) /\ KeptApart(w)
      BY <1>2, WorkTuples, ApartSteps
    <2>3. EnableCluster = Endpoint(q \o w, 200, docs)
      <3>1. PICK s : s = <<Find("cluster", 500, 500), Save("enabled", 500)>>
        OBVIOUS
      <3>2. s = q \o w
        BY <3>1
      <3>3. EnableCluster = Endpoint(s, 200, docs)
        BY <3>1, Zenon DEF EnableCluster, docs
      <3> QED BY <3>2, <3>3, Zenon
    <2> HIDE DEF q, w
    <2> QED BY <1>3, <2>1, <2>2, <2>3
  <1>7. WellMade(DisableCluster)
    <2> DEFINE q == <<Find("cluster", 500, 500)>>
               w == <<Save("disabled", 500)>>
    <2>1. Plain(q, docs)
      BY <1>1, <1>4, <1>5, PlainTuples
    <2>2. Works(w, docs) /\ KeptApart(w)
      BY <1>2, WorkTuples, ApartSteps
    <2>3. DisableCluster = Endpoint(q \o w, 200, docs)
      <3>1. PICK s : s = <<Find("cluster", 500, 500), Save("disabled", 500)>>
        OBVIOUS
      <3>2. s = q \o w
        BY <3>1
      <3>3. DisableCluster = Endpoint(s, 200, docs)
        BY <3>1, Zenon DEF DisableCluster, docs
      <3> QED BY <3>2, <3>3, Zenon
    <2> HIDE DEF q, w
    <2> QED BY <1>3, <2>1, <2>2, <2>3
  <1>8. WellMade(DisableAccount)
    <2> DEFINE q == <<Find("account", 500, 500)>>
               w == <<Save("disabled", 500), Insert("task", 500)>>
    <2>1. Plain(q, docs)
      BY <1>1, <1>4, <1>5, PlainTuples
    <2>2. Works(w, docs) /\ KeptApart(w)
      BY <1>2, WorkTuples, ApartSteps
    <2>3. DisableAccount = Endpoint(q \o w, 200, docs)
      <3>1. PICK s : s = <<Find("account", 500, 500),
                           Save("disabled", 500)>> \o AccountTask(500)
        OBVIOUS
      <3>2. s = q \o w
        BY <3>1 DEF AccountTask
      <3>3. DisableAccount = Endpoint(s, 200, docs)
        BY <3>1, Zenon DEF DisableAccount, docs
      <3> QED BY <3>2, <3>3, Zenon
    <2> HIDE DEF q, w
    <2> QED BY <1>3, <2>1, <2>2, <2>3
  <1>9. WellMade(EnableAccount)
    <2> DEFINE q == <<Find("account", 500, 500)>>
               w == <<Save("enabled", 500), Insert("task", 500)>>
    <2>1. Plain(q, docs)
      BY <1>1, <1>4, <1>5, PlainTuples
    <2>2. Works(w, docs) /\ KeptApart(w)
      BY <1>2, WorkTuples, ApartSteps
    <2>3. EnableAccount = Endpoint(q \o w, 200, docs)
      <3>1. PICK s : s = <<Find("account", 500, 500),
                           Save("enabled", 500)>> \o AccountTask(500)
        OBVIOUS
      <3>2. s = q \o w
        BY <3>1 DEF AccountTask
      <3>3. EnableAccount = Endpoint(s, 200, docs)
        BY <3>1, Zenon DEF EnableAccount, docs
      <3> QED BY <3>2, <3>3, Zenon
    <2> HIDE DEF q, w
    <2> QED BY <1>3, <2>1, <2>2, <2>3
  <1>10. HalfMade(RemoveAccountExport)
    <2> DEFINE q == <<Find("account", 404, 500), Find("export", 404, 500)>>
               w == <<Remove("export", 500), Insert("task", 500)>>
    <2>1. Plain(q, docs)
      BY <1>1, <1>4, <1>5, PlainTuples
    <2>2. Works(w, docs)
      BY <1>2, WorkTuples
    <2>3. RemoveAccountExport = Endpoint(q \o w, 200, docs)
      <3>1. PICK s : s = <<Find("account", 404, 500), Find("export", 404, 500),
                           Remove("export", 500)>> \o AccountTask(500)
        OBVIOUS
      <3>2. s = q \o w
        BY <3>1 DEF AccountTask
      <3>3. RemoveAccountExport = Endpoint(s, 200, docs)
        BY <3>1, Zenon DEF RemoveAccountExport, docs
      <3> QED BY <3>2, <3>3, Zenon
    <2> HIDE DEF q, w
    <2> QED BY <1>3, <2>1, <2>2, <2>3
  <1>11. HalfMade(RemoveAccountImport)
    <2> DEFINE q == <<Find("account", 404, 500), Find("import", 404, 500)>>
               w == <<Remove("import", 500), Insert("task", 500)>>
    <2>1. Plain(q, docs)
      BY <1>1, <1>4, <1>5, PlainTuples
    <2>2. Works(w, docs)
      BY <1>2, WorkTuples
    <2>3. RemoveAccountImport = Endpoint(q \o w, 200, docs)
      <3>1. PICK s : s = <<Find("account", 404, 500), Find("import", 404, 500),
                           Remove("import", 500)>> \o AccountTask(500)
        OBVIOUS
      <3>2. s = q \o w
        BY <3>1 DEF AccountTask
      <3>3. RemoveAccountImport = Endpoint(s, 200, docs)
        BY <3>1, Zenon DEF RemoveAccountImport, docs
      <3> QED BY <3>2, <3>3, Zenon
    <2> HIDE DEF q, w
    <2> QED BY <1>3, <2>1, <2>2, <2>3
  <1>12. WellMade(DisableUser)
    <2> DEFINE q == <<Find("user", 404, 500)>>
               w == <<Save("disabled", 500), Query(500), Query(500),
                      Insert("task", 500)>>
    <2>1. Plain(q, docs)
      BY <1>1, <1>4, <1>5, PlainTuples
    <2>2. Works(w, docs) /\ KeptApart(w)
      BY <1>2, WorkTuples, ApartSteps
    <2>3. DisableUser = Endpoint(q \o w, 200, docs)
      <3>1. PICK s : s = <<Find("user", 404, 500),
                           Save("disabled", 500)>> \o UserTask(500)
        OBVIOUS
      <3>2. s = q \o w
        BY <3>1 DEF UserTask
      <3>3. DisableUser = Endpoint(s, 200, docs)
        BY <3>1, Zenon DEF DisableUser, docs
      <3> QED BY <3>2, <3>3, Zenon
    <2> HIDE DEF q, w
    <2> QED BY <1>3, <2>1, <2>2, <2>3
  <1>13. WellMade(EnableUser)
    <2> DEFINE q == <<Find("user", 404, 500)>>
               w == <<Save("enabled", 500), Query(500), Query(500), Insert("task", 500)>>
    <2>1. Plain(q, docs)
      BY <1>1, <1>4, <1>5, PlainTuples
    <2>2. Works(w, docs) /\ KeptApart(w)
      BY <1>2, WorkTuples, ApartSteps
    <2>3. EnableUser = Endpoint(q \o w, 200, docs)
      <3>1. PICK s : s = <<Find("user", 404, 500),
                           Save("enabled", 500)>> \o UserTask(500)
        OBVIOUS
      <3>2. s = q \o w
        BY <3>1 DEF UserTask
      <3>3. EnableUser = Endpoint(s, 200, docs)
        BY <3>1, Zenon DEF EnableUser, docs
      <3> QED BY <3>2, <3>3, Zenon
    <2> HIDE DEF q, w
    <2> QED BY <1>3, <2>1, <2>2, <2>3
  <1>14. WellMade(DeleteUser)
    <2> DEFINE q == <<Find("user", 404, 500)>>
               w == <<Remove("user", 500)>>
    <2>1. Plain(q, docs)
      BY <1>1, <1>4, <1>5, PlainTuples
    <2>2. Works(w, docs) /\ KeptApart(w)
      BY <1>2, WorkTuples, ApartSteps
    <2>3. DeleteUser = Endpoint(q \o w, 200, docs)
      <3>1. PICK s : s = <<Find("user", 404, 500), Remove("user", 500)>>
        OBVIOUS
      <3>2. s = q \o w
        BY <3>1
      <3>3. DeleteUser = Endpoint(s, 200, docs)
        BY <3>1, Zenon DEF DeleteUser, docs
      <3> QED BY <3>2, <3>3, Zenon
    <2> HIDE DEF q, w
    <2> QED BY <1>3, <2>1, <2>2, <2>3
  <1>15. WellMade(RetryJetStreamCreation)
    <2> DEFINE q == (<<Find("stream", 500, 500),
                      Rule(500)>> \o GetConnectionWithUser(500, 500))
               w == <<Save("reset", 500), Spawn("synchronisation")>>
    <2>1. Plain(q, docs)
      BY <1>1, <1>4, <1>5, PlainTuples
    <2>2. Works(w, docs) /\ KeptApart(w)
      BY <1>2, WorkTuples, ApartSteps
    <2>3. RetryJetStreamCreation = Endpoint(q \o w, 200, docs)
      BY Zenon DEF RetryJetStreamCreation, docs
    <2> HIDE DEF q, w
    <2> QED BY <1>3, <2>1, <2>2, <2>3
  <1> QED BY <1>6, <1>7, <1>8, <1>9, <1>10, <1>11, <1>12, <1>13, <1>14, <1>15

\* those that change a consumer,
LEMMA QueryCodesWriters ==
  /\ WellMade(RetryConsumerSync)
  /\ WellMade(PauseConsumer)
  <1> DEFINE docs == QueryCodes
  <1>0. {0, 400, 500} \subseteq Errors(docs) /\ 200 \in docs \intersect Successes
    BY Codes
  <1> HIDE DEF docs
  <1>1. \A x : \A no, fail \in {0, 400, 500} :
          /\ PlainStep(Check(no), docs) /\ PlainStep(Rule(no), docs)
          /\ PlainStep(Query(fail), docs) /\ PlainStep(Find(x, no, fail), docs)
    BY <1>0, PlainSteps
  <1>2. \A x : /\ WorkStep(Insert(x, 500), docs) /\ WorkStep(Save(x, 500), docs)
               /\ WorkStep(Remove(x, 500), docs) /\ WorkStep(Tell(x, 500), docs)
               /\ WorkStep(Try(x), docs) /\ WorkStep(Spawn(x), docs)
               /\ WorkStep(Query(500), docs) /\ WorkStep(Find(x, 500, 500), docs)
    <2>1. 500 \in Errors(docs) \ ClientErrors
      BY <1>0 DEF ClientErrors
    <2> QED BY <2>1, WorkSteps
  <1>3. \A q, w : Plain(q, docs) /\ Works(w, docs) =>
          LET e == Endpoint(q \o w, 200, docs)
          IN HalfMade(e) /\ (KeptApart(w) => WellMade(e))
    BY <1>0, Writing
  <1>4. \A code \in {0, 400, 500} :
          /\ Plain(GetConnectionWithUser(code, code), docs)
          /\ Plain(GetConnectionWithAccount(code), docs)
    BY <1>0, Connections
  <1>5. \A p, q : Plain(p, docs) /\ Plain(q, docs) => Plain(p \o q, docs)
    BY PlainJoin
  <1>6. WellMade(RetryConsumerSync)
    <2> DEFINE q == (<<Find("consumer", 500, 500), Rule(500),
                      Find("stream", 500, 500)>> \o GetConnectionWithUser(500, 500))
               w == <<Save("reset", 500), Spawn("synchronisation")>>
    <2>1. Plain(q, docs)
      BY <1>1, <1>4, <1>5, PlainTuples
    <2>2. Works(w, docs) /\ KeptApart(w)
      BY <1>2, WorkTuples, ApartSteps
    <2>3. RetryConsumerSync = Endpoint(q \o w, 200, docs)
      BY Zenon DEF RetryConsumerSync, docs
    <2> HIDE DEF q, w
    <2> QED BY <1>3, <2>1, <2>2, <2>3
  <1>7. WellMade(PauseConsumer)
    <2> DEFINE q == (StreamOfConsumer \o GetConnectionWithUser(500, 500))
               w == <<Tell("paused", 500), Save("saved", 500)>>
    <2>1. Plain(q, docs)
      BY <1>1, <1>4, <1>5, PlainTuples DEF StreamOfConsumer
    <2>2. Works(w, docs) /\ KeptApart(w)
      BY <1>2, WorkTuples, ApartSteps
    <2>3. PauseConsumer = Endpoint(q \o w, 200, docs)
      BY Zenon DEF PauseConsumer, docs
    <2> HIDE DEF q, w
    <2> QED BY <1>3, <2>1, <2>2, <2>3
  <1> QED BY <1>6, <1>7

\* with no failure of the client's,
LEMMA ListCodesWriters ==
  /\ WellMade(ResumeConsumer)
  <1> DEFINE docs == ListCodes
  <1>0. {0, 500} \subseteq Errors(docs) /\ 200 \in docs \intersect Successes
    BY Codes
  <1> HIDE DEF docs
  <1>1. \A x : \A no, fail \in {0, 500} :
          /\ PlainStep(Check(no), docs) /\ PlainStep(Rule(no), docs)
          /\ PlainStep(Query(fail), docs) /\ PlainStep(Find(x, no, fail), docs)
    BY <1>0, PlainSteps
  <1>2. \A x : /\ WorkStep(Insert(x, 500), docs) /\ WorkStep(Save(x, 500), docs)
               /\ WorkStep(Remove(x, 500), docs) /\ WorkStep(Tell(x, 500), docs)
               /\ WorkStep(Try(x), docs) /\ WorkStep(Spawn(x), docs)
               /\ WorkStep(Query(500), docs) /\ WorkStep(Find(x, 500, 500), docs)
    <2>1. 500 \in Errors(docs) \ ClientErrors
      BY <1>0 DEF ClientErrors
    <2> QED BY <2>1, WorkSteps
  <1>3. \A q, w : Plain(q, docs) /\ Works(w, docs) =>
          LET e == Endpoint(q \o w, 200, docs)
          IN HalfMade(e) /\ (KeptApart(w) => WellMade(e))
    BY <1>0, Writing
  <1>4. \A code \in {0, 500} :
          /\ Plain(GetConnectionWithUser(code, code), docs)
          /\ Plain(GetConnectionWithAccount(code), docs)
    BY <1>0, Connections
  <1>5. \A p, q : Plain(p, docs) /\ Plain(q, docs) => Plain(p \o q, docs)
    BY PlainJoin
  <1>6. WellMade(ResumeConsumer)
    <2> DEFINE q == (StreamOfConsumer \o GetConnectionWithUser(500, 500))
               w == <<Tell("resumed", 500), Save("saved", 500)>>
    <2>1. Plain(q, docs)
      BY <1>1, <1>4, <1>5, PlainTuples DEF StreamOfConsumer
    <2>2. Works(w, docs) /\ KeptApart(w)
      BY <1>2, WorkTuples, ApartSteps
    <2>3. ResumeConsumer = Endpoint(q \o w, 200, docs)
      BY Zenon DEF ResumeConsumer, docs
    <2> HIDE DEF q, w
    <2> QED BY <1>3, <2>1, <2>2, <2>3
  <1> QED BY <1>6

\* that create a user, whose task may fail after it,
LEMMA Creators ==
  /\ HalfMade(CreateUser)
  <1> DEFINE docs == {201, 400, 404, 500}
  <1>0. {0, 400, 404, 500} \subseteq Errors(docs) /\ 201 \in docs \intersect Successes
    BY DEF Errors, Successes, Failures
  <1> HIDE DEF docs
  <1>1. \A x : \A no, fail \in {0, 400, 404, 500} :
          /\ PlainStep(Check(no), docs) /\ PlainStep(Rule(no), docs)
          /\ PlainStep(Query(fail), docs) /\ PlainStep(Find(x, no, fail), docs)
    BY <1>0, PlainSteps
  <1>2. \A x : /\ WorkStep(Insert(x, 500), docs) /\ WorkStep(Save(x, 500), docs)
               /\ WorkStep(Remove(x, 500), docs) /\ WorkStep(Tell(x, 500), docs)
               /\ WorkStep(Try(x), docs) /\ WorkStep(Spawn(x), docs)
               /\ WorkStep(Query(500), docs) /\ WorkStep(Find(x, 500, 500), docs)
    <2>1. 500 \in Errors(docs) \ ClientErrors
      BY <1>0 DEF ClientErrors
    <2> QED BY <2>1, WorkSteps
  <1>3. \A q, w : Plain(q, docs) /\ Works(w, docs) =>
          LET e == Endpoint(q \o w, 201, docs)
          IN HalfMade(e) /\ (KeptApart(w) => WellMade(e))
    BY <1>0, Writing
  <1>4. HalfMade(CreateUser)
    <2> DEFINE q == <<Check(400), Find("account", 404, 500), Rule(404), Query(500)>>
               w == <<Insert("user", 500), Query(500), Query(500), Insert("task", 500)>>
    <2>1. Plain(q, docs)
      BY <1>1, PlainTuples
    <2>2. Works(w, docs)
      BY <1>2, WorkTuples
    <2>3. CreateUser = Endpoint(q \o w, 201, docs)
      <3>1. PICK s : s = <<Check(400), Find("account", 404, 500), Rule(404), Query(500),
                           Insert("user", 500)>> \o UserTask(500)
        OBVIOUS
      <3>2. s = q \o w
        BY <3>1 DEF UserTask
      <3>3. CreateUser = Endpoint(s, 201, docs)
        BY <3>1, Zenon DEF CreateUser, docs
      <3> QED BY <3>2, <3>3, Zenon
    <2> HIDE DEF q, w
    <2> QED BY <1>3, <2>1, <2>2, <2>3
  <1> QED BY <1>4

\* that delete a record,
LEMMA Deleters ==
  /\ WellMade(DeleteJetStream)
  /\ WellMade(DeleteConsumer)
  <1> DEFINE docs == {204, 404, 500}
  <1>0. {0, 404, 500} \subseteq Errors(docs) /\ 204 \in docs \intersect Successes
    BY DEF Errors, Successes, Failures
  <1> HIDE DEF docs
  <1>1. \A x : \A no, fail \in {0, 404, 500} :
          /\ PlainStep(Check(no), docs) /\ PlainStep(Rule(no), docs)
          /\ PlainStep(Query(fail), docs) /\ PlainStep(Find(x, no, fail), docs)
    BY <1>0, PlainSteps
  <1>2. \A x : /\ WorkStep(Insert(x, 500), docs) /\ WorkStep(Save(x, 500), docs)
               /\ WorkStep(Remove(x, 500), docs) /\ WorkStep(Tell(x, 500), docs)
               /\ WorkStep(Try(x), docs) /\ WorkStep(Spawn(x), docs)
               /\ WorkStep(Query(500), docs) /\ WorkStep(Find(x, 500, 500), docs)
    <2>1. 500 \in Errors(docs) \ ClientErrors
      BY <1>0 DEF ClientErrors
    <2> QED BY <2>1, WorkSteps
  <1>3. \A q, w : Plain(q, docs) /\ Works(w, docs) =>
          LET e == Endpoint(q \o w, 204, docs)
          IN HalfMade(e) /\ (KeptApart(w) => WellMade(e))
    BY <1>0, Writing
  <1>4. WellMade(DeleteJetStream)
    <2> DEFINE q == <<Find("stream", 500, 500), Query(500)>>
               w == <<Remove("stream", 500)>>
    <2>1. Plain(q, docs)
      BY <1>1, PlainTuples
    <2>2. Works(w, docs) /\ KeptApart(w)
      BY <1>2, WorkTuples, ApartSteps
    <2>3. DeleteJetStream = Endpoint(q \o w, 204, docs)
      <3>1. PICK s : s = <<Find("stream", 500, 500), Query(500), Remove("stream", 500)>>
        OBVIOUS
      <3>2. s = q \o w
        BY <3>1
      <3>3. DeleteJetStream = Endpoint(s, 204, docs)
        BY <3>1, Zenon DEF DeleteJetStream, docs
      <3> QED BY <3>2, <3>3, Zenon
    <2> HIDE DEF q, w
    <2> QED BY <1>3, <2>1, <2>2, <2>3
  <1>5. WellMade(DeleteConsumer)
    <2> DEFINE q == <<Find("consumer", 500, 500)>>
               w == <<Remove("consumer", 500)>>
    <2>1. Plain(q, docs)
      BY <1>1, PlainTuples
    <2>2. Works(w, docs) /\ KeptApart(w)
      BY <1>2, WorkTuples, ApartSteps
    <2>3. DeleteConsumer = Endpoint(q \o w, 204, docs)
      <3>1. PICK s : s = <<Find("consumer", 500, 500), Remove("consumer", 500)>>
        OBVIOUS
      <3>2. s = q \o w
        BY <3>1
      <3>3. DeleteConsumer = Endpoint(s, 204, docs)
        BY <3>1, Zenon DEF DeleteConsumer, docs
      <3> QED BY <3>2, <3>3, Zenon
    <2> HIDE DEF q, w
    <2> QED BY <1>3, <2>1, <2>2, <2>3
  <1> QED BY <1>4, <1>5

\* and that delete on a cluster.
LEMMA ClusterDeleters ==
  /\ HalfMade(DeleteClusterJetStreamStream)
  /\ HalfMade(DeleteClusterJetStreamConsumer)
  <1> DEFINE docs == {204, 400, 404, 500}
  <1>0. {0, 400, 404, 500} \subseteq Errors(docs) /\ 204 \in docs \intersect Successes
    BY DEF Errors, Successes, Failures
  <1> HIDE DEF docs
  <1>1. \A x : \A no, fail \in {0, 400, 404, 500} :
          /\ PlainStep(Check(no), docs) /\ PlainStep(Rule(no), docs)
          /\ PlainStep(Query(fail), docs) /\ PlainStep(Find(x, no, fail), docs)
    BY <1>0, PlainSteps
  <1>2. \A x : Works(<<Find(x, 500, 500), Erase(x, 500)>>, docs)
    <2>1. 500 \in Errors(docs) \ ClientErrors
      BY <1>0 DEF ClientErrors
    <2> QED BY <2>1, EraseWorks
  <1>3. \A q, w : Plain(q, docs) /\ Works(w, docs) =>
          HalfMade(Endpoint(q \o w, 204, docs))
    BY <1>0, Writing
  <1>4. \A code \in {0, 400, 404, 500} : Plain(GetConnectionWithAccount(code), docs)
    BY <1>0, Connections
  <1>5. \A p, q : Plain(p, docs) /\ Plain(q, docs) => Plain(p \o q, docs)
    BY PlainJoin
  <1>6. HalfMade(DeleteClusterJetStreamStream)
    <2> DEFINE q == (<<Check(400), Find("cluster", 404, 404),
                      Rule(400)>> \o GetConnectionWithAccount(500))
               w == <<Find("stream_on_cluster", 500, 500), Erase("stream_on_cluster", 500)>>
    <2>1. Plain(q, docs)
      BY <1>1, <1>4, <1>5, PlainTuples
    <2>2. Works(w, docs)
      BY <1>2
    <2>3. DeleteClusterJetStreamStream = Endpoint(q \o w, 204, docs)
      BY Zenon DEF DeleteClusterJetStreamStream, docs
    <2> HIDE DEF q, w
    <2> QED BY <1>3, <2>1, <2>2, <2>3
  <1>7. HalfMade(DeleteClusterJetStreamConsumer)
    <2> DEFINE q == (<<Check(400), Find("cluster", 404, 404),
                      Rule(400)>> \o GetConnectionWithAccount(500))
               w == <<Find("consumer_on_cluster", 500, 500),
                      Erase("consumer_on_cluster", 500)>>
    <2>1. Plain(q, docs)
      BY <1>1, <1>4, <1>5, PlainTuples
    <2>2. Works(w, docs)
      BY <1>2
    <2>3. DeleteClusterJetStreamConsumer = Endpoint(q \o w, 204, docs)
      BY Zenon DEF DeleteClusterJetStreamConsumer, docs
    <2> HIDE DEF q, w
    <2> QED BY <1>3, <2>1, <2>2, <2>3
  <1> QED BY <1>6, <1>7

-----------------------------------------------------------------------------
\* A step before the first effect: what it looks for and must not find is x, what it
\* may skip is the work on y.
FirstStep(s, docs, x, y) ==
  /\ LookStep(s, docs)
  /\ s.kind = "unique" => s.on = x
  /\ s.skip # 0 => s.on = y

First(q, docs, x, y) == IsScript(q) /\ \A i \in 1..Len(q) : FirstStep(q[i], docs, x, y)

\* What is skipped comes before the first effect.
Inside(q) == \A i \in 1..Len(q) : i + q[i].skip <= Len(q)

\* Short scripts of first steps,
LEMMA FirstTuples ==
  ASSUME NEW docs, NEW x, NEW y
  PROVE  /\ \A a : FirstStep(a, docs, x, y) => First(<<a>>, docs, x, y)
         /\ \A a, b : FirstStep(a, docs, x, y) /\ FirstStep(b, docs, x, y) =>
              First(<<a, b>>, docs, x, y)
         /\ \A a, b, c :
              FirstStep(a, docs, x, y) /\ FirstStep(b, docs, x, y)
                /\ FirstStep(c, docs, x, y) => First(<<a, b, c>>, docs, x, y)
         /\ \A a, b, c, d :
              FirstStep(a, docs, x, y) /\ FirstStep(b, docs, x, y) /\ FirstStep(c, docs, x,
                                                                                y)
                /\ FirstStep(d, docs, x, y) => First(<<a, b, c, d>>, docs, x, y)
         /\ \A a, b, c, d, e :
              FirstStep(a, docs, x, y) /\ FirstStep(b, docs, x, y) /\ FirstStep(c, docs, x,
                                                                                y)
                /\ FirstStep(d, docs, x, y) /\ FirstStep(e, docs, x, y) =>
                  First(<<a, b, c, d, e>>, docs, x, y)
  BY Tuples DEF First

\* and longer ones.
LEMMA FirstJoin ==
  ASSUME NEW docs, NEW x, NEW y, NEW s, NEW t, First(s, docs, x, y), First(t, docs, x, y)
  PROVE  First(s \o t, docs, x, y)
  BY Join DEF First

\* Steps that skip nothing, or looks only,
LEMMA InsideTuples ==
  /\ \A a : a.skip = 0 => Inside(<<a>>)
  /\ \A a, b : a.skip = 0 /\ b.skip = 0 => Inside(<<a, b>>)
  /\ \A a, b, c : a.skip = 0 /\ b.skip = 0 /\ c.skip = 0 => Inside(<<a, b, c>>)
  /\ \A a, b, c, d : a.skip \in 0..3 /\ b.skip = 0 /\ c.skip = 0 /\ d.skip = 0 =>
       Inside(<<a, b, c, d>>)
  /\ \A a, b, c, d, e :
       a.skip = 0 /\ b.skip = 0 /\ c.skip = 0 /\ d.skip = 0 /\ e.skip = 0 =>
         Inside(<<a, b, c, d, e>>)
  BY Tuples DEF Inside

\* and one script after another.
LEMMA InsideJoin ==
  ASSUME NEW docs, NEW s, NEW t, Looks(s, docs), Looks(t, docs), Inside(s), Inside(t)
  PROVE  Inside(s \o t)
  <1> DEFINE u == s \o t
  <1>1. /\ Len(s) \in Nat /\ Len(t) \in Nat /\ Len(u) = Len(s) + Len(t)
        /\ \A k \in 1..Len(u) :
             \/ k \in 1..Len(s) /\ u[k] = s[k]
             \/ k - Len(s) \in 1..Len(t) /\ u[k] = t[k - Len(s)]
    BY Join DEF Looks
  <1>2. /\ \A i \in 1..Len(s) : s[i].skip \in Nat
        /\ \A i \in 1..Len(t) : t[i].skip \in Nat
    BY DEF Looks, LookStep, StepOK
  <1> HIDE DEF u
  <1>3. ASSUME NEW k \in 1..Len(u) PROVE k + u[k].skip <= Len(u)
    <2>1. CASE k \in 1..Len(s) /\ u[k] = s[k]
      BY <1>1, <1>2, <2>1 DEF Inside
    <2>2. CASE k - Len(s) \in 1..Len(t) /\ u[k] = t[k - Len(s)]
      BY <1>1, <1>2, <2>2 DEF Inside
    <2> QED BY <1>1, <2>1, <2>2
  <1> QED BY <1>3 DEF Inside, u

\* A handler that looks for what must not be there, or skips what is done.
LEMMA LookingFirst ==
  ASSUME NEW docs, NEW ok \in docs \intersect Successes, NEW x, NEW y, NEW q, NEW w,
         First(q, docs, x, y), Made(w, docs), \A j \in 1..Len(w) : w[j].kind # "each"
  PROVE  LET e == Endpoint(q \o w, ok, docs)
         IN /\ Answering(e, e.docs)
            /\ Skipping(w)
                 /\ (\/ Inside(q)
                     \/ \A j \in 1..Len(w) : w[j].kind \in Lasting => w[j].on = y) =>
                 Skipping(e.script)
            /\ KeptApart(w)
                 /\ (\A j \in 1..Len(w) : w[j].kind \in Acting \ Once => w[j].on # x) =>
                 KeptApart(e.script)
  <1> DEFINE e == Endpoint(q \o w, ok, docs)
  <1>1. e.script = q \o w /\ e.ok = ok /\ e.partly = ok /\ e.docs = docs
    BY DEF Endpoint
  <1>2. Looks(q, docs)
    BY DEF First, FirstStep, Looks
  <1>3. /\ Made(q \o w, docs)
        /\ \A i \in 1..Len(q \o w) : (q \o w)[i].kind # "each"
    BY <1>2, Prepend
  <1>4. Answering(e, e.docs)
    BY <1>1, <1>3 DEF Answering
  <1>5. ASSUME Skipping(w),
               Inside(q) \/ \A j \in 1..Len(w) : w[j].kind \in Lasting => w[j].on = y
        PROVE  Skipping(e.script)
    <2>1. Len(q) \in Nat
      BY <1>2, Join DEF Looks, Made
    <2>2. \A i \in 1..Len(q), j \in 1..Len(w) :
            \/ i + q[i].skip <= Len(q)
            \/ w[j].kind \in Lasting => w[j].on = q[i].on
      BY <1>5, <2>1 DEF Inside, First, FirstStep
    <2> QED BY <1>1, <1>2, <1>5, <2>2, Prepend
  <1>6. ASSUME KeptApart(w), \A j \in 1..Len(w) : w[j].kind \in Acting \ Once => w[j].on # x
        PROVE  KeptApart(e.script)
    <2>1. \A i \in 1..Len(q), j \in 1..Len(w) :
            q[i].kind = "unique" /\ w[j].on = q[i].on => w[j].kind \notin Acting \ Once
      BY <1>6 DEF First, FirstStep
    <2> QED BY <1>1, <1>2, <1>6, <2>1, Prepend
  <1> QED BY <1>4, <1>5, <1>6

\* What the steps are made of.
LEMMA StepsAre ==
  ASSUME NEW no, NEW fail, NEW x, NEW n
  PROVE  /\ Check(no).kind = "check" /\ Check(no).skip = 0
         /\ Rule(no).kind = "rule" /\ Rule(no).skip = 0
         /\ Query(fail).kind = "query" /\ Query(fail).skip = 0
         /\ Find(x, no, fail).kind = "find" /\ Find(x, no, fail).skip = 0
         /\ Unique(x, no).kind = "unique" /\ Unique(x, no).on = x /\ Unique(x, no).skip = 0
         /\ Skip(x, n).kind = "skip" /\ Skip(x, n).on = x /\ Skip(x, n).skip = n
         /\ Insert(x, fail).kind = "insert" /\ Insert(x, fail).on = x
         /\ Insert(x, fail).skip = 0
         /\ Save(x, fail).kind = "save" /\ Save(x, fail).on = x /\ Save(x, fail).skip = 0
         /\ Spawn(x).kind = "spawn" /\ Spawn(x).on = x /\ Spawn(x).skip = 0
         /\ Try(x).kind = "try" /\ Try(x).on = x /\ Try(x).skip = 0
  BY DEF Check, Rule, Query, Find, Unique, Skip, Insert, Save, Spawn, Try, Step

\* A single step, of any kind but those that tell a cluster.
LEMMA MadeOne ==
  ASSUME NEW docs, NEW a, StepOK(a, docs), a.kind \notin {"tell", "erase", "each"}
  PROVE  /\ Made(<<a>>, docs) /\ KeptApart(<<a>>) /\ Skipping(<<a>>)
         /\ \A j \in 1..Len(<<a>>) : <<a>>[j].kind # "each"
  BY Tuples DEF Made, KeptApart, Skipping, Remote

\* What works skips nothing.
LEMMA WorksAreMade ==
  ASSUME NEW docs, NEW w, Works(w, docs)
  PROVE  /\ Made(w, docs) /\ Skipping(w) /\ \A j \in 1..Len(w) : w[j].kind # "each"
  <1>1. Len(w) \in Nat
    BY Join DEF Works, Made
  <1> QED BY <1>1 DEF Works, Skipping

\* The steps that may come first, and those after them.
LEMMA FirstSteps ==
  ASSUME NEW docs, {0, 500} \subseteq Errors(docs), NEW x, NEW y
  PROVE  /\ FirstStep(Unique(x, 500), docs, x, y)
         /\ \A n \in Nat : FirstStep(Skip(y, n), docs, x, y)
         /\ \A z : \A no, fail \in Errors(docs) :
              /\ FirstStep(Check(no), docs, x, y) /\ FirstStep(Rule(no), docs, x, y)
              /\ FirstStep(Query(fail), docs, x, y) /\ FirstStep(Find(z, no, fail), docs,
                                                                 x, y)
         /\ \A z : /\ WorkStep(Insert(z, 500), docs) /\ WorkStep(Save(z, 500), docs)
                   /\ WorkStep(Try(z), docs) /\ WorkStep(Spawn(z), docs)
                   /\ WorkStep(Query(500), docs) /\ WorkStep(Find(z, 500, 500), docs)
  <1>1. 500 \in Errors(docs) \ ClientErrors /\ 0 \in Errors(docs)
    BY DEF ClientErrors
  <1>2. \A z : /\ WorkStep(Insert(z, 500), docs) /\ WorkStep(Save(z, 500), docs)
               /\ WorkStep(Try(z), docs) /\ WorkStep(Spawn(z), docs)
               /\ WorkStep(Query(500), docs) /\ WorkStep(Find(z, 500, 500), docs)
    BY <1>1, WorkSteps
  <1>3. FirstStep(Unique(x, 500), docs, x, y)
    <2>1. LookStep(Unique(x, 500), docs)
      BY <1>1, LookSteps
    <2> QED BY <2>1, StepsAre DEF FirstStep
  <1>4. ASSUME NEW n \in Nat PROVE FirstStep(Skip(y, n), docs, x, y)
    <2>1. LookStep(Skip(y, n), docs)
      BY <1>1, LookSteps
    <2> QED BY <2>1, StepsAre DEF FirstStep
  <1>5. ASSUME NEW z, NEW no \in Errors(docs), NEW fail \in Errors(docs)
        PROVE  /\ FirstStep(Check(no), docs, x, y) /\ FirstStep(Rule(no), docs, x, y)
               /\ FirstStep(Query(fail), docs, x, y) /\ FirstStep(Find(z, no, fail), docs,
                                                                  x, y)
    <2>1. /\ LookStep(Check(no), docs) /\ LookStep(Rule(no), docs)
          /\ LookStep(Query(fail), docs) /\ LookStep(Find(z, no, fail), docs)
      BY LookSteps
    <2> QED BY <2>1, StepsAre DEF FirstStep
  <1> QED BY <1>2, <1>3, <1>4, <1>5

\* The count of the replicas skips nothing but itself.
LEMMA ReplicaCount ==
  ASSUME NEW docs, {0, 500} \subseteq Errors(docs), NEW x
  PROVE  First(ValidateReplicaCount, docs, x, "replicas") /\ Inside(ValidateReplicaCount)
  <1>1. PICK s : s = <<Skip("replicas", 3), Find("cluster", 500, 500), Query(500),
                       Rule(500)>>
    OBVIOUS
  <1>2. s = <<Skip("replicas", 3)>> \o NodeCount \o <<Rule(500)>>
    BY <1>1 DEF NodeCount
  <1>3. s = ValidateReplicaCount
    BY <1>2, Zenon DEF ValidateReplicaCount
  <1>4. FirstStep(Skip("replicas", 3), docs, x, "replicas")
    BY FirstSteps
  <1>5. /\ FirstStep(Find("cluster", 500, 500), docs, x, "replicas")
        /\ FirstStep(Query(500), docs, x, "replicas")
        /\ FirstStep(Rule(500), docs, x, "replicas")
    <2>1. ASSUME NEW y
          PROVE  \A z : \A no, fail \in Errors(docs) :
                   /\ FirstStep(Check(no), docs, x, y) /\ FirstStep(Rule(no), docs, x, y)
                   /\ FirstStep(Query(fail), docs, x, y)
                   /\ FirstStep(Find(z, no, fail), docs, x, y)
      BY FirstSteps
    <2> QED BY <2>1
  <1>6. First(s, docs, x, "replicas")
    BY <1>1, <1>4, <1>5, FirstTuples
  <1>7. Inside(s)
    BY <1>1, InsideTuples, StepsAre
  <1> QED BY <1>3, <1>6, <1>7

\* First steps only look.
LEMMA FirstLooks ==
  ASSUME NEW docs, NEW x, NEW y, NEW q, First(q, docs, x, y)
  PROVE  Looks(q, docs)
  BY DEF First, FirstStep, Looks

\* A record that is saved, whatever its failure is answered with.
LEMMA SaveOK ==
  ASSUME NEW docs, NEW x, NEW fail \in Errors(docs)
  PROVE  StepOK(Save(x, fail), docs) /\ Save(x, fail).kind = "save"
  BY DEF StepOK, Save, Step, Errors, Acting

\* The handlers that insert a record with a name of its own,
LEMMA NewRecords ==
  /\ WellMade(CreateCluster)
  /\ HalfMade(CreateAccount)
  /\ WellMade(CreateJetStream)
  /\ WellMade(CreateConsumer)
  <1> DEFINE docs == {201, 400, 500}
  <1>1. /\ {0, 400, 500} \subseteq Errors(docs) /\ {0, 500} \subseteq Errors(docs)
        /\ 201 \in docs \intersect Successes
    BY DEF Errors, Successes, Failures
  <1> HIDE DEF docs
  <1>2. ASSUME NEW x, NEW y
        PROVE  /\ FirstStep(Unique(x, 500), docs, x, y)
               /\ \A n \in Nat : FirstStep(Skip(y, n), docs, x, y)
    <2>1. {0, 500} \subseteq Errors(docs)
      BY <1>1
    <2> QED BY <2>1, FirstSteps
  <1>3. ASSUME NEW x, NEW y
        PROVE  \A z : \A no, fail \in {0, 400, 500} :
                 /\ FirstStep(Check(no), docs, x, y) /\ FirstStep(Rule(no), docs, x, y)
                 /\ FirstStep(Query(fail), docs, x, y)
                 /\ FirstStep(Find(z, no, fail), docs, x, y)
    BY <1>1, FirstSteps
  <1>4. \A z : /\ WorkStep(Insert(z, 500), docs) /\ WorkStep(Save(z, 500), docs)
               /\ WorkStep(Try(z), docs) /\ WorkStep(Spawn(z), docs)
               /\ WorkStep(Query(500), docs) /\ WorkStep(Find(z, 500, 500), docs)
    BY <1>1, FirstSteps
  <1>5. \A x, y, q, w : First(q, docs, x, y) /\ Works(w, docs) =>
          LET e == Endpoint(q \o w, 201, docs)
          IN /\ Answering(e, e.docs)
             /\ (Inside(q) \/ \A j \in 1..Len(w) : w[j].kind \in Lasting => w[j].on = y) =>
                  Skipping(e.script)
             /\ KeptApart(w)
                  /\ (\A j \in 1..Len(w) : w[j].kind \in Acting \ Once => w[j].on # x) =>
                  KeptApart(e.script)
    BY <1>1, WorksAreMade, LookingFirst
  <1>6. WellMade(CreateCluster)
    <2> DEFINE q == <<Check(400), Rule(500), Unique("cluster", 500)>>
               w == <<Insert("cluster", 500)>>
    <2>1. First(q, docs, "cluster", "none")
      BY <1>2, <1>3, FirstTuples
    <2>2. Works(w, docs) /\ KeptApart(w)
      BY <1>4, WorkTuples, ApartSteps
    <2>work. Len(w) = 1 /\ w[1] = Insert("cluster", 500)
      BY Tuples
    <2>3. \A j \in 1..Len(w) : w[j].kind \in Acting \ Once => w[j].on # "cluster"
      <3> HIDE DEF q, w
      <3> QED BY <2>work, StepsAre DEF Acting, Once
    <2>4. Inside(q)
      BY InsideTuples, StepsAre
    <2>5. CreateCluster = Endpoint(q \o w, 201, docs)
      <3>1. PICK s : s = <<Check(400), Rule(500), Unique("cluster", 500),
                           Insert("cluster", 500)>>
        OBVIOUS
      <3>2. s = q \o w
        BY <3>1
      <3>3. CreateCluster = Endpoint(s, 201, docs)
        BY <3>1, Zenon DEF CreateCluster, docs
      <3> QED BY <3>2, <3>3, Zenon
    <2> HIDE DEF q, w
    <2> QED BY <1>5, <2>1, <2>2, <2>3, <2>4, <2>5 DEF WellMade, HalfMade
  <1>7. HalfMade(CreateAccount)
    <2> DEFINE q == <<Check(400), Rule(500), Find("cluster", 500, 500), Query(500),
                      Unique("account", 500)>>
               w == <<Insert("account", 500), Try("creds"), Insert("task", 500)>>
    <2>1. First(q, docs, "account", "none")
      BY <1>2, <1>3, FirstTuples
    <2>2. Works(w, docs)
      BY <1>4, WorkTuples
    <2>4. Inside(q)
      BY InsideTuples, StepsAre
    <2>5. CreateAccount = Endpoint(q \o w, 201, docs)
      <3>1. PICK s : s = <<Check(400), Rule(500), Find("cluster", 500, 500), Query(500),
                           Unique("account", 500), Insert("account", 500),
                           Try("creds")>> \o AccountTask(500)
        OBVIOUS
      <3>2. s = q \o w
        BY <3>1 DEF AccountTask
      <3>3. CreateAccount = Endpoint(s, 201, docs)
        BY <3>1, Zenon DEF CreateAccount, docs
      <3> QED BY <3>2, <3>3, Zenon
    <2> HIDE DEF q, w
    <2> QED BY <1>5, <2>1, <2>2, <2>4, <2>5 DEF HalfMade
  <1>8. WellMade(CreateJetStream)
    <2> DEFINE p1 == <<Check(400), Find("user", 500, 500), Query(500), Rule(500),
                      Unique("stream", 500)>>
               p2 == ValidateReplicaCount
               q == p1 \o p2
               w == <<Insert("stream", 500), Spawn("creation")>>
    <2>1. First(q, docs, "stream", "replicas")
      <3>1. First(p1, docs, "stream", "replicas")
        BY <1>2, <1>3, FirstTuples
      <3>2. First(p2, docs, "stream", "replicas")
        BY <1>1, ReplicaCount
      <3> QED BY <3>1, <3>2, FirstJoin
    <2>2. Works(w, docs) /\ KeptApart(w)
      BY <1>4, WorkTuples, ApartSteps
    <2>work. Len(w) = 2 /\ w[1] = Insert("stream", 500) /\ w[2] = Spawn("creation")
      BY Tuples
    <2>3. \A j \in 1..Len(w) : w[j].kind \in Acting \ Once => w[j].on # "stream"
      <3> HIDE DEF q, w
      <3> QED BY <2>work, StepsAre DEF Acting, Once
    <2>4. Inside(q)
      <3>1. Inside(p1) /\ First(p1, docs, "stream", "replicas")
        <4>1. First(p1, docs, "stream", "replicas")
          BY <1>2, <1>3, FirstTuples
        <4>2. Inside(p1)
          BY InsideTuples, StepsAre
        <4> QED BY <4>1, <4>2
      <3>2. Inside(p2) /\ First(p2, docs, "stream", "replicas")
        BY <1>1, ReplicaCount
      <3>3. Looks(p1, docs) /\ Looks(p2, docs)
        BY <3>1, <3>2, FirstLooks
      <3> QED BY <3>1, <3>2, <3>3, InsideJoin
    <2>5. CreateJetStream = Endpoint(q \o w, 201, docs)
      BY Zenon DEF CreateJetStream, docs
    <2> HIDE DEF q, w
    <2> QED BY <1>5, <2>1, <2>2, <2>3, <2>4, <2>5 DEF WellMade, HalfMade
  <1>9. WellMade(CreateConsumer)
    <2> DEFINE p1 == <<Check(400), Find("stream", 500, 500), Find("user", 500, 500),
                      Query(500), Rule(500)>>
               p2 == <<Unique("consumer", 500)>>
               q == p1 \o p2
               w == <<Insert("consumer", 500), Spawn("creation")>>
    <2>1. First(q, docs, "consumer", "none")
      <3>1. First(p1, docs, "consumer", "none")
        BY <1>2, <1>3, FirstTuples
      <3>2. First(p2, docs, "consumer", "none")
        BY <1>2, <1>3, FirstTuples
      <3> QED BY <3>1, <3>2, FirstJoin
    <2>2. Works(w, docs) /\ KeptApart(w)
      BY <1>4, WorkTuples, ApartSteps
    <2>work. Len(w) = 2 /\ w[1] = Insert("consumer", 500) /\ w[2] = Spawn("creation")
      BY Tuples
    <2>3. \A j \in 1..Len(w) : w[j].kind \in Acting \ Once => w[j].on # "consumer"
      <3> HIDE DEF q, w
      <3> QED BY <2>work, StepsAre DEF Acting, Once
    <2>4. Inside(q)
      <3>1. Inside(p1) /\ First(p1, docs, "consumer", "none")
        <4>1. First(p1, docs, "consumer", "none")
          BY <1>2, <1>3, FirstTuples
        <4>2. Inside(p1)
          BY InsideTuples, StepsAre
        <4> QED BY <4>1, <4>2
      <3>2. Inside(p2) /\ First(p2, docs, "consumer", "none")
        <4>1. First(p2, docs, "consumer", "none")
          BY <1>2, <1>3, FirstTuples
        <4>2. Inside(p2)
          BY InsideTuples, StepsAre
        <4> QED BY <4>1, <4>2
      <3>3. Looks(p1, docs) /\ Looks(p2, docs)
        BY <3>1, <3>2, FirstLooks
      <3> QED BY <3>1, <3>2, <3>3, InsideJoin
    <2>5. CreateConsumer = Endpoint(q \o w, 201, docs)
      <3>1. PICK s : s = <<Check(400), Find("stream", 500, 500), Find("user", 500, 500),
                           Query(500), Rule(500), Unique("consumer", 500),
                           Insert("consumer", 500), Spawn("creation")>>
        OBVIOUS
      <3>2. s = q \o w
        BY <3>1
      <3>3. CreateConsumer = Endpoint(s, 201, docs)
        BY <3>1, Zenon DEF CreateConsumer, docs
      <3> QED BY <3>2, <3>3, Zenon
    <2> HIDE DEF q, w
    <2> QED BY <1>5, <2>1, <2>2, <2>3, <2>4, <2>5 DEF WellMade, HalfMade
  <1> QED BY <1>6, <1>7, <1>8, <1>9

\* that change what others have a part in,
LEMMA Changes ==
  /\ HalfMade(AddAccountExport)
  /\ HalfMade(AddAccountImport)
  /\ WellMade(UpdateJetStream)
  /\ WellMade(RetryJWTTask)
  <1> DEFINE docs == Usual
  <1>1. /\ {0, 400, 404, 500} \subseteq Errors(docs) /\ {0, 500} \subseteq Errors(docs)
        /\ 200 \in docs \intersect Successes
    BY Codes
  <1> HIDE DEF docs
  <1>2. ASSUME NEW x, NEW y
        PROVE  /\ FirstStep(Unique(x, 500), docs, x, y)
               /\ \A n \in Nat : FirstStep(Skip(y, n), docs, x, y)
    <2>1. {0, 500} \subseteq Errors(docs)
      BY <1>1
    <2> QED BY <2>1, FirstSteps
  <1>3. ASSUME NEW x, NEW y
        PROVE  \A z : \A no, fail \in {0, 400, 404, 500} :
                 /\ FirstStep(Check(no), docs, x, y) /\ FirstStep(Rule(no), docs, x, y)
                 /\ FirstStep(Query(fail), docs, x, y)
                 /\ FirstStep(Find(z, no, fail), docs, x, y)
    BY <1>1, FirstSteps
  <1>4. \A z : /\ WorkStep(Insert(z, 500), docs) /\ WorkStep(Save(z, 500), docs)
               /\ WorkStep(Try(z), docs) /\ WorkStep(Spawn(z), docs)
               /\ WorkStep(Query(500), docs) /\ WorkStep(Find(z, 500, 500), docs)
    BY <1>1, FirstSteps
  <1>5. \A x, y, q, w : First(q, docs, x, y) /\ Works(w, docs) =>
          LET e == Endpoint(q \o w, 200, docs)
          IN /\ Answering(e, e.docs)
             /\ (Inside(q) \/ \A j \in 1..Len(w) : w[j].kind \in Lasting => w[j].on = y) =>
                  Skipping(e.script)
             /\ KeptApart(w)
                  /\ (\A j \in 1..Len(w) : w[j].kind \in Acting \ Once => w[j].on # x) =>
                  KeptApart(e.script)
    BY <1>1, WorksAreMade, LookingFirst
  <1>6. HalfMade(AddAccountExport)
    <2> DEFINE q == <<Check(400), Find("account", 404, 500), Rule(500),
                      Unique("export", 500)>>
               w == <<Insert("export", 500), Insert("task", 500)>>
    <2>1. First(q, docs, "export", "none")
      BY <1>2, <1>3, FirstTuples
    <2>2. Works(w, docs)
      BY <1>4, WorkTuples
    <2>4. Inside(q)
      BY InsideTuples, StepsAre
    <2>5. AddAccountExport = Endpoint(q \o w, 200, docs)
      <3>1. PICK s : s = <<Check(400), Find("account", 404, 500), Rule(500),
                           Unique("export", 500),
                           Insert("export", 500)>> \o AccountTask(500)
        OBVIOUS
      <3>2. s = q \o w
        BY <3>1 DEF AccountTask
      <3>3. AddAccountExport = Endpoint(s, 200, docs)
        BY <3>1, Zenon DEF AddAccountExport, docs
      <3> QED BY <3>2, <3>3, Zenon
    <2> HIDE DEF q, w
    <2> QED BY <1>5, <2>1, <2>2, <2>4, <2>5 DEF HalfMade
  <1>7. HalfMade(AddAccountImport)
    <2> DEFINE q == <<Check(400), Find("account", 404, 500), Rule(500),
                      Unique("import", 500), Find("source_account", 500, 500)>>
               w == <<Insert("import", 500), Insert("task", 500)>>
    <2>1. First(q, docs, "import", "none")
      BY <1>2, <1>3, FirstTuples
    <2>2. Works(w, docs)
      BY <1>4, WorkTuples
    <2>4. Inside(q)
      BY InsideTuples, StepsAre
    <2>5. AddAccountImport = Endpoint(q \o w, 200, docs)
      <3>1. PICK s : s = <<Check(400), Find("account", 404, 500), Rule(500),
                           Unique("import", 500), Find("source_account", 500, 500),
                           Insert("import", 500)>> \o AccountTask(500)
        OBVIOUS
      <3>2. s = q \o w
        BY <3>1 DEF AccountTask
      <3>3. AddAccountImport = Endpoint(s, 200, docs)
        BY <3>1, Zenon DEF AddAccountImport, docs
      <3> QED BY <3>2, <3>3, Zenon
    <2> HIDE DEF q, w
    <2> QED BY <1>5, <2>1, <2>2, <2>4, <2>5 DEF HalfMade
  <1>8. WellMade(UpdateJetStream)
    <2> DEFINE p1 == <<Check(400), Find("stream", 404, 500)>>
               p2 == ValidateReplicaCount
               q == p1 \o p2
               w == <<Save("saved", 500), Spawn("update")>>
    <2>1. First(q, docs, "none", "replicas")
      <3>1. First(p1, docs, "none", "replicas")
        BY <1>2, <1>3, FirstTuples
      <3>2. First(p2, docs, "none", "replicas")
        BY <1>1, ReplicaCount
      <3> QED BY <3>1, <3>2, FirstJoin
    <2>2. Works(w, docs) /\ KeptApart(w)
      BY <1>4, WorkTuples, ApartSteps
    <2>work. Len(w) = 2 /\ w[1] = Save("saved", 500) /\ w[2] = Spawn("update")
      BY Tuples
    <2>3. \A j \in 1..Len(w) : w[j].kind \in Acting \ Once => w[j].on # "none"
      <3> HIDE DEF q, w
      <3> QED BY <2>work, StepsAre DEF Acting, Once
    <2>4. Inside(q)
      <3>1. Inside(p1) /\ First(p1, docs, "none", "replicas")
        <4>1. First(p1, docs, "none", "replicas")
          BY <1>2, <1>3, FirstTuples
        <4>2. Inside(p1)
          BY InsideTuples, StepsAre
        <4> QED BY <4>1, <4>2
      <3>2. Inside(p2) /\ First(p2, docs, "none", "replicas")
        BY <1>1, ReplicaCount
      <3>3. Looks(p1, docs) /\ Looks(p2, docs)
        BY <3>1, <3>2, FirstLooks
      <3> QED BY <3>1, <3>2, <3>3, InsideJoin
    <2>5. UpdateJetStream = Endpoint(q \o w, 200, docs)
      BY Zenon DEF UpdateJetStream, docs
    <2> HIDE DEF q, w
    <2> QED BY <1>5, <2>1, <2>2, <2>3, <2>4, <2>5 DEF WellMade, HalfMade
  <1>9. WellMade(RetryJWTTask)
    <2> DEFINE q == <<Find("task", 500, 400), Rule(400)>>
               w == <<Save("reset", 400)>>
    <2>1. First(q, docs, "none", "none")
      BY <1>2, <1>3, FirstTuples
    <2>2. Works(w, docs) /\ KeptApart(w)
      <3>1. StepOK(Save("reset", 400), docs) /\ Save("reset", 400).kind = "save"
        BY <1>1, SaveOK
      <3>2. Made(w, docs) /\ KeptApart(w)
        BY <3>1, MadeOne
      <3> QED BY <3>2, Tuples, StepsAre DEF Works
    <2>work. Len(w) = 1 /\ w[1] = Save("reset", 400)
      BY Tuples
    <2>3. \A j \in 1..Len(w) : w[j].kind \in Acting \ Once => w[j].on # "none"
      <3> HIDE DEF q, w
      <3> QED BY <2>work, StepsAre DEF Acting, Once
    <2>4. Inside(q)
      BY InsideTuples, StepsAre
    <2>5. RetryJWTTask = Endpoint(q \o w, 200, docs)
      <3>1. PICK s : s = <<Find("task", 500, 400), Rule(400), Save("reset", 400)>>
        OBVIOUS
      <3>2. s = q \o w
        BY <3>1
      <3>3. RetryJWTTask = Endpoint(s, 200, docs)
        BY <3>1, Zenon DEF RetryJWTTask, docs
      <3> QED BY <3>2, <3>3, Zenon
    <2> HIDE DEF q, w
    <2> QED BY <1>5, <2>1, <2>2, <2>3, <2>4, <2>5 DEF WellMade, HalfMade
  <1> QED BY <1>6, <1>7, <1>8, <1>9

\* and that save what they find out the first time.
LEMMA FirstTimes ==
  /\ WellMade(TriggerManualHealthCheck)
  /\ WellMade(GetUserCreds)
  /\ WellMade(DownloadUserCreds)
  <1> DEFINE docs == ReadCodes
  <1>1. /\ {0, 404, 500} \subseteq Errors(docs) /\ {0, 500} \subseteq Errors(docs)
        /\ 200 \in docs \intersect Successes
    BY Codes
  <1> HIDE DEF docs
  <1>2. ASSUME NEW x, NEW y
        PROVE  /\ FirstStep(Unique(x, 500), docs, x, y)
               /\ \A n \in Nat : FirstStep(Skip(y, n), docs, x, y)
    <2>1. {0, 500} \subseteq Errors(docs)
      BY <1>1
    <2> QED BY <2>1, FirstSteps
  <1>3. ASSUME NEW x, NEW y
        PROVE  \A z : \A no, fail \in {0, 404, 500} :
                 /\ FirstStep(Check(no), docs, x, y) /\ FirstStep(Rule(no), docs, x, y)
                 /\ FirstStep(Query(fail), docs, x, y)
                 /\ FirstStep(Find(z, no, fail), docs, x, y)
    BY <1>1, FirstSteps
  <1>4. \A z : /\ WorkStep(Insert(z, 500), docs) /\ WorkStep(Save(z, 500), docs)
               /\ WorkStep(Try(z), docs) /\ WorkStep(Spawn(z), docs)
               /\ WorkStep(Query(500), docs) /\ WorkStep(Find(z, 500, 500), docs)
    BY <1>1, FirstSteps
  <1>5. \A x, y, q, w : First(q, docs, x, y) /\ Works(w, docs) =>
          LET e == Endpoint(q \o w, 200, docs)
          IN /\ Answering(e, e.docs)
             /\ (Inside(q) \/ \A j \in 1..Len(w) : w[j].kind \in Lasting => w[j].on = y) =>
                  Skipping(e.script)
             /\ KeptApart(w)
                  /\ (\A j \in 1..Len(w) : w[j].kind \in Acting \ Once => w[j].on # x) =>
                  KeptApart(e.script)
    BY <1>1, WorksAreMade, LookingFirst
  <1>6. WellMade(TriggerManualHealthCheck)
    <2> DEFINE q == <<Find("cluster", 500, 500), Skip("health_record", 1)>>
               w == <<Insert("health_record", 500)>>
    <2>1. First(q, docs, "none", "health_record")
      BY <1>2, <1>3, FirstTuples
    <2>2. Works(w, docs) /\ KeptApart(w)
      BY <1>4, WorkTuples, ApartSteps
    <2>work. Len(w) = 1 /\ w[1] = Insert("health_record", 500)
      BY Tuples
    <2>3. \A j \in 1..Len(w) : w[j].kind \in Acting \ Once => w[j].on # "none"
      <3> HIDE DEF q, w
      <3> QED BY <2>work, StepsAre DEF Acting, Once
    <2>4. \A j \in 1..Len(w) : w[j].kind \in Lasting => w[j].on = "health_record"
      <3> HIDE DEF q, w
      <3> QED BY <2>work, StepsAre DEF Lasting, Acting
    <2>5. TriggerManualHealthCheck = Endpoint(q \o w, 200, docs)
      <3>1. PICK s : s = <<Find("cluster", 500, 500), Skip("health_record", 1),
                           Insert("health_record", 500)>>
        OBVIOUS
      <3>2. s = q \o w
        BY <3>1
      <3>3. TriggerManualHealthCheck = Endpoint(s, 200, docs)
        BY <3>1, Zenon DEF TriggerManualHealthCheck, docs
      <3> QED BY <3>2, <3>3, Zenon
    <2> HIDE DEF q, w
    <2> QED BY <1>5, <2>1, <2>2, <2>3, <2>4, <2>5 DEF WellMade, HalfMade
  <1>7. WellMade(GetUserCreds)
    <2> DEFINE q == <<Find("user", 404, 500), Skip("creds", 4)>>
               w == <<Find("account", 500, 500), Query(500), Query(500),
                      Save("creds", 500)>>
    <2>1. First(q, docs, "none", "creds")
      BY <1>2, <1>3, FirstTuples
    <2>2. Works(w, docs) /\ KeptApart(w)
      BY <1>4, WorkTuples, ApartSteps
    <2>work. Len(w) = 4 /\ w[1] = Find("account", 500, 500) /\ w[2] = Query(500)
          /\ w[3] = Query(500) /\ w[4] = Save("creds", 500)
      BY Tuples
    <2>3. \A j \in 1..Len(w) : w[j].kind \in Acting \ Once => w[j].on # "none"
      <3> HIDE DEF q, w
      <3> QED BY <2>work, StepsAre DEF Acting, Once
    <2>4. \A j \in 1..Len(w) : w[j].kind \in Lasting => w[j].on = "creds"
      <3> HIDE DEF q, w
      <3> QED BY <2>work, StepsAre DEF Lasting, Acting
    <2>5. GetUserCreds = Endpoint(q \o w, 200, docs)
      <3>1. PICK s : s = <<Find("user", 404, 500), Skip("creds", 4)>> \o NewCreds
        OBVIOUS
      <3>2. s = q \o w
        BY <3>1 DEF NewCreds, SignedByAccount
      <3>3. GetUserCreds = Endpoint(s, 200, docs)
        BY <3>1, Zenon DEF GetUserCreds, docs
      <3> QED BY <3>2, <3>3, Zenon
    <2> HIDE DEF q, w
    <2> QED BY <1>5, <2>1, <2>2, <2>3, <2>4, <2>5 DEF WellMade, HalfMade
  <1>8. WellMade(DownloadUserCreds)
    <2> DEFINE q == <<Find("user", 404, 500), Skip("creds", 4)>>
               w == <<Find("account", 500, 500), Query(500), Query(500),
                      Save("creds", 500)>>
    <2>1. First(q, docs, "none", "creds")
      BY <1>2, <1>3, FirstTuples
    <2>2. Works(w, docs) /\ KeptApart(w)
      BY <1>4, WorkTuples, ApartSteps
    <2>work. Len(w) = 4 /\ w[1] = Find("account", 500, 500) /\ w[2] = Query(500)
          /\ w[3] = Query(500) /\ w[4] = Save("creds", 500)
      BY Tuples
    <2>3. \A j \in 1..Len(w) : w[j].kind \in Acting \ Once => w[j].on # "none"
      <3> HIDE DEF q, w
      <3> QED BY <2>work, StepsAre DEF Acting, Once
    <2>4. \A j \in 1..Len(w) : w[j].kind \in Lasting => w[j].on = "creds"
      <3> HIDE DEF q, w
      <3> QED BY <2>work, StepsAre DEF Lasting, Acting
    <2>5. DownloadUserCreds = Endpoint(q \o w, 200, docs)
      <3>1. PICK s : s = <<Find("user", 404, 500), Skip("creds", 4)>> \o NewCreds
        OBVIOUS
      <3>2. s = q \o w
        BY <3>1 DEF NewCreds, SignedByAccount
      <3>3. DownloadUserCreds = Endpoint(s, 200, docs)
        BY <3>1, Zenon DEF DownloadUserCreds, docs
      <3> QED BY <3>2, <3>3, Zenon
    <2> HIDE DEF q, w
    <2> QED BY <1>5, <2>1, <2>2, <2>3, <2>4, <2>5 DEF WellMade, HalfMade
  <1> QED BY <1>6, <1>7, <1>8

\* The association of accounts answers as documented, and that is all.
LEMMA Association == Answering(CreateAccountAssociation, CreateAccountAssociation.docs)
  <1> DEFINE docs == Usual
             q == <<Check(400), Find("account", 500, 500), Find("target", 500, 500),
                    Query(500), Skip("export", 2)>>
             w == <<Insert("export", 500), Insert("export_task", 500), Query(500),
                    Skip("import", 3), Query(500), Insert("import", 500),
                    Insert("import_task", 500)>>
  <1>1. /\ {0, 400, 404, 500} \subseteq Errors(docs) /\ {0, 500} \subseteq Errors(docs)
        /\ 200 \in docs \intersect Successes /\ 500 \in Errors(docs) \ ClientErrors
    BY Codes DEF ClientErrors
  <1> HIDE DEF docs
  <1>2. First(q, docs, "none", "export")
    <2>1. \A n \in Nat : FirstStep(Skip("export", n), docs, "none", "export")
      BY <1>1, FirstSteps
    <2>2. \A z : \A no, fail \in {0, 400, 404, 500} :
            /\ FirstStep(Check(no), docs, "none", "export")
            /\ FirstStep(Query(fail), docs, "none", "export")
            /\ FirstStep(Find(z, no, fail), docs, "none", "export")
      BY <1>1, FirstSteps
    <2> QED BY <2>1, <2>2, FirstTuples
  <1>3. Made(w, docs) /\ \A j \in 1..Len(w) : w[j].kind # "each"
    <2> DEFINE Quiet(s) ==
                 /\ StepOK(s, docs) /\ s.kind # "each"
                 /\ s.no \notin ClientErrors /\ s.fail \notin ClientErrors
    <2>1. /\ \A x : Quiet(Insert(x, 500))
          /\ Quiet(Query(500))
      BY <1>1, WorkSteps DEF WorkStep
    <2>2. Quiet(Skip("import", 3))
      BY DEF StepOK, Skip, Step, Errors, Passive, ClientErrors
    <2>3. \A a, b, c, d, e, f, g :
            LET t == <<a, b, c, d, e, f, g>>
            IN /\ IsScript(t) /\ Len(t) = 7
               /\ t[1] = a /\ t[2] = b /\ t[3] = c /\ t[4] = d /\ t[5] = e /\ t[6] = f
               /\ t[7] = g
      BY DEF IsScript, Elements
    <2> HIDE DEF Quiet
    <2>4. \A j \in 1..Len(w) : Quiet(w[j])
      BY <2>1, <2>2, <2>3
    <2>5. IsScript(w)
      BY <2>3
    <2> HIDE DEF w
    <2> QED BY <2>4, <2>5 DEF Quiet, Made
  <1>4. CreateAccountAssociation = Endpoint(q \o w, 200, docs)
    <2>1. PICK s : s = <<Check(400), Find("account", 500, 500), Find("target", 500, 500),
             Query(500), Skip("export", 2),
             Insert("export", 500), Insert("export_task", 500),
             Query(500), Skip("import", 3), Query(500),
             Insert("import", 500), Insert("import_task", 500)>>
      OBVIOUS
    <2>2. s = q \o w
      BY <2>1
    <2>3. CreateAccountAssociation = Endpoint(s, 200, docs)
      BY <2>1, Zenon DEF CreateAccountAssociation, docs
    <2> QED BY <2>2, <2>3, Zenon
  <1> HIDE DEF q, w
  <1> QED BY <1>1, <1>2, <1>3, <1>4, LookingFirst

\* The statistics of a stream fail always, and leave nothing undone.
LEMMA StreamStats == WellMade(GetJetStreamStats)
  <1> DEFINE docs == ListCodes
             q == <<Query(500), Never(500)>>
             e == Endpoint(q, 200, docs)
  <1>1. /\ 500 \in Errors(docs) /\ 0 \in Errors(docs) /\ 200 \in docs \intersect Successes
    BY Codes
  <1> HIDE DEF docs
  <1>2. /\ StepOK(Query(500), docs) /\ Query(500).kind = "query" /\ Query(500).skip = 0
        /\ StepOK(Never(500), docs) /\ Never(500).kind = "never" /\ Never(500).skip = 0
    BY <1>1 DEF StepOK, Query, Never, Step, Passive
  <1>3. Apart(Query(500), Never(500))
    BY <1>2 DEF Apart, Acting, Lasting, Once
  <1>4. IsScript(q) /\ Len(q) = 2 /\ q[1] = Query(500) /\ q[2] = Never(500)
    BY Tuples
  <1>5. GetJetStreamStats = e
    BY Zenon DEF GetJetStreamStats, docs, q
  <1> HIDE DEF q
  <1>6. /\ Made(q, docs) /\ Skipping(q) /\ KeptApart(q)
        /\ \A i \in 1..Len(q) : q[i].kind # "each"
    BY <1>2, <1>3, <1>4 DEF Made, Skipping, KeptApart, Acting, Remote
  <1>7. e.script = q /\ e.ok = 200 /\ e.partly = 200 /\ e.docs = docs
    BY DEF Endpoint
  <1> QED BY <1>1, <1>5, <1>6, <1>7 DEF WellMade, HalfMade, Answering

\* The deletion of many answers with a code that is not documented,
LEMMA BatchDeletion ==
  /\ Answering(BatchDeleteJetStreams, QueryCodes \union {206})
  /\ Skipping(BatchDeleteJetStreams.script)
  /\ KeptApart(BatchDeleteJetStreams.script)
  <1> DEFINE docs == QueryCodes \union {206}
             q == <<Check(400), Each("stream"), Each("other_stream")>>
             e == BatchDeleteJetStreams
  <1>1. {0, 400} \subseteq Errors(docs) /\ {200, 206} \subseteq docs \intersect Successes
    BY DEF QueryCodes, Errors, Failures, Successes
  <1> HIDE DEF docs
  <1>2. /\ StepOK(Check(400), docs) /\ Check(400).kind = "check" /\ Check(400).skip = 0
        /\ \A x : /\ StepOK(Each(x), docs) /\ Each(x).kind = "each" /\ Each(x).skip = 0
                  /\ Each(x).no \notin ClientErrors /\ Each(x).fail \notin ClientErrors
    BY <1>1 DEF StepOK, Check, Each, Step, Passive, Acting, ClientErrors
  <1>3. \A x, y : Apart(Check(400), Each(x)) /\ Apart(Each(x), Each(y))
    BY <1>2 DEF Apart, Acting, Lasting, Once
  <1>4. /\ IsScript(q) /\ Len(q) = 3
        /\ q[1] = Check(400) /\ q[2] = Each("stream") /\ q[3] = Each("other_stream")
    BY Tuples
  <1>5. e.script = q /\ e.ok = 200 /\ e.partly = 206
    BY DEF BatchDeleteJetStreams, Endpoint
  <1> HIDE DEF q, e
  <1>6. Made(q, docs) /\ Skipping(q) /\ KeptApart(q)
    BY <1>2, <1>3, <1>4 DEF Made, Skipping, KeptApart, Acting, Remote
  <1>7. Answering(e, docs) /\ Skipping(e.script) /\ KeptApart(e.script)
    BY <1>1, <1>5, <1>6 DEF Answering
  <1> QED BY <1>7 DEF e, docs

\* and so does the list of a cluster's servers.
LEMMA ServerList ==
  /\ Answering(ListClusterServers, Usual \union {403})
  /\ Skipping(ListClusterServers.script)
  /\ KeptApart(ListClusterServers.script)
  <1> DEFINE docs == Usual \union {403}
             q == GetConnection(404) \o <<Query(500), Rule(403)>>
             e == ListClusterServers
  <1>1. {0, 403, 404, 500} \subseteq Errors(docs) /\ 200 \in docs \intersect Successes
    BY DEF Usual, Errors, Failures, Successes
  <1> HIDE DEF docs
  <1>2. Plain(q, docs)
    <2>1. Plain(GetConnection(404), docs)
      BY <1>1, Connections
    <2>2. PlainStep(Query(500), docs) /\ PlainStep(Rule(403), docs)
      BY <1>1, PlainSteps
    <2> QED BY <2>1, <2>2, PlainTuples, PlainJoin
  <1>3. WellMade(Endpoint(q, 200, docs))
    BY <1>1, <1>2, Reading
  <1>4. /\ e.script = q /\ e.ok = 200 /\ e.partly = 200
        /\ Endpoint(q, 200, docs).script = q /\ Endpoint(q, 200, docs).docs = docs
        /\ Endpoint(q, 200, docs).ok = 200 /\ Endpoint(q, 200, docs).partly = 200
    BY DEF ListClusterServers, Endpoint
  <1> HIDE DEF q, e
  <1>5. Answering(e, docs) /\ Skipping(e.script) /\ KeptApart(e.script)
    BY <1>3, <1>4 DEF WellMade, HalfMade, Answering
  <1> QED BY <1>5 DEF e, docs

\* Documenting more does no harm.
LEMMA ToldMore ==
  ASSUME NEW e, NEW docs, NEW more, docs \subseteq more, Answering(e, docs)
  PROVE  Answering(e, more)
  BY DEF Answering, Made, StepOK, Errors

\* Each pair of steps comes in one order.
LEMMA ApartEither ==
  ASSUME NEW q, KeptApart(q)
  PROVE  Repeating(q)
  <1> SUFFICES ASSUME NEW i \in 1..Len(q), NEW j \in 1..Len(q)
      PROVE  /\ q[i].kind \in Once /\ i < j =>
                  q[j].fail = 0 /\ q[j].kind \notin {"find", "unique"}
             /\ q[i].kind \in Once /\ i # j =>
                  q[j].on # q[i].on \/ q[j].kind \notin Acting
             /\ q[i].kind = "each" =>
                  q[j].kind \notin Lasting \ {"each"} /\ q[j].kind # "find"
             /\ q[i].kind = "unique" /\ q[j].on = q[i].on => q[j].kind \notin Acting \ Once
             /\ q[i].kind = "never" => q[j].kind \notin Lasting
    BY DEF Repeating, KeptApart
  <1>1. CASE i < j
    BY <1>1 DEF KeptApart, Apart, Once, Acting, Lasting
  <1>2. CASE j < i
    BY <1>2 DEF KeptApart, Apart, Once, Acting, Lasting
  <1>3. CASE i = j
    BY <1>3 DEF Once, Acting, Lasting
  <1> QED BY <1>1, <1>2, <1>3

\* All handlers: the conditions the properties below rest on.
LEMMA HandlersAreWellMade ==
  /\ \A e \in Endpoints : Answering(e, Told(e))
  /\ \A e \in Endpoints \ {CreateAccountAssociation} : Skipping(e.script)
  /\ \A e \in Endpoints \ HalfDone : Repeating(e.script)
  <1>1. \A e \in Endpoints :
          \/ WellMade(e)
          \/ /\ e \in HalfDone /\ Answering(e, e.docs)
             /\ e = CreateAccountAssociation \/ Skipping(e.script)
          \/ /\ e \in {BatchDeleteJetStreams, ListClusterServers}
             /\ Answering(e, Told(e)) /\ Skipping(e.script) /\ KeptApart(e.script)
    <2>1. \A e \in {RemoveAccountExport, RemoveAccountImport, CreateUser, CreateAccount,
                    AddAccountExport, AddAccountImport, CreateAccountAssociation,
                    DeleteClusterJetStreamStream, DeleteClusterJetStreamConsumer} :
            /\ e \in HalfDone /\ Answering(e, e.docs)
            /\ e = CreateAccountAssociation \/ Skipping(e.script)
      BY ReadCodesWriters, Creators, NewRecords, Changes, Association, ClusterDeleters,
         Zenon DEF HalfDone, HalfMade
    <2>2. \A e \in {BatchDeleteJetStreams, ListClusterServers} :
            Answering(e, Told(e)) /\ Skipping(e.script) /\ KeptApart(e.script)
      <3>1. BatchDeleteJetStreams.docs = QueryCodes
        BY DEF BatchDeleteJetStreams, Endpoint
      <3>2. ListClusterServers.docs = Usual
        BY DEF ListClusterServers, Endpoint
      <3>3. QueryCodes \union {206} \subseteq Told(BatchDeleteJetStreams)
        BY <3>1 DEF Told
      <3>4. Usual \union {403} \subseteq Told(ListClusterServers)
        BY <3>2 DEF Told
      <3>5. Answering(BatchDeleteJetStreams, Told(BatchDeleteJetStreams))
        BY <3>3, BatchDeletion, ToldMore
      <3>6. Answering(ListClusterServers, Told(ListClusterServers))
        BY <3>4, ServerList, ToldMore
      <3> QED BY <3>5, <3>6, BatchDeletion, ServerList
    <2> DEFINE Kinds ==
          {RemoveAccountExport, RemoveAccountImport, CreateUser, CreateAccount,
           AddAccountExport, AddAccountImport, CreateAccountAssociation,
           DeleteClusterJetStreamStream, DeleteClusterJetStreamConsumer}
             \union {BatchDeleteJetStreams, ListClusterServers}
    <2>3. \A e \in Endpoints : e \in Kinds \/ WellMade(e)
      BY ReadCodesReaders, ListCodesReaders, QueryCodesReaders, UsualReaders, UsualWriters,
         ReadCodesWriters, QueryCodesWriters, ListCodesWriters, Creators, Deleters,
         NewRecords, Changes, FirstTimes, StreamStats DEF Endpoints
    <2> QED BY <2>1, <2>2, <2>3, Zenon
  <1>2. \A e : Answering(e, e.docs) => Answering(e, Told(e))
    <2>1. \A e : e.docs \subseteq Told(e)
      BY DEF Told
    <2> QED BY <2>1, ToldMore
  <1>3. \A e : KeptApart(e.script) => Repeating(e.script)
    <2> SUFFICES ASSUME NEW e, KeptApart(e.script) PROVE Repeating(e.script)
      OBVIOUS
    <2>1. PICK q : q = e.script
      OBVIOUS
    <2> QED BY <2>1, ApartEither
  <1> QED BY <1>1, <1>2, <1>3, Zenon DEF WellMade, HalfMade

-----------------------------------------------------------------------------
(* A request, and the request again.                                        *)

script == endpoint.script

\* An answer is that of the step the handler stopped at, or of its end; an effect has
\* a step that was passed, or told a cluster in vain.
AnswerOK ==
  /\ endpoint \in Endpoints
  /\ pos \in Nat \ {0}
  /\ faults \in Nat
  /\ acted \in BOOLEAN /\ incomplete \in BOOLEAN
  /\ acted => \E i \in 1..Len(script) :
               script[i].kind \in Acting /\ (i < pos \/ (i = pos /\ script[i].kind \in Remote))
  /\ incomplete => \E i \in 1..Len(script) : script[i].kind = "each"
  /\ answer = 0 => cause # "fault"
  /\ answer # 0 =>
      \/ /\ pos \in 1..Len(script)
         /\ answer \in {script[pos].no, script[pos].fail}
         /\ cause # "none"
      \/ /\ pos > Len(script)
         /\ answer = (IF incomplete THEN endpoint.partly ELSE endpoint.ok)
         /\ cause = "none"

\* The records and effects that are counted are those the script names.
EffectsOK ==
  /\ done \in [Named(script, {s.kind : s \in Elements(script)}) -> Nat]
  /\ \A i \in 1..Len(script) : script[i].on \in DOMAIN done

\* Every lasting step that was passed has had its effect, or missed its record.
PassedOK ==
  request = "good" /\ Skipping(script) =>
    \A i \in 1..Len(script) :
      i < pos /\ script[i].kind \in Lasting =>
        \/ done[script[i].on] >= 1
        \/ incomplete /\ script[i].on \in found

\* In a script that can be run again, nothing is done twice, and what must not be has
\* not been done when a failure stops the request.
OnceOK ==
  Repeating(script) =>
    /\ \A x \in DOMAIN done : done[x] <= 1
    /\ \A x \in DOMAIN done : done[x] >= 1 =>
         \E i \in 1..Len(script) : script[i].kind \in Acting /\ script[i].on = x
    /\ \A i \in 1..Len(script) :
         script[i].kind \in Once /\ done[script[i].on] >= 1 => i < pos /\ cause # "fault"

\* A record that is gone was removed by a step of the script.
FoundOK ==
  request = "good" =>
    \A x \in Records(endpoint) \ found :
      \E i \in 1..Len(script) : script[i].kind \in Gone /\ script[i].on = x /\ done[x] >= 1

\* A good request is refused only by a handler that promises nothing.
RefusedOK ==
  request = "good" /\ Repeating(script) /\ cause \notin {"none", "fault"} =>
    Promised(endpoint) = {}

ApiInv == AnswerOK /\ EffectsOK /\ PassedOK /\ OnceOK /\ FoundOK /\ RefusedOK

\* The script of the request is well made.
LEMMA ScriptIs ==
  ASSUME endpoint \in Endpoints
  PROVE  /\ Answering(endpoint, Told(endpoint)) /\ Len(script) \in Nat
         /\ DOMAIN script = 1..Len(script)
         /\ Elements(script) = {script[i] : i \in 1..Len(script)}
  <1>1. Answering(endpoint, Told(endpoint))
    BY HandlersAreWellMade
  <1>2. script \in Seq(Elements(script))
    BY <1>1 DEF Answering, Made, IsScript, script
  <1> QED BY <1>1, <1>2 DEF Elements

\* What the script says of the step that is next.
LEMMA HereIs ==
  ASSUME AnswerOK, EffectsOK, pos <= Len(script)
  PROVE  /\ pos \in 1..Len(script) /\ Here = script[pos]
         /\ StepOK(Here, Told(endpoint))
         /\ Here.on \in DOMAIN done
  <1>1. Answering(endpoint, Told(endpoint)) /\ Len(script) \in Nat
    BY ScriptIs DEF AnswerOK
  <1>2. pos \in 1..Len(script)
    BY <1>1 DEF AnswerOK
  <1> QED BY <1>1, <1>2 DEF EffectsOK, Answering, Made, Here, script

\* Only steps that act have effects.
LEMMA DoneBy ==
  ASSUME NEW D, done \in [D -> Nat], NEW s, s.on \in D, Do(s)
  PROVE  /\ done' \in [D -> Nat]
         /\ \A x \in D : x # s.on \/ s.kind \notin Acting => done'[x] = done[x]
         /\ s.kind \in Acting => done'[s.on] \in {1, done[s.on] + 1}
         /\ s.kind \in Acting \ {"insert"} => done'[s.on] = 1
         /\ s.kind \notin Acting => done' = done /\ (acted \in BOOLEAN => acted' = acted)
         /\ found' = IF s.kind \in Gone THEN found \ {s.on} ELSE found
         /\ acted \in BOOLEAN => acted' \in BOOLEAN /\ (acted => acted')
  <1> DEFINE f(v) == CASE s.kind = "insert" -> v + 1
                  [] s.kind \in {"save", "remove", "tell", "erase", "spawn", "try", "each"} -> 1
                  [] OTHER -> v
  <1>1. done' = [done EXCEPT ![s.on] = f(done[s.on])]
    BY DEF Do
  <1>2. done[s.on] \in Nat
    OBVIOUS
  <1>3. /\ s.kind \in Acting => f(done[s.on]) \in {1, done[s.on] + 1}
        /\ s.kind \in Acting \ {"insert"} => f(done[s.on]) = 1
        /\ s.kind \notin Acting => f(done[s.on]) = done[s.on]
        /\ f(done[s.on]) \in Nat
    BY <1>2 DEF Acting
  <1> HIDE DEF f
  <1>4. /\ done' \in [D -> Nat]
        /\ done'[s.on] = f(done[s.on])
        /\ \A x \in D : x # s.on => done'[x] = done[x]
    BY <1>1, <1>3
  <1>5. s.kind \notin Acting => done' = done
    BY <1>1, <1>3
  <1>6. /\ acted' = (acted \/ done' # done)
        /\ found' = IF s.kind \in Gone THEN found \ {s.on} ELSE found
    BY DEF Do, Gone
  <1>7. \A x \in D : x # s.on \/ s.kind \notin Acting => done'[x] = done[x]
    BY <1>4, <1>5
  <1>8. /\ s.kind \notin Acting => (acted \in BOOLEAN => acted' = acted)
        /\ acted \in BOOLEAN => acted' \in BOOLEAN /\ (acted => acted')
    BY <1>5, <1>6, Zenon
  <1> QED BY <1>3, <1>4, <1>5, <1>6, <1>7, <1>8

\* A request that arrives,
LEMMA ApiInitInv == ApiInit => ApiInv
  <1> SUFFICES ASSUME ApiInit PROVE ApiInv
    OBVIOUS
  <1> USE DEF ApiInit
  <1>0. endpoint \in Endpoints
    OBVIOUS
  <1>1. AnswerOK
    <2>1. /\ pos \in Nat \ {0} /\ faults \in Nat /\ answer = 0
          /\ acted = FALSE /\ incomplete = FALSE /\ cause = "none"
      OBVIOUS
    <2> QED BY <1>0, <2>1 DEF AnswerOK
  <1>2. EffectsOK
    BY <1>0, ScriptIs DEF EffectsOK, Named, script
  <1>3. PassedOK
    BY <1>0, ScriptIs DEF PassedOK
  <1>4. OnceOK
    BY <1>2 DEF OnceOK, EffectsOK
  <1>5. FoundOK
    BY DEF FoundOK
  <1>6. RefusedOK
    BY DEF RefusedOK
  <1> QED BY <1>1, <1>2, <1>3, <1>4, <1>5, <1>6 DEF ApiInv

\* one that is refused,
LEMMA RefuseInv == ApiInv /\ Refuse => ApiInv'
  <1> SUFFICES ASSUME ApiInv, Refuse PROVE ApiInv'
    OBVIOUS
  <1> USE DEF ApiInv
  <1>1. /\ pos \in 1..Len(script) /\ Here = script[pos]
        /\ StepOK(Here, Told(endpoint)) /\ Here.on \in DOMAIN done
    BY HereIs DEF Refuse, Running, script
  <1>2. /\ answer' = Here.no /\ cause' = Here.kind /\ answer = 0 /\ MayRefuse(Here)
        /\ UNCHANGED <<endpoint, request, found, pos, done, acted, incomplete, faults>>
        /\ script' = script
    BY DEF Refuse, Answer, Running, script
  <1>3. Here.kind \notin {"none", "fault"}
    BY <1>1 DEF StepOK, Passive, Acting
  <1>4. AnswerOK'
    BY <1>1, <1>2, <1>3 DEF AnswerOK
  <1>5. EffectsOK'
    BY <1>2 DEF EffectsOK
  <1>6. PassedOK'
    BY <1>2 DEF PassedOK
  <1>7. OnceOK'
    BY <1>2, <1>3 DEF OnceOK
  <1>8. FoundOK'
    BY <1>2 DEF FoundOK, Records
  <1>9. RefusedOK'
    <2> SUFFICES ASSUME request = "good", Repeating(script)
        PROVE  Promised(endpoint) = {}
      BY <1>2 DEF RefusedOK, Promised
    <2>0. endpoint \in Endpoints /\ pos \in 1..Len(script) /\ Here = script[pos]
      BY <1>1 DEF AnswerOK
    <2>1. CASE Here.kind = "never"
      <3>1. \A i \in 1..Len(script) : script[i].kind \notin Lasting
        BY <2>0, <2>1 DEF Repeating
      <3> QED BY <2>0, <3>1, ScriptIs DEF Promised, Named, script, Lasting, Acting
    <2>2. CASE Here.kind = "find" /\ Here.on \notin found
      <3>1. Here.on \in Records(endpoint)
        BY <2>0, <2>2, ScriptIs DEF Records, Named, script
      <3>2. PICK i \in 1..Len(script) :
              script[i].kind \in Gone /\ script[i].on = Here.on /\ done[Here.on] >= 1
        BY <3>1, <2>2 DEF FoundOK
      <3>3. script[i].kind \notin {"each", "erase"}
        BY <2>0, <2>2 DEF Repeating
      <3>4. script[i].kind \in Once /\ i < pos
        BY <3>2, <3>3 DEF OnceOK, Gone, Once
      <3> QED BY <2>0, <2>2, <3>4 DEF Repeating
    <2>3. CASE Here.kind = "unique" /\ done[Here.on] > 0
      <3>1. done[Here.on] >= 1
        BY <1>1, <2>3 DEF EffectsOK
      <3>2. PICK i \in 1..Len(script) : script[i].kind \in Acting /\ script[i].on = Here.on
        BY <1>1, <3>1 DEF OnceOK
      <3>3. script[i].kind \in Once
        BY <2>0, <2>3, <3>2 DEF Repeating
      <3>4. i < pos
        BY <3>1, <3>2, <3>3 DEF OnceOK
      <3> QED BY <2>0, <2>3, <3>3, <3>4 DEF Repeating
    <2> QED BY <1>2, <2>1, <2>2, <2>3 DEF MayRefuse
  <1> QED BY <1>4, <1>5, <1>6, <1>7, <1>8, <1>9

\* one that comes to its end,
LEMMA FinishInv == ApiInv /\ Finish => ApiInv'
  <1> SUFFICES ASSUME ApiInv, Finish PROVE ApiInv'
    OBVIOUS
  <1> USE DEF ApiInv
  <1>1. /\ pos > Len(script) /\ cause' = "none"
        /\ answer' = IF incomplete THEN endpoint.partly ELSE endpoint.ok
        /\ UNCHANGED <<endpoint, request, found, pos, done, acted, incomplete, faults>>
        /\ script' = script
    BY DEF Finish, Answer, script
  <1>4. AnswerOK'
    BY <1>1 DEF AnswerOK
  <1>5. EffectsOK'
    BY <1>1 DEF EffectsOK
  <1>6. PassedOK'
    BY <1>1 DEF PassedOK
  <1>7. OnceOK'
    BY <1>1 DEF OnceOK
  <1>8. FoundOK'
    BY <1>1 DEF FoundOK, Records
  <1>9. RefusedOK'
    BY <1>1 DEF RefusedOK
  <1> QED BY <1>4, <1>5, <1>6, <1>7, <1>8, <1>9

\* one that is sent again,
LEMMA RepeatInv == ApiInv /\ Repeat => ApiInv'
  <1> SUFFICES ASSUME ApiInv, Repeat PROVE ApiInv'
    OBVIOUS
  <1> USE DEF ApiInv
  <1>1. /\ pos' = 1 /\ acted' = FALSE /\ incomplete' = FALSE /\ answer' = 0 /\ cause' = "none"
        /\ UNCHANGED <<endpoint, request, found, done, faults>>
        /\ script' = script
        /\ cause = "fault" \/ incomplete
    BY DEF Repeat, script
  <1>2. endpoint \in Endpoints /\ Len(script) \in Nat
    BY ScriptIs DEF AnswerOK
  <1>4. AnswerOK'
    <2>1. faults' \in Nat /\ endpoint' \in Endpoints /\ pos' \in Nat \ {0}
      BY <1>1 DEF AnswerOK
    <2> QED BY <1>1, <2>1 DEF AnswerOK
  <1>5. EffectsOK'
    BY <1>1 DEF EffectsOK
  <1>6. PassedOK'
    BY <1>1, <1>2 DEF PassedOK
  <1>7. OnceOK'
    <2> SUFFICES ASSUME Repeating(script)
        PROVE  OnceOK'
      BY <1>1 DEF OnceOK
    <2>1. \A i \in 1..Len(script) :
            ~ (script[i].kind \in Once /\ done[script[i].on] >= 1)
      <3>1. CASE cause = "fault"
        BY <3>1 DEF OnceOK
      <3>2. CASE incomplete
        <4>1. PICK k \in 1..Len(script) : script[k].kind = "each"
          BY <3>2 DEF AnswerOK
        <4>2. \A i \in 1..Len(script) : script[i].kind \notin Lasting \ {"each"}
          BY <4>1 DEF Repeating
        <4> QED BY <4>2 DEF Once, Lasting, Acting
      <3> QED BY <1>1, <3>1, <3>2
    <2> QED BY <1>1, <2>1 DEF OnceOK
  <1>8. FoundOK'
    BY <1>1 DEF FoundOK, Records
  <1>9. RefusedOK'
    BY <1>1 DEF RefusedOK
  <1> QED BY <1>4, <1>5, <1>6, <1>7, <1>8, <1>9

\* What an effect does to the invariant, wherever the handler is afterwards.
LEMMA EffectInv ==
  ASSUME ApiInv, Running, Do(Here), UNCHANGED <<endpoint, request, incomplete>>
  PROVE  /\ EffectsOK' /\ FoundOK'
         /\ acted' => acted \/ Here.kind \in Acting
         /\ request = "good" /\ Skipping(script) =>
              \A i \in 1..Len(script) :
                i < pos /\ script[i].kind \in Lasting =>
                  \/ done'[script[i].on] >= 1
                  \/ incomplete /\ script[i].on \in found'
         /\ Here.kind \in Acting => done'[Here.on] >= 1
         /\ Here.kind \notin Acting => done' = done
         /\ Repeating(script) =>
              /\ \A x \in DOMAIN done : done'[x] <= 1
              /\ \A x \in DOMAIN done : done'[x] >= 1 =>
                   \E i \in 1..Len(script) : script[i].kind \in Acting /\ script[i].on = x
              /\ \A i \in 1..Len(script) :
                   script[i].kind \in Once /\ done'[script[i].on] >= 1 =>
                     i < pos \/ (i = pos /\ Here.kind \in Once)
  <1> USE DEF ApiInv
  <1> DEFINE D == DOMAIN done
  <1>1. /\ pos \in 1..Len(script) /\ Here = script[pos]
        /\ StepOK(Here, Told(endpoint)) /\ Here.on \in D
    BY HereIs DEF Running, script
  <1>2. /\ script' = script /\ endpoint' = endpoint /\ request' = request
        /\ incomplete' = incomplete
    BY DEF script
  <1>3. done \in [D -> Nat] /\ D = Named(script, {s.kind : s \in Elements(script)})
    BY DEF EffectsOK
  <1> HIDE DEF D
  <1>4. /\ done' \in [D -> Nat]
        /\ \A x \in D : x # Here.on \/ Here.kind \notin Acting => done'[x] = done[x]
        /\ Here.kind \in Acting => done'[Here.on] \in {1, done[Here.on] + 1}
        /\ Here.kind \in Acting \ {"insert"} => done'[Here.on] = 1
        /\ Here.kind \notin Acting => done' = done /\ (acted \in BOOLEAN => acted' = acted)
        /\ found' = IF Here.kind \in Gone THEN found \ {Here.on} ELSE found
    <2>1. PICK d, s : d = D /\ s = Here
      OBVIOUS
    <2>2. done \in [d -> Nat] /\ s.on \in d /\ Do(s)
      BY <1>1, <1>3, <2>1 DEF Do
    <2> HIDE DEF ApiInv
    <2>3. /\ done' \in [d -> Nat]
          /\ \A x \in d : x # s.on \/ s.kind \notin Acting => done'[x] = done[x]
          /\ s.kind \in Acting => done'[s.on] \in {1, done[s.on] + 1}
          /\ s.kind \in Acting \ {"insert"} => done'[s.on] = 1
          /\ s.kind \notin Acting => done' = done /\ (acted \in BOOLEAN => acted' = acted)
          /\ found' = IF s.kind \in Gone THEN found \ {s.on} ELSE found
      BY <2>2, DoneBy
    <2> QED BY <2>1, <2>3
  <1>5. EffectsOK'
    <2>1. DOMAIN done' = D /\ D = DOMAIN done
      BY <1>3, <1>4
    <2>2. done' \in [Named(script', {s.kind : s \in Elements(script')}) -> Nat]
      BY <1>2, <1>3, <1>4
    <2> QED BY <1>2, <2>1, <2>2 DEF EffectsOK
  <1>6. Here.kind \in Acting => done'[Here.on] >= 1
    BY <1>1, <1>3, <1>4
  <1>7. \A x \in D : done[x] >= 1 => done'[x] >= 1
    BY <1>3, <1>4, <1>6
  <1>8. FoundOK'
    <2> SUFFICES ASSUME request = "good", NEW x \in Records(endpoint) \ found'
        PROVE  \E i \in 1..Len(script) :
                 script[i].kind \in Gone /\ script[i].on = x /\ done'[x] >= 1
      BY <1>2 DEF FoundOK, Records
    <2>1. CASE x \in found
      BY <1>1, <1>4, <1>6, <2>1 DEF Gone, Acting
    <2>2. CASE x \notin found
      <3>1. PICK i \in 1..Len(script) :
              script[i].kind \in Gone /\ script[i].on = x /\ done[x] >= 1
        BY <2>2 DEF FoundOK
      <3> QED BY <3>1, <1>7 DEF EffectsOK, D
    <2> QED BY <2>1, <2>2
  <1>9. ASSUME request = "good", Skipping(script), NEW i \in 1..Len(script),
               i < pos, script[i].kind \in Lasting
        PROVE  done'[script[i].on] >= 1 \/ (incomplete /\ script[i].on \in found')
    <2>1. script[i].on \in D
      BY DEF EffectsOK, D
    <2>2. done[script[i].on] >= 1 \/ (incomplete /\ script[i].on \in found)
      BY <1>9 DEF PassedOK
    <2> QED BY <1>4, <1>6, <1>7, <2>1, <2>2 DEF Gone, Acting
  <1>10. acted' => acted \/ Here.kind \in Acting
    BY <1>4 DEF AnswerOK
  <1>11. ASSUME Repeating(script)
         PROVE  /\ \A x \in D : done'[x] <= 1
                /\ \A x \in D : done'[x] >= 1 =>
                     \E i \in 1..Len(script) : script[i].kind \in Acting /\ script[i].on = x
                /\ \A i \in 1..Len(script) :
                     script[i].kind \in Once /\ done'[script[i].on] >= 1 =>
                       i < pos \/ (i = pos /\ Here.kind \in Once)
    <2>1. /\ \A x \in D : done[x] <= 1
          /\ \A x \in D : done[x] >= 1 =>
               \E i \in 1..Len(script) : script[i].kind \in Acting /\ script[i].on = x
          /\ \A i \in 1..Len(script) :
               script[i].kind \in Once /\ done[script[i].on] >= 1 => i < pos
      BY <1>11 DEF OnceOK, D
    <2>2. \A i \in 1..Len(script) : script[i].on \in D
      BY DEF EffectsOK, D
    <2>3. Here.kind = "insert" => done[Here.on] = 0
      BY <1>1, <1>3, <2>1 DEF Once
    <2>4. \A x \in D : done'[x] <= 1
      BY <1>1, <1>3, <1>4, <2>1, <2>3
    <2>5. \A x \in D : done'[x] >= 1 =>
            \E i \in 1..Len(script) : script[i].kind \in Acting /\ script[i].on = x
      BY <1>1, <1>3, <1>4, <2>1
    <2>6. ASSUME NEW i \in 1..Len(script), script[i].kind \in Once, done'[script[i].on] >= 1
          PROVE  i < pos \/ (i = pos /\ Here.kind \in Once)
      <3>1. CASE i = pos
        BY <3>1, <1>1, <2>6
      <3>2. CASE i # pos
        <4>1. Here.on # script[i].on \/ Here.kind \notin Acting
          BY <1>1, <1>11, <2>6, <3>2 DEF Repeating
        <4> QED BY <1>4, <2>1, <2>2, <2>6, <4>1
      <3> QED BY <3>1, <3>2
    <2> QED BY <2>4, <2>5, <2>6
  <1> QED BY <1>4, <1>5, <1>6, <1>8, <1>9, <1>10, <1>11 DEF D

\* a step that is taken,
LEMMA PassInv == ApiInv /\ Pass => ApiInv'
  <1> SUFFICES ASSUME ApiInv, Pass PROVE ApiInv'
    OBVIOUS
  <1> USE DEF ApiInv
  <1>1. /\ pos \in 1..Len(script) /\ Here = script[pos]
        /\ StepOK(Here, Told(endpoint)) /\ Here.on \in DOMAIN done
    BY HereIs DEF Pass, Running, script
  <1>2. /\ UNCHANGED <<endpoint, request, faults, answer, cause>>
        /\ script' = script /\ answer = 0
        /\ pos' = pos + 1 + (IF Skips(Here) THEN Here.skip ELSE 0)
    BY DEF Pass, Running, script
  <1>3. pos' \in Nat /\ pos' > pos /\ pos \in Nat \ {0} /\ Len(script) \in Nat
    BY <1>1, <1>2 DEF StepOK
  <1>4. cause # "fault"
    BY <1>2 DEF AnswerOK
  <1>5. RefusedOK'
    BY <1>2 DEF RefusedOK, Promised
  <1>6. CASE Misses(Here)
    <2>1. incomplete' = TRUE /\ UNCHANGED <<done, found, acted>>
      BY <1>6 DEF Pass
    <2>2. Here.kind = "each" /\ Here.on \notin found /\ ~ Skips(Here)
      BY <1>6 DEF Misses, Skips
    <2>3. AnswerOK'
      <3>1. acted' => \E i \in 1..Len(script) : script[i].kind \in Acting /\ i < pos'
        BY <1>1, <1>3, <2>1 DEF AnswerOK
      <3>2. acted' \in BOOLEAN /\ pos' \in Nat \ {0} /\ faults' \in Nat
        BY <1>2, <1>3, <2>1 DEF AnswerOK
      <3> QED BY <1>1, <1>2, <2>1, <2>2, <3>1, <3>2 DEF AnswerOK
    <2>4. EffectsOK'
      BY <1>2, <2>1 DEF EffectsOK
    <2>5. PassedOK'
      <3> SUFFICES ASSUME request = "good", Skipping(script), NEW i \in 1..Len(script),
                          i < pos', script[i].kind \in Lasting
          PROVE  done[script[i].on] >= 1 \/ script[i].on \in found
        BY <1>2, <2>1 DEF PassedOK
      <3>1. CASE i < pos
        BY <3>1 DEF PassedOK
      <3>2. CASE i = pos
        <4>1. Here.on \in Records(endpoint)
          BY <1>1, <2>2, ScriptIs DEF Records, Named, script, AnswerOK
        <4> QED BY <1>1, <2>2, <3>2, <4>1 DEF FoundOK
      <3> QED BY <1>1, <1>2, <2>2, <3>1, <3>2
    <2>6. OnceOK'
      BY <1>1, <1>2, <1>3, <2>1 DEF OnceOK
    <2>7. FoundOK'
      BY <1>2, <2>1 DEF FoundOK, Records
    <2> QED BY <1>5, <2>3, <2>4, <2>5, <2>6, <2>7
  <1>7. CASE ~ Misses(Here)
    <2>1. Running /\ Do(Here) /\ UNCHANGED <<endpoint, request, incomplete>>
      BY <1>7 DEF Pass
    <2>2. /\ EffectsOK' /\ FoundOK'
          /\ acted' => acted \/ Here.kind \in Acting
          /\ request = "good" /\ Skipping(script) =>
               \A i \in 1..Len(script) :
                 i < pos /\ script[i].kind \in Lasting =>
                   \/ done'[script[i].on] >= 1
                   \/ incomplete /\ script[i].on \in found'
          /\ Here.kind \in Acting => done'[Here.on] >= 1
          /\ Here.kind \notin Acting => done' = done
          /\ Repeating(script) =>
               /\ \A x \in DOMAIN done : done'[x] <= 1
               /\ \A x \in DOMAIN done : done'[x] >= 1 =>
                    \E i \in 1..Len(script) : script[i].kind \in Acting /\ script[i].on = x
               /\ \A i \in 1..Len(script) :
                    script[i].kind \in Once /\ done'[script[i].on] >= 1 =>
                      i < pos \/ (i = pos /\ Here.kind \in Once)
      <3> HIDE DEF ApiInv
      <3> QED BY <2>1, EffectInv
    <2>3. AnswerOK'
      <3>1. acted' => \E i \in 1..Len(script) : script[i].kind \in Acting /\ i < pos'
        BY <1>1, <1>3, <2>2 DEF AnswerOK
      <3>2. acted' \in BOOLEAN /\ pos' \in Nat \ {0} /\ faults' \in Nat
        BY <1>2, <1>3, <2>1 DEF AnswerOK, Do
      <3> QED BY <1>1, <1>2, <2>1, <3>1, <3>2 DEF AnswerOK
    <2>5. PassedOK'
      <3> SUFFICES ASSUME request = "good", Skipping(script), NEW i \in 1..Len(script),
                          i < pos', script[i].kind \in Lasting
          PROVE  done'[script[i].on] >= 1 \/ (incomplete /\ script[i].on \in found')
        BY <1>2, <2>1 DEF PassedOK
      <3>1. CASE i < pos
        BY <3>1, <2>2
      <3>2. CASE i = pos
        BY <1>1, <2>2, <3>2 DEF Lasting
      <3>3. CASE pos < i
        <4>1. Skips(Here) /\ i <= pos + Here.skip
          BY <1>1, <1>2, <3>3 DEF StepOK
        <4>2. script[i].on = Here.on
          BY <1>1, <3>3, <4>1 DEF Skipping
        <4>3. done[Here.on] > 0 /\ Here.kind = "skip"
          BY <4>1 DEF Skips
        <4>4. done' = done
          BY <2>2, <4>3 DEF Acting
        <4>5. done[Here.on] \in Nat
          BY <1>1 DEF EffectsOK
        <4> QED BY <4>2, <4>3, <4>4, <4>5
      <3> QED BY <1>1, <3>1, <3>2, <3>3
    <2>6. OnceOK'
      <3> SUFFICES ASSUME Repeating(script) PROVE OnceOK'
        BY <1>2 DEF OnceOK
      <3>1. DOMAIN done' = DOMAIN done
        BY <1>2, <2>2 DEF EffectsOK
      <3>2. \A i \in 1..Len(script) :
              script[i].kind \in Once /\ done'[script[i].on] >= 1 =>
                i < pos' /\ cause' # "fault"
        BY <1>1, <1>2, <1>3, <1>4, <2>2
      <3> QED BY <1>2, <2>2, <3>1, <3>2 DEF OnceOK
    <2> QED BY <1>5, <2>2, <2>3, <2>5, <2>6
  <1> QED BY <1>6, <1>7

\* a step that fails and is answered,
LEMMA FailInv == ApiInv /\ Fail => ApiInv'
  <1> SUFFICES ASSUME ApiInv, Fail PROVE ApiInv'
    OBVIOUS
  <1> USE DEF ApiInv
  <1>1. /\ pos \in 1..Len(script) /\ Here = script[pos]
        /\ StepOK(Here, Told(endpoint)) /\ Here.on \in DOMAIN done
    BY HereIs DEF Fail, Running, script
  <1>2. /\ UNCHANGED <<endpoint, request, pos, incomplete>>
        /\ script' = script /\ answer = 0 /\ Here.fail # 0
        /\ answer' = Here.fail /\ cause' = "fault" /\ faults' = faults + 1 /\ Running
        /\ UNCHANGED <<done, found, acted>> \/ (Here.kind \in Remote /\ Do(Here))
    BY DEF Fail, Running, script, Answer, Remote
  <1>3. Repeating(script) =>
          \A i \in 1..Len(script) : script[i].kind \in Once => ~ (i < pos)
    BY <1>1, <1>2 DEF Repeating
  <1>5. RefusedOK'
    BY <1>2 DEF RefusedOK, Promised
  <1>6. ASSUME acted' => acted \/ Here.kind \in Remote, acted' \in BOOLEAN
        PROVE  AnswerOK'
    <2>1. acted' => \E i \in 1..Len(script) :
                      /\ script[i].kind \in Acting
                      /\ i < pos \/ (i = pos /\ script[i].kind \in Remote)
      BY <1>1, <1>6 DEF AnswerOK, Acting, Remote
    <2>2. faults' \in Nat /\ pos' \in Nat \ {0}
      BY <1>2 DEF AnswerOK
    <2> QED BY <1>1, <1>2, <1>6, <2>1, <2>2 DEF AnswerOK
  <1>7. CASE UNCHANGED <<done, found, acted>>
    <2>1. AnswerOK'
      BY <1>6, <1>7 DEF AnswerOK
    <2>2. EffectsOK' /\ FoundOK'
      BY <1>2, <1>7 DEF EffectsOK, FoundOK, Records
    <2>3. PassedOK'
      BY <1>2, <1>7 DEF PassedOK
    <2>4. OnceOK'
      BY <1>2, <1>3, <1>7 DEF OnceOK
    <2> QED BY <1>5, <2>1, <2>2, <2>3, <2>4
  <1>8. CASE Here.kind \in Remote /\ Do(Here)
    <2>2. /\ EffectsOK' /\ FoundOK'
          /\ request = "good" /\ Skipping(script) =>
               \A i \in 1..Len(script) :
                 i < pos /\ script[i].kind \in Lasting =>
                   \/ done'[script[i].on] >= 1
                   \/ incomplete /\ script[i].on \in found'
          /\ Repeating(script) =>
               /\ \A x \in DOMAIN done : done'[x] <= 1
               /\ \A x \in DOMAIN done : done'[x] >= 1 =>
                    \E i \in 1..Len(script) : script[i].kind \in Acting /\ script[i].on = x
               /\ \A i \in 1..Len(script) :
                    script[i].kind \in Once /\ done'[script[i].on] >= 1 =>
                      i < pos \/ (i = pos /\ Here.kind \in Once)
      <3> HIDE DEF ApiInv
      <3> QED BY <1>2, <1>8, EffectInv
    <2>3. AnswerOK'
      <3>1. acted' \in BOOLEAN
        BY <1>8 DEF Do, AnswerOK
      <3> QED BY <1>6, <1>8, <3>1
    <2>4. PassedOK'
      BY <1>2, <2>2 DEF PassedOK
    <2>5. OnceOK'
      <3> SUFFICES ASSUME Repeating(script) PROVE OnceOK'
        BY <1>2 DEF OnceOK
      <3>1. DOMAIN done' = DOMAIN done
        BY <1>2, <2>2 DEF EffectsOK
      <3>2. \A i \in 1..Len(script) :
              script[i].kind \in Once => ~ (done'[script[i].on] >= 1)
        BY <1>3, <1>8, <2>2 DEF Once, Remote
      <3> QED BY <1>2, <2>2, <3>1, <3>2 DEF OnceOK
    <2> QED BY <1>5, <2>2, <2>3, <2>4, <2>5
  <1> QED BY <1>2, <1>7, <1>8

\* a step that fails and is not,
LEMMA FailQuietlyInv == ApiInv /\ FailQuietly => ApiInv'
  <1> SUFFICES ASSUME ApiInv, FailQuietly PROVE ApiInv'
    OBVIOUS
  <1> USE DEF ApiInv
  <1>1. /\ pos \in 1..Len(script) /\ Here = script[pos]
        /\ StepOK(Here, Told(endpoint)) /\ Here.on \in DOMAIN done
    BY HereIs DEF FailQuietly, Running, script
  <1>2. /\ UNCHANGED <<endpoint, request, found, done, acted, answer, cause>>
        /\ script' = script /\ answer = 0 /\ Here.kind \in {"try", "each"}
        /\ faults' = faults + 1 /\ pos' = pos + 1
        /\ incomplete' = (incomplete \/ Here.kind = "each")
    BY DEF FailQuietly, Running, script
  <1>3. pos' \in Nat \ {0} /\ faults' \in Nat /\ acted' \in BOOLEAN /\ incomplete' \in BOOLEAN
    BY <1>1, <1>2 DEF AnswerOK
  <1>4. AnswerOK'
    <2>1. acted' => \E i \in 1..Len(script) : script[i].kind \in Acting /\ i < pos'
      BY <1>1, <1>2 DEF AnswerOK
    <2> QED BY <1>1, <1>2, <1>3, <2>1 DEF AnswerOK
  <1>5. EffectsOK' /\ FoundOK'
    BY <1>2 DEF EffectsOK, FoundOK, Records
  <1>6. RefusedOK'
    BY <1>2 DEF RefusedOK, Promised
  <1>7. OnceOK'
    BY <1>1, <1>2 DEF OnceOK, AnswerOK
  <1>8. PassedOK'
    <2> SUFFICES ASSUME request = "good", Skipping(script), NEW i \in 1..Len(script),
                        i < pos', script[i].kind \in Lasting
        PROVE  done[script[i].on] >= 1 \/ (incomplete' /\ script[i].on \in found)
      BY <1>2 DEF PassedOK
    <2>1. CASE i < pos
      BY <1>2, <2>1 DEF PassedOK, AnswerOK
    <2>2. CASE i = pos
      <3>1. Here.kind = "each"
        BY <1>1, <1>2, <2>2 DEF Lasting
      <3>2. Here.on \in Records(endpoint)
        BY <1>1, <3>1, ScriptIs DEF Records, Named, script, AnswerOK
      <3> QED BY <1>1, <1>2, <2>2, <3>1, <3>2 DEF FoundOK
    <2> QED BY <1>1, <1>2, <2>1, <2>2
  <1> QED BY <1>4, <1>5, <1>6, <1>7, <1>8

\* and so any step.
LEMMA ApiNextInv == ApiInv /\ [ApiNext]_apiVars => ApiInv'
  <1> SUFFICES ASSUME ApiInv, [ApiNext]_apiVars PROVE ApiInv'
    OBVIOUS
  <1>1. CASE UNCHANGED apiVars
    BY <1>1 DEF apiVars, ApiInv, AnswerOK, EffectsOK, PassedOK, OnceOK, FoundOK, RefusedOK,
                script, Records, Promised
  <1> QED BY <1>1, RefuseInv, PassInv, FailInv, FailQuietlyInv, FinishInv,
             RepeatInv DEF ApiNext

\* The invariant holds of every behaviour.
LEMMA ApiInvariant == ApiSpec => []ApiInv
  BY ApiInitInv, ApiNextInv, PTL DEF ApiSpec

\* What tells of a success tells of no failure.
LEMMA CodesDiffer ==
  /\ \A c : c \in Successes => c # 0 /\ c \notin Failures /\ c \notin ClientErrors
  /\ \A c : c \in ClientErrors => c # 0 /\ c \in Failures
  BY DEF Successes, Failures, ClientErrors

\* A request answered with a 4xx code has changed nothing, whatever failed before
\* or after: nothing a client may correct comes after an effect in any handler.
THEOREM ClientErrorsKeepStateAsItWas == ApiSpec => []ClientErrorsChangeNothing
  <1>1. ApiInv => ClientErrorsChangeNothing
    <2> SUFFICES ASSUME ApiInv, answer \in ClientErrors PROVE ~ acted
      BY DEF ClientErrorsChangeNothing, ClientErrors
    <2> USE DEF ApiInv
    <2>1. /\ Answering(endpoint, Told(endpoint)) /\ answer # 0 /\ script = endpoint.script
      BY ScriptIs, CodesDiffer DEF AnswerOK, script
    <2>2. cause # "none"
      <3>1. endpoint.ok \in Successes /\ endpoint.partly \in Successes
        BY <2>1 DEF Answering, Made, Remote
      <3>2. answer \notin Successes
        BY CodesDiffer
      <3> QED BY <2>1, <3>1, <3>2 DEF AnswerOK
    <2>3. ~ acted
      <3>1. pos \in 1..Len(script) /\ answer \in {script[pos].no, script[pos].fail}
        BY <2>1, <2>2 DEF AnswerOK
      <3>2. \A i \in 1..Len(script) :
              ~ /\ script[i].kind \in Acting
                /\ i < pos \/ (i = pos /\ script[i].kind \in Remote)
        <4>2. script[pos].no \in ClientErrors \/ script[pos].fail \in ClientErrors
          BY <3>1
        <4> QED BY <2>1, <3>1, <4>2 DEF Answering, Made, Remote
      <3> QED BY <3>2 DEF AnswerOK
    <2> QED BY <2>3
  <1> QED BY <1>1, ApiInvariant, PTL

\* Every answer is one the documentation of the handler lists, but for 403 and 206.
THEOREM AnswersAreToldBefore == ApiSpec => []AnswersAreDocumented
  <1>1. ApiInv => AnswersAreDocumented
    <2> SUFFICES ASSUME ApiInv, answer # 0 PROVE answer \in Told(endpoint)
      BY DEF AnswersAreDocumented, Told
    <2> USE DEF ApiInv
    <2>1. /\ Answering(endpoint, Told(endpoint)) /\ script = endpoint.script
      BY ScriptIs DEF AnswerOK, script
    <2>2. CASE cause = "none"
      BY <2>1, <2>2 DEF AnswerOK, Answering, Made, Remote
    <2>3. CASE cause # "none"
      BY <2>1, <2>3 DEF AnswerOK, Answering, Made, StepOK, Errors
    <2> QED BY <2>2, <2>3
  <1> QED BY <1>1, ApiInvariant, PTL

\* A request that is good and was not stopped has left nothing out.
LEMMA FinishedIsDone ==
  ASSUME ApiInv, request = "good", pos > Len(script), Skipping(script),
         NEW x \in Promised(endpoint)
  PROVE  done[x] >= 1 \/ (incomplete /\ x \in found)
  <1>1. PICK i \in 1..Len(script) : script[i].kind \in Lasting /\ script[i].on = x
    BY ScriptIs DEF Promised, Named, script, Lasting, Acting, ApiInv, AnswerOK
  <1>2. i < pos
    BY ScriptIs DEF ApiInv, AnswerOK
  <1> QED BY <1>1, <1>2 DEF ApiInv, PassedOK

\* A request that is repeated until no failure stops it has had each of its effects
\* once, but for the deletions that failed again, whose records are still there.
THEOREM RepeatedRequestsFinish == ApiSpec => []RetryFinishes
  <1>1. ApiInv => RetryFinishes
    <2> SUFFICES ASSUME ApiInv, answer # 0, cause # "fault", request = "good",
                        endpoint \notin HalfDone, NEW x \in Promised(endpoint)
        PROVE  done[x] = 1 \/ (incomplete /\ done[x] = 0 /\ x \in found)
      BY DEF RetryFinishes
    <2>1. /\ endpoint \in Endpoints /\ script = endpoint.script
          /\ Repeating(script) /\ Skipping(script)
      BY HandlersAreWellMade DEF ApiInv, AnswerOK, script, HalfDone
    <2>2. cause = "none" /\ pos > Len(script)
      BY <2>1 DEF ApiInv, AnswerOK, RefusedOK
    <2>3. done[x] >= 1 \/ (incomplete /\ x \in found)
      BY <2>1, <2>2, FinishedIsDone
    <2>4. x \in DOMAIN done
      BY <2>1, ScriptIs DEF Promised, Named, ApiInv, EffectsOK
    <2>5. done[x] \in Nat /\ done[x] <= 1
      BY <2>1, <2>4 DEF ApiInv, OnceOK, EffectsOK
    <2> QED BY <2>3, <2>5
  <1> QED BY <1>1, ApiInvariant, PTL
=============================================================================
