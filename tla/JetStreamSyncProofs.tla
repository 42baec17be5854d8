------------------------ MODULE JetStreamSyncProofs ------------------------
(***************************************************************************)
(* Proofs about JetStreamSync, for any records, names, configurations and  *)
(* handlers, any number of goroutines, faults and streams deleted past     *)
(* their records.                                                          *)
(***************************************************************************)
EXTENDS JetStreamSync, FiniteSetTheorems, TLAPS

USE JetStreamAssumption

-----------------------------------------------------------------------------
\* At most one request or goroutine is about stream n.
OneWorker(n) ==
  /\ \A c, d \in BusyHandlers : h[c].name = n /\ h[d].name = n => c = d
  /\ \A j, k \in RunningJobs : job[j].name = n /\ job[k].name = n => j = k
  /\ \A c \in BusyHandlers, j \in RunningJobs :
       ~ (h[c].name = n /\ job[j].name = n)

OneRecord(n) ==
  \A i, k \in Records : rows[i].name = n /\ rows[k].name = n => i = k

\* What the handler knows of the table is still so.
HandlersHold(n) ==
  \A c \in BusyHandlers :
    h[c].name = n =>
      /\ h[c].at = "insert" => \A i \in Records : rows[i].name # n
      /\ h[c].at \in Holding => h[c].id \in Records /\ rows[h[c].id].name = n
      /\ h[c].at \in Holding \ {"update"} =>
           rows[h[c].id].cfg = h[c].cfg /\ rows[h[c].id].sync = "failed"

\* The record waits for the goroutine, and the goroutine tells the truth.
JobsHold(n) ==
  \A j \in RunningJobs :
    job[j].name = n =>
      /\ job[j].id \in Records
      /\ rows[job[j].id].name = n
      /\ rows[job[j].id].cfg = job[j].cfg
      /\ rows[job[j].id].sync = "pending"
      /\ job[j].ok => stream[n] = job[j].cfg

InSync(n) ==
  \A i \in Records :
    rows[i].name = n /\ rows[i].sync = "synced" => stream[n] = rows[i].cfg

Calm(n) ==
  OneWorker(n) /\ OneRecord(n) /\ HandlersHold(n) /\ JobsHold(n) /\ InSync(n)

\* Somebody takes n for the name of record i, be it there or gone.
Claimed(i, n) ==
  \/ i \in Records /\ rows[i].name = n
  \/ \E c \in Clients : h[c].at \in Holding /\ h[c].id = i /\ h[c].name = n
  \/ \E j \in RunningJobs : job[j].id = i /\ job[j].name = n

NamesFixed ==
  \A i \in Ids, n, m \in Names : Claimed(i, n) /\ Claimed(i, m) => n = m

RoomOK ==
  Cardinality(RunningJobs) + Cardinality(BusyHandlers) <= Cardinality(Jobs)

JInv ==
  /\ TypeOK
  /\ RoomOK
  /\ NamesFixed
  /\ \A n \in Names \ disturbed : Calm(n)
  /\ PendingIsBeingSynced

-----------------------------------------------------------------------------
\* The label of a handler tells what it holds.
LEMMA Holds ==
  ASSUME NEW x \in Handler
  PROVE  /\ x.at = "idle" <=> x = IdleHandler
         /\ x.at \in {"idle", "insert"} \union Holding
         /\ x # IdleHandler => x.name \in Names /\ x.cfg \in Configs
         /\ x.at \in Holding => x.id \in Ids
         /\ x.at = "insert" <=> x # IdleHandler /\ x.at \notin Holding
<1>0. IdleHandler.at = "idle" /\ "idle" \notin Holding /\ "insert" \notin Holding
  BY DEF IdleHandler, Holding
<1>1. CASE x = IdleHandler
  BY <1>0, <1>1
<1>2. CASE x \in [at : {"insert"}, name : Names, cfg : Configs]
  <2>1. x.at = "insert" /\ x.name \in Names /\ x.cfg \in Configs
    BY <1>2
  <2> QED BY <1>0, <2>1
<1>3. CASE x \in [at : Holding, id : Ids, name : Names, cfg : Configs]
  <2>1. x.at \in Holding /\ x.id \in Ids /\ x.name \in Names /\ x.cfg \in Configs
    BY <1>3
  <2> QED BY <1>0, <2>1
<1> QED BY <1>1, <1>2, <1>3 DEF Handler

\* What the actions put into a local state is a handler's.
LEMMA Puts ==
  /\ IdleHandler \in Handler
  /\ IdleHandler.at = "idle"
  /\ \A n \in Names, g \in Configs :
       [at |-> "insert", name |-> n, cfg |-> g] \in Handler
  /\ \A s \in Holding, i \in Ids, n \in Names, g \in Configs :
       [at |-> s, id |-> i, name |-> n, cfg |-> g] \in Handler
BY DEF Handler, IdleHandler

\* Handlers at work, goroutines and records are of their types.
LEMMA Busy ==
  ASSUME TypeOK
  PROVE  /\ \A c \in Clients : c \in BusyHandlers <=> h[c].at # "idle"
         /\ \A c \in BusyHandlers : c \in Clients /\ h[c].name \in Names
                                      /\ h[c].cfg \in Configs
         /\ \A c \in Clients : h[c].at \in Holding =>
              c \in BusyHandlers /\ h[c].id \in Ids
         /\ \A j \in RunningJobs : j \in Jobs /\ job[j] \in Job
         /\ \A i \in Records : i \in Ids /\ rows[i] \in Row
<1>1. \A c \in Clients : h[c] \in Handler
  BY DEF TypeOK
<1>2. \A i \in Records : i \in Ids /\ rows[i] \in Row
  BY DEF TypeOK, Records
<1>3. \A j \in RunningJobs : j \in Jobs /\ job[j] \in Job
  BY DEF TypeOK, RunningJobs
<1>4. "idle" \notin Holding
  BY DEF Holding
<1> QED BY <1>1, <1>2, <1>3, <1>4, Holds DEF BusyHandlers

-----------------------------------------------------------------------------
\* The size of a set with an element more or less.
LEMMA Bounded ==
  ASSUME NEW S, IsFiniteSet(S), NEW x
  PROVE  /\ Cardinality(S) \in Nat
         /\ IsFiniteSet(S \union {x})
         /\ Cardinality(S \union {x}) \in Nat
         /\ Cardinality(S \union {x}) <= Cardinality(S) + 1
         /\ x \in S => Cardinality(S \ {x}) = Cardinality(S) - 1
         /\ IsFiniteSet(S \ {x}) /\ Cardinality(S \ {x}) \in Nat
<1>1. Cardinality(S) \in Nat
  BY FS_CardinalityType
<1>2. IsFiniteSet(S \union {x}) /\ Cardinality(S \union {x}) \in {Cardinality(S), Cardinality(S) + 1}
  BY FS_AddElement
<1>3. IsFiniteSet(S \ {x}) /\ Cardinality(S \ {x}) \in {Cardinality(S), Cardinality(S) - 1}
  BY FS_RemoveElement
<1>4. x \in S => Cardinality(S \ {x}) = Cardinality(S) - 1
  BY FS_RemoveElement
<1>5. Cardinality(S \ {x}) \in Nat
  BY <1>3, FS_CardinalityType
<1> QED BY <1>1, <1>2, <1>3, <1>4, <1>5

\* The goroutines and the handlers at work can be counted.
LEMMA Few ==
  /\ \A S \in SUBSET Jobs : IsFiniteSet(S) /\ Cardinality(S) \in Nat
  /\ \A S \in SUBSET Clients : IsFiniteSet(S) /\ Cardinality(S) \in Nat
  /\ \A S \in SUBSET Jobs : S # Jobs => Cardinality(S) < Cardinality(Jobs)
  /\ \A S \in SUBSET Jobs : \A T \in SUBSET S : Cardinality(T) <= Cardinality(S)
  /\ \A S \in SUBSET Clients : \A T \in SUBSET S : Cardinality(T) <= Cardinality(S)
<1>1. \A S \in SUBSET Jobs : IsFiniteSet(S)
  BY FS_Subset
<1>2. \A S \in SUBSET Clients : IsFiniteSet(S)
  BY FS_Subset
<1> QED BY <1>1, <1>2, FS_Subset, FS_CardinalityType

\* A handler at work finds a free goroutine.
LEMMA FreeJob ==
  ASSUME RoomOK, BusyHandlers # {}
  PROVE  (CHOOSE free \in Jobs \ RunningJobs : TRUE) \in Jobs \ RunningJobs
<1>1. PICK c : c \in BusyHandlers
  OBVIOUS
<1>2. {c} \in SUBSET BusyHandlers /\ BusyHandlers \in SUBSET Clients
  BY <1>1 DEF BusyHandlers
<1>3. Cardinality({c}) = 1
  BY FS_Singleton
<1>4. Cardinality(BusyHandlers) >= 1 /\ Cardinality(BusyHandlers) \in Nat
  BY <1>2, <1>3, Few
<1>5. RunningJobs \in SUBSET Jobs
  BY DEF RunningJobs
<1>6. RunningJobs # Jobs
  BY <1>4, <1>5, Few DEF RoomOK
<1>7. \E free \in Jobs \ RunningJobs : TRUE
  BY <1>5, <1>6
<1> QED BY <1>7

\* Where nobody starts, there is still a goroutine left for every handler.
LEMMA RoomStays ==
  ASSUME TypeOK, RoomOK,
         RunningJobs' \subseteq RunningJobs, BusyHandlers' \subseteq BusyHandlers
  PROVE  RoomOK'
<1> DEFINE J == RunningJobs  B == BusyHandlers  K == RunningJobs'  C == BusyHandlers'
<1>1. J \in SUBSET Jobs /\ B \in SUBSET Clients
  BY DEF RunningJobs, BusyHandlers
<1>2. K \in SUBSET J /\ C \in SUBSET B
  OBVIOUS
<1>3. K \in SUBSET Jobs /\ C \in SUBSET Clients
  BY <1>1, <1>2
<1>4. Cardinality(J) + Cardinality(B) <= Cardinality(Jobs)
  BY DEF RoomOK
<1>5. /\ Cardinality(K) \in Nat /\ Cardinality(J) \in Nat
      /\ Cardinality(C) \in Nat /\ Cardinality(B) \in Nat
      /\ Cardinality(Jobs) \in Nat
      /\ Cardinality(K) <= Cardinality(J) /\ Cardinality(C) <= Cardinality(B)
  BY <1>1, <1>2, <1>3, Few
<1> HIDE DEF J, B, K, C
<1>6. Cardinality(K) + Cardinality(C) <= Cardinality(Jobs)
  BY <1>4, <1>5
<1> QED BY <1>6 DEF K, C, RoomOK

\* A handler that takes a request while there is room leaves room for the rest.
LEMMA RoomTaken ==
  ASSUME TypeOK, NEW c \in Clients, RunningJobs' = RunningJobs,
         BusyHandlers' \subseteq BusyHandlers \union {c},
         Cardinality(RunningJobs) + Cardinality(BusyHandlers) < Cardinality(Jobs)
  PROVE  RoomOK'
<1> DEFINE J == RunningJobs  B == BusyHandlers  C == BusyHandlers'
<1>1. J \in SUBSET Jobs /\ B \in SUBSET Clients /\ B \union {c} \in SUBSET Clients
  BY DEF RunningJobs, BusyHandlers
<1>2. C \in SUBSET (B \union {c}) /\ C \in SUBSET Clients
  BY <1>1
<1>3. /\ Cardinality(J) \in Nat /\ Cardinality(Jobs) \in Nat
      /\ Cardinality(C) \in Nat /\ Cardinality(B) \in Nat
      /\ Cardinality(B \union {c}) \in Nat
      /\ Cardinality(C) <= Cardinality(B \union {c})
      /\ IsFiniteSet(B)
  BY <1>1, <1>2, Few
<1>4. Cardinality(B \union {c}) <= Cardinality(B) + 1
  BY <1>3, Bounded
<1> HIDE DEF J, B, C
<1>5. Cardinality(J) + Cardinality(B) < Cardinality(Jobs)
  BY DEF J, B
<1>6. Cardinality(J) + Cardinality(C) <= Cardinality(Jobs)
  BY <1>3, <1>4, <1>5
<1> QED BY <1>6 DEF J, C, RoomOK

\* A handler that starts a goroutine and ends takes up no more room than before.
LEMMA RoomPassedOn ==
  ASSUME TypeOK, RoomOK, NEW c \in BusyHandlers, NEW j \in Jobs,
         RunningJobs' \subseteq RunningJobs \union {j},
         BusyHandlers' \subseteq BusyHandlers \ {c}
  PROVE  RoomOK'
<1> DEFINE J == RunningJobs  B == BusyHandlers  K == RunningJobs'  C == BusyHandlers'
<1>1. /\ J \in SUBSET Jobs /\ J \union {j} \in SUBSET Jobs
      /\ B \in SUBSET Clients /\ B \ {c} \in SUBSET Clients
  BY DEF RunningJobs, BusyHandlers
<1>2. /\ K \in SUBSET (J \union {j}) /\ K \in SUBSET Jobs
      /\ C \in SUBSET (B \ {c}) /\ C \in SUBSET Clients
  BY <1>1
<1>3. /\ Cardinality(J) \in Nat /\ Cardinality(Jobs) \in Nat /\ Cardinality(K) \in Nat
      /\ Cardinality(C) \in Nat /\ Cardinality(B) \in Nat
      /\ Cardinality(J \union {j}) \in Nat /\ Cardinality(B \ {c}) \in Nat
      /\ Cardinality(C) <= Cardinality(B \ {c})
      /\ Cardinality(K) <= Cardinality(J \union {j})
      /\ IsFiniteSet(B) /\ IsFiniteSet(J)
  BY <1>1, <1>2, Few
<1>4. /\ Cardinality(J \union {j}) <= Cardinality(J) + 1
      /\ Cardinality(B \ {c}) = Cardinality(B) - 1
  BY <1>3, Bounded
<1>5. Cardinality(J) + Cardinality(B) <= Cardinality(Jobs)
  BY DEF RoomOK
<1> HIDE DEF J, B, K, C
<1>6. Cardinality(K) + Cardinality(C) <= Cardinality(Jobs)
  BY <1>3, <1>4, <1>5
<1> QED BY <1>6 DEF K, C, RoomOK

-----------------------------------------------------------------------------
(* A request is taken: its handler knows what it has read, and if somebody *)
(* else is at work on the name, the name is disturbed from now on.         *)
LEMMA TakeOK ==
  ASSUME JInv, NEW c \in Clients, NEW n \in Names, NEW x \in Handler,
         x # IdleHandler, x.name = n, Take(c, n, x),
         x.at = "insert" => \A i \in Records : rows[i].name # n,
         x.at \in Holding => x.id \in Records /\ rows[x.id].name = n,
         x.at \in Holding \ {"update"} =>
           rows[x.id].cfg = x.cfg /\ rows[x.id].sync = "failed"
  PROVE  JInv'
<1>1. /\ rows' = rows /\ made' = made /\ stream' = stream /\ job' = job
      /\ faults' = faults
      /\ h' = [h EXCEPT ![c] = x]
      /\ h[c] = IdleHandler
      /\ Records' = Records /\ RunningJobs' = RunningJobs
  BY DEF Take, Records, RunningJobs
<1>2. TypeOK /\ h \in [Clients -> Handler] /\ h' \in [Clients -> Handler]
  BY <1>1 DEF JInv, TypeOK
<1>3. /\ disturbed \subseteq Names
      /\ disturbed \subseteq disturbed'
      /\ disturbed' \subseteq disturbed \union {n}
      /\ n \notin disturbed' => ~ WorkedOn(n) /\ n \notin disturbed
  BY <1>2 DEF Take, Overlap, TypeOK
<1>4. TypeOK'
  <2>1. \A d \in Clients : h'[d].at \in Holding => h'[d].id \in made'
    BY <1>1, <1>2 DEF TypeOK
  <2> QED BY <1>1, <1>2, <1>3, <2>1 DEF TypeOK
<1>5. \A d \in BusyHandlers' : d = c \/ (d \in BusyHandlers /\ h'[d] = h[d])
  BY <1>1, <1>2 DEF BusyHandlers
<1>6. RoomOK'
  <2>1. BusyHandlers' \subseteq BusyHandlers \union {c}
    BY <1>5
  <2> QED BY <1>1, <1>2, <2>1, RoomTaken DEF Take
<1>7. NamesFixed'
  <2>1. ASSUME NEW i \in Ids, NEW m \in Names, Claimed(i, m)'
        PROVE  Claimed(i, m)
    BY <1>1, <1>2, <2>1 DEF Claimed
  <2> QED BY <2>1 DEF NamesFixed, JInv
<1>8. ASSUME NEW m \in Names \ disturbed' PROVE Calm(m)'
  <2>1. Calm(m)
    BY <1>3, <1>8 DEF JInv
  <2>2. h'[c] = x /\ x.name = n
    BY <1>1, <1>2
  <2>3. m = n => /\ \A d \in BusyHandlers : h[d].name # m
                 /\ \A j \in RunningJobs : job[j].name # m
    BY <1>3, <1>8 DEF WorkedOn
  <2>4. OneWorker(m)'
    BY <1>1, <1>5, <2>1, <2>2, <2>3 DEF OneWorker, Calm
  <2>5. HandlersHold(m)'
    BY <1>1, <1>5, <2>1, <2>2 DEF HandlersHold, Calm
  <2>6. OneRecord(m)' /\ JobsHold(m)' /\ InSync(m)'
    BY <1>1, <2>1 DEF OneRecord, JobsHold, InSync, Calm
  <2> QED BY <2>4, <2>5, <2>6 DEF Calm
<1>9. PendingIsBeingSynced'
  BY <1>1 DEF JInv, PendingIsBeingSynced
<1> QED BY <1>4, <1>6, <1>7, <1>8, <1>9 DEF JInv

(* A handler ends without a goroutine, having written nothing.             *)
LEMMA EndOK ==
  ASSUME JInv, NEW c \in Clients, h' = [h EXCEPT ![c] = IdleHandler],
         UNCHANGED <<rows, made, stream, job, disturbed>>,
         faults' = faults \/ Fault
  PROVE  JInv'
<1>1. Records' = Records /\ RunningJobs' = RunningJobs
  BY DEF Records, RunningJobs
<1>2. TypeOK /\ h \in [Clients -> Handler] /\ h' \in [Clients -> Handler]
  BY Puts DEF JInv, TypeOK
<1>3. h'[c].at \notin Holding
  BY <1>2, Puts, Holds DEF Holding
<1>4. faults' \in 0..MaxFaults /\ (faults' = 0 => faults = 0)
  BY <1>2 DEF TypeOK, Fault
<1>5. TypeOK'
  BY <1>1, <1>2, <1>3, <1>4 DEF TypeOK
<1>6. \A d \in BusyHandlers' : d \in BusyHandlers /\ h'[d] = h[d]
  BY <1>2 DEF BusyHandlers
<1>7. RoomOK'
  BY <1>1, <1>2, <1>6, RoomStays DEF JInv
<1>8. NamesFixed'
  <2>1. ASSUME NEW i \in Ids, NEW m \in Names, Claimed(i, m)'
        PROVE  Claimed(i, m)
    BY <1>1, <1>2, <1>3, <2>1 DEF Claimed
  <2> QED BY <2>1 DEF NamesFixed, JInv
<1>9. ASSUME NEW m \in Names \ disturbed' PROVE Calm(m)'
  <2>1. Calm(m)
    BY <1>9 DEF JInv
  <2>2. OneWorker(m)'
    BY <1>1, <1>6, <2>1 DEF OneWorker, Calm
  <2>3. HandlersHold(m)'
    BY <1>1, <1>6, <2>1 DEF HandlersHold, Calm
  <2>4. OneRecord(m)' /\ JobsHold(m)' /\ InSync(m)'
    BY <1>1, <2>1 DEF OneRecord, JobsHold, InSync, Calm
  <2> QED BY <2>2, <2>3, <2>4 DEF Calm
<1>10. PendingIsBeingSynced'
  BY <1>1, <1>4 DEF JInv, PendingIsBeingSynced
<1> QED BY <1>5, <1>7, <1>8, <1>9, <1>10 DEF JInv

(* A handler writes record i and starts a goroutine: the record waits for  *)
(* it from now on, and has the name it always had.                         *)
LEMMA StartOK ==
  ASSUME JInv, NEW c \in BusyHandlers, NEW i \in Ids,
         NEW kind \in {"create", "update"},
         Start(c, kind, i, h[c].name, h[c].cfg),
         UNCHANGED <<stream, disturbed, faults>>,
         made' = made \union {i},
         h[c].at = "insert" => i \notin made,
         h[c].at \in Holding => i = h[c].id,
         rows' \in [Ids -> Row \union {None}],
         \A r \in Ids \ {i} : rows'[r] = rows[r],
         rows'[i] # None =>
           rows'[i].name = h[c].name /\ rows'[i].sync = "pending",
         h[c].name \notin disturbed =>
           rows'[i] # None /\ rows'[i].cfg = h[c].cfg
  PROVE  JInv'
<1> DEFINE n == h[c].name
           j == CHOOSE free \in Jobs \ RunningJobs : TRUE
           new == [at |-> "send", kind |-> kind, id |-> i, name |-> n,
                   cfg |-> h[c].cfg, ok |-> FALSE]
<1>1. TypeOK /\ RoomOK /\ c \in Clients /\ n \in Names /\ h[c].cfg \in Configs
  BY Busy DEF JInv
<1>2. j \in Jobs \ RunningJobs
  BY <1>1, FreeJob
<1>3. h' = [h EXCEPT ![c] = IdleHandler] /\ job' = [job EXCEPT ![j] = new]
  BY DEF Start
<1>4. new \in Job /\ new # None
  <2>1. new \in Job
    BY <1>1 DEF Job
  <2> QED BY <2>1
<1> HIDE DEF j
<1>5. /\ h \in [Clients -> Handler] /\ h' \in [Clients -> Handler]
      /\ job \in [Jobs -> Job \union {None}] /\ job' \in [Jobs -> Job \union {None}]
  BY <1>1, <1>2, <1>3, <1>4, Puts DEF TypeOK
<1>6. job'[j] = new /\ \A k \in Jobs \ {j} : job'[k] = job[k]
  BY <1>2, <1>3, <1>5
<1>7. RunningJobs' = RunningJobs \union {j} /\ j \notin RunningJobs
  BY <1>2, <1>4, <1>6 DEF RunningJobs
<1>8. \A k \in RunningJobs : k # j /\ job'[k] = job[k] /\ k \in Jobs
  BY <1>6, <1>7 DEF RunningJobs
<1> HIDE DEF new
<1>9. /\ new.name = n /\ new.id = i /\ new.cfg = h[c].cfg
      /\ ~ new.ok /\ new.at = "send"
  BY DEF new
<1>10. h'[c].at \notin Holding /\ \A d \in Clients \ {c} : h'[d] = h[d]
  BY <1>1, <1>3, <1>5, Puts, Holds DEF Holding
<1>11. \A d \in BusyHandlers' : d \in BusyHandlers \ {c} /\ h'[d] = h[d]
  BY <1>1, <1>3, <1>5 DEF BusyHandlers
<1>12. /\ \A r \in Records : r # i => r \in Records' /\ rows'[r] = rows[r]
       /\ \A r \in Records' : r # i => r \in Records /\ rows'[r] = rows[r]
       /\ Records' \subseteq Records \union {i}
  BY DEF Records
<1>13. /\ Records \subseteq made /\ made \subseteq Ids
       /\ \A d \in Clients : h[d].at \in Holding => h[d].id \in made
       /\ \A k \in RunningJobs : job[k].id \in made /\ (job[k].ok => job[k].at = "record")
  BY <1>1 DEF TypeOK
<1>14. h[c].at = "insert" \/ h[c].at \in Holding
  BY <1>1, <1>5, Holds DEF BusyHandlers
<1>15. TypeOK'
  <2>1. \A d \in Clients : h'[d].at \in Holding => h'[d].id \in made'
    BY <1>10, <1>13
  <2>2. \A k \in RunningJobs' : job'[k].id \in made' /\ (job'[k].ok => job'[k].at = "record")
    <3>1. job'[j].id \in made' /\ (job'[j].ok => job'[j].at = "record")
      BY <1>6, <1>9
    <3>2. \A k \in RunningJobs : job'[k].id \in made' /\ (job'[k].ok => job'[k].at = "record")
      BY <1>8, <1>13
    <3> QED BY <3>1, <3>2, <1>7
  <2>3. Records' \subseteq made' /\ made' \in SUBSET Ids
    BY <1>12, <1>13
  <2> QED BY <1>1, <1>5, <2>1, <2>2, <2>3 DEF TypeOK
<1>16. RoomOK'
  BY <1>1, <1>2, <1>7, <1>11, RoomPassedOn
<1>17. \A m \in Names : Claimed(i, m) => m = n
  <2>1. CASE h[c].at = "insert"
    BY <2>1, <1>1, <1>13 DEF Claimed
  <2>2. CASE h[c].at \in Holding
    <3>1. i = h[c].id
      BY <2>2
    <3>2. Claimed(i, n)
      BY <1>1, <2>2, <3>1 DEF Claimed
    <3> QED BY <1>1, <3>2 DEF JInv, NamesFixed
  <2> QED BY <1>14, <2>1, <2>2
<1>18. NamesFixed'
  <2>1. ASSUME NEW r \in Ids, NEW m \in Names, Claimed(r, m)'
        PROVE  Claimed(r, m) \/ (r = i /\ m = n)
    <3>1. CASE r \in Records' /\ rows'[r].name = m
      BY <3>1, <1>12 DEF Claimed, Records
    <3>2. CASE \E d \in Clients : h'[d].at \in Holding /\ h'[d].id = r /\ h'[d].name = m
      BY <3>2, <1>10 DEF Claimed
    <3>3. CASE \E k \in RunningJobs' : job'[k].id = r /\ job'[k].name = m
      BY <3>3, <1>6, <1>7, <1>8, <1>9 DEF Claimed
    <3> QED BY <2>1, <3>1, <3>2, <3>3 DEF Claimed
  <2> QED BY <1>1, <1>17, <2>1 DEF NamesFixed, JInv
<1>19. ASSUME NEW m \in Names \ disturbed' PROVE Calm(m)'
  <2>1. Calm(m) /\ m \notin disturbed
    BY <1>19 DEF JInv
  <2>2. OneWorker(m)'
    BY <2>1, <1>6, <1>7, <1>8, <1>9, <1>11 DEF OneWorker, Calm
  <2>3. CASE m # n
    <3>1. ~ Claimed(i, m)
      BY <1>17, <2>3
    <3>2. \A d \in BusyHandlers : h[d].name = m /\ h[d].at \in Holding => h[d].id # i
      BY <1>1, <3>1, Busy DEF Claimed
    <3>3. \A k \in RunningJobs : job[k].name = m => job[k].id # i
      BY <3>1 DEF Claimed
    <3>4. \A r \in Records' : rows'[r].name = m =>
                                r # i /\ r \in Records /\ rows'[r] = rows[r]
      BY <1>12, <2>3 DEF Records
    <3>5. OneRecord(m)' /\ InSync(m)'
      BY <2>1, <3>4 DEF Calm, OneRecord, InSync
    <3>6. HandlersHold(m)'
      BY <2>1, <3>2, <3>4, <1>11, <1>12 DEF Calm, HandlersHold
    <3>7. JobsHold(m)'
      BY <2>1, <2>3, <3>3, <1>6, <1>7, <1>8, <1>9, <1>12 DEF Calm, JobsHold
    <3> QED BY <2>2, <3>5, <3>6, <3>7 DEF Calm
  <2>4. CASE m = n
    <3>1. i \in Records' /\ rows'[i].name = n /\ rows'[i].cfg = h[c].cfg
          /\ rows'[i].sync = "pending"
      BY <2>1, <2>4 DEF Records
    <3>2. \A r \in Records : rows[r].name = n => r = i
      <4>1. CASE h[c].at = "insert"
        BY <4>1, <2>1, <2>4 DEF Calm, HandlersHold
      <4>2. CASE h[c].at \in Holding
        <5>1. i = h[c].id
          BY <4>2
        <5> QED BY <4>2, <5>1, <2>1, <2>4 DEF Calm, HandlersHold, OneRecord
      <4> QED BY <1>14, <4>1, <4>2
    <3>3. \A r \in Records' : rows'[r].name = n => r = i
      BY <1>12, <3>2
    <3>4. \A d \in BusyHandlers' : h'[d].name # n
      BY <1>11, <2>1, <2>4 DEF Calm, OneWorker
    <3>5. \A k \in RunningJobs' : job'[k].name = n => k = j
      BY <1>7, <1>8, <2>1, <2>4 DEF Calm, OneWorker
    <3>6. OneRecord(m)' /\ InSync(m)'
      BY <2>4, <3>1, <3>3 DEF OneRecord, InSync
    <3>7. HandlersHold(m)'
      BY <2>4, <3>4 DEF HandlersHold
    <3>8. JobsHold(m)'
      BY <2>4, <3>1, <3>5, <1>6, <1>9 DEF JobsHold
    <3> QED BY <2>2, <3>6, <3>7, <3>8 DEF Calm
  <2> QED BY <2>3, <2>4
<1>20. PendingIsBeingSynced'
  <2>1. ASSUME faults' = 0, NEW r \in Records', rows'[r].sync = "pending"
        PROVE  \E k \in RunningJobs' : job'[k].id = r
    <3>1. CASE r = i
      BY <3>1, <1>6, <1>7, <1>9
    <3>2. CASE r # i
      BY <3>2, <2>1, <1>7, <1>8, <1>12 DEF JInv, PendingIsBeingSynced
    <3> QED BY <3>1, <3>2
  <2> QED BY <2>1 DEF PendingIsBeingSynced
<1> QED BY <1>15, <1>16, <1>18, <1>19, <1>20 DEF JInv

(* A retry has asked the cluster: the handler goes on with what it had.    *)
LEMMA ProbedOK ==
  ASSUME JInv, NEW c \in Clients, h[c].at = "probe", NEW x \in Handler,
         x.at \in {"retry update", "retry create"},
         x.id = h[c].id, x.name = h[c].name, x.cfg = h[c].cfg,
         h' = [h EXCEPT ![c] = x],
         UNCHANGED <<rows, made, stream, job, disturbed, faults>>
  PROVE  JInv'
<1>1. TypeOK /\ x.at \in Holding /\ "probe" \in Holding
  BY DEF JInv, Holding
<1>2. c \in BusyHandlers /\ h[c].id \in Ids
  BY <1>1, Busy
<1>4. h \in [Clients -> Handler] /\ h' \in [Clients -> Handler]
  BY <1>1 DEF TypeOK
<1>6. h'[c] = x /\ \A d \in Clients \ {c} : h'[d] = h[d]
  BY <1>4
<1>7. \A d \in Clients : /\ h'[d].name = h[d].name /\ h'[d].cfg = h[d].cfg
                         /\ h'[d].at \in Holding <=> h[d].at \in Holding
                         /\ h'[d].at \in Holding => h'[d].id = h[d].id
                         /\ h'[d].at = "insert" => h[d].at = "insert"
                         /\ h'[d].at \in Holding \ {"update"} =>
                              h[d].at \in Holding \ {"update"}
  BY <1>1, <1>6 DEF Holding
<1>8. \A d \in BusyHandlers' :
        /\ d \in BusyHandlers /\ h'[d].name = h[d].name /\ h'[d].cfg = h[d].cfg
        /\ h'[d].at = "insert" => h[d].at = "insert"
        /\ h'[d].at \in Holding => h[d].at \in Holding /\ h'[d].id = h[d].id
        /\ h'[d].at \in Holding \ {"update"} => h[d].at \in Holding \ {"update"}
  BY <1>2, <1>6, <1>7 DEF BusyHandlers
<1>9. Records' = Records /\ RunningJobs' = RunningJobs /\ BusyHandlers \subseteq Clients
  BY DEF Records, RunningJobs, BusyHandlers
<1>10. TypeOK'
  BY <1>1, <1>4, <1>7, <1>9 DEF TypeOK
<1>11. RoomOK'
  BY <1>1, <1>8, <1>9, RoomStays DEF JInv
<1>12. NamesFixed'
  <2>1. ASSUME NEW i \in Ids, NEW m \in Names, Claimed(i, m)'
        PROVE  Claimed(i, m)
    BY <1>7, <1>9, <2>1 DEF Claimed
  <2> QED BY <2>1 DEF NamesFixed, JInv
<1>13. ASSUME NEW m \in Names \ disturbed' PROVE Calm(m)'
  <2>1. Calm(m)
    BY <1>13 DEF JInv
  <2>2. OneWorker(m)'
    <3>1. ASSUME NEW a \in BusyHandlers', NEW b \in BusyHandlers',
                 h'[a].name = m, h'[b].name = m
          PROVE  a = b
      BY <1>8, <2>1, <3>1 DEF OneWorker, Calm
    <3>2. ASSUME NEW a \in BusyHandlers', NEW k \in RunningJobs',
                 h'[a].name = m
          PROVE  job'[k].name # m
      BY <1>8, <1>9, <2>1, <3>2 DEF OneWorker, Calm
    <3>3. \A j, k \in RunningJobs' : job'[j].name = m /\ job'[k].name = m => j = k
      BY <1>9, <2>1 DEF OneWorker, Calm
    <3> QED BY <3>1, <3>2, <3>3 DEF OneWorker
  <2>3. HandlersHold(m)'
    <3>1. ASSUME NEW a \in BusyHandlers', h'[a].name = m
          PROVE  /\ h'[a].at = "insert" => \A i \in Records' : rows'[i].name # m
                 /\ h'[a].at \in Holding =>
                      h'[a].id \in Records' /\ rows'[h'[a].id].name = m
                 /\ h'[a].at \in Holding \ {"update"} =>
                      /\ rows'[h'[a].id].cfg = h'[a].cfg
                      /\ rows'[h'[a].id].sync = "failed"
      <4>1. a \in BusyHandlers /\ h[a].name = m /\ h'[a].cfg = h[a].cfg
        BY <1>8, <3>1
      <4>2. /\ h'[a].at = "insert" => h[a].at = "insert"
            /\ h'[a].at \in Holding => h[a].at \in Holding /\ h'[a].id = h[a].id
            /\ h'[a].at \in Holding \ {"update"} =>
                 h[a].at \in Holding \ {"update"}
        BY <1>8
      <4>3. /\ h[a].at = "insert" => \A i \in Records : rows[i].name # m
            /\ h[a].at \in Holding =>
                 h[a].id \in Records /\ rows[h[a].id].name = m
            /\ h[a].at \in Holding \ {"update"} =>
                 rows[h[a].id].cfg = h[a].cfg /\ rows[h[a].id].sync = "failed"
        BY <2>1, <4>1 DEF HandlersHold, Calm
      <4>4. rows' = rows
        OBVIOUS
      <4>5. h'[a].at = "insert" => \A i \in Records' : rows'[i].name # m
        BY <1>9, <4>2, <4>3, <4>4
      <4>6. h'[a].at \in Holding =>
              h'[a].id \in Records' /\ rows'[h'[a].id].name = m
        BY <4>2, <4>3, <4>4 DEF Records
      <4>7. h'[a].at \in Holding \ {"update"} =>
              /\ rows'[h'[a].id].cfg = h'[a].cfg
              /\ rows'[h'[a].id].sync = "failed"
        BY <4>1, <4>2, <4>3, <4>4
      <4> QED BY <4>5, <4>6, <4>7
    <3> QED BY <3>1 DEF HandlersHold
  <2>4. OneRecord(m)' /\ JobsHold(m)' /\ InSync(m)'
    BY <1>9, <2>1 DEF OneRecord, JobsHold, InSync, Calm
  <2> QED BY <2>2, <2>3, <2>4 DEF Calm
<1>14. PendingIsBeingSynced'
  BY <1>9 DEF JInv, PendingIsBeingSynced
<1> QED BY <1>10, <1>11, <1>12, <1>13, <1>14 DEF JInv

\* A record is deleted; who is at work on its name makes the name disturbed.
LEMMA DeleteOK ==
  ASSUME JInv, NEW i \in Ids, DeleteJetStream(i)
  PROVE  JInv'
<1> DEFINE n == rows[i].name
<1>1. TypeOK /\ i \in Records /\ n \in Names
  BY Busy DEF JInv, DeleteJetStream, Row
<1>2. /\ rows' = [rows EXCEPT ![i] = None]
      /\ h' = h /\ job' = job /\ made' = made /\ stream' = stream /\ faults' = faults
      /\ BusyHandlers' = BusyHandlers /\ RunningJobs' = RunningJobs
  BY DEF DeleteJetStream, BusyHandlers, RunningJobs
<1>3. /\ disturbed \subseteq Names
      /\ disturbed \subseteq disturbed'
      /\ disturbed' \subseteq disturbed \union {n}
      /\ n \notin disturbed' => ~ WorkedOn(n)
  BY <1>1 DEF DeleteJetStream, Overlap, TypeOK
<1>4. /\ rows' \in [Ids -> Row \union {None}]
      /\ Records' = Records \ {i}
      /\ \A r \in Records' : rows'[r] = rows[r]
  BY <1>1, <1>2 DEF TypeOK, Records
<1>5. TypeOK'
  BY <1>1, <1>2, <1>3, <1>4 DEF TypeOK
<1>6. RoomOK'
  BY <1>1, <1>2, RoomStays DEF JInv
<1>7. NamesFixed'
  <2>1. ASSUME NEW r \in Ids, NEW m \in Names, Claimed(r, m)'
        PROVE  Claimed(r, m)
    BY <1>2, <1>4, <2>1 DEF Claimed
  <2> QED BY <2>1 DEF NamesFixed, JInv
<1>8. ASSUME NEW m \in Names \ disturbed' PROVE Calm(m)'
  <2>1. Calm(m)
    BY <1>3, <1>8 DEF JInv
  <2>2. OneWorker(m)' /\ OneRecord(m)' /\ InSync(m)'
    BY <1>2, <1>4, <2>1 DEF OneWorker, OneRecord, InSync, Calm
  <2>3. CASE m = n
    <3>1. /\ \A d \in BusyHandlers : h[d].name # m
          /\ \A j \in RunningJobs : job[j].name # m
      BY <1>3, <1>8, <2>3 DEF WorkedOn
    <3> QED BY <1>2, <2>2, <3>1 DEF HandlersHold, JobsHold, Calm
  <2>4. CASE m # n
    <3>1. HandlersHold(m)'
      BY <1>2, <1>4, <2>1, <2>4 DEF HandlersHold, Calm
    <3>2. JobsHold(m)'
      BY <1>2, <1>4, <2>1, <2>4 DEF JobsHold, Calm
    <3> QED BY <2>2, <3>1, <3>2 DEF Calm
  <2> QED BY <2>3, <2>4
<1>9. PendingIsBeingSynced'
  BY <1>2, <1>4 DEF JInv, PendingIsBeingSynced
<1> QED BY <1>5, <1>6, <1>7, <1>8, <1>9 DEF JInv

-----------------------------------------------------------------------------
(* The call to the cluster: what was answered has taken effect.            *)
LEMMA SendOK ==
  ASSUME JInv, NEW j \in Jobs, SendToCluster(j)
  PROVE  JInv'
<1> DEFINE n == job[j].name
<1>1. TypeOK /\ j \in RunningJobs /\ job[j] \in Job /\ job[j].at = "send"
  BY DEF JInv, SendToCluster, RunningJobs, TypeOK
<1>2. PICK effect \in BOOLEAN, answered \in BOOLEAN :
        /\ answered => effect
        /\ stream' = IF effect THEN [stream EXCEPT ![n] = job[j].cfg] ELSE stream
        /\ job' = [job EXCEPT ![j].at = "record", ![j].ok = answered]
  BY DEF SendToCluster
<1>3. /\ rows' = rows /\ h' = h /\ made' = made /\ disturbed' = disturbed
      /\ faults' = faults
      /\ Records' = Records /\ BusyHandlers' = BusyHandlers
  BY DEF SendToCluster, Records, BusyHandlers
<1>4. job \in [Jobs -> Job \union {None}]
  BY <1>1 DEF TypeOK
<1>5. /\ job'[j].id = job[j].id /\ job'[j].name = n /\ job'[j].cfg = job[j].cfg
      /\ job'[j].at = "record" /\ job'[j].ok = answered
      /\ \A k \in Jobs \ {j} : job'[k] = job[k]
  BY <1>1, <1>2, <1>4 DEF Job
<1>6. job'[j] \in Job /\ job' \in [Jobs -> Job \union {None}]
  BY <1>1, <1>2, <1>4 DEF Job
<1>7. RunningJobs' = RunningJobs
  BY <1>1, <1>5, <1>6 DEF RunningJobs
<1>8. n \in Names /\ job[j].cfg \in Configs
  BY <1>1 DEF Job
<1>9. /\ stream' \in [Names -> Configs \union {None}]
      /\ \A m \in Names \ {n} : stream'[m] = stream[m]
      /\ effect => stream'[n] = job[j].cfg
      /\ ~ effect => stream' = stream
  BY <1>1, <1>2, <1>8 DEF TypeOK
<1>10. \A k \in RunningJobs : k \in Jobs /\ job'[k].id = job[k].id
                              /\ job'[k].name = job[k].name /\ job'[k].cfg = job[k].cfg
  BY <1>5 DEF RunningJobs
<1>11. TypeOK'
  <2>1. \A k \in RunningJobs' : job'[k].id \in made' /\ (job'[k].ok => job'[k].at = "record")
    BY <1>1, <1>3, <1>5, <1>7, <1>10 DEF TypeOK
  <2> QED BY <1>1, <1>3, <1>6, <1>9, <2>1 DEF TypeOK
<1>12. RoomOK'
  BY <1>1, <1>3, <1>7, RoomStays DEF JInv
<1>13. NamesFixed'
  <2>1. ASSUME NEW r \in Ids, NEW m \in Names, Claimed(r, m)'
        PROVE  Claimed(r, m)
    BY <1>3, <1>7, <1>10, <2>1 DEF Claimed
  <2> QED BY <2>1 DEF NamesFixed, JInv
<1>14. ASSUME NEW m \in Names \ disturbed' PROVE Calm(m)'
  <2>1. Calm(m)
    BY <1>3, <1>14 DEF JInv
  <2>2. OneWorker(m)' /\ OneRecord(m)' /\ HandlersHold(m)'
    BY <1>3, <1>7, <1>10, <2>1 DEF OneWorker, OneRecord, HandlersHold, Calm
  <2>3. JobsHold(m)'
    <3>1. \A k \in RunningJobs : job[k].name = m /\ m = n => k = j
      BY <1>1, <2>1 DEF Calm, OneWorker
    <3>2. ASSUME NEW k \in RunningJobs', job'[k].name = m, job'[k].ok
          PROVE  stream'[m] = job'[k].cfg
      <4>1. CASE m = n
        BY <4>1, <3>1, <3>2, <1>2, <1>5, <1>7, <1>9, <1>10
      <4>2. CASE m # n
        <5>1. k # j /\ job'[k] = job[k] /\ k \in RunningJobs
          BY <4>2, <3>2, <1>5, <1>7, <1>10
        <5> QED BY <4>2, <5>1, <3>2, <2>1, <1>9 DEF Calm, JobsHold
      <4> QED BY <4>1, <4>2
    <3> QED BY <1>3, <1>7, <1>10, <2>1, <3>2 DEF JobsHold, Calm
  <2>4. InSync(m)'
    <3>1. ASSUME m = n, NEW r \in Records, rows[r].name = m
          PROVE  rows[r].sync = "pending"
      <4>1. r = job[j].id
        BY <1>1, <2>1, <3>1 DEF Calm, JobsHold, OneRecord
      <4> QED BY <1>1, <2>1, <3>1, <4>1 DEF Calm, JobsHold
    <3> QED BY <1>3, <1>9, <2>1, <3>1 DEF InSync, Calm
  <2> QED BY <2>2, <2>3, <2>4 DEF Calm
<1>15. PendingIsBeingSynced'
  BY <1>3, <1>7, <1>10 DEF JInv, PendingIsBeingSynced
<1> QED BY <1>11, <1>12, <1>13, <1>14, <1>15 DEF JInv

(* The outcome is recorded, or the write fails.                            *)
LEMMA RecordOK ==
  ASSUME JInv, NEW j \in Jobs, RecordSync(j)
  PROVE  JInv'
<1> DEFINE n == job[j].name
           i == job[j].id
<1>1. TypeOK /\ j \in RunningJobs /\ job[j] \in Job
  BY DEF JInv, RecordSync, RunningJobs, TypeOK
<1>2. /\ job' = [job EXCEPT ![j] = None]
      /\ h' = h /\ made' = made /\ stream' = stream /\ disturbed' = disturbed
      /\ BusyHandlers' = BusyHandlers
  BY DEF RecordSync, BusyHandlers
<1>3. /\ job \in [Jobs -> Job \union {None}] /\ job' \in [Jobs -> Job \union {None}]
      /\ RunningJobs' = RunningJobs \ {j}
      /\ \A k \in RunningJobs' : job'[k] = job[k]
  BY <1>1, <1>2 DEF TypeOK, RunningJobs
<1>4. i \in Ids /\ n \in Names
  BY <1>1 DEF Job
<1>5. /\ faults' \in 0..MaxFaults
      /\ faults' = 0 => faults = 0
      /\ \/ rows' = rows /\ faults' # 0
         \/ rows' = rows /\ i \notin Records
         \/ /\ i \in Records
            /\ rows' = [rows EXCEPT ![i].sync = IF job[j].ok THEN "synced" ELSE "failed"]
  BY <1>1 DEF RecordSync, Fault, NoFault, TypeOK
<1>6. /\ rows' \in [Ids -> Row \union {None}]
      /\ Records' = Records
      /\ \A r \in Records : rows'[r].name = rows[r].name /\ rows'[r].cfg = rows[r].cfg
      /\ \A r \in Records : r # i => rows'[r] = rows[r]
      /\ \/ rows' = rows /\ (faults' # 0 \/ i \notin Records)
         \/ i \in Records /\ rows'[i].sync = IF job[j].ok THEN "synced" ELSE "failed"
  <2>1. rows \in [Ids -> Row \union {None}]
    BY <1>1 DEF TypeOK
  <2>2. CASE rows' = rows /\ (faults' # 0 \/ i \notin Records)
    BY <2>1, <2>2 DEF Records
  <2>3. CASE /\ i \in Records
             /\ rows' = [rows EXCEPT ![i].sync = IF job[j].ok THEN "synced" ELSE "failed"]
    <3>1. rows[i] \in Row /\ rows'[i] = [rows[i] EXCEPT !.sync = IF job[j].ok THEN "synced" ELSE "failed"]
      BY <2>1, <2>3 DEF Records
    <3>2. /\ rows'[i] \in Row
          /\ rows'[i].name = rows[i].name /\ rows'[i].cfg = rows[i].cfg
          /\ rows'[i].sync = IF job[j].ok THEN "synced" ELSE "failed"
      BY <3>1 DEF Row
    <3>3. rows' \in [Ids -> Row \union {None}] /\ \A r \in Ids : r # i => rows'[r] = rows[r]
      BY <2>1, <2>3, <3>1, <3>2
    <3>4. Records' = Records
      BY <2>3, <3>2, <3>3 DEF Records
    <3> QED BY <2>3, <3>2, <3>3, <3>4 DEF Records
  <2> QED BY <1>5, <2>2, <2>3
<1>7. TypeOK'
  BY <1>1, <1>2, <1>3, <1>5, <1>6 DEF TypeOK
<1>8. RoomOK'
  BY <1>1, <1>2, <1>3, RoomStays DEF JInv
<1>9. NamesFixed'
  <2>1. ASSUME NEW r \in Ids, NEW m \in Names, Claimed(r, m)'
        PROVE  Claimed(r, m)
    BY <1>2, <1>3, <1>6, <2>1 DEF Claimed
  <2> QED BY <2>1 DEF NamesFixed, JInv
<1>10. ASSUME NEW m \in Names \ disturbed' PROVE Calm(m)'
  <2>1. Calm(m)
    BY <1>2, <1>10 DEF JInv
  <2>2. OneWorker(m)' /\ OneRecord(m)'
    BY <1>2, <1>3, <1>6, <2>1 DEF OneWorker, OneRecord, Calm
  <2>3. Claimed(i, n)
    BY <1>1 DEF Claimed
  <2>4. \A r \in Records : rows[r].name = m /\ r = i => m = n
    BY <2>3, <1>4 DEF JInv, NamesFixed, Claimed
  <2>5. HandlersHold(m)'
    <3>1. ASSUME NEW d \in BusyHandlers, h[d].name = m, h[d].at \in Holding
          PROVE  h[d].id \in Records /\ rows[h[d].id].name = m /\ h[d].id # i
      BY <1>1, <2>1, <2>4, <3>1 DEF Calm, HandlersHold, OneWorker
    <3> QED BY <1>2, <1>6, <2>1, <3>1 DEF HandlersHold, Calm
  <2>6. JobsHold(m)'
    <3>1. ASSUME NEW k \in RunningJobs', job[k].name = m
          PROVE  job[k].id \in Records /\ job[k].id # i
      BY <1>1, <1>3, <2>1, <2>4, <3>1 DEF Calm, JobsHold, OneWorker
    <3> QED BY <1>2, <1>3, <1>6, <2>1, <3>1 DEF JobsHold, Calm
  <2>7. InSync(m)'
    <3>1. ASSUME i \in Records, rows[i].name = m, rows'[i].sync = "synced", rows' # rows
          PROVE  stream'[m] = rows'[i].cfg
      <4>1. m = n /\ job[j].ok
        BY <2>4, <3>1, <1>6
      <4> QED BY <4>1, <1>1, <1>2, <1>6, <2>1, <3>1 DEF Calm, JobsHold
    <3> QED BY <1>2, <1>6, <2>1, <3>1 DEF InSync, Calm
  <2> QED BY <2>2, <2>5, <2>6, <2>7 DEF Calm
<1>11. PendingIsBeingSynced'
  <2>1. ASSUME faults' = 0, NEW r \in Records', rows'[r].sync = "pending"
        PROVE  \E k \in RunningJobs' : job'[k].id = r
    <3>1. r # i \/ i \notin Records
      BY <1>5, <1>6, <2>1
    <3>2. r \in Records /\ r # i /\ rows[r].sync = "pending" /\ faults = 0
      BY <1>5, <1>6, <2>1, <3>1
    <3>3. PICK k \in RunningJobs : job[k].id = r
      BY <3>2 DEF JInv, PendingIsBeingSynced
    <3> QED BY <1>3, <3>2, <3>3
  <2> QED BY <2>1 DEF PendingIsBeingSynced
<1> QED BY <1>7, <1>8, <1>9, <1>10, <1>11 DEF JInv

\* A stream is deleted past its record, which disturbs its name.
LEMMA StreamGoneOK ==
  ASSUME JInv, NEW n \in Names, DeleteStreamOnCluster(n)
  PROVE  JInv'
<1>1. /\ rows' = rows /\ h' = h /\ job' = job /\ made' = made /\ faults' = faults
      /\ Records' = Records /\ BusyHandlers' = BusyHandlers /\ RunningJobs' = RunningJobs
      /\ disturbed' = disturbed \union {n}
      /\ stream' = [stream EXCEPT ![n] = None]
  BY DEF DeleteStreamOnCluster, Records, BusyHandlers, RunningJobs
<1>2. TypeOK /\ stream' \in [Names -> Configs \union {None}]
      /\ \A m \in Names \ {n} : stream'[m] = stream[m]
  BY <1>1 DEF JInv, TypeOK
<1>3. TypeOK'
  BY <1>1, <1>2 DEF TypeOK
<1>4. RoomOK'
  BY <1>1, <1>2, RoomStays DEF JInv
<1>5. NamesFixed'
  BY <1>1 DEF JInv, NamesFixed, Claimed
<1>6. ASSUME NEW m \in Names \ disturbed' PROVE Calm(m)'
  <2>1. Calm(m) /\ stream'[m] = stream[m]
    BY <1>1, <1>2, <1>6 DEF JInv
  <2> QED BY <1>1, <2>1
          DEF Calm, OneWorker, OneRecord, HandlersHold, JobsHold, InSync
<1>7. PendingIsBeingSynced'
  BY <1>1 DEF JInv, PendingIsBeingSynced
<1> QED BY <1>3, <1>4, <1>5, <1>6, <1>7 DEF JInv

(* A crash leaves the records and the streams, and nobody at work.         *)
LEMMA CrashOK ==
  ASSUME JInv, Crash
  PROVE  JInv'
<1>1. /\ rows' = rows /\ made' = made /\ stream' = stream /\ disturbed' = disturbed
      /\ Records' = Records
      /\ h' = [c \in Clients |-> IdleHandler]
      /\ job' = [j \in Jobs |-> None]
      /\ BusyHandlers' = {} /\ RunningJobs' = {}
  BY DEF Crash, Records, BusyHandlers, RunningJobs
<1>2. TypeOK /\ faults' \in 0..MaxFaults /\ faults' # 0
  BY DEF JInv, TypeOK, Crash, Fault
<1>3. \A c \in Clients : h'[c] = IdleHandler /\ h'[c].at \notin Holding
  BY <1>1, Puts DEF Holding
<1>4. TypeOK'
  BY <1>1, <1>2, <1>3, Puts DEF TypeOK
<1>5. RoomOK'
  BY <1>1, <1>2, RoomStays DEF JInv
<1>6. NamesFixed'
  <2>1. ASSUME NEW i \in Ids, NEW m \in Names, Claimed(i, m)'
        PROVE  Claimed(i, m)
    BY <1>1, <1>3, <2>1 DEF Claimed
  <2> QED BY <2>1 DEF NamesFixed, JInv
<1>7. ASSUME NEW m \in Names \ disturbed' PROVE Calm(m)'
  <2>1. Calm(m)
    BY <1>1, <1>7 DEF JInv
  <2>2. OneWorker(m)' /\ HandlersHold(m)' /\ JobsHold(m)'
    BY <1>1 DEF OneWorker, HandlersHold, JobsHold
  <2>3. OneRecord(m)' /\ InSync(m)'
    BY <1>1, <2>1 DEF Calm, OneRecord, InSync
  <2> QED BY <2>2, <2>3 DEF Calm
<1>8. PendingIsBeingSynced'
  BY <1>2 DEF PendingIsBeingSynced
<1> QED BY <1>4, <1>5, <1>6, <1>7, <1>8 DEF JInv

-----------------------------------------------------------------------------
(* The steps of the handlers.                                              *)
LEMMA AcceptedOK ==
  ASSUME JInv, NEW c \in Clients,
         \/ \E n \in Names, g \in Configs : CheckName(c, n, g)
         \/ \E i \in Ids, g \in Configs : LoadJetStream(c, i, g)
         \/ \E i \in Ids : RetryFailedSync(c, i)
  PROVE  JInv'
<1>1. ASSUME NEW n \in Names, NEW g \in Configs, CheckName(c, n, g)
      PROVE  JInv'
  <2> DEFINE x == [at |-> "insert", name |-> n, cfg |-> g]
  <2>1. x \in Handler /\ x.at = "insert" /\ x.name = n /\ x # IdleHandler
    BY Puts
  <2>2. "insert" \notin Holding
    BY DEF Holding
  <2>3. Take(c, n, x) /\ \A i \in Records : rows[i].name # n
    BY <1>1 DEF CheckName, RecordsNamed
  <2> HIDE DEF x
  <2> QED BY <2>1, <2>2, <2>3, TakeOK
<1>2. ASSUME NEW i \in Records, NEW g \in Configs, NEW s \in {"update", "probe"},
             s = "probe" => g = rows[i].cfg /\ rows[i].sync = "failed",
             Take(c, rows[i].name, [at |-> s, id |-> i, name |-> rows[i].name, cfg |-> g])
      PROVE  JInv'
  <2> DEFINE x == [at |-> s, id |-> i, name |-> rows[i].name, cfg |-> g]
  <2>1. i \in Ids /\ rows[i].name \in Names /\ s \in Holding
    BY Busy DEF JInv, Row, Holding
  <2>2. x \in Handler /\ x.at = s /\ x.id = i /\ x.name = rows[i].name /\ x.cfg = g
    BY <2>1, Puts
  <2>3. x # IdleHandler /\ x.at # "insert" /\ (x.at # "update" => x.at = "probe")
    BY <2>2, Puts
  <2>4. Take(c, rows[i].name, x)
    BY <1>2
  <2> HIDE DEF x
  <2> QED BY <1>2, <2>1, <2>2, <2>3, <2>4, TakeOK
<1>3. ASSUME NEW i \in Ids, NEW g \in Configs, LoadJetStream(c, i, g)
      PROVE  JInv'
  BY <1>2, <1>3 DEF LoadJetStream
<1>4. ASSUME NEW i \in Ids, RetryFailedSync(c, i)
      PROVE  JInv'
  <2>1. i \in Records /\ rows[i].cfg \in Configs
    BY <1>4, Busy DEF JInv, RetryFailedSync, Row
  <2> QED BY <1>2, <1>4, <2>1 DEF RetryFailedSync
<1> QED BY <1>1, <1>3, <1>4

LEMMA HandledOK ==
  ASSUME JInv, NEW c \in Clients, Handle(c)
  PROVE  JInv'
<1> DEFINE n == h[c].name  g == h[c].cfg  i == h[c].id
<1>1. TypeOK /\ h[c] \in Handler
      /\ made \in SUBSET Ids /\ Records \subseteq made
      /\ rows \in [Ids -> Row \union {None}]
  BY DEF JInv, TypeOK
<1>2. h[c].at # "idle" => c \in BusyHandlers /\ n \in Names /\ g \in Configs
  BY <1>1, Busy
<1>3. h[c].at \in Holding => c \in BusyHandlers /\ i \in Ids /\ i \in made
  BY <1>1, Busy DEF TypeOK
<1>4. ASSUME GiveUp(c), UNCHANGED <<stream, disturbed>>
      PROVE  JInv'
  BY <1>4, EndOK DEF GiveUp
<1>5. CASE CreateJetStream(c)
  <2>1. h[c].at = "insert" /\ c \in BusyHandlers /\ n \in Names /\ g \in Configs
    BY <1>2, <1>5 DEF CreateJetStream
  <2>2. ASSUME NEW k \in Ids \ made,
               rows' = [rows EXCEPT ![k] = [name |-> n, cfg |-> g, sync |-> "pending"]],
               made' = made \union {k}, Start(c, "create", k, n, g),
               NoFault, UNCHANGED <<stream, disturbed>>
        PROVE  JInv'
    <3> DEFINE r == [name |-> n, cfg |-> g, sync |-> "pending"]
    <3>1. r \in Row /\ r # None /\ r.name = n /\ r.cfg = g /\ r.sync = "pending"
      BY <2>1 DEF Row
    <3> HIDE DEF r
    <3>2. /\ rows' \in [Ids -> Row \union {None}] /\ rows'[k] = r
          /\ \A x \in Ids \ {k} : rows'[x] = rows[x]
      BY <1>1, <2>2, <3>1 DEF r
    <3>3. h[c].at \notin Holding
      BY <2>1 DEF Holding
    <3>4. UNCHANGED <<stream, disturbed, faults>>
      BY <2>2 DEF NoFault
    <3> QED BY <2>1, <2>2, <3>1, <3>2, <3>3, <3>4, StartOK
  <2> QED BY <1>4, <1>5, <2>2 DEF CreateJetStream
<1>6. CASE UpdateJetStream(c)
  <2>1. h[c].at = "update" /\ h[c].at \in Holding /\ h[c].at # "insert"
    BY <1>6 DEF UpdateJetStream, Holding
  <2>2. ASSUME rows' = [rows EXCEPT ![i] = [name |-> n, cfg |-> g, sync |-> "pending"]],
               Start(c, "update", i, n, g),
               NoFault, UNCHANGED made, UNCHANGED <<stream, disturbed>>
        PROVE  JInv'
    <3> DEFINE r == [name |-> n, cfg |-> g, sync |-> "pending"]
    <3>1. r \in Row /\ r # None /\ r.name = n /\ r.cfg = g /\ r.sync = "pending"
      BY <1>2, <2>1 DEF Row
    <3> HIDE DEF r
    <3>2. /\ rows' \in [Ids -> Row \union {None}] /\ rows'[i] = r
          /\ \A x \in Ids \ {i} : rows'[x] = rows[x]
      BY <1>1, <1>3, <2>1, <2>2, <3>1 DEF r
    <3>3. made' = made \union {i}
      BY <1>3, <2>1, <2>2
    <3>4. UNCHANGED <<stream, disturbed, faults>>
      BY <2>2 DEF NoFault
    <3> QED BY <1>3, <2>1, <2>2, <3>1, <3>2, <3>3, <3>4, StartOK
  <2> QED BY <1>4, <1>6, <2>2 DEF UpdateJetStream
<1>7. CASE ProbeStream(c)
  <2>1. h[c].at = "probe" /\ h[c].at \in Holding
        /\ UNCHANGED <<rows, made, stream, job, disturbed, faults>>
    BY <1>7 DEF ProbeStream, Holding
  <2>2. ASSUME NEW s \in {"retry update", "retry create"},
               h' = [h EXCEPT ![c] = [at |-> s, id |-> i, name |-> n, cfg |-> g]]
        PROVE  JInv'
    <3> DEFINE x == [at |-> s, id |-> i, name |-> n, cfg |-> g]
    <3>1. s \in Holding
      BY DEF Holding
    <3>2. x \in Handler /\ x.at = s /\ x.id = i /\ x.name = n /\ x.cfg = g
      BY <1>2, <1>3, <2>1, <3>1, Puts
    <3>3. h' = [h EXCEPT ![c] = x]
      BY <2>2
    <3> HIDE DEF x
    <3> QED BY <2>1, <3>2, <3>3, ProbedOK
  <2>3. ASSUME h' = [h EXCEPT ![c] = IdleHandler]
        PROVE  JInv'
    BY <2>1, <2>3, EndOK
  <2> QED BY <1>7, <2>2, <2>3 DEF ProbeStream
<1>8. CASE ResetSync(c)
  <2>1. h[c].at \in Holding \ {"update"} /\ h[c].at # "insert"
    BY <1>8 DEF ResetSync, Holding
  <2>2. c \in BusyHandlers /\ i \in Ids /\ i \in made /\ n \in Names
    <3>1. "idle" \notin Holding
      BY DEF Holding
    <3>2. h[c].at \in Holding /\ h[c].at # "idle"
      BY <2>1, <3>1
    <3> QED BY <1>2, <1>3, <3>2
  <2>3. ASSUME rows' = IF i \in Records THEN [rows EXCEPT ![i].sync = "pending"] ELSE rows,
               NEW kind \in {"create", "update"}, Start(c, kind, i, n, g),
               NoFault, UNCHANGED made, UNCHANGED <<stream, disturbed>>
        PROVE  JInv'
    <3>1. /\ rows' \in [Ids -> Row \union {None}]
          /\ \A x \in Ids \ {i} : rows'[x] = rows[x]
          /\ i \notin Records => rows'[i] = None
          /\ i \in Records => /\ rows'[i] # None /\ rows'[i].name = rows[i].name
                              /\ rows'[i].cfg = rows[i].cfg
                              /\ rows'[i].sync = "pending"
      <4>1. CASE i \notin Records
        BY <4>1, <1>1, <2>2, <2>3 DEF Records
      <4>2. CASE i \in Records
        <5>1. rows[i] \in Row /\ rows' = [rows EXCEPT ![i].sync = "pending"]
          BY <4>2, <1>1, <2>3 DEF Records
        <5>2. /\ rows'[i] \in Row
              /\ rows'[i].name = rows[i].name /\ rows'[i].cfg = rows[i].cfg
              /\ rows'[i].sync = "pending"
          BY <5>1, <1>1, <2>2 DEF Row
        <5>3. /\ \A x \in Ids \ {i} : rows'[x] = rows[x]
              /\ rows' \in [Ids -> Row \union {None}]
          BY <5>1, <5>2, <1>1, <2>2
        <5> QED BY <4>2, <5>2, <5>3
      <4> QED BY <4>1, <4>2
    <3>2. i \in Records => rows[i].name = n
      <4>1. Claimed(i, n)
        BY <1>1, <2>1 DEF Claimed
      <4>2. i \in Records => rows[i].name \in Names /\ Claimed(i, rows[i].name)
        BY <1>1 DEF Claimed, Records, Row
      <4> QED BY <2>2, <4>1, <4>2 DEF JInv, NamesFixed
    <3>3. n \notin disturbed => i \in Records /\ rows[i].cfg = g
      BY <2>1, <2>2 DEF JInv, Calm, HandlersHold
    <3>4. UNCHANGED <<stream, disturbed, faults>> /\ made' = made \union {i}
      BY <2>2, <2>3 DEF NoFault
    <3> QED BY <2>1, <2>2, <2>3, <3>1, <3>2, <3>3, <3>4, StartOK
  <2>4. \A b \in BOOLEAN : (IF b THEN "update" ELSE "create") \in {"create", "update"}
    OBVIOUS
  <2> QED BY <1>4, <1>8, <2>3, <2>4 DEF ResetSync
<1> QED BY <1>5, <1>6, <1>7, <1>8 DEF Handle

-----------------------------------------------------------------------------
\* The inductive invariant: the types, a goroutine left for every handler, a name
\* for every ID, order where requests did not overlap, and somebody at work on
\* what is pending.
THEOREM JetStreamInvariant == Spec => []JInv
<1>1. Init => JInv
  <2> SUFFICES ASSUME Init PROVE JInv
    OBVIOUS
  <2>1. Records = {} /\ RunningJobs = {} /\ BusyHandlers = {}
    BY DEF Init, Records, RunningJobs, BusyHandlers
  <2>2. \A c \in Clients : h[c] = IdleHandler /\ h[c].at \notin Holding
    BY Puts DEF Init, Holding
  <2>3. TypeOK
    BY <2>1, <2>2, Puts DEF Init, TypeOK
  <2>4. RoomOK
    <3>1. Cardinality({}) = 0 /\ Cardinality(Jobs) \in Nat
      BY FS_EmptySet, FS_CardinalityType
    <3> QED BY <2>1, <3>1 DEF RoomOK
  <2>5. NamesFixed
    BY <2>1, <2>2 DEF NamesFixed, Claimed
  <2>6. \A n \in Names : Calm(n)
    BY <2>1 DEF Calm, OneWorker, OneRecord, HandlersHold, JobsHold, InSync
  <2>7. PendingIsBeingSynced
    BY <2>1 DEF PendingIsBeingSynced
  <2> QED BY <2>3, <2>4, <2>5, <2>6, <2>7 DEF JInv
<1>2. JInv /\ [Next]_vars => JInv'
  <2> SUFFICES ASSUME JInv, [Next]_vars PROVE JInv'
    OBVIOUS
  <2>1. CASE \E c \in Clients, n \in Names, g \in Configs : CheckName(c, n, g)
    BY <2>1, AcceptedOK
  <2>2. CASE \E c \in Clients, i \in Ids, g \in Configs : LoadJetStream(c, i, g)
    BY <2>2, AcceptedOK
  <2>3. CASE \E c \in Clients, i \in Ids : RetryFailedSync(c, i)
    BY <2>3, AcceptedOK
  <2>4. CASE \E c \in Clients : Handle(c)
    BY <2>4, HandledOK
  <2>5. CASE \E i \in Ids : DeleteJetStream(i)
    BY <2>5, DeleteOK
  <2>6. CASE \E j \in Jobs : Goroutine(j)
    BY <2>6, SendOK, RecordOK DEF Goroutine
  <2>7. CASE \E n \in Names : DeleteStreamOnCluster(n)
    BY <2>7, StreamGoneOK
  <2>8. CASE Crash
    BY <2>8, CrashOK
  <2>9. CASE UNCHANGED vars
    BY <2>9 DEF vars, JInv, TypeOK, RoomOK, NamesFixed, Claimed, Calm, OneWorker,
       OneRecord, HandlersHold, JobsHold, InSync, PendingIsBeingSynced,
       Records, RunningJobs, BusyHandlers
  <2> QED BY <2>1, <2>2, <2>3, <2>4, <2>5, <2>6, <2>7, <2>8, <2>9 DEF Next
<1> QED BY <1>1, <1>2, PTL DEF Spec

\* The types of the table, the streams, the handlers and the goroutines, in
\* particular that an identifier in somebody's hands is one that was given out.
THEOREM JetStreamTypes == Spec => []TypeOK
BY JetStreamInvariant, PTL DEF JInv

\* However requests, retries, deletions and goroutines cross: while nothing but NATS
\* fails, a record that says "pending" has a goroutine that will say how it went.
THEOREM PendingRecordsAreServed == Spec => []PendingIsBeingSynced
BY JetStreamInvariant, PTL DEF JInv

\* Of a name about which requests did not overlap, a record that says "synced" and
\* is not being worked on has the configuration of the stream on the cluster.
THEOREM SyncedRecordsAreInSync == Spec => []SyncedMeansInSync
<1>1. JInv => SyncedMeansInSync
  BY Busy DEF JInv, SyncedMeansInSync, Calm, InSync, Row
<1> QED BY <1>1, JetStreamInvariant, PTL

\* Of a name about which requests did not overlap there is one record at most, though
\* the table does not forbid more and a save may insert a record again.
THEOREM NamesAreUnique == Spec => []OneRecordPerName
<1>1. ASSUME JInv, NEW n \in Names \ disturbed
      PROVE  Cardinality(RecordsNamed(n)) <= 1
  <2>1. \A i, k \in RecordsNamed(n) : i = k
    BY <1>1 DEF JInv, Calm, OneRecord, RecordsNamed
  <2>2. CASE RecordsNamed(n) = {}
    BY <2>2, FS_EmptySet
  <2>3. CASE RecordsNamed(n) # {}
    <3>1. PICK i : RecordsNamed(n) = {i}
      BY <2>1, <2>3
    <3>2. Cardinality({i}) = 1
      BY FS_Singleton
    <3>3. Cardinality(RecordsNamed(n)) = 1
      BY <3>1, <3>2
    <3> QED BY <3>3
  <2> QED BY <2>2, <2>3
<1>2. JInv => OneRecordPerName
  BY <1>1 DEF OneRecordPerName
<1> QED BY <1>2, JetStreamInvariant, PTL

=============================================================================
