------------------------- MODULE ConsumerSyncProofs -------------------------
(***************************************************************************)
(* Proofs about ConsumerSync, for any records, streams, names,             *)
(* configurations and handlers, any number of goroutines and faults.       *)
(***************************************************************************)
EXTENDS ConsumerSync, FiniteSetTheorems, TLAPS

USE ConsumerAssumption

-----------------------------------------------------------------------------
\* There is a goroutine left for every handler.
RoomOK == Cardinality(Workers) <= Cardinality(Jobs)

\* Where two are at work, all that they touch is disturbed.
Alone ==
  \A v, w \in Workers :
    v # w /\ Touches(v) \intersect Touches(w) # {} => Touches(v) \subseteq disturbed

\* So is all that is touched for a record that is gone.
Gone ==
  \A w \in Workers : Work(w).id \in Ids \ Records => Touches(w) \subseteq disturbed

TrueOf(i) == rows[i].sync = "synced" => InSync(rows[i])

\* What a handler has read is still so, but for what it is about to write.
HandlerSure(c) ==
  LET i == h[c].id  r == h[c].row IN
  /\ h[c].at \in {"insert", "update", "start"} => r.sync = "pending"
  /\ h[c].at \notin {"insert", "update"} =>
       rows[i] = [r EXCEPT !.status = rows[i].status]

\* The record waits for the goroutine, which tells the truth.
JobSure(j) ==
  LET i == job[j].id  r == job[j].row  there == consumer[Place(r)] IN
  /\ Place(rows[i]) = Place(r) /\ rows[i].cfg = r.cfg
  /\ rows[i].sync = "pending"
  /\ job[j].ok => there # None /\ there.cfg = r.cfg

Sure(w) == IF w \in Clients THEN HandlerSure(w) ELSE JobSure(w)

Calm(k) == \A w \in Workers : k \in Touches(w) => Sure(w)

\* One record stands for the consumer and is true of it; who is at work there is
\* about that record.
Sole(k) ==
  /\ \A i, j \in RecordsAt(k) : i = j
  /\ \A i \in RecordsAt(k) : TrueOf(i)
  /\ \A w \in Workers : k \in Touches(w) => RecordsAt(k) \subseteq {Work(w).id}

ConsumerInv ==
  /\ TypeOK
  /\ RoomOK
  /\ Alone
  /\ Gone
  /\ \A k \in Places \ disturbed : Calm(k)
  /\ \A k \in Places \ (disturbed \union shared) : Sole(k)
  /\ PendingIsBeingSynced

-----------------------------------------------------------------------------
\* What is at work, and on what.
LEMMA WorkTypes ==
  ASSUME TypeOK
  PROVE  /\ \A w \in Workers :
              /\ w \in Clients <=> w \in BusyHandlers
              /\ w \in Jobs <=> w \in RunningJobs
              /\ w \in Clients => Work(w) = h[w] /\ h[w] \in Handler
              /\ w \in Jobs => w \notin Clients /\ Work(w) = job[w] /\ job[w] \in Job
              /\ w \in Clients \/ w \in Jobs
              /\ Work(w).row \in Row
              /\ Work(w).id \in made \union {None}
         /\ \A i \in Records : i \in Ids /\ i \in made /\ rows[i] \in Row
         /\ \A i \in Ids : i # None
<1>1. \A w \in BusyHandlers :
        /\ w \in Clients /\ w \notin Jobs /\ h[w] \in Handler /\ Work(w) = h[w]
        /\ h[w].row \in Row /\ h[w].id \in made \union {None}
  BY DEF TypeOK, BusyHandlers, Work, Handler
<1>2. \A w \in RunningJobs :
        /\ w \in Jobs /\ w \notin Clients /\ job[w] \in Job /\ Work(w) = job[w]
        /\ job[w].row \in Row /\ job[w].id \in made
  BY DEF TypeOK, RunningJobs, Work, Job
<1>3. \A i \in Records : i \in Ids /\ i \in made /\ rows[i] \in Row
  BY DEF TypeOK, Records
<1> QED BY <1>1, <1>2, <1>3 DEF Workers

\* A handler at work is never idle.
LEMMA HandlerFields ==
  \A x \in Handler :
    /\ x.at \in {"insert", "update", "start", "probe", "retry update",
                 "retry create", "pause", "resume", "save"}
    /\ x.id \in Ids \union {None} /\ x.row \in Row
    /\ x # IdleHandler
<1>1. \A x \in Handler : x.at # "idle"
  BY DEF Handler
<1>2. IdleHandler.at = "idle"
  BY DEF IdleHandler
<1> QED BY <1>1, <1>2 DEF Handler

\* A worker touches the place it takes its record to be at, and the one the
\* record is at.
LEMMA TouchedPlaces ==
  ASSUME TypeOK
  PROVE  /\ \A r \in Row : Place(r) \in Places
         /\ \A w \in Workers :
              /\ Touches(w) \subseteq Places
              /\ Place(Work(w).row) \in Touches(w)
              /\ Work(w).id \in Records => Place(rows[Work(w).id]) \in Touches(w)
              /\ \A k \in Touches(w) :
                   \/ k = Place(Work(w).row)
                   \/ Work(w).id \in Records /\ k = Place(rows[Work(w).id])
         /\ \A k : \A i \in RecordsAt(k) : i \in Records /\ Place(rows[i]) = k
<1>1. \A r \in Row : Place(r) \in Places
  BY DEF Place, Places, Row
<1> QED BY <1>1, WorkTypes DEF Touches, RecordsAt

\* Handlers and goroutines can be counted.
LEMMA Counts ==
  ASSUME TypeOK
  PROVE  /\ IsFiniteSet(Workers) /\ Cardinality(Workers) \in Nat
         /\ Cardinality(Jobs) \in Nat
<1>1. Workers \in SUBSET (Clients \union Jobs)
  BY WorkTypes
<1>2. IsFiniteSet(Clients \union Jobs)
  BY FS_Union
<1> QED BY <1>1, <1>2, FS_Subset, FS_CardinalityType

\* One that ends makes room for one that begins.
LEMMA RoomStays ==
  ASSUME TypeOK, RoomOK, NEW w \in Workers, NEW u,
         Workers' \subseteq (Workers \ {w}) \union {u}
  PROVE  RoomOK'
<1> PICK W : W = Workers
  OBVIOUS
<1> PICK V : V = Workers'
  OBVIOUS
<1>1. /\ IsFiniteSet(W) /\ w \in W /\ V \subseteq (W \ {w}) \union {u}
      /\ Cardinality(W) \in Nat /\ Cardinality(Jobs) \in Nat
      /\ Cardinality(W) <= Cardinality(Jobs)
  BY Counts DEF RoomOK
<1>2. IsFiniteSet(W \ {w}) /\ Cardinality(W \ {w}) = Cardinality(W) - 1
  BY <1>1, FS_RemoveElement
<1>3. /\ IsFiniteSet((W \ {w}) \union {u})
      /\ Cardinality((W \ {w}) \union {u}) <= Cardinality(W \ {w}) + 1
  <2> PICK X : X = W \ {w}
    OBVIOUS
  <2>1. /\ IsFiniteSet(X \union {u}) /\ Cardinality(X) \in Nat
        /\ Cardinality(X \union {u}) \in {Cardinality(X), Cardinality(X) + 1}
    BY <1>2, FS_AddElement, FS_CardinalityType
  <2> QED BY <2>1
<1>4. /\ Cardinality(V) <= Cardinality((W \ {w}) \union {u}) /\ Cardinality(V) \in Nat
      /\ Cardinality((W \ {w}) \union {u}) \in Nat
  BY <1>1, <1>3, FS_Subset, FS_CardinalityType
<1>5. Cardinality(V) <= Cardinality(Jobs)
  BY <1>1, <1>2, <1>3, <1>4
<1> QED BY <1>5 DEF RoomOK

\* Fewer take no more room.
LEMMA RoomLeft ==
  ASSUME TypeOK, RoomOK, Workers' \subseteq Workers
  PROVE  RoomOK'
<1>1. CASE Workers = {}
  <2>1. Workers' = Workers
    BY <1>1
  <2> QED BY <2>1 DEF RoomOK
<1>2. CASE Workers # {}
  <2>1. PICK w : w \in Workers
    BY <1>2
  <2> QED BY <2>1, RoomStays
<1> QED BY <1>1, <1>2

\* A handler at work finds a free goroutine.
LEMMA FreeJob ==
  ASSUME TypeOK, RoomOK, NEW c \in BusyHandlers
  PROVE  (CHOOSE free \in Jobs \ RunningJobs : TRUE) \in Jobs \ RunningJobs
<1>1. RunningJobs # Jobs
  <2> SUFFICES ASSUME RunningJobs = Jobs PROVE FALSE
    OBVIOUS
  <2>1. c \in Clients /\ c \notin Jobs
    BY DEF BusyHandlers
  <2>2. Cardinality(Jobs \union {c}) = Cardinality(Jobs) + 1
    BY <2>1, FS_AddElement
  <2>3. Jobs \union {c} \in SUBSET Workers
    BY DEF Workers
  <2>4. Cardinality(Jobs \union {c}) <= Cardinality(Workers)
    BY <2>3, Counts, FS_Subset
  <2> QED BY <2>2, <2>4, Counts DEF RoomOK
<1>2. \E free \in Jobs \ RunningJobs : TRUE
  BY <1>1 DEF RunningJobs
<1> QED BY <1>2

-----------------------------------------------------------------------------
\* A step of worker w about record i: it writes that record and nothing but what
\* it touches; u, be it w or a goroutine that w starts, goes on with it.
WorksOn(w, u, i) ==
  /\ Work(w).id = i \/ (Work(w).id = None /\ i \notin made /\ rows'[i] # None)
  /\ \A r \in Ids \ {i} : rows'[r] = rows[r]
  /\ i \in Records => rows'[i] # None
  /\ rows'[i] # None => Place(rows'[i]) \in Touches(w)
  /\ \A k \in Places \ Touches(w) : consumer'[k] = consumer[k]
  /\ disturbed' = disturbed /\ shared' = shared
  /\ Workers' \ {u} = Workers \ {w}
  /\ \A v \in Workers \ {w} : Work(v)' = Work(v)
  /\ u \in Workers' => Work(u)'.id = i /\ Place(Work(u)'.row) \in Touches(w)

\* What it leaves at the places that are not disturbed is certain again, ...
LeavesSure(w, u, i) ==
  \A k \in Touches(w) \ disturbed :
    /\ k \notin shared /\ rows'[i] # None /\ Place(rows'[i]) = k => TrueOf(i)'
    /\ u \in Workers' /\ k \in Touches(u)' => Sure(u)'

\* ... and if the record still waits, it does so for u.
KeepsWaiting(u, i) ==
  /\ panicked' = panicked
  /\ faults' = 0 => faults = 0
  /\ /\ faults' = 0 /\ ~ panicked' /\ rows'[i] # None
     /\ rows'[i].sync = "pending" /\ Place(rows'[i]) \notin disturbed
     => u \in Workers' /\ (u \in Clients => h'[u].at = "start")

\* Such a step keeps the invariant.
LEMMA WorkerStep ==
  ASSUME ConsumerInv, TypeOK', NEW w \in Workers, NEW u, NEW i \in Ids,
         WorksOn(w, u, i), LeavesSure(w, u, i), KeepsWaiting(u, i)
  PROVE  ConsumerInv'
<1> USE DEF WorksOn, LeavesSure, KeepsWaiting
<1>0. TypeOK /\ RoomOK /\ Alone /\ Gone
  BY DEF ConsumerInv
<1>1. RoomOK'
  BY <1>0, RoomStays
<1>2. ASSUME NEW v \in Workers' \ {u}
      PROVE  /\ v \in Workers \ {w} /\ Work(v)' = Work(v)
             /\ Work(v).id # i => Touches(v)' = Touches(v)
             /\ Work(v).id = i =>
                  /\ Touches(v)' \subseteq Touches(v) \union Touches(w)
                  /\ Touches(v)' \union Touches(v) \union Touches(w) \subseteq disturbed
  <2>1. v \in Workers \ {w} /\ Work(v)' = Work(v)
    OBVIOUS
  <2>2. Work(v).id \in made \union {None} /\ made \subseteq Ids /\ None \notin Ids
    BY <1>0, <2>1, WorkTypes DEF TypeOK
  <2>3. CASE Work(v).id # i
    <3>1. {Work(v).id} \intersect Records' = {Work(v).id} \intersect Records
      BY <2>2, <2>3 DEF Records
    <3>2. \A r \in {Work(v).id} \intersect Records : rows'[r] = rows[r]
      BY <2>3 DEF Records
    <3>3. {Place(rows'[r]) : r \in {Work(v).id} \intersect Records'}
            = {Place(rows[r]) : r \in {Work(v).id} \intersect Records}
      BY <3>1, <3>2
    <3> QED BY <2>1, <2>3, <3>3 DEF Touches
  <2>4. CASE Work(v).id = i
    <3>1. Work(w).id = i
      BY <2>2, <2>4
    <3>2. Touches(v) \union Touches(w) \subseteq disturbed
      <4>1. CASE i \in Records
        <5>1. Place(rows[i]) \in Touches(v) \intersect Touches(w)
          BY <1>0, <2>1, <2>4, <3>1, <4>1, TouchedPlaces
        <5> QED BY <1>0, <2>1, <5>1 DEF Alone
      <4>2. CASE i \notin Records
        BY <1>0, <2>1, <2>4, <3>1, <4>2 DEF Gone
      <4> QED BY <4>1, <4>2
    <3>3. Touches(v)' \subseteq Touches(v) \union Touches(w)
      <4>1. Touches(v)' = {Place(Work(v).row)}
              \union {Place(rows'[r]) : r \in {i} \intersect Records'}
        BY <2>1, <2>4 DEF Touches
      <4>2. \A r \in {i} \intersect Records' : Place(rows'[r]) \in Touches(w)
        BY DEF Records
      <4> QED BY <1>0, <2>1, <4>1, <4>2, TouchedPlaces
    <3> QED BY <2>1, <2>4, <3>2, <3>3
  <2> QED BY <2>1, <2>3, <2>4
<1>3. u \in Workers' => Touches(u)' \subseteq Touches(w)
  <2> SUFFICES ASSUME u \in Workers' PROVE Touches(u)' \subseteq Touches(w)
    OBVIOUS
  <2>1. Touches(u)' = {Place(Work(u)'.row)}
              \union {Place(rows'[r]) : r \in {i} \intersect Records'}
    BY DEF Touches
  <2>2. \A r \in {i} \intersect Records' : Place(rows'[r]) \in Touches(w)
    BY DEF Records
  <2> QED BY <2>1, <2>2
<1>4. Alone'
  <2>1. ASSUME NEW v \in Workers', NEW x \in Workers', v # x, NEW k,
               k \in Touches(v)', k \in Touches(x)'
        PROVE  Touches(v)' \subseteq disturbed
    <3>1. CASE v # u /\ x # u
      <4>1. CASE Work(v).id = i
        BY <1>2, <3>1, <4>1
      <4>2. CASE Work(v).id # i /\ Work(x).id # i
        <5>1. Touches(v)' = Touches(v) /\ Touches(x)' = Touches(x)
              /\ v \in Workers /\ x \in Workers
          BY <1>2, <3>1, <4>2
        <5> QED BY <1>0, <2>1, <5>1 DEF Alone
      <4>3. CASE Work(v).id # i /\ Work(x).id = i
        <5>1. Touches(v)' = Touches(v) /\ v \in Workers \ {w} /\ x \in Workers
              /\ Touches(x)' \subseteq Touches(x) \union Touches(w)
          BY <1>2, <3>1, <4>3
        <5> QED BY <1>0, <2>1, <5>1 DEF Alone
      <4> QED BY <4>1, <4>2, <4>3
    <3>2. CASE v = u
      <4>1. x \in Workers' \ {u} /\ k \in Touches(w)
        BY <1>3, <2>1, <3>2
      <4>2. Touches(w) \subseteq disturbed
        <5>1. CASE Work(x).id = i
          BY <1>2, <4>1, <5>1
        <5>2. CASE Work(x).id # i
          <6>1. x \in Workers \ {w} /\ k \in Touches(x)
            BY <1>2, <2>1, <4>1, <5>2
          <6> QED BY <1>0, <4>1, <6>1 DEF Alone
        <5> QED BY <5>1, <5>2
      <4> QED BY <1>3, <3>2, <4>2, <2>1
    <3>3. CASE x = u /\ v # u
      <4>1. v \in Workers' \ {u} /\ k \in Touches(w)
        BY <1>3, <2>1, <3>3
      <4>2. CASE Work(v).id = i
        BY <1>2, <4>1, <4>2
      <4>3. CASE Work(v).id # i
        <5>1. v \in Workers \ {w} /\ Touches(v)' = Touches(v)
          BY <1>2, <4>1, <4>3
        <5> QED BY <1>0, <2>1, <4>1, <5>1 DEF Alone
      <4> QED BY <4>2, <4>3
    <3> QED BY <2>1, <3>1, <3>2, <3>3
  <2> QED BY <2>1 DEF Alone
<1>5. Gone'
  <2> SUFFICES ASSUME NEW v \in Workers', Work(v)'.id \in Ids \ Records'
               PROVE  Touches(v)' \subseteq disturbed
    BY DEF Gone
  <2>1. i \notin Records' => i \notin Records /\ Work(w).id = i
    BY DEF Records
  <2>2. CASE v = u
    <3>1. Work(w).id \in Ids \ Records
      BY <2>1, <2>2
    <3>2. Touches(w) \subseteq disturbed
      BY <1>0, <3>1 DEF Gone
    <3> QED BY <1>3, <2>2, <3>2
  <2>3. CASE v # u
    <3>1. CASE Work(v).id = i
      BY <1>2, <2>3, <3>1
    <3>2. CASE Work(v).id # i
      <4>1. v \in Workers /\ Work(v)' = Work(v) /\ Touches(v)' = Touches(v)
        BY <1>2, <2>3, <3>2
      <4>2. Work(v).id \in Ids \ Records
        BY <3>2, <4>1 DEF Records
      <4> QED BY <1>0, <4>1, <4>2 DEF Gone
    <3> QED BY <3>1, <3>2
  <2> QED BY <2>2, <2>3
<1>6. ASSUME NEW k \in Places \ disturbed, NEW v \in Workers' \ {u}, k \in Touches(v)'
      PROVE  /\ v \in Workers \ {w} /\ Work(v)' = Work(v)
             /\ Work(v).id # i /\ k \in Touches(v)
             /\ k \notin Touches(w)
             /\ Sure(v)'
  <2>1. Work(v).id # i
    BY <1>2, <1>6
  <2>2. v \in Workers \ {w} /\ Work(v)' = Work(v) /\ k \in Touches(v)
    BY <1>2, <1>6, <2>1
  <2>3. k \notin Touches(w)
    BY <1>0, <1>6, <2>1, <2>2 DEF Alone
  <2>4. Sure(v)
    BY <1>6, <2>2 DEF ConsumerInv, Calm
  <2>5. consumer'[k] = consumer[k]
    BY <1>6, <2>3
  <2>6. CASE v \in Clients
    <3>1. h'[v] = h[v] /\ h[v] \in Handler /\ h[v] = Work(v)
      BY <1>0, <2>2, <2>6, WorkTypes DEF Work
    <3>2. h[v].at # "insert" => h[v].id \in Ids
      BY <1>0, <2>2, <2>6, WorkTypes DEF TypeOK
    <3>3. h[v].at # "insert" => rows'[h[v].id] = rows[h[v].id]
      BY <2>1, <3>1, <3>2
    <3>4. Sure(v)'
      BY <2>4, <2>6, <3>1, <3>3 DEF Sure, HandlerSure
    <3> QED BY <2>1, <2>2, <2>3, <3>4
  <2>7. CASE v \notin Clients
    <3>1. job'[v] = job[v] /\ job[v] \in Job /\ job[v] = Work(v)
      BY <1>0, <2>2, <2>7, WorkTypes DEF Work
    <3>2. rows'[job[v].id] = rows[job[v].id]
      BY <2>1, <3>1 DEF Job
    <3>3. JobSure(v)
      BY <2>4, <2>7 DEF Sure
    <3>4. k = Place(job[v].row)
      BY <1>0, <2>2, <3>1, <3>3, TouchedPlaces DEF JobSure
    <3>5. JobSure(v)'
      BY <2>5, <3>1, <3>2, <3>3, <3>4 DEF JobSure
    <3>6. Sure(v)'
      BY <2>7, <3>5 DEF Sure
    <3> QED BY <2>1, <2>2, <2>3, <3>6
  <2> QED BY <2>6, <2>7
<1>7. ASSUME NEW k \in Places \ disturbed
      PROVE  Calm(k)'
  <2>1. u \in Workers' /\ k \in Touches(u)' => Sure(u)'
    BY <1>3, <1>7
  <2> QED BY <1>6, <1>7, <2>1 DEF Calm
<1>8. ASSUME NEW k \in Places \ (disturbed \union shared)
      PROVE  Sole(k)'
  <2>1. Sole(k)
    BY <1>8 DEF ConsumerInv
  <2>2. \A r \in RecordsAt(k)' : r \in Ids /\ (r # i => r \in RecordsAt(k))
    BY DEF RecordsAt, Records
  <2>3. CASE k \in Touches(w)
    <3>1. RecordsAt(k) \subseteq {Work(w).id}
      BY <2>1, <2>3 DEF Sole
    <3>2. \A r \in RecordsAt(k)' : r = i
      <4>1. None \notin Ids
        OBVIOUS
      <4> QED BY <2>2, <3>1, <4>1
    <3>3. i \in RecordsAt(k)' => TrueOf(i)'
      BY <1>8, <2>3 DEF RecordsAt, Records
    <3>4. \A v \in Workers' : k \in Touches(v)' => Work(v)'.id = i
      BY <1>6, <1>8, <2>3
    <3> QED BY <3>2, <3>3, <3>4 DEF Sole
  <2>4. CASE k \notin Touches(w)
    <3>1. i \notin RecordsAt(k) /\ i \notin RecordsAt(k)'
      <4>1. i \notin RecordsAt(k)'
        BY <2>4 DEF RecordsAt, Records
      <4>2. i \notin RecordsAt(k)
        <5> SUFFICES ASSUME i \in RecordsAt(k) PROVE FALSE
          OBVIOUS
        <5>1. i \in Records /\ i \in made /\ Place(rows[i]) = k
          BY <1>0, WorkTypes, TouchedPlaces
        <5>2. Work(w).id = i
          BY <5>1
        <5> QED BY <1>0, <2>4, <5>1, <5>2, TouchedPlaces
      <4> QED BY <4>1, <4>2
    <3>2. RecordsAt(k)' = RecordsAt(k)
      BY <3>1 DEF RecordsAt, Records
    <3>3. \A r \in RecordsAt(k) : r \in Ids \ {i} /\ rows'[r] = rows[r] /\ Place(rows[r]) = k
      BY <3>1 DEF RecordsAt, Records
    <3>4. consumer'[k] = consumer[k]
      BY <1>8, <2>4
    <3>5. \A r \in RecordsAt(k)' : TrueOf(r)'
      BY <2>1, <3>2, <3>3, <3>4 DEF TrueOf, InSync, Sole
    <3>6. ASSUME NEW v \in Workers', k \in Touches(v)'
          PROVE  RecordsAt(k)' \subseteq {Work(v)'.id}
      <4>1. v # u
        BY <1>3, <2>4, <3>6
      <4>2. v \in Workers /\ Work(v)' = Work(v) /\ k \in Touches(v)
        BY <1>6, <1>8, <3>6, <4>1
      <4> QED BY <2>1, <3>2, <4>2 DEF Sole
    <3> QED BY <2>1, <3>2, <3>5, <3>6 DEF Sole
  <2> QED BY <2>3, <2>4
<1>9. PendingIsBeingSynced'
  <2> SUFFICES ASSUME faults' = 0, ~ panicked', NEW r \in Records',
                      rows'[r].sync = "pending", Place(rows'[r]) \notin disturbed
               PROVE  \E v \in Workers' : /\ Work(v)'.id = r
                                          /\ v \in Clients => h'[v].at = "start"
    BY WorkTypes, <1>0 DEF PendingIsBeingSynced, Undisturbed, Workers, Work, RunningJobs, BusyHandlers
  <2>1. CASE r = i
    BY <2>1 DEF Records
  <2>2. CASE r # i
    <3>1. r \in Records /\ rows'[r] = rows[r]
      BY <2>2 DEF Records
    <3>2. PICK v \in Workers : /\ Work(v).id = r
                               /\ v \in Clients => h[v].at = "start"
      BY <1>0, <3>1 DEF ConsumerInv, PendingIsBeingSynced, Undisturbed, Workers, Work,
                        RunningJobs, BusyHandlers
    <3>3. v # w
      <4>1. r \in made /\ made \subseteq Ids /\ None \notin Ids
        BY <1>0, <3>1, WorkTypes DEF TypeOK
      <4>2. Work(w).id # r
        BY <2>2, <4>1
      <4> QED BY <3>2, <4>2
    <3>4. v \in Workers' /\ Work(v)' = Work(v)
      BY <3>3
    <3>5. Work(v)'.id = r
      BY <3>2, <3>4
    <3>6. v \in Clients => h'[v] = h[v]
      BY <3>4 DEF Work
    <3> QED BY <3>2, <3>4, <3>5, <3>6
  <2> QED BY <2>1, <2>2
<1>10. shared' = shared
  OBVIOUS
<1> QED BY <1>1, <1>4, <1>5, <1>7, <1>8, <1>9, <1>10 DEF ConsumerInv

-----------------------------------------------------------------------------
(* A step that writes no record: some may stop working, and places may be  *)
(* disturbed.                                                              *)
LEMMA QuietStep ==
  ASSUME ConsumerInv, TypeOK', rows' = rows, disturbed \subseteq disturbed',
         shared' = shared,
         \A k \in Places \ disturbed' : consumer'[k] = consumer[k],
         Workers' \subseteq Workers, \A w \in Workers' : Work(w)' = Work(w),
         faults' = 0 /\ ~ panicked' =>
           /\ faults = 0 /\ ~ panicked
           /\ \A w \in Workers \ Workers' : w \in Clients /\ h[w].at # "start"
  PROVE  ConsumerInv'
<1>0. TypeOK /\ RoomOK /\ Alone /\ Gone /\ Records' = Records
  BY DEF ConsumerInv, Records
<1>1. RoomOK'
  BY <1>0, RoomLeft
<1>2. \A w \in Workers' : w \in Workers /\ Touches(w)' = Touches(w)
  BY <1>0 DEF Touches
<1>3. Alone'
  BY <1>0, <1>2 DEF Alone
<1>4. Gone'
  BY <1>0, <1>2 DEF Gone
<1>5. ASSUME NEW k \in Places \ disturbed', NEW w \in Workers', k \in Touches(w)'
      PROVE  Sure(w)' /\ w \in Workers /\ k \in Touches(w)
  <2>1. consumer'[k] = consumer[k]
    BY <1>5
  <2>2. w \in Workers /\ k \in Touches(w) /\ Work(w)' = Work(w)
    BY <1>2, <1>5
  <2>3. Sure(w)
    BY <1>5, <2>2 DEF ConsumerInv, Calm
  <2>4. CASE w \in Clients
    <3>1. h'[w] = h[w]
      BY <2>2, <2>4 DEF Work
    <3> QED BY <2>2, <2>3, <2>4, <3>1 DEF Sure, HandlerSure
  <2>5. CASE w \notin Clients
    <3>1. job'[w] = job[w] /\ job[w] = Work(w) /\ JobSure(w)
      BY <2>2, <2>3, <2>5 DEF Work, Sure
    <3>2. k = Place(job[w].row)
      BY <1>0, <2>2, <3>1, TouchedPlaces DEF JobSure
    <3>3. JobSure(w)'
      BY <2>1, <3>1, <3>2 DEF JobSure
    <3> QED BY <2>2, <2>5, <3>3 DEF Sure
  <2> QED BY <2>4, <2>5
<1>6. \A k \in Places \ disturbed' : Calm(k)'
  BY <1>5 DEF Calm
<1>7. ASSUME NEW k \in Places \ (disturbed' \union shared)
      PROVE  Sole(k)'
  <2>1. Sole(k) /\ consumer'[k] = consumer[k]
    BY <1>7 DEF ConsumerInv
  <2>2. RecordsAt(k)' = RecordsAt(k)
    BY <1>0 DEF RecordsAt
  <2>3. \A q \in RecordsAt(k)' : TrueOf(q)'
    BY <2>1, <2>2 DEF TrueOf, InSync, Sole, RecordsAt
  <2>4. \A w \in Workers' : k \in Touches(w)' =>
          w \in Workers /\ k \in Touches(w) /\ Work(w)' = Work(w)
    BY <1>2
  <2> QED BY <2>1, <2>2, <2>3, <2>4 DEF Sole
<1>8. PendingIsBeingSynced'
  <2> SUFFICES ASSUME faults' = 0, ~ panicked', NEW r \in Records,
                      rows[r].sync = "pending", Place(rows[r]) \notin disturbed'
               PROVE  \/ \E j \in RunningJobs' : job'[j].id = r
                      \/ \E c \in BusyHandlers' : h'[c].id = r /\ h'[c].at = "start"
    BY <1>0 DEF PendingIsBeingSynced, Undisturbed
  <2>1. \/ \E j \in RunningJobs : job[j].id = r
        \/ \E c \in BusyHandlers : h[c].id = r /\ h[c].at = "start"
    BY DEF ConsumerInv, PendingIsBeingSynced, Undisturbed
  <2>2. CASE \E j \in RunningJobs : job[j].id = r
    <3>1. PICK j \in RunningJobs : job[j].id = r
      BY <2>2
    <3>2. j \in Workers /\ j \in Jobs /\ j \notin Clients
      BY DEF Workers, RunningJobs
    <3>3. j \in Workers'
      BY <3>2
    <3>4. j \in RunningJobs' /\ job'[j] = job[j]
      BY <3>2, <3>3 DEF Workers, Work, BusyHandlers
    <3> QED BY <3>1, <3>4
  <2>3. CASE \E c \in BusyHandlers : h[c].id = r /\ h[c].at = "start"
    <3>1. PICK c \in BusyHandlers : h[c].id = r /\ h[c].at = "start"
      BY <2>3
    <3>2. c \in Workers /\ c \in Clients /\ c \notin Jobs
      BY DEF Workers, BusyHandlers
    <3>3. c \in Workers'
      BY <3>1, <3>2
    <3>4. c \in BusyHandlers' /\ h'[c] = h[c]
      BY <3>2, <3>3 DEF Workers, Work, RunningJobs
    <3> QED BY <3>1, <3>4
  <2> QED BY <2>1, <2>2, <2>3
<1> QED BY <1>1, <1>3, <1>4, <1>6, <1>7, <1>8 DEF ConsumerInv

(* A handler takes a request for record i: it knows what it has read, and  *)
(* where it is not alone the places are disturbed from now on.             *)
LEMMA TakeOK ==
  ASSUME ConsumerInv, NEW c \in Clients, NEW x \in Handler, NEW i, NEW ks,
         Take(c, x, i, ks), x.id = i,
         ks = {Place(x.row)} \union {Place(rows[r]) : r \in {i} \intersect Records},
         IF x.at = "insert" THEN i = None ELSE i \in Records,
         x.at \in {"insert", "update", "start"} => x.row.sync = "pending",
         x.at \notin {"insert", "update"} => x.row = rows[i]
  PROVE  ConsumerInv'
<1>0. TypeOK /\ RoomOK /\ Alone /\ Gone
  BY DEF ConsumerInv
<1>1. /\ rows' = rows /\ made' = made /\ streams' = streams /\ known' = known /\ consumer' = consumer
      /\ job' = job /\ panicked' = panicked /\ faults' = faults
      /\ h' = [h EXCEPT ![c] = x] /\ h[c] = IdleHandler
      /\ disturbed' = disturbed \union Disturbs(ks)
      /\ shared' = shared \union Shares(i, ks)
      /\ Records' = Records /\ RunningJobs' = RunningJobs
  BY DEF Take, store, Records, RunningJobs
<1>2. x # IdleHandler
  BY HandlerFields
<1>3. /\ h \in [Clients -> Handler \union {IdleHandler}]
      /\ h'[c] = x /\ \A d \in Clients \ {c} : h'[d] = h[d]
      /\ h' \in [Clients -> Handler \union {IdleHandler}]
  BY <1>0, <1>1 DEF TypeOK
<1>4. BusyHandlers' = BusyHandlers \union {c} /\ c \notin BusyHandlers
  BY <1>1, <1>2, <1>3 DEF BusyHandlers
<1>5. Workers' = Workers \union {c} /\ c \notin Workers
  BY <1>1, <1>4 DEF Workers, RunningJobs
<1>6. \A w \in Workers : w # c /\ Work(w)' = Work(w) /\ Touches(w)' = Touches(w)
  BY <1>0, <1>1, <1>3, <1>5, WorkTypes DEF Work, Touches
<1>7. Work(c)' = x /\ Touches(c)' = ks
  BY <1>1, <1>3 DEF Work, Touches
<1>8. i \in Records => i \in made
  BY <1>0, WorkTypes
<1>9. ks \subseteq Places
  <2>1. x.row \in Row
    BY DEF Handler
  <2>2. \A r \in Records : Place(rows[r]) \in Places
    BY <1>0, WorkTypes, TouchedPlaces
  <2> QED BY <1>0, <2>1, <2>2, TouchedPlaces
<1>10. /\ Disturbs(ks) \subseteq Places
       /\ \A w \in Workers : \A k \in ks \intersect Touches(w) :
            ks \union Touches(w) \subseteq disturbed'
       /\ \A k \in ks \ shared' : RecordsAt(k) \subseteq {i}
  <2>1. \A w \in Workers : Touches(w) \subseteq Places
    BY <1>0, TouchedPlaces
  <2>2. Disturbs(ks) \subseteq Places
    BY <1>9, <2>1 DEF Disturbs
  <2>3. ASSUME NEW w \in Workers, NEW k \in ks \intersect Touches(w)
        PROVE  ks \union Touches(w) \subseteq Disturbs(ks)
    <3>1. WorkedOn(k)
      BY <2>3 DEF WorkedOn
    <3> QED BY <2>3, <3>1 DEF Disturbs
  <2>4. ASSUME NEW k \in ks \ shared'
        PROVE  RecordsAt(k) \subseteq {i}
    BY <1>1, <2>4 DEF Shares
  <2> QED BY <1>1, <2>2, <2>3, <2>4
<1>11. TypeOK'
  <2>1. asked' \in 0..MaxEvents /\ asked' + faults' <= MaxEvents
    BY <1>0 DEF Take, TypeOK
  <2>2. disturbed' \in SUBSET Places /\ shared' \in SUBSET Places
    BY <1>0, <1>1, <1>9, <1>10 DEF TypeOK, Shares
  <2>3. \A d \in BusyHandlers' :
          IF h'[d].at = "insert" THEN h'[d].id = None ELSE h'[d].id \in made
    <3>1. IF x.at = "insert" THEN x.id = None ELSE x.id \in made
      BY <1>8
    <3>2. \A d \in BusyHandlers :
            IF h[d].at = "insert" THEN h[d].id = None ELSE h[d].id \in made
      BY <1>0 DEF TypeOK
    <3>3. \A d \in BusyHandlers' : d = c \/ (d \in BusyHandlers /\ h'[d] = h[d])
      BY <1>3, <1>4 DEF BusyHandlers
    <3> QED BY <1>3, <3>1, <3>2, <3>3
  <2> QED BY <1>0, <1>1, <1>3, <2>1, <2>2, <2>3 DEF TypeOK
<1>12. RoomOK'
  <2> PICK W : W = Workers
    OBVIOUS
  <2>1. IsFiniteSet(W) /\ Cardinality(W) \in Nat /\ Cardinality(Jobs) \in Nat
        /\ Cardinality(W) < Cardinality(Jobs) /\ c \notin W
    BY <1>0, <1>5, Counts DEF Take
  <2>2. Cardinality(W \union {c}) = Cardinality(W) + 1
    BY <2>1, FS_AddElement
  <2>3. Cardinality(W \union {c}) <= Cardinality(Jobs)
    BY <2>1, <2>2
  <2> QED BY <1>5, <2>3 DEF RoomOK
<1>13. Alone'
  <2> SUFFICES ASSUME NEW v \in Workers', NEW w \in Workers', v # w, NEW k,
                      k \in Touches(v)', k \in Touches(w)'
               PROVE  Touches(v)' \subseteq disturbed'
    BY DEF Alone
  <2>1. CASE v \in Workers /\ w \in Workers
    BY <1>0, <1>1, <1>6, <2>1 DEF Alone
  <2>2. CASE v = c /\ w \in Workers
    BY <1>6, <1>7, <1>10, <2>2
  <2>3. CASE w = c /\ v \in Workers
    BY <1>6, <1>7, <1>10, <2>3
  <2> QED BY <1>5, <2>1, <2>2, <2>3
<1>14. Gone'
  <2> SUFFICES ASSUME NEW v \in Workers', Work(v)'.id \in Ids \ Records
               PROVE  Touches(v)' \subseteq disturbed'
    BY <1>1 DEF Gone
  <2>1. v # c
    BY <1>7
  <2> QED BY <1>0, <1>1, <1>5, <1>6, <2>1 DEF Gone
<1>15. ASSUME NEW k \in Places \ disturbed'
       PROVE  Calm(k)'
  <2>1. ASSUME NEW w \in Workers, k \in Touches(w)
        PROVE  Sure(w)'
    <3>1. Sure(w) /\ w # c
      BY <1>1, <1>6, <1>15, <2>1 DEF ConsumerInv, Calm
    <3>2. (w \in Clients => h'[w] = h[w]) /\ job' = job
      BY <1>1, <1>3, <3>1
    <3> QED BY <1>1, <3>1, <3>2 DEF Sure, HandlerSure, JobSure
  <2>2. Sure(c)'
    <3>1. \A r \in {x.row} : [r EXCEPT !.status = r.status] = r
      BY DEF Handler, Row
    <3>2. HandlerSure(c)'
      BY <1>1, <1>3, <3>1 DEF HandlerSure
    <3> QED BY <3>2 DEF Sure
  <2> QED BY <1>5, <1>6, <2>1, <2>2 DEF Calm
<1>16. ASSUME NEW k \in Places \ (disturbed' \union shared')
       PROVE  Sole(k)'
  <2>1. Sole(k)
    BY <1>1, <1>16 DEF ConsumerInv
  <2>2. RecordsAt(k)' = RecordsAt(k) /\ \A r \in RecordsAt(k) : TrueOf(r)' = TrueOf(r)
    BY <1>1 DEF RecordsAt, TrueOf, InSync
  <2>3. ASSUME NEW w \in Workers', k \in Touches(w)'
        PROVE  RecordsAt(k) \subseteq {Work(w)'.id}
    <3>1. CASE w = c
      BY <1>7, <1>10, <1>16, <2>3, <3>1
    <3>2. CASE w # c
      <4>1. w \in Workers /\ k \in Touches(w) /\ Work(w)' = Work(w)
        BY <1>5, <1>6, <2>3, <3>2
      <4> QED BY <2>1, <4>1 DEF Sole
    <3> QED BY <3>1, <3>2
  <2> QED BY <2>1, <2>2, <2>3 DEF Sole
<1>17. PendingIsBeingSynced'
  <2>1. \A d \in BusyHandlers : d \in BusyHandlers' /\ h'[d] = h[d]
    BY <1>3, <1>4 DEF BusyHandlers
  <2> QED BY <1>1, <2>1 DEF ConsumerInv, PendingIsBeingSynced, Undisturbed
<1> QED BY <1>11, <1>12, <1>13, <1>14, <1>15, <1>16, <1>17 DEF ConsumerInv

(* A record is deleted; whoever is at work on it is disturbed.             *)
LEMMA DeleteOK ==
  ASSUME ConsumerInv, NEW i \in Ids, DeleteConsumer(i)
  PROVE  ConsumerInv'
<1>0. TypeOK /\ RoomOK /\ Alone /\ Gone
  BY DEF ConsumerInv
<1> PICK p : p = Place(rows[i])
  OBVIOUS
<1>1. /\ rows' = [rows EXCEPT ![i] = None] /\ i \in Records
      /\ disturbed' = disturbed \union Disturbs({p}) /\ shared' = shared
      /\ made' = made /\ streams' = streams /\ known' = known /\ consumer' = consumer /\ h' = h /\ job' = job
      /\ panicked' = panicked /\ asked' = asked /\ faults' = faults
  BY DEF DeleteConsumer
<1>2. /\ Workers' = Workers /\ BusyHandlers' = BusyHandlers /\ RunningJobs' = RunningJobs
      /\ \A w \in Workers : Work(w)' = Work(w)
  BY <1>1 DEF Workers, Work, BusyHandlers, RunningJobs
<1>3. /\ Records' = Records \ {i} /\ rows'[i] = None
      /\ \A r \in Ids \ {i} : rows'[r] = rows[r]
      /\ rows' \in [Ids -> Row \union {None}]
  BY <1>0, <1>1 DEF Records, TypeOK
<1>4. \A w \in Workers : Touches(w)' \subseteq Touches(w)
  <2> TAKE w \in Workers
  <2>1. \A r \in {Work(w).id} \intersect Records' :
          r \in {Work(w).id} \intersect Records /\ rows'[r] = rows[r]
    BY <1>3 DEF Records
  <2> QED BY <1>2, <2>1 DEF Touches
<1>5. p \in Places
  BY <1>0, <1>1, WorkTypes, TouchedPlaces
<1>6. /\ Disturbs({p}) \subseteq Places
      /\ \A w \in Workers : Work(w).id = i => Touches(w) \subseteq disturbed'
  <2>1. \A w \in Workers : Touches(w) \subseteq Places
    BY <1>0, TouchedPlaces
  <2>2. Disturbs({p}) \subseteq Places
    BY <1>5, <2>1 DEF Disturbs
  <2>3. ASSUME NEW w \in Workers, Work(w).id = i
        PROVE  Touches(w) \subseteq Disturbs({p})
    <3>1. p \in Touches(w)
      BY <1>0, <1>1, <2>3, TouchedPlaces
    <3>2. WorkedOn(p)
      BY <3>1 DEF WorkedOn
    <3> QED BY <3>1, <3>2 DEF Disturbs
  <2> QED BY <1>1, <2>2, <2>3
<1>7. TypeOK'
  <2>1. disturbed' \in SUBSET Places
    BY <1>0, <1>1, <1>6 DEF TypeOK
  <2> QED BY <1>0, <1>1, <1>2, <1>3, <2>1 DEF TypeOK
<1>8. RoomOK'
  BY <1>0, <1>2 DEF RoomOK
<1>9. Alone'
  <2> SUFFICES ASSUME NEW v \in Workers, NEW w \in Workers, v # w,
                      Touches(v)' \intersect Touches(w)' # {}
               PROVE  Touches(v)' \subseteq disturbed'
    BY <1>2 DEF Alone
  <2>1. Touches(v) \intersect Touches(w) # {}
    BY <1>4
  <2>2. Touches(v) \subseteq disturbed
    BY <1>0, <2>1 DEF Alone
  <2> QED BY <1>1, <1>4, <2>2
<1>10. Gone'
  <2> SUFFICES ASSUME NEW w \in Workers, Work(w).id \in Ids \ Records'
               PROVE  Touches(w)' \subseteq disturbed'
    BY <1>2 DEF Gone
  <2>1. CASE Work(w).id = i
    BY <1>4, <1>6, <2>1
  <2>2. CASE Work(w).id \in Ids \ Records
    BY <1>0, <1>1, <1>4, <2>2 DEF Gone
  <2> QED BY <1>3, <2>1, <2>2
<1>11. ASSUME NEW k \in Places \ disturbed', NEW w \in Workers, k \in Touches(w)'
       PROVE  k \in Touches(w) /\ Sure(w)'
  <2>1. k \in Touches(w) /\ Work(w).id # i /\ Work(w)' = Work(w)
    BY <1>2, <1>4, <1>6, <1>11
  <2>2. Sure(w)
    BY <1>1, <1>11, <2>1 DEF ConsumerInv, Calm
  <2>3. CASE w \in Clients
    <3>1. h[w] = Work(w) /\ (h[w].at # "insert" => h[w].id \in Ids \ {i})
      BY <1>0, <2>1, <2>3, WorkTypes DEF TypeOK
    <3> QED BY <1>1, <1>3, <2>1, <2>2, <2>3, <3>1 DEF Sure, HandlerSure
  <2>4. CASE w \notin Clients
    <3>1. job[w] = Work(w) /\ job[w].id \in Ids \ {i}
      BY <1>0, <2>1, <2>4, WorkTypes DEF Job
    <3> QED BY <1>1, <1>3, <2>1, <2>2, <2>4, <3>1 DEF Sure, JobSure
  <2> QED BY <2>3, <2>4
<1>12. \A k \in Places \ disturbed' : Calm(k)'
  BY <1>2, <1>11 DEF Calm
<1>13. ASSUME NEW k \in Places \ (disturbed' \union shared)
       PROVE  Sole(k)'
  <2>1. Sole(k)
    BY <1>1, <1>13 DEF ConsumerInv
  <2>2. /\ RecordsAt(k)' \subseteq RecordsAt(k)
        /\ \A r \in RecordsAt(k)' : rows'[r] = rows[r]
    BY <1>3 DEF RecordsAt, Records
  <2>3. \A r \in RecordsAt(k)' : TrueOf(r)'
    BY <1>1, <2>1, <2>2 DEF TrueOf, InSync, Sole
  <2>4. \A w \in Workers' : k \in Touches(w)' =>
          w \in Workers /\ k \in Touches(w) /\ Work(w)' = Work(w)
    BY <1>2, <1>4
  <2> QED BY <2>1, <2>2, <2>3, <2>4 DEF Sole
<1>14. PendingIsBeingSynced'
  <2>1. \A r \in Records' : r \in Records /\ rows'[r] = rows[r]
    BY <1>3 DEF Records
  <2> QED BY <1>1, <1>2, <2>1 DEF ConsumerInv, PendingIsBeingSynced, Undisturbed
<1> QED BY <1>1, <1>7, <1>8, <1>9, <1>10, <1>12, <1>13, <1>14 DEF ConsumerInv

\* What is certain at a place that is not disturbed.
LEMMA SureOf ==
  ASSUME ConsumerInv, NEW w \in Workers, NEW k \in Touches(w) \ disturbed
  PROVE  /\ Sure(w)
         /\ Work(w).id \in Ids => Work(w).id \in Records
         /\ \A i \in Records : k \notin shared /\ Place(rows[i]) = k => TrueOf(i)
<1>1. TypeOK /\ Gone
  BY DEF ConsumerInv
<1>2. k \in Places
  BY <1>1, TouchedPlaces
<1>3. Calm(k) /\ (k \notin shared => Sole(k))
  BY <1>2 DEF ConsumerInv
<1> QED BY <1>1, <1>3 DEF Calm, Sole, Gone, RecordsAt

\* While nothing has failed, a record that a handler has read where it was not
\* disturbed does not wait, unless for that handler.
LEMMA NotWaiting ==
  ASSUME ConsumerInv, NEW c \in BusyHandlers, h[c].at # "start",
         h[c].id \in Records, Place(rows[h[c].id]) \notin disturbed,
         faults = 0, ~ panicked
  PROVE  rows[h[c].id].sync # "pending"
<1> SUFFICES ASSUME rows[h[c].id].sync = "pending" PROVE FALSE
  OBVIOUS
<1> PICK i : i = h[c].id
  OBVIOUS
<1>1. TypeOK /\ Alone /\ i \in Records /\ c \in Workers /\ Work(c) = h[c]
  BY WorkTypes DEF ConsumerInv, Workers
<1>2. PICK w \in Workers : Work(w).id = i /\ w # c
  BY <1>1, WorkTypes DEF ConsumerInv, PendingIsBeingSynced, Undisturbed, Workers
<1>3. Place(rows[i]) \in Touches(c) \intersect Touches(w)
  BY <1>1, <1>2, TouchedPlaces
<1>4. Touches(c) \subseteq disturbed
  BY <1>1, <1>2, <1>3 DEF Alone
<1> QED BY <1>3, <1>4

-----------------------------------------------------------------------------
(* A handler writes its record and starts a goroutine for it.              *)
LEMMA StartOK ==
  ASSUME ConsumerInv, NEW c \in BusyHandlers, NEW i \in Ids,
         NEW kind \in {"create", "update"}, NEW found \in BOOLEAN,
         Start(c, kind, i, h[c].row, found),
         h[c].id = i \/ (h[c].id = None /\ i \notin made /\ rows'[i] # None),
         rows' \in [Ids -> Row \union {None}],
         \A r \in Ids \ {i} : rows'[r] = rows[r],
         made' = made \union {i},
         i \in Records => rows'[i] # None,
         rows'[i] # None => Place(rows'[i]) \in Touches(c),
         \A k \in Touches(c) \ disturbed :
           /\ rows'[i].sync = "pending" /\ rows'[i].cfg = h[c].row.cfg
           /\ Place(rows'[i]) = Place(h[c].row),
         UNCHANGED <<streams, known, consumer, disturbed, shared, panicked, asked, faults>>
  PROVE  ConsumerInv'
<1>0. TypeOK /\ RoomOK /\ c \in Clients /\ c \in Workers /\ Work(c) = h[c]
      /\ h[c] \in Handler /\ h[c].row \in Row
  BY WorkTypes DEF ConsumerInv, Workers, BusyHandlers
<1> PICK j : j = CHOOSE free \in Jobs \ RunningJobs : TRUE
  OBVIOUS
<1> PICK y : y = [at |-> "send", kind |-> kind, id |-> i, row |-> h[c].row,
                  found |-> found, ok |-> FALSE]
  OBVIOUS
<1>1. /\ j \in Jobs /\ j \notin RunningJobs /\ job' = [job EXCEPT ![j] = y]
      /\ h' = [h EXCEPT ![c] = IdleHandler]
  BY <1>0, FreeJob DEF Start, Finish
<1>2. /\ y \in Job /\ y # None /\ y.id = i /\ y.row = h[c].row /\ ~ y.ok
  <2>1. y \in Job
    BY <1>0 DEF Job
  <2> QED BY <2>1
<1>3. /\ h' \in [Clients -> Handler \union {IdleHandler}]
      /\ job' \in [Jobs -> Job \union {None}]
      /\ h'[c] = IdleHandler /\ \A d \in Clients \ {c} : h'[d] = h[d]
      /\ job'[j] = y /\ \A k \in Jobs \ {j} : job'[k] = job[k]
  BY <1>0, <1>1, <1>2 DEF TypeOK
<1>4. BusyHandlers' = BusyHandlers \ {c} /\ RunningJobs' = RunningJobs \union {j}
  BY <1>0, <1>1, <1>2, <1>3 DEF BusyHandlers, RunningJobs
<1>5. j \notin Clients /\ j \notin Workers /\ c \notin Jobs
  BY <1>0, <1>1, WorkTypes
<1>6. Workers' \ {j} = Workers \ {c} /\ j \in Workers'
  <2>1. c \notin RunningJobs /\ j \notin BusyHandlers
    BY <1>1, <1>5 DEF RunningJobs, Workers
  <2>2. Workers' = BusyHandlers' \union RunningJobs'
    BY DEF Workers
  <2>3. Workers' = (Workers \ {c}) \union {j}
    BY <1>4, <2>1, <2>2 DEF Workers
  <2> PICK V : V = Workers'
    OBVIOUS
  <2> PICK W : W = Workers
    OBVIOUS
  <2>4. V = (W \ {c}) \union {j} /\ j \notin W
    BY <1>5, <2>3
  <2>5. V \ {j} = W \ {c} /\ j \in V
    BY <2>4
  <2> QED BY <2>5
<1>7. \A v \in Workers \ {c} : Work(v)' = Work(v)
  <2> TAKE v \in Workers \ {c}
  <2>1. v \in Clients => h'[v] = h[v]
    BY <1>3
  <2>2. v \notin Clients => job'[v] = job[v]
    BY <1>0, <1>3, <1>5, WorkTypes
  <2> QED BY <2>1, <2>2 DEF Work
<1>8. Work(j)' = y
  BY <1>3, <1>5 DEF Work
<1>9. TypeOK'
  <2>1. made \in SUBSET Ids /\ made' \in SUBSET Ids /\ Records' \subseteq made'
    BY <1>0 DEF TypeOK, Records
  <2>2. \A d \in BusyHandlers' :
          IF h'[d].at = "insert" THEN h'[d].id = None ELSE h'[d].id \in made'
    BY <1>0, <1>3, <1>4 DEF TypeOK, BusyHandlers
  <2>3. \A k \in RunningJobs' : job'[k].id \in made' /\ (job'[k].ok => job'[k].at = "record")
    <3> TAKE k \in RunningJobs'
    <3>1. CASE k = j
      BY <1>2, <1>3, <3>1
    <3>2. CASE k # j
      BY <1>0, <1>3, <1>4, <3>2 DEF TypeOK, RunningJobs
    <3> QED BY <3>1, <3>2
  <2> QED BY <1>0, <1>3, <2>1, <2>2, <2>3 DEF TypeOK
<1>10. Place(h[c].row) \in Touches(c)
  BY <1>0, TouchedPlaces
<1>11. ASSUME NEW k \in Touches(c) \ disturbed
       PROVE  /\ rows'[i] # None /\ Place(rows'[i]) = k => TrueOf(i)'
              /\ Sure(j)'
  <2>1. rows'[i].sync = "pending" /\ rows'[i].cfg = h[c].row.cfg
        /\ Place(rows'[i]) = Place(h[c].row)
    BY <1>11
  <2>2. TrueOf(i)'
    BY <2>1 DEF TrueOf, InSync
  <2>3. JobSure(j)'
    BY <1>2, <1>3, <2>1 DEF JobSure
  <2> QED BY <1>5, <2>2, <2>3 DEF Sure
<1>12. WorksOn(c, j, i)
  <2>1. Work(j)'.id = i /\ Place(Work(j)'.row) \in Touches(c)
    BY <1>2, <1>8, <1>10
  <2>2. Work(c).id = i \/ (Work(c).id = None /\ i \notin made /\ rows'[i] # None)
    BY <1>0
  <2> QED BY <1>6, <1>7, <2>1, <2>2 DEF WorksOn
<1>13. LeavesSure(c, j, i)
  BY <1>11 DEF LeavesSure
<1>14. KeepsWaiting(j, i)
  BY <1>5, <1>6 DEF KeepsWaiting
<1> QED BY <1>0, <1>9, <1>12, <1>13, <1>14, WorkerStep

(* A handler goes on with its record, or ends.                             *)
LEMMA HandlerMoves ==
  ASSUME ConsumerInv, NEW c \in BusyHandlers, NEW i \in made, h[c].id = i,
         NEW x \in Handler \union {IdleHandler},
         x # IdleHandler =>
           x.at # "insert" /\ x.id = i /\ Place(x.row) = Place(h[c].row),
         h' = [h EXCEPT ![c] = x],
         rows' \in [Ids -> Row \union {None}],
         \A r \in Ids \ {i} : rows'[r] = rows[r],
         i \in Records => rows'[i] # None,
         rows'[i] # None => Place(rows'[i]) \in Touches(c),
         consumer' \in [Places -> OnCluster \union {None}],
         \A k \in Places \ Touches(c) : consumer'[k] = consumer[k],
         UNCHANGED <<made, streams, known, job, disturbed, shared, panicked, asked, faults>>,
         \A k \in Touches(c) \ disturbed :
           /\ k \notin shared /\ rows'[i] # None /\ Place(rows'[i]) = k => TrueOf(i)'
           /\ x # IdleHandler => HandlerSure(c)',
         /\ faults = 0 /\ ~ panicked /\ rows'[i] # None
         /\ rows'[i].sync = "pending" /\ Place(rows'[i]) \notin disturbed
         => x # IdleHandler /\ x.at = "start"
  PROVE  ConsumerInv'
<1>0. TypeOK /\ c \in Clients /\ c \notin Jobs /\ c \in Workers /\ Work(c) = h[c]
      /\ h[c].row \in Row /\ i \in Ids
  BY WorkTypes DEF ConsumerInv, Workers, BusyHandlers, TypeOK
<1>1. /\ h' \in [Clients -> Handler \union {IdleHandler}]
      /\ h'[c] = x /\ \A d \in Clients \ {c} : h'[d] = h[d]
  BY <1>0 DEF TypeOK
<1>2. /\ RunningJobs' = RunningJobs /\ c \notin RunningJobs
      /\ BusyHandlers' \ {c} = BusyHandlers \ {c}
      /\ c \in BusyHandlers' <=> x # IdleHandler
  BY <1>0, <1>1 DEF RunningJobs, BusyHandlers
<1>3. Workers' \ {c} = Workers \ {c} /\ (c \in Workers' <=> x # IdleHandler)
  BY <1>2 DEF Workers
<1>4. \A v \in Workers \ {c} : Work(v)' = Work(v)
  BY <1>1 DEF Work
<1>5. TypeOK'
  <2>1. Records' \subseteq made'
    BY <1>0 DEF TypeOK, Records
  <2>2. \A d \in BusyHandlers' :
          IF h'[d].at = "insert" THEN h'[d].id = None ELSE h'[d].id \in made'
    <3> TAKE d \in BusyHandlers'
    <3>1. CASE d = c
      BY <1>1, <1>2, <3>1
    <3>2. CASE d # c
      <4>1. d \in BusyHandlers /\ h'[d] = h[d]
        BY <1>1, <1>2, <3>2 DEF BusyHandlers
      <4> QED BY <1>0, <4>1 DEF TypeOK
    <3> QED BY <3>1, <3>2
  <2> QED BY <1>0, <1>1, <1>2, <2>1, <2>2 DEF TypeOK
<1>6. WorksOn(c, c, i)
  <2>1. c \in Workers' => Work(c)'.id = i /\ Place(Work(c)'.row) \in Touches(c)
    <3>1. Work(c)' = x
      BY <1>0, <1>1 DEF Work
    <3>2. Place(h[c].row) \in Touches(c)
      BY <1>0, TouchedPlaces
    <3> QED BY <1>3, <3>1, <3>2
  <2>2. Work(c).id = i
    BY <1>0
  <2> QED BY <1>3, <1>4, <2>1, <2>2 DEF WorksOn
<1>7. LeavesSure(c, c, i)
  BY <1>0, <1>3 DEF LeavesSure, Sure
<1>8. KeepsWaiting(c, i)
  BY <1>1, <1>0, <1>3 DEF KeepsWaiting
<1> QED BY <1>0, <1>5, <1>6, <1>7, <1>8, WorkerStep

(* A goroutine goes on with its record, or ends.                           *)
LEMMA JobMoves ==
  ASSUME ConsumerInv, NEW j \in RunningJobs, NEW i \in made, job[j].id = i,
         NEW y \in Job \union {None},
         y # None => y.id = i /\ y.row = job[j].row /\ (y.ok => y.at = "record"),
         job' = [job EXCEPT ![j] = y],
         rows' \in [Ids -> Row \union {None}],
         \A r \in Ids \ {i} : rows'[r] = rows[r],
         i \in Records => rows'[i] # None,
         rows'[i] # None => Place(rows'[i]) \in Touches(j),
         consumer' \in [Places -> OnCluster \union {None}],
         \A k \in Places \ Touches(j) : consumer'[k] = consumer[k],
         UNCHANGED <<made, streams, known, h, disturbed, shared, panicked, asked>>,
         faults' \in 0..MaxFaults, asked + faults' <= MaxEvents, faults' = 0 => faults = 0,
         \A k \in Touches(j) \ disturbed :
           /\ k \notin shared /\ rows'[i] # None /\ Place(rows'[i]) = k => TrueOf(i)'
           /\ y # None => JobSure(j)',
         faults' = 0 /\ rows'[i] # None /\ rows'[i].sync = "pending" => y # None
  PROVE  ConsumerInv'
<1>0. TypeOK /\ j \in Jobs /\ j \notin Clients /\ j \in Workers /\ Work(j) = job[j]
      /\ job[j] \in Job /\ i \in Ids
  BY WorkTypes DEF ConsumerInv, Workers, RunningJobs, TypeOK
<1>1. /\ job' \in [Jobs -> Job \union {None}]
      /\ job'[j] = y /\ \A d \in Jobs \ {j} : job'[d] = job[d]
  BY <1>0 DEF TypeOK
<1>2. /\ BusyHandlers' = BusyHandlers /\ j \notin BusyHandlers
      /\ RunningJobs' \ {j} = RunningJobs \ {j}
      /\ j \in RunningJobs' <=> y # None
  BY <1>0, <1>1 DEF RunningJobs, BusyHandlers
<1>3. Workers' \ {j} = Workers \ {j} /\ (j \in Workers' <=> y # None)
  BY <1>2 DEF Workers
<1>4. \A v \in Workers \ {j} : Work(v)' = Work(v)
  BY <1>0, <1>1, WorkTypes DEF Work
<1>5. TypeOK'
  <2>1. Records' \subseteq made'
    BY <1>0 DEF TypeOK, Records
  <2>2. \A d \in RunningJobs' : job'[d].id \in made' /\ (job'[d].ok => job'[d].at = "record")
    <3> TAKE d \in RunningJobs'
    <3>1. CASE d = j
      BY <1>1, <1>2, <3>1
    <3>2. CASE d # j
      <4>1. d \in RunningJobs /\ job'[d] = job[d]
        BY <1>1, <1>2, <3>2 DEF RunningJobs
      <4> QED BY <1>0, <4>1 DEF TypeOK
    <3> QED BY <3>1, <3>2
  <2> QED BY <1>0, <1>1, <1>2, <2>1, <2>2 DEF TypeOK
<1>6. WorksOn(j, j, i)
  <2>1. j \in Workers' => Work(j)'.id = i /\ Place(Work(j)'.row) \in Touches(j)
    <3>1. Work(j)' = y
      BY <1>0, <1>1 DEF Work
    <3>2. Place(job[j].row) \in Touches(j)
      BY <1>0, TouchedPlaces
    <3> QED BY <1>3, <3>1, <3>2
  <2>2. Work(j).id = i
    BY <1>0
  <2> QED BY <1>3, <1>4, <2>1, <2>2 DEF WorksOn
<1>7. LeavesSure(j, j, i)
  BY <1>0, <1>3 DEF LeavesSure, Sure
<1>8. KeepsWaiting(j, i)
  BY <1>0, <1>3 DEF KeepsWaiting
<1> QED BY <1>0, <1>5, <1>6, <1>7, <1>8, WorkerStep

-----------------------------------------------------------------------------
(* The steps that write nothing.                                           *)
LEMMA EndOK ==
  ASSUME ConsumerInv, NEW c \in Clients, Finish(c),
         UNCHANGED <<rows, made, streams, known, consumer, job, disturbed, shared, panicked, asked>>,
         Fault \/ (NoFault /\ h[c].at # "start")
  PROVE  ConsumerInv'
<1>0. TypeOK
  BY DEF ConsumerInv
<1>1. /\ h' \in [Clients -> Handler \union {IdleHandler}]
      /\ h'[c] = IdleHandler /\ \A d \in Clients \ {c} : h'[d] = h[d]
      /\ Records' = Records /\ RunningJobs' = RunningJobs
  BY <1>0 DEF Finish, TypeOK, Records, RunningJobs
<1>2. BusyHandlers' = BusyHandlers \ {c}
  BY <1>1 DEF BusyHandlers
<1>3. /\ faults' \in 0..MaxFaults /\ asked + faults' <= MaxEvents
      /\ faults' = 0 => NoFault /\ faults = 0
  BY <1>0 DEF Fault, NoFault, TypeOK
<1>4. TypeOK'
  <2>1. \A d \in BusyHandlers' : d \in BusyHandlers /\ h'[d] = h[d]
    BY <1>1, <1>2 DEF BusyHandlers
  <2>2. \A d \in BusyHandlers' :
          IF h'[d].at = "insert" THEN h'[d].id = None ELSE h'[d].id \in made
    BY <1>0, <2>1 DEF TypeOK
  <2> QED BY <1>0, <1>1, <1>3, <2>2 DEF TypeOK
<1>5. Workers' \subseteq Workers /\ \A w \in Workers \ Workers' : w = c
  BY <1>1, <1>2 DEF Workers
<1>6. \A w \in Workers' : Work(w)' = Work(w)
  <2>1. c \notin Workers'
    BY <1>1, <1>2 DEF Workers, RunningJobs
  <2> QED BY <1>1, <2>1 DEF Work
<1>7. faults' = 0 => h[c].at # "start"
  BY <1>3, <1>0 DEF Fault, TypeOK
<1> QED BY <1>3, <1>4, <1>5, <1>6, <1>7, QuietStep

\* The process dies, in a crash or by a panic.
LEMMA DeathOK ==
  ASSUME ConsumerInv, Crash \/ \E j \in Jobs : Panic(j)
  PROVE  ConsumerInv'
<1>0. TypeOK
  BY DEF ConsumerInv
<1>1. /\ h' = [c \in Clients |-> IdleHandler] /\ job' = [j \in Jobs |-> None]
      /\ rows' = rows /\ made' = made /\ streams' = streams /\ known' = known /\ consumer' = consumer
      /\ known' = known /\ disturbed' = disturbed /\ shared' = shared /\ asked' = asked
      /\ panicked' \in BOOLEAN /\ faults' \in 0..MaxFaults /\ asked + faults' <= MaxEvents
      /\ faults' # 0 \/ panicked'
  <2>1. CASE Crash
    BY <1>0, <2>1 DEF Crash, Fault, store, TypeOK
  <2>2. CASE \E j \in Jobs : Panic(j)
    BY <1>0, <2>2 DEF Panic, store, TypeOK
  <2> QED BY <2>1, <2>2
<1>2. Records' = Records /\ BusyHandlers' = {} /\ RunningJobs' = {}
  BY <1>1 DEF Records, BusyHandlers, RunningJobs
<1>3. TypeOK'
  BY <1>0, <1>1, <1>2 DEF TypeOK
<1>4. Workers' = {}
  BY <1>2 DEF Workers
<1> QED BY <1>1, <1>3, <1>4, QuietStep

\* Streams and consumers go past the records of consumers.
LEMMA GoneOK ==
  ASSUME ConsumerInv,
         \/ \E s \in Streams : CreateJetStream(s) \/ DeleteJetStream(s)
         \/ \E k \in Places : DeleteConsumerFromCluster(k)
         \/ UNCHANGED vars
  PROVE  ConsumerInv'
<1>0. TypeOK
  BY DEF ConsumerInv
<1>1. /\ rows' = rows /\ made' = made /\ h' = h /\ job' = job /\ panicked' = panicked
      /\ asked' = asked /\ faults' = faults
  BY DEF CreateJetStream, DeleteJetStream, DeleteConsumerFromCluster, vars, store
<1>2. /\ Records' = Records /\ BusyHandlers' = BusyHandlers /\ RunningJobs' = RunningJobs
      /\ Workers' = Workers /\ \A w \in Workers : Work(w)' = Work(w)
  BY <1>1 DEF Records, BusyHandlers, RunningJobs, Workers, Work
<1>3. /\ streams' \subseteq known' /\ known' \in SUBSET Streams /\ shared' = shared
      /\ disturbed' \in SUBSET Places
      /\ consumer' \in [Places -> OnCluster \union {None}]
      /\ disturbed \subseteq disturbed'
      /\ \A k \in Places \ disturbed' : consumer'[k] = consumer[k]
  <2>1. CASE \E s \in Streams : CreateJetStream(s) \/ DeleteJetStream(s)
    BY <1>0, <2>1 DEF CreateJetStream, DeleteJetStream, TypeOK
  <2>2. CASE \E k \in Places : DeleteConsumerFromCluster(k)
    BY <1>0, <2>2 DEF DeleteConsumerFromCluster, store, TypeOK
  <2>3. CASE UNCHANGED vars
    BY <1>0, <2>3 DEF vars, store, TypeOK
  <2> QED BY <2>1, <2>2, <2>3
<1>4. TypeOK'
  BY <1>0, <1>1, <1>2, <1>3 DEF TypeOK
<1> QED BY <1>1, <1>2, <1>3, <1>4, QuietStep

-----------------------------------------------------------------------------
(* The requests.                                                           *)
LEMMA AcceptedOK ==
  ASSUME ConsumerInv, NEW c \in Clients,
         \/ \E s \in Streams, n \in Names, g \in Configs : CheckConsumer(c, s, n, g)
         \/ \E i \in Ids, s \in Streams, n \in Names, g \in Configs :
              LoadConsumer(c, i, s, n, g)
         \/ \E i \in Ids : RetryFailedSync(c, i)
         \/ \E i \in Ids, verb \in {"pause", "resume"} : LoadToPause(c, i, verb)
  PROVE  ConsumerInv'
<1>0. TypeOK /\ None \notin Ids
  BY DEF ConsumerInv
<1>1. ASSUME NEW s \in Streams, NEW n \in Names, NEW g \in Configs,
             CheckConsumer(c, s, n, g)
      PROVE  ConsumerInv'
  <2> PICK r : r = [name |-> n, stream |-> s, cfg |-> g, sync |-> "pending",
                    status |-> "active"]
    OBVIOUS
  <2> PICK x : x = [at |-> "insert", id |-> None, row |-> r]
    OBVIOUS
  <2>1. r \in Row /\ r.sync = "pending" /\ Place(r) = <<StreamOf[s], n>>
    BY DEF Row, Place
  <2>2. x \in Handler /\ x.at = "insert" /\ x.id = None /\ x.row = r
    BY <2>1 DEF Handler
  <2>3. Take(c, x, None, {<<StreamOf[s], n>>})
    BY <1>1 DEF CheckConsumer
  <2>4. {<<StreamOf[s], n>>} = {Place(x.row)}
                       \union {Place(rows[q]) : q \in {None} \intersect Records}
    BY <1>0, <2>1, <2>2 DEF Records
  <2> QED BY <2>1, <2>2, <2>3, <2>4, TakeOK
<1>2. ASSUME NEW i \in Records, NEW at \in {"update", "probe", "pause", "resume"},
             NEW r \in Row, at = "update" => r.sync = "pending",
             at # "update" => r = rows[i],
             Take(c, [at |-> at, id |-> i, row |-> r], i, {Place(r), Place(rows[i])})
      PROVE  ConsumerInv'
  <2> PICK x : x = [at |-> at, id |-> i, row |-> r]
    OBVIOUS
  <2>1. i \in Ids
    BY DEF Records
  <2>2. x \in Handler /\ x.at = at /\ x.id = i /\ x.row = r
    BY <2>1 DEF Handler
  <2>3. {Place(r), Place(rows[i])}
          = {Place(x.row)} \union {Place(rows[q]) : q \in {i} \intersect Records}
    BY <2>2
  <2>4. Take(c, x, i, {Place(r), Place(rows[i])})
    BY <1>2
  <2>5. x.at \notin {"insert", "start"} /\ (x.at = "update" <=> at = "update")
    BY <2>2
  <2> QED BY <1>2, <2>2, <2>3, <2>4, <2>5, TakeOK
<1>3. ASSUME NEW i \in Ids, NEW s \in Streams, NEW n \in Names, NEW g \in Configs,
             LoadConsumer(c, i, s, n, g)
      PROVE  ConsumerInv'
  <2> PICK r : r = [rows[i] EXCEPT !.name = n, !.stream = s, !.cfg = g,
                                   !.sync = "pending"]
    OBVIOUS
  <2>1. i \in Records /\ rows[i] \in Row
    BY <1>0, <1>3, WorkTypes DEF LoadConsumer
  <2>2. r \in Row /\ r.sync = "pending"
    BY <2>1 DEF Row
  <2>3. Take(c, [at |-> "update", id |-> i, row |-> r], i, {Place(rows[i]), Place(r)})
    BY <1>3 DEF LoadConsumer
  <2>4. {Place(rows[i]), Place(r)} = {Place(r), Place(rows[i])}
    OBVIOUS
  <2> QED BY <1>2, <2>1, <2>2, <2>3, <2>4
<1>4. ASSUME NEW i \in Records, NEW at \in {"probe", "pause", "resume"},
             Take(c, [at |-> at, id |-> i, row |-> rows[i]], i, {Place(rows[i])})
      PROVE  ConsumerInv'
  <2>1. rows[i] \in Row
    BY <1>0, WorkTypes
  <2>2. {Place(rows[i]), Place(rows[i])} = {Place(rows[i])}
    OBVIOUS
  <2> QED BY <1>2, <1>4, <2>1, <2>2
<1>5. ASSUME NEW i \in Ids, RetryFailedSync(c, i)
      PROVE  ConsumerInv'
  BY <1>4, <1>5 DEF RetryFailedSync
<1>6. ASSUME NEW i \in Ids, NEW verb \in {"pause", "resume"}, LoadToPause(c, i, verb)
      PROVE  ConsumerInv'
  BY <1>4, <1>6 DEF LoadToPause
<1> QED BY <1>1, <1>3, <1>5, <1>6

-----------------------------------------------------------------------------
(* The steps of a request.                                                 *)

\* What a handler holds.
LEMMA AtWork ==
  ASSUME ConsumerInv, NEW c \in Clients, h[c].at # "idle"
  PROVE  /\ TypeOK /\ c \in BusyHandlers /\ c \in Workers /\ Work(c) = h[c]
         /\ h[c] \in Handler /\ h[c].row \in Row
         /\ h[c].at # "insert" => h[c].id \in made /\ h[c].id \in Ids
         /\ h[c].at = "insert" => h[c].id = None
         /\ Place(h[c].row) \in Touches(c)
         /\ h[c].id \in Records => Place(rows[h[c].id]) \in Touches(c)
<1>1. TypeOK
  BY DEF ConsumerInv
<1>2. c \in BusyHandlers
  BY DEF BusyHandlers, IdleHandler
<1>3. c \in Workers /\ Work(c) = h[c] /\ h[c] \in Handler /\ h[c].row \in Row
  BY <1>1, <1>2, WorkTypes DEF Workers
<1>4. /\ h[c].at # "insert" => h[c].id \in made /\ h[c].id \in Ids
      /\ h[c].at = "insert" => h[c].id = None
  BY <1>1, <1>2 DEF TypeOK
<1> QED BY <1>1, <1>2, <1>3, <1>4, TouchedPlaces

\* GiveUp, of whatever step.
LEMMA GiveUpOK ==
  ASSUME ConsumerInv, NEW c \in Clients, GiveUp(c),
         UNCHANGED <<consumer, disturbed, shared, panicked, asked>>
  PROVE  ConsumerInv'
BY EndOK DEF GiveUp, store

\* The record is inserted as it was checked, with its goroutine.
LEMMA CreateConsumerOK ==
  ASSUME ConsumerInv, NEW c \in Clients, CreateConsumer(c)
  PROVE  ConsumerInv'
<1>1. CASE GiveUp(c)
  BY <1>1, GiveUpOK DEF CreateConsumer
<1>2. CASE ~ GiveUp(c)
  <2> PICK i : i = CHOOSE fresh \in Ids \ made : TRUE
    OBVIOUS
  <2>1. /\ h[c].at = "insert" /\ Ids # made
        /\ rows' = [rows EXCEPT ![i] = h[c].row]
        /\ made' = made \union {i}
        /\ Start(c, "create", i, h[c].row, TRUE)
        /\ UNCHANGED <<streams, known, consumer, disturbed, shared, panicked, asked, faults>>
    BY <1>2 DEF CreateConsumer, NoFault
  <2>2. /\ TypeOK /\ c \in BusyHandlers /\ c \in Workers /\ h[c].row \in Row
        /\ h[c].id = None /\ Place(h[c].row) \in Touches(c)
    BY <2>1, AtWork
  <2>3. i \in Ids \ made
    BY <2>1, <2>2 DEF TypeOK
  <2>4. /\ rows' \in [Ids -> Row \union {None}]
        /\ rows'[i] = h[c].row /\ rows'[i] # None
        /\ \A r \in Ids \ {i} : rows'[r] = rows[r]
    BY <2>1, <2>2, <2>3 DEF TypeOK
  <2>5. ASSUME NEW k \in Touches(c) \ disturbed
        PROVE  h[c].row.sync = "pending"
    BY <2>1, <2>2, SureOf DEF Sure, HandlerSure
  <2> QED BY <2>1, <2>2, <2>3, <2>4, <2>5, StartOK
<1> QED BY <1>1, <1>2

\* The record is written as "pending"; the handler will start the goroutine.
LEMMA UpdateConsumerOK ==
  ASSUME ConsumerInv, NEW c \in Clients, UpdateConsumer(c)
  PROVE  ConsumerInv'
<1>1. CASE GiveUp(c)
  BY <1>1, GiveUpOK DEF UpdateConsumer
<1>2. CASE ~ GiveUp(c)
  <2> PICK i : i = h[c].id
    OBVIOUS
  <2> PICK x : x = [h[c] EXCEPT !.at = "start"]
    OBVIOUS
  <2>1. /\ h[c].at = "update"
        /\ rows' = [rows EXCEPT ![i] = h[c].row]
        /\ h' = [h EXCEPT ![c].at = "start"]
        /\ UNCHANGED <<made, streams, known, consumer, job, disturbed, shared, panicked, asked, faults>>
    BY <1>2 DEF UpdateConsumer, NoFault, Proceed
  <2>2. /\ TypeOK /\ c \in BusyHandlers /\ c \in Workers /\ h[c] \in Handler
        /\ h[c].row \in Row /\ i \in made /\ i \in Ids /\ Place(h[c].row) \in Touches(c)
    BY <2>1, AtWork
  <2>3. /\ x \in Handler /\ x.at = "start" /\ x.id = i /\ x.row = h[c].row
        /\ x # IdleHandler
    <3>1. x.at = "start" /\ x.id = i /\ x.row = h[c].row
      BY <2>2 DEF Handler
    <3>2. x \in Handler
      BY <2>2 DEF Handler
    <3> QED BY <3>1, <3>2, HandlerFields
  <2>4. h' = [h EXCEPT ![c] = x] /\ h'[c] = x
    BY <2>1, <2>2 DEF TypeOK
  <2>5. /\ rows' \in [Ids -> Row \union {None}] /\ rows'[i] = h[c].row /\ rows'[i] # None
        /\ \A r \in Ids \ {i} : rows'[r] = rows[r]
    BY <2>1, <2>2 DEF TypeOK
  <2>6. ASSUME NEW k \in Touches(c) \ disturbed
        PROVE  TrueOf(i)' /\ HandlerSure(c)'
    <3>1. h[c].row.sync = "pending"
      BY <2>1, <2>2, <2>6, SureOf DEF Sure, HandlerSure
    <3>2. [h[c].row EXCEPT !.status = h[c].row.status] = h[c].row
      BY <2>2 DEF Row
    <3> QED BY <2>3, <2>4, <2>5, <3>1, <3>2 DEF TrueOf, InSync, HandlerSure
  <2>7. consumer' \in [Places -> OnCluster \union {None}]
    BY <2>1, <2>2 DEF TypeOK
  <2> QED BY <2>1, <2>2, <2>3, <2>4, <2>5, <2>6, <2>7, HandlerMoves
<1> QED BY <1>1, <1>2

\* It does, about the record it has written.
LEMMA StartUpdateOK ==
  ASSUME ConsumerInv, NEW c \in Clients, StartUpdate(c)
  PROVE  ConsumerInv'
<1>1. CASE GiveUp(c)
  BY <1>1, GiveUpOK DEF StartUpdate
<1>2. CASE ~ GiveUp(c)
  <2> PICK i : i = h[c].id
    OBVIOUS
  <2> PICK found : found = (h[c].row.stream \in streams)
    OBVIOUS
  <2>1. /\ h[c].at = "start" /\ Start(c, "update", i, h[c].row, found)
        /\ rows' = rows /\ made' = made /\ found \in BOOLEAN
        /\ UNCHANGED <<streams, known, consumer, disturbed, shared, panicked, asked, faults>>
    BY <1>2 DEF StartUpdate, NoFault, store
  <2>2. /\ TypeOK /\ c \in BusyHandlers /\ c \in Workers /\ Work(c) = h[c]
        /\ h[c].row \in Row /\ i \in made /\ i \in Ids
        /\ i \in Records => Place(rows[i]) \in Touches(c)
    BY <2>1, AtWork
  <2>3. rows' \in [Ids -> Row \union {None}] /\ made' = made \union {i}
        /\ (rows[i] # None => i \in Records) /\ (i \in Records => rows[i] # None)
    BY <2>1, <2>2 DEF TypeOK, Records
  <2>4. ASSUME NEW k \in Touches(c) \ disturbed
        PROVE  /\ rows[i].sync = "pending" /\ rows[i].cfg = h[c].row.cfg
               /\ Place(rows[i]) = Place(h[c].row)
    <3>1. HandlerSure(c)
      BY <2>2, <2>4, SureOf DEF Sure, BusyHandlers
    <3>2. h[c].row.sync = "pending"
          /\ rows[i] = [h[c].row EXCEPT !.status = rows[i].status]
      BY <2>1, <3>1 DEF HandlerSure
    <3> QED BY <2>2, <3>2 DEF Row, Place
  <2>5. /\ rows' \in [Ids -> Row \union {None}]
        /\ \A r \in Ids \ {i} : rows'[r] = rows[r]
        /\ i \in Records => rows'[i] # None
        /\ rows'[i] # None => Place(rows'[i]) \in Touches(c)
        /\ made' = made \union {i}
    BY <2>1, <2>2, <2>3
  <2>6. \A k \in Touches(c) \ disturbed :
          /\ rows'[i].sync = "pending" /\ rows'[i].cfg = h[c].row.cfg
          /\ Place(rows'[i]) = Place(h[c].row)
    BY <2>1, <2>4
  <2>7. /\ h[c].id = i /\ "update" \in {"create", "update"} /\ found \in BOOLEAN
        /\ c \in BusyHandlers /\ i \in Ids
        /\ Start(c, "update", i, h[c].row, found)
        /\ UNCHANGED <<streams, known, consumer, disturbed, shared, panicked, asked, faults>>
    BY <2>1, <2>2
  <2> QED BY <2>5, <2>6, <2>7, StartOK
<1> QED BY <1>1, <1>2

\* A retry goes on with what it has read, or ends; the record does not wait.
LEMMA ProbeConsumerOK ==
  ASSUME ConsumerInv, NEW c \in Clients, ProbeConsumer(c)
  PROVE  ConsumerInv'
<1>0. /\ h[c].at = "probe"
      /\ UNCHANGED <<rows, made, streams, known, consumer, job, disturbed, shared, panicked, asked, faults>>
  BY DEF ProbeConsumer, store
<1>1. CASE Finish(c)
  BY <1>0, <1>1, EndOK DEF NoFault
<1>2. ASSUME NEW at \in {"retry update", "retry create"}, Proceed(c, at)
      PROVE  ConsumerInv'
  <2> PICK i : i = h[c].id
    OBVIOUS
  <2> PICK x : x = [h[c] EXCEPT !.at = at]
    OBVIOUS
  <2>1. /\ TypeOK /\ c \in BusyHandlers /\ c \in Workers /\ h[c] \in Handler
        /\ h[c].row \in Row /\ i \in made /\ i \in Ids /\ Work(c) = h[c]
        /\ i \in Records => Place(rows[i]) \in Touches(c)
    BY <1>0, AtWork
  <2>2. x.at = at /\ x.id = i /\ x.row = h[c].row /\ x \in Handler
    BY <2>1 DEF Handler
  <2>3. h' = [h EXCEPT ![c] = x] /\ h'[c] = x
    BY <1>2, <2>1 DEF TypeOK, Proceed
  <2>4. /\ rows' \in [Ids -> Row \union {None}]
        /\ consumer' \in [Places -> OnCluster \union {None}]
        /\ (rows[i] # None => i \in Records) /\ (i \in Records => rows[i] # None)
    BY <1>0, <2>1 DEF TypeOK, Records
  <2>5. ASSUME NEW k \in Touches(c) \ disturbed
        PROVE  /\ k \notin shared /\ Place(rows[i]) = k => TrueOf(i)'
               /\ HandlerSure(c)'
    <3>1. HandlerSure(c) /\ i \in Records /\ (k \notin shared /\ Place(rows[i]) = k => TrueOf(i))
      BY <2>1, <2>5, SureOf DEF Sure
    <3> QED BY <1>0, <2>2, <2>3, <3>1 DEF TrueOf, InSync, HandlerSure
  <2>6. /\ faults = 0 /\ ~ panicked /\ rows[i] # None /\ Place(rows[i]) \notin disturbed
        => rows[i].sync # "pending"
    BY <1>0, <2>1, <2>4, NotWaiting
  <2>7. /\ x # IdleHandler => x.at # "insert" /\ x.id = i /\ Place(x.row) = Place(h[c].row)
        /\ \A r \in Ids \ {i} : rows'[r] = rows[r]
        /\ i \in Records => rows'[i] # None
        /\ rows'[i] # None => Place(rows'[i]) \in Touches(c)
        /\ \A k \in Places \ Touches(c) : consumer'[k] = consumer[k]
        /\ \A k \in Touches(c) \ disturbed :
             /\ k \notin shared /\ rows'[i] # None /\ Place(rows'[i]) = k => TrueOf(i)'
             /\ x # IdleHandler => HandlerSure(c)'
        /\ /\ faults = 0 /\ ~ panicked /\ rows'[i] # None
           /\ rows'[i].sync = "pending" /\ Place(rows'[i]) \notin disturbed
           => x # IdleHandler /\ x.at = "start"
    BY <1>0, <2>1, <2>2, <2>4, <2>5, <2>6
  <2>8. /\ c \in BusyHandlers /\ i \in made /\ h[c].id = i
        /\ x \in Handler \union {IdleHandler} /\ h' = [h EXCEPT ![c] = x]
        /\ rows' \in [Ids -> Row \union {None}]
        /\ consumer' \in [Places -> OnCluster \union {None}]
        /\ UNCHANGED <<made, streams, known, job, disturbed, shared, panicked, asked, faults>>
    BY <1>0, <2>1, <2>2, <2>3, <2>4
  <2> QED BY <2>7, <2>8, HandlerMoves
<1> QED BY <1>1, <1>2 DEF ProbeConsumer

\* A retry sets the status and starts the goroutine.
LEMMA ResetSyncOK ==
  ASSUME ConsumerInv, NEW c \in Clients, ResetSync(c)
  PROVE  ConsumerInv'
<1>1. CASE GiveUp(c)
  BY <1>1, GiveUpOK DEF ResetSync
<1>2. CASE ~ GiveUp(c)
  <2> PICK i : i = h[c].id
    OBVIOUS
  <2> PICK kind \in {"create", "update"} :
        kind = IF h[c].at = "retry update" THEN "update" ELSE "create"
    OBVIOUS
  <2> PICK found \in BOOLEAN : found = TRUE
    OBVIOUS
  <2>1. /\ h[c].at \in {"retry update", "retry create"}
        /\ rows' = IF i \in Records THEN [rows EXCEPT ![i].sync = "pending"] ELSE rows
        /\ Start(c, kind, i, h[c].row, found)
        /\ UNCHANGED <<made, streams, known, consumer, disturbed, shared, panicked, asked, faults>>
    BY <1>2 DEF ResetSync, NoFault
  <2>2. /\ TypeOK /\ c \in BusyHandlers /\ c \in Workers /\ Work(c) = h[c]
        /\ h[c].row \in Row /\ i \in made /\ i \in Ids
        /\ i \in Records => Place(rows[i]) \in Touches(c)
    BY <2>1, AtWork
  <2>3. ASSUME i \in Records
        PROVE  /\ rows[i] \in Row /\ rows' \in [Ids -> Row \union {None}]
               /\ \A r \in Ids \ {i} : rows'[r] = rows[r]
               /\ rows'[i] \in Row /\ Place(rows'[i]) = Place(rows[i])
               /\ rows'[i].sync = "pending" /\ rows'[i].cfg = rows[i].cfg
    <3>1. rows[i] \in Row
      BY <2>2, <2>3, WorkTypes
    <3> PICK q : q = [rows[i] EXCEPT !.sync = "pending"]
      OBVIOUS
    <3>2. /\ q \in Row /\ q.sync = "pending" /\ q.cfg = rows[i].cfg
          /\ Place(q) = Place(rows[i])
      BY <3>1 DEF Row, Place
    <3>3. rows' = [rows EXCEPT ![i] = q]
      BY <2>1, <2>3
    <3>4. /\ rows' \in [Ids -> Row \union {None}] /\ rows'[i] = q
          /\ \A r \in Ids \ {i} : rows'[r] = rows[r]
      BY <2>2, <3>2, <3>3 DEF TypeOK
    <3> QED BY <3>1, <3>2, <3>4
  <2>4. ASSUME NEW k \in Touches(c) \ disturbed
        PROVE  /\ rows'[i].sync = "pending" /\ rows'[i].cfg = h[c].row.cfg
               /\ Place(rows'[i]) = Place(h[c].row)
    <3>1. HandlerSure(c) /\ i \in Records
      BY <2>2, <2>4, SureOf DEF Sure, BusyHandlers
    <3>2. rows[i] = [h[c].row EXCEPT !.status = rows[i].status]
      BY <2>1, <3>1 DEF HandlerSure
    <3>3. rows[i].cfg = h[c].row.cfg /\ Place(rows[i]) = Place(h[c].row)
      BY <2>2, <3>2 DEF Row, Place
    <3> QED BY <2>3, <3>1, <3>3
  <2>5. /\ rows' \in [Ids -> Row \union {None}]
        /\ \A r \in Ids \ {i} : rows'[r] = rows[r]
        /\ i \in Records => rows'[i] # None
        /\ rows'[i] # None => Place(rows'[i]) \in Touches(c)
        /\ made' = made \union {i}
    <3>1. made' = made \union {i}
      BY <2>1, <2>2
    <3>2. CASE i \in Records
      BY <2>2, <2>3, <3>1, <3>2
    <3>3. CASE i \notin Records
      <4>1. rows' = rows /\ rows[i] = None
        BY <2>1, <2>2, <3>3 DEF Records
      <4> QED BY <2>2, <3>1, <3>3, <4>1 DEF TypeOK
    <3> QED BY <3>2, <3>3
  <2>6. /\ h[c].id = i /\ found \in BOOLEAN /\ c \in BusyHandlers /\ i \in Ids
        /\ Start(c, kind, i, h[c].row, found) /\ kind \in {"create", "update"}
        /\ UNCHANGED <<streams, known, consumer, disturbed, shared, panicked, asked, faults>>
    BY <2>1, <2>2
  <2>7. \A k \in Touches(c) \ disturbed :
          /\ rows'[i].sync = "pending" /\ rows'[i].cfg = h[c].row.cfg
          /\ Place(rows'[i]) = Place(h[c].row)
    BY <2>4
  <2> QED BY <2>5, <2>6, <2>7, StartOK
<1> QED BY <1>1, <1>2

\* A pause that the cluster has confirmed waits to be saved; one that it has not
\* ends.  Whether a consumer is paused says nothing about its configuration.
LEMMA PauseOnClusterOK ==
  ASSUME ConsumerInv, NEW c \in Clients, PauseOnCluster(c)
  PROVE  ConsumerInv'
<1> PICK i : i = h[c].id
  OBVIOUS
<1> PICK p : p = Place(h[c].row)
  OBVIOUS
<1>0. /\ h[c].at \in {"pause", "resume"}
      /\ UNCHANGED <<rows, made, streams, known, job, disturbed, shared, panicked, asked, faults>>
  BY DEF PauseOnCluster, store
<1>1. /\ TypeOK /\ c \in BusyHandlers /\ c \in Workers /\ Work(c) = h[c]
      /\ h[c] \in Handler /\ h[c].row \in Row /\ i \in made /\ i \in Ids
      /\ p \in Touches(c) /\ p \in Places
      /\ i \in Records => Place(rows[i]) \in Touches(c)
  BY <1>0, AtWork, TouchedPlaces
<1>2. /\ consumer' \in [Places -> OnCluster \union {None}]
      /\ \A k \in Places \ {p} : consumer'[k] = consumer[k]
      /\ consumer[p] # None => consumer'[p] # None /\ consumer'[p].cfg = consumer[p].cfg
  <2>1. CASE consumer' = consumer
    BY <1>1, <2>1 DEF TypeOK
  <2>2. CASE consumer' # consumer
    <3> PICK u \in BOOLEAN : u = (h[c].at = "pause")
      OBVIOUS
    <3> PICK x : x = [consumer[p] EXCEPT !.paused = u]
      OBVIOUS
    <3>1. consumer[p] # None /\ consumer' = [consumer EXCEPT ![p].paused = u]
      BY <2>2 DEF PauseOnCluster
    <3>2. consumer \in [Places -> OnCluster \union {None}] /\ consumer[p] \in OnCluster
      BY <1>1, <3>1 DEF TypeOK
    <3>3. x \in OnCluster /\ x.cfg = consumer[p].cfg /\ x # None
      BY <3>2 DEF OnCluster
    <3>4. consumer' = [consumer EXCEPT ![p] = x]
      BY <3>1
    <3> QED BY <1>1, <3>2, <3>3, <3>4
  <2> QED BY <2>1, <2>2
<1>3. PICK x \in Handler \union {IdleHandler} :
        /\ h' = [h EXCEPT ![c] = x]
        /\ x # IdleHandler =>
             /\ x.at = "save" /\ x.id = i
             /\ \E s \in {"active", "paused"} : x.row = [h[c].row EXCEPT !.status = s]
  <2>1. CASE Finish(c)
    BY <2>1 DEF Finish
  <2>2. CASE ~ Finish(c)
    <3> PICK s \in {"active", "paused"} :
          s = IF h[c].at = "pause" THEN "paused" ELSE "active"
      OBVIOUS
    <3> PICK r : r = [h[c].row EXCEPT !.status = s]
      OBVIOUS
    <3> PICK x : x = [at |-> "save", id |-> i, row |-> r]
      OBVIOUS
    <3>1. h' = [h EXCEPT ![c] = x]
      BY <2>2 DEF PauseOnCluster
    <3>2. r \in Row
      BY <1>1 DEF Row
    <3>3. x \in Handler /\ x.at = "save" /\ x.id = i /\ x.row = r
      BY <1>1, <3>2 DEF Handler
    <3> QED BY <3>1, <3>3
  <2> QED BY <2>1, <2>2
<1>4. h'[c] = x /\ rows \in [Ids -> Row \union {None}]
      /\ (rows[i] # None => i \in Records) /\ (i \in Records => rows[i] # None)
  BY <1>1, <1>3 DEF TypeOK, BusyHandlers, Records
<1>5. x # IdleHandler => Place(x.row) = p
  BY <1>1, <1>3 DEF Row, Place
<1>6. ASSUME NEW k \in Touches(c) \ disturbed
      PROVE  /\ k \notin shared /\ Place(rows[i]) = k => TrueOf(i)'
             /\ x # IdleHandler => HandlerSure(c)'
  <2>1. HandlerSure(c) /\ i \in Records /\ (k \notin shared /\ Place(rows[i]) = k => TrueOf(i))
        /\ k \in Places
    BY <1>1, <1>6, SureOf, TouchedPlaces DEF Sure
  <2>2. k \notin shared /\ Place(rows[i]) = k => TrueOf(i)'
    BY <1>0, <1>2, <2>1 DEF TrueOf, InSync
  <2>3. ASSUME x # IdleHandler
        PROVE  HandlerSure(c)'
    <3>1. rows[i] = [h[c].row EXCEPT !.status = rows[i].status]
      BY <1>0, <2>1 DEF HandlerSure
    <3>2. [x.row EXCEPT !.status = rows[i].status]
            = [h[c].row EXCEPT !.status = rows[i].status]
      BY <1>1, <1>3, <2>3 DEF Row
    <3> QED BY <1>0, <1>3, <1>4, <2>3, <3>1, <3>2 DEF HandlerSure
  <2> QED BY <2>2, <2>3
<1>7. /\ faults = 0 /\ ~ panicked /\ rows[i] # None /\ Place(rows[i]) \notin disturbed
      => rows[i].sync # "pending"
  BY <1>0, <1>1, <1>4, NotWaiting
<1>8. /\ x # IdleHandler => x.at # "insert" /\ x.id = i /\ Place(x.row) = Place(h[c].row)
      /\ \A r \in Ids \ {i} : rows'[r] = rows[r]
      /\ i \in Records => rows'[i] # None
      /\ rows'[i] # None => Place(rows'[i]) \in Touches(c)
      /\ \A k \in Places \ Touches(c) : consumer'[k] = consumer[k]
      /\ \A k \in Touches(c) \ disturbed :
           /\ k \notin shared /\ rows'[i] # None /\ Place(rows'[i]) = k => TrueOf(i)'
           /\ x # IdleHandler => HandlerSure(c)'
      /\ /\ faults = 0 /\ ~ panicked /\ rows'[i] # None
         /\ rows'[i].sync = "pending" /\ Place(rows'[i]) \notin disturbed
         => x # IdleHandler /\ x.at = "start"
  BY <1>0, <1>1, <1>2, <1>3, <1>4, <1>5, <1>6, <1>7
<1>9. /\ c \in BusyHandlers /\ i \in made /\ h[c].id = i
      /\ h' = [h EXCEPT ![c] = x]
      /\ rows' \in [Ids -> Row \union {None}]
      /\ consumer' \in [Places -> OnCluster \union {None}]
      /\ UNCHANGED <<made, streams, known, job, disturbed, shared, panicked, asked, faults>>
  BY <1>0, <1>1, <1>2, <1>3, <1>4
<1> QED BY <1>8, <1>9, HandlerMoves

\* A pause saves the record as it was read: where it was not disturbed, that is
\* how it is, but for the status.
LEMMA SavePausedOK ==
  ASSUME ConsumerInv, NEW c \in Clients, SavePaused(c)
  PROVE  ConsumerInv'
<1>1. CASE GiveUp(c)
  BY <1>1, GiveUpOK DEF SavePaused
<1>2. CASE ~ GiveUp(c)
  <2> PICK i : i = h[c].id
    OBVIOUS
  <2> PICK x \in Handler \union {IdleHandler} : x = IdleHandler
    OBVIOUS
  <2>1. /\ h[c].at = "save" /\ rows' = [rows EXCEPT ![i] = h[c].row]
        /\ h' = [h EXCEPT ![c] = x]
        /\ UNCHANGED <<made, streams, known, consumer, job, disturbed, shared, panicked, asked, faults>>
    BY <1>2 DEF SavePaused, NoFault, Finish
  <2>2. /\ TypeOK /\ c \in BusyHandlers /\ c \in Workers /\ Work(c) = h[c]
        /\ h[c].row \in Row /\ i \in made /\ i \in Ids /\ Place(h[c].row) \in Touches(c)
    BY <2>1, AtWork
  <2>3. /\ rows' \in [Ids -> Row \union {None}] /\ rows'[i] = h[c].row /\ rows'[i] # None
        /\ \A r \in Ids \ {i} : rows'[r] = rows[r]
        /\ consumer' \in [Places -> OnCluster \union {None}]
    BY <2>1, <2>2 DEF TypeOK
  <2>4. ASSUME NEW k \in Touches(c) \ disturbed
        PROVE  /\ i \in Records /\ Place(rows[i]) = Place(h[c].row)
               /\ rows[i].cfg = h[c].row.cfg /\ rows[i].sync = h[c].row.sync
               /\ k \notin shared /\ Place(rows[i]) = k => TrueOf(i)
    <3>1. HandlerSure(c) /\ i \in Records /\ (k \notin shared /\ Place(rows[i]) = k => TrueOf(i))
      BY <2>2, <2>4, SureOf DEF Sure, BusyHandlers
    <3>2. rows[i] = [h[c].row EXCEPT !.status = rows[i].status]
      BY <2>1, <3>1 DEF HandlerSure
    <3> QED BY <2>2, <3>1, <3>2 DEF Row, Place
  <2>5. ASSUME NEW k \in Touches(c) \ (disturbed \union shared), Place(rows'[i]) = k
        PROVE  TrueOf(i)'
    BY <2>1, <2>3, <2>4, <2>5 DEF TrueOf, InSync
  <2>6. /\ faults = 0 /\ ~ panicked /\ Place(rows'[i]) \notin disturbed
        => rows'[i].sync # "pending"
    BY <2>1, <2>2, <2>3, <2>4, NotWaiting
  <2>7. /\ x # IdleHandler => x.at # "insert" /\ x.id = i /\ Place(x.row) = Place(h[c].row)
        /\ \A r \in Ids \ {i} : rows'[r] = rows[r]
        /\ i \in Records => rows'[i] # None
        /\ rows'[i] # None => Place(rows'[i]) \in Touches(c)
        /\ \A k \in Places \ Touches(c) : consumer'[k] = consumer[k]
        /\ \A k \in Touches(c) \ disturbed :
             /\ k \notin shared /\ rows'[i] # None /\ Place(rows'[i]) = k => TrueOf(i)'
             /\ x # IdleHandler => HandlerSure(c)'
        /\ /\ faults = 0 /\ ~ panicked /\ rows'[i] # None
           /\ rows'[i].sync = "pending" /\ Place(rows'[i]) \notin disturbed
           => x # IdleHandler /\ x.at = "start"
    BY <2>1, <2>2, <2>3, <2>5, <2>6
  <2>8. /\ c \in BusyHandlers /\ i \in made /\ h[c].id = i
        /\ h' = [h EXCEPT ![c] = x]
        /\ rows' \in [Ids -> Row \union {None}]
        /\ consumer' \in [Places -> OnCluster \union {None}]
        /\ UNCHANGED <<made, streams, known, job, disturbed, shared, panicked, asked, faults>>
    BY <2>1, <2>2, <2>3
  <2> QED BY <2>7, <2>8, HandlerMoves
<1> QED BY <1>1, <1>2

-----------------------------------------------------------------------------
(* The steps of a goroutine.                                               *)

\* What a goroutine holds.
LEMMA Running ==
  ASSUME ConsumerInv, NEW j \in Jobs, job[j] # None
  PROVE  /\ TypeOK /\ j \in RunningJobs /\ j \in Workers /\ j \notin Clients
         /\ Work(j) = job[j] /\ job[j] \in Job /\ job[j].row \in Row
         /\ job[j].id \in made /\ job[j].id \in Ids
         /\ Place(job[j].row) \in Touches(j) /\ Place(job[j].row) \in Places
         /\ job[j].id \in Records => Place(rows[job[j].id]) \in Touches(j)
<1>1. TypeOK /\ j \in RunningJobs
  BY DEF ConsumerInv, RunningJobs
<1>2. j \in Workers /\ j \notin Clients /\ Work(j) = job[j] /\ job[j] \in Job
      /\ job[j].row \in Row
  BY <1>1, WorkTypes DEF Workers
<1>3. job[j].id \in made /\ job[j].id \in Ids
  BY <1>1 DEF TypeOK
<1> QED BY <1>1, <1>2, <1>3, TouchedPlaces

\* What the cluster holds after the call has taken effect.
LEMMA AppliedTypes ==
  ASSUME TypeOK, NEW j \in RunningJobs
  PROVE  \A x \in Applied(j) : x \in OnCluster /\ x # None /\ x.cfg = job[j].row.cfg
<1>1. job[j] \in Job /\ job[j].row \in Row
  BY DEF TypeOK, RunningJobs, Job
<1> PICK there : there = consumer[Place(job[j].row)]
  OBVIOUS
<1>2. there \in OnCluster \union {None}
  BY <1>1, TouchedPlaces DEF TypeOK
<1> SUFFICES ASSUME NEW x \in Applied(j)
             PROVE  x \in OnCluster /\ x # None /\ x.cfg = job[j].row.cfg
  OBVIOUS
<1>3. PICK p \in IF there = None THEN {FALSE} ELSE {FALSE, there.paused} :
        x = [cfg |-> job[j].row.cfg, paused |-> p]
  BY DEF Applied
<1>4. p \in BOOLEAN
  BY <1>2, <1>3 DEF OnCluster
<1>5. job[j].row.cfg \in Configs
  BY <1>1 DEF Row
<1>6. x \in OnCluster
  BY <1>3, <1>4, <1>5 DEF OnCluster
<1> QED BY <1>3, <1>6

\* The call changes the consumer and no record; the goroutine says that it
\* succeeded only if it did.
LEMMA SendToClusterOK ==
  ASSUME ConsumerInv, NEW j \in Jobs, SendToCluster(j)
  PROVE  ConsumerInv'
<1> PICK i : i = job[j].id
  OBVIOUS
<1> PICK p : p = Place(job[j].row)
  OBVIOUS
<1>1. /\ job[j] # None /\ job[j].at = "send"
      /\ UNCHANGED <<rows, made, streams, known, h, disturbed, shared, panicked, asked, faults>>
  BY DEF SendToCluster, store
<1>2. /\ TypeOK /\ j \in RunningJobs /\ j \in Workers /\ j \notin Clients
      /\ Work(j) = job[j] /\ job[j] \in Job /\ job[j].row \in Row
      /\ i \in made /\ i \in Ids /\ p \in Touches(j) /\ p \in Places
      /\ i \in Records => Place(rows[i]) \in Touches(j)
  BY <1>1, Running
<1>3. PICK effect \in BOOLEAN, answered \in BOOLEAN :
        /\ answered => effect
        /\ \E x \in IF effect THEN Applied(j) ELSE {consumer[p]} :
             consumer' = [consumer EXCEPT ![p] = x]
        /\ job' = [job EXCEPT ![j].at = "record", ![j].ok = answered]
  BY DEF SendToCluster
<1>4. PICK x : /\ x \in IF effect THEN Applied(j) ELSE {consumer[p]}
               /\ consumer' = [consumer EXCEPT ![p] = x]
  BY <1>3
<1>5. /\ x \in OnCluster \union {None}
      /\ answered => x # None /\ x.cfg = job[j].row.cfg
  BY <1>2, <1>3, <1>4, AppliedTypes DEF TypeOK
<1>6. /\ consumer' \in [Places -> OnCluster \union {None}] /\ consumer'[p] = x
      /\ \A k \in Places \ {p} : consumer'[k] = consumer[k]
  BY <1>2, <1>4, <1>5 DEF TypeOK
<1> PICK y : y = [job[j] EXCEPT !.at = "record", !.ok = answered]
  OBVIOUS
<1>7. /\ y \in Job /\ y # None /\ y.id = i /\ y.row = job[j].row /\ y.at = "record"
      /\ y.ok = answered
  BY <1>2 DEF Job
<1>8. job' = [job EXCEPT ![j] = y] /\ job'[j] = y
  BY <1>2, <1>3 DEF TypeOK
<1>9. ASSUME NEW k \in Touches(j) \ disturbed
      PROVE  TrueOf(i)' /\ JobSure(j)'
  <2>1. JobSure(j)
    BY <1>2, <1>9, SureOf DEF Sure
  <2>2. TrueOf(i)'
    BY <1>1, <2>1 DEF TrueOf, InSync, JobSure
  <2>3. JobSure(j)'
    BY <1>1, <1>5, <1>6, <1>7, <1>8, <2>1 DEF JobSure
  <2> QED BY <2>2, <2>3
<1>10. /\ rows \in [Ids -> Row \union {None}]
       /\ (rows[i] # None => i \in Records) /\ (i \in Records => rows[i] # None)
       /\ faults \in 0..MaxFaults /\ asked + faults <= MaxEvents
  BY <1>2 DEF TypeOK, Records
<1>11. /\ y # None => y.id = i /\ y.row = job[j].row /\ (y.ok => y.at = "record")
       /\ \A r \in Ids \ {i} : rows'[r] = rows[r]
       /\ i \in Records => rows'[i] # None
       /\ rows'[i] # None => Place(rows'[i]) \in Touches(j)
       /\ \A k \in Places \ Touches(j) : consumer'[k] = consumer[k]
       /\ \A k \in Touches(j) \ disturbed :
            /\ k \notin shared /\ rows'[i] # None /\ Place(rows'[i]) = k => TrueOf(i)'
            /\ y # None => JobSure(j)'
       /\ faults' = 0 /\ rows'[i] # None /\ rows'[i].sync = "pending" => y # None
  BY <1>1, <1>2, <1>6, <1>7, <1>9, <1>10
<1>12. /\ j \in RunningJobs /\ i \in made /\ job[j].id = i /\ y \in Job \union {None}
       /\ job' = [job EXCEPT ![j] = y]
       /\ rows' \in [Ids -> Row \union {None}]
       /\ consumer' \in [Places -> OnCluster \union {None}]
       /\ UNCHANGED <<made, streams, known, h, disturbed, shared, panicked, asked>>
       /\ faults' \in 0..MaxFaults /\ asked + faults' <= MaxEvents
       /\ faults' = 0 => faults = 0
  BY <1>1, <1>2, <1>6, <1>7, <1>8, <1>10
<1> QED BY <1>11, <1>12, JobMoves

\* The outcome is written to the record, which was waiting for it.
LEMMA RecordSyncOK ==
  ASSUME ConsumerInv, NEW j \in Jobs, RecordSync(j)
  PROVE  ConsumerInv'
<1> PICK i : i = job[j].id
  OBVIOUS
<1> PICK y \in Job \union {None} : y = None
  OBVIOUS
<1>1. /\ job[j] # None /\ job' = [job EXCEPT ![j] = y]
      /\ UNCHANGED <<made, streams, known, consumer, h, disturbed, shared, panicked, asked>>
  BY DEF RecordSync
<1>2. /\ TypeOK /\ j \in RunningJobs /\ j \in Workers /\ j \notin Clients
      /\ Work(j) = job[j] /\ job[j] \in Job /\ job[j].row \in Row
      /\ i \in made /\ i \in Ids
      /\ i \in Records => Place(rows[i]) \in Touches(j)
  BY <1>1, Running
<1>3. /\ rows \in [Ids -> Row \union {None}]
      /\ consumer \in [Places -> OnCluster \union {None}]
      /\ (rows[i] # None => i \in Records) /\ (i \in Records => rows[i] # None)
      /\ faults \in 0..MaxFaults /\ asked + faults <= MaxEvents
  BY <1>2 DEF TypeOK, Records
<1>4. /\ faults' \in 0..MaxFaults /\ asked + faults' <= MaxEvents
      /\ faults' = 0 => faults = 0 /\ NoFault
      /\ ~ NoFault => rows' = rows
  BY <1>2 DEF RecordSync, Fault, NoFault, TypeOK
<1> PICK outcome \in {"synced", "failed"} :
      outcome = IF job[j].ok THEN "synced" ELSE "failed"
  OBVIOUS
<1> PICK q : q = [rows[i] EXCEPT !.sync = outcome]
  OBVIOUS
<1>5. rows' = rows \/ (i \in Records /\ rows' = [rows EXCEPT ![i] = q])
  BY DEF RecordSync
<1>6. i \in Records =>
        /\ rows[i] \in Row /\ q \in Row /\ q # None /\ Place(q) = Place(rows[i])
        /\ q.cfg = rows[i].cfg /\ q.sync = outcome
  BY <1>2, WorkTypes DEF Row, Place
<1>7. /\ rows' \in [Ids -> Row \union {None}]
      /\ \A r \in Ids \ {i} : rows'[r] = rows[r]
      /\ rows'[i] = rows[i] \/ (i \in Records /\ rows'[i] = q)
  BY <1>2, <1>3, <1>5, <1>6
<1>8. /\ i \in Records => rows'[i] # None
      /\ rows'[i] # None => i \in Records /\ Place(rows'[i]) = Place(rows[i])
      /\ rows'[i] # None => Place(rows'[i]) \in Touches(j)
  BY <1>2, <1>3, <1>6, <1>7
<1>9. ASSUME NEW k \in Touches(j) \ disturbed, Place(rows'[i]) = k
      PROVE  TrueOf(i)'
  <2>1. JobSure(j)
    BY <1>2, <1>9, SureOf DEF Sure
  <2>2. CASE rows'[i] = rows[i]
    BY <2>1, <2>2 DEF TrueOf, InSync, JobSure
  <2>3. CASE i \in Records /\ rows'[i] = q
    <3>1. /\ Place(rows'[i]) = Place(job[j].row) /\ rows'[i].cfg = job[j].row.cfg
          /\ rows'[i].sync = outcome
      BY <1>6, <2>1, <2>3 DEF JobSure
    <3>2. outcome = "synced" => job[j].ok
      OBVIOUS
    <3> QED BY <1>1, <2>1, <3>1, <3>2 DEF TrueOf, InSync, JobSure
  <2> QED BY <1>7, <2>2, <2>3
<1>10. faults' = 0 /\ rows'[i] # None => rows'[i].sync # "pending"
  <2> SUFFICES ASSUME faults' = 0, rows'[i] # None PROVE rows'[i].sync # "pending"
    OBVIOUS
  <2>1. i \in Records
    BY <1>8
  <2>2. faults' # faults + 1
    BY <1>3
  <2>3. rows' = [rows EXCEPT ![i] = q]
    BY <2>1, <2>2 DEF RecordSync, Fault
  <2>4. rows'[i] = q
    BY <1>2, <1>3, <2>3
  <2> QED BY <1>6, <2>1, <2>4
<1>11. /\ y # None => y.id = i /\ y.row = job[j].row /\ (y.ok => y.at = "record")
       /\ \A r \in Ids \ {i} : rows'[r] = rows[r]
       /\ i \in Records => rows'[i] # None
       /\ rows'[i] # None => Place(rows'[i]) \in Touches(j)
       /\ \A k \in Places \ Touches(j) : consumer'[k] = consumer[k]
       /\ \A k \in Touches(j) \ disturbed :
            /\ k \notin shared /\ rows'[i] # None /\ Place(rows'[i]) = k => TrueOf(i)'
            /\ y # None => JobSure(j)'
       /\ faults' = 0 /\ rows'[i] # None /\ rows'[i].sync = "pending" => y # None
  BY <1>1, <1>7, <1>8, <1>9, <1>10
<1>12. /\ j \in RunningJobs /\ i \in made /\ job[j].id = i /\ y \in Job \union {None}
       /\ job' = [job EXCEPT ![j] = y]
       /\ rows' \in [Ids -> Row \union {None}]
       /\ consumer' \in [Places -> OnCluster \union {None}]
       /\ UNCHANGED <<made, streams, known, h, disturbed, shared, panicked, asked>>
       /\ faults' \in 0..MaxFaults /\ asked + faults' <= MaxEvents
       /\ faults' = 0 => faults = 0
  BY <1>1, <1>2, <1>3, <1>4, <1>7
<1> QED BY <1>11, <1>12, JobMoves

-----------------------------------------------------------------------------
\* No record and nobody at work: all is certain.
LEMMA ConsumerInit == Init => ConsumerInv
<1> SUFFICES ASSUME Init PROVE ConsumerInv
  OBVIOUS
<1>1. Records = {} /\ BusyHandlers = {} /\ RunningJobs = {}
  BY DEF Init, Records, BusyHandlers, RunningJobs
<1>2. Workers = {}
  BY <1>1 DEF Workers
<1>3. TypeOK
  <2>1. asked = 0 /\ faults = 0 /\ 0 \in 0..MaxEvents /\ 0 \in 0..MaxFaults
        /\ 0 + 0 <= MaxEvents
    BY DEF Init
  <2> QED BY <1>1, <2>1 DEF Init, TypeOK
<1>4. RoomOK
  <2>1. Cardinality({}) = 0 /\ Cardinality(Jobs) \in Nat
    BY FS_EmptySet, FS_CardinalityType
  <2>2. Cardinality({}) <= Cardinality(Jobs)
    BY <2>1
  <2> QED BY <1>2, <2>2 DEF RoomOK
<1>5. \A k : RecordsAt(k) = {}
  BY <1>1 DEF RecordsAt
<1> QED BY <1>1, <1>2, <1>3, <1>4, <1>5
        DEF ConsumerInv, Alone, Gone, Calm, Sole, PendingIsBeingSynced

\* Every step keeps the invariant.
LEMMA ConsumerNext == ConsumerInv /\ [Next]_vars => ConsumerInv'
<1> SUFFICES ASSUME ConsumerInv, [Next]_vars PROVE ConsumerInv'
  OBVIOUS
<1>1. CASE UNCHANGED vars
  BY <1>1, GoneOK
<1>2. ASSUME NEW c \in Clients, NEW s \in Streams, NEW n \in Names, NEW g \in Configs,
             CheckConsumer(c, s, n, g)
      PROVE  ConsumerInv'
  BY <1>2, AcceptedOK
<1>3. ASSUME NEW c \in Clients, NEW i \in Ids, NEW s \in Streams, NEW n \in Names,
             NEW g \in Configs, LoadConsumer(c, i, s, n, g)
      PROVE  ConsumerInv'
  BY <1>3, AcceptedOK
<1>4. ASSUME NEW c \in Clients, NEW i \in Ids, RetryFailedSync(c, i)
      PROVE  ConsumerInv'
  BY <1>4, AcceptedOK
<1>5. ASSUME NEW c \in Clients, NEW i \in Ids, NEW verb \in {"pause", "resume"},
             LoadToPause(c, i, verb)
      PROVE  ConsumerInv'
  BY <1>5, AcceptedOK
<1>6. ASSUME NEW c \in Clients, Handle(c)
      PROVE  ConsumerInv'
  BY <1>6, CreateConsumerOK, UpdateConsumerOK, StartUpdateOK, ProbeConsumerOK,
     ResetSyncOK, PauseOnClusterOK, SavePausedOK DEF Handle
<1>7. ASSUME NEW j \in Jobs, Goroutine(j)
      PROVE  ConsumerInv'
  BY <1>7, SendToClusterOK, RecordSyncOK, DeathOK DEF Goroutine
<1>8. ASSUME \/ \E i \in Ids : DeleteConsumer(i)
             \/ \E s \in Streams : CreateJetStream(s) \/ DeleteJetStream(s)
             \/ \E k \in Places : DeleteConsumerFromCluster(k)
             \/ Crash
      PROVE  ConsumerInv'
  BY <1>8, DeleteOK, GoneOK, DeathOK
<1> QED BY <1>1, <1>2, <1>3, <1>4, <1>5, <1>6, <1>7, <1>8 DEF Next

(* A record becomes "synced" by RecordSync alone, where nobody overlapped.  *)
LEMMA BecomesSynced ==
  ASSUME ConsumerInv, [Next]_vars, NEW i \in Ids, rows'[i] # None,
         rows'[i].sync = "synced", i \in Records => rows[i].sync # "synced",
         Place(rows'[i]) \notin disturbed'
  PROVE  \E j \in RunningJobs : /\ RecordSync(j) /\ job[j].ok /\ job[j].id = i
                                /\ i \in Records /\ rows' = [rows EXCEPT ![i].sync = "synced"]
<1>0. TypeOK /\ rows'[i] # rows[i]
  <2>1. rows[i] # None => i \in Records
    BY DEF Records
  <2> QED BY <2>1 DEF ConsumerInv
<1>1. ASSUME rows' = rows PROVE FALSE
  BY <1>0, <1>1
<1>2. ASSUME NEW c \in Clients, CreateConsumer(c) \/ UpdateConsumer(c) \/ SavePaused(c)
      PROVE  FALSE
  <2>1. h[c].at \in {"insert", "update", "save"} /\ disturbed' = disturbed
    BY <1>2 DEF CreateConsumer, UpdateConsumer, SavePaused
  <2>2. /\ c \in Workers /\ Work(c) = h[c] /\ c \in BusyHandlers /\ h[c].row \in Row
        /\ Place(h[c].row) \in Touches(c)
        /\ h[c].at # "insert" => h[c].id \in Ids
    BY <2>1, AtWork
  <2>3. PICK q \in Ids : /\ rows' = [rows EXCEPT ![q] = h[c].row]
                         /\ h[c].at # "insert" => q = h[c].id
    <3>1. CASE CreateConsumer(c)
      <4>1. Ids # made /\ rows' = [rows EXCEPT ![CHOOSE fresh \in Ids \ made : TRUE] = h[c].row]
        BY <1>1, <3>1 DEF CreateConsumer, GiveUp, store
      <4>2. (CHOOSE fresh \in Ids \ made : TRUE) \in Ids
        BY <1>0, <4>1 DEF TypeOK
      <4> QED BY <3>1, <4>1, <4>2 DEF CreateConsumer
    <3>2. CASE UpdateConsumer(c) \/ SavePaused(c)
      BY <1>1, <2>2, <3>2 DEF UpdateConsumer, SavePaused, GiveUp, store
    <3> QED BY <1>2, <3>1, <3>2
  <2>4. i = q /\ rows'[i] = h[c].row
    BY <1>0, <2>3 DEF TypeOK
  <2>5. HandlerSure(c) /\ (h[c].id \in Ids => h[c].id \in Records)
    BY <2>1, <2>2, <2>4, SureOf DEF Sure
  <2>6. h[c].at = "save"
    BY <2>1, <2>4, <2>5 DEF HandlerSure
  <2>7. rows[i] = [h[c].row EXCEPT !.status = rows[i].status] /\ i \in Records
    BY <2>2, <2>3, <2>4, <2>5, <2>6 DEF HandlerSure
  <2> QED BY <2>2, <2>4, <2>7 DEF Row
<1>3. ASSUME NEW c \in Clients, ResetSync(c)
      PROVE  FALSE
  <2> PICK q : q = h[c].id
    OBVIOUS
  <2>1. q \in Records /\ rows' = [rows EXCEPT ![q].sync = "pending"]
    BY <1>1, <1>3 DEF ResetSync, GiveUp, store
  <2>2. q \in Ids /\ rows[q] \in Row
    BY <1>0, <2>1, WorkTypes
  <2>3. i = q /\ rows'[i] = [rows[q] EXCEPT !.sync = "pending"]
    BY <1>0, <2>1, <2>2 DEF TypeOK
  <2> QED BY <2>2, <2>3 DEF Row
<1>4. ASSUME NEW q \in Ids, DeleteConsumer(q)
      PROVE  FALSE
  BY <1>0, <1>4 DEF DeleteConsumer, TypeOK
<1>5. ASSUME NEW j \in Jobs, RecordSync(j)
      PROVE  \E k \in RunningJobs :
               /\ RecordSync(k) /\ job[k].ok /\ job[k].id = i
               /\ i \in Records /\ rows' = [rows EXCEPT ![i].sync = "synced"]
  <2> PICK q : q = job[j].id
    OBVIOUS
  <2> PICK outcome \in {"synced", "failed"} :
        outcome = IF job[j].ok THEN "synced" ELSE "failed"
    OBVIOUS
  <2>1. q \in Records /\ rows' = [rows EXCEPT ![q].sync = outcome]
    BY <1>1, <1>5 DEF RecordSync
  <2>2. q \in Ids /\ rows[q] \in Row
    BY <1>0, <2>1, WorkTypes
  <2>3. i = q /\ rows'[i] = [rows[q] EXCEPT !.sync = outcome]
    BY <1>0, <2>1, <2>2 DEF TypeOK
  <2>4. outcome = "synced"
    BY <2>2, <2>3 DEF Row
  <2>5. job[j].ok /\ j \in RunningJobs
    BY <1>5, <2>4 DEF RecordSync, RunningJobs
  <2> QED BY <1>5, <2>1, <2>3, <2>4, <2>5
<1>6. \/ rows' = rows
      \/ \E c \in Clients : CreateConsumer(c) \/ UpdateConsumer(c) \/ SavePaused(c)
      \/ \E c \in Clients : ResetSync(c)
      \/ \E q \in Ids : DeleteConsumer(q)
      \/ \E j \in Jobs : RecordSync(j)
  <2>1. CASE UNCHANGED vars
    BY <2>1 DEF vars, store
  <2>2. CASE Next
    <3>1. ASSUME NEW c \in Clients, StartUpdate(c) \/ ProbeConsumer(c) \/ PauseOnCluster(c)
          PROVE  rows' = rows
      BY <3>1 DEF StartUpdate, GiveUp, ProbeConsumer, PauseOnCluster, store
    <3>2. ASSUME NEW j \in Jobs, SendToCluster(j) \/ Panic(j)
          PROVE  rows' = rows
      BY <3>2 DEF SendToCluster, Panic, store
    <3>3. \A c, x, q, ks : Take(c, x, q, ks) => rows' = rows
      BY DEF Take, store
    <3>4. ASSUME NEW c \in Clients, NEW s, NEW n, NEW g, CheckConsumer(c, s, n, g)
          PROVE  rows' = rows
      BY <3>3, <3>4 DEF CheckConsumer
    <3>5. ASSUME NEW c \in Clients, NEW q, NEW s, NEW n, NEW g, LoadConsumer(c, q, s, n, g)
          PROVE  rows' = rows
      BY <3>3, <3>5 DEF LoadConsumer
    <3>6. ASSUME NEW c \in Clients, NEW q, NEW verb,
                 RetryFailedSync(c, q) \/ LoadToPause(c, q, verb)
          PROVE  rows' = rows
      BY <3>3, <3>6 DEF RetryFailedSync, LoadToPause
    <3>7. ASSUME \/ \E s \in Streams : CreateJetStream(s) \/ DeleteJetStream(s)
                 \/ \E k \in Places : DeleteConsumerFromCluster(k)
                 \/ Crash
          PROVE  rows' = rows
      BY <3>7 DEF CreateJetStream, DeleteJetStream, DeleteConsumerFromCluster, Crash, store
    <3>8. \A c \in Clients : Handle(c) =>
            \/ rows' = rows
            \/ CreateConsumer(c) \/ UpdateConsumer(c) \/ SavePaused(c) \/ ResetSync(c)
      BY <3>1 DEF Handle
    <3>9. \A j \in Jobs : Goroutine(j) => rows' = rows \/ RecordSync(j)
      BY <3>2 DEF Goroutine
    <3> QED BY <2>2, <3>4, <3>5, <3>6, <3>7, <3>8, <3>9 DEF Next
  <2> QED BY <2>1, <2>2
<1> QED BY <1>1, <1>2, <1>3, <1>4, <1>5, <1>6

\* The invariant holds: two at work never meet at a place that is not disturbed,
\* and there what each has read is still so.
THEOREM ConsumerInvariant == Spec => []ConsumerInv
BY ConsumerInit, ConsumerNext, PTL DEF Spec

\* Every variable keeps its shape.
THEOREM ConsumerTypeCorrect == Spec => []TypeOK
<1>1. ConsumerInv => TypeOK
  BY DEF ConsumerInv
<1> QED BY <1>1, ConsumerInvariant, PTL

\* A record that says "synced" is as the cluster has it, unless requests overlapped
\* at its place.
THEOREM SyncedConsumersAreInSync == Spec => []SyncedMeansInSync
<1>1. ConsumerInv => SyncedMeansInSync
  <2> SUFFICES ASSUME ConsumerInv, NEW i \in Records,
                      Place(rows[i]) \notin disturbed \union shared
               PROVE  TrueOf(i)
    BY DEF SyncedMeansInSync, Undisturbed, TrueOf
  <2>1. TypeOK /\ rows[i] \in Row
    BY WorkTypes DEF ConsumerInv
  <2>2. Place(rows[i]) \in Places \ (disturbed \union shared)
    BY <2>1, TouchedPlaces
  <2>3. Sole(Place(rows[i]))
    BY <2>2 DEF ConsumerInv
  <2> QED BY <2>3 DEF Sole, RecordsAt
<1> QED BY <1>1, ConsumerInvariant, PTL

\* However many records a consumer has, one becomes "synced" only when it is as the
\* cluster has it, unless requests overlapped at its place.
THEOREM ConsumerOutcomesAreTrue == Spec => OutcomesAreTrue
<1>1. ASSUME ConsumerInv, [Next]_vars, NEW i \in Records',
             rows'[i].sync = "synced", i \in Records => rows[i].sync # "synced",
             Place(rows'[i]) \notin disturbed'
      PROVE  InSync(rows[i])'
  <2>1. i \in Ids /\ rows'[i] # None
    BY DEF Records
  <2>2. PICK j \in RunningJobs :
          /\ RecordSync(j) /\ job[j].ok /\ job[j].id = i
          /\ i \in Records /\ rows' = [rows EXCEPT ![i].sync = "synced"]
    BY <1>1, <2>1, BecomesSynced
  <2>3. /\ j \in Workers /\ j \notin Clients /\ Work(j) = job[j]
        /\ Place(rows[i]) \in Touches(j) /\ rows[i] \in Row /\ TypeOK
    BY <1>1, <2>2, Running, WorkTypes DEF RunningJobs
  <2>4. rows'[i].cfg = rows[i].cfg /\ Place(rows'[i]) = Place(rows[i])
    BY <2>1, <2>2, <2>3 DEF TypeOK, Row, Place
  <2>5. disturbed' = disturbed /\ consumer' = consumer
    BY <2>2 DEF RecordSync
  <2>6. JobSure(j)
    BY <1>1, <2>3, <2>4, <2>5, SureOf DEF Sure
  <2> QED BY <2>2, <2>4, <2>5, <2>6 DEF JobSure, InSync
<1>2. ConsumerInv /\ [Next]_vars =>
        \A i \in Records' :
          /\ rows'[i].sync = "synced"
          /\ i \in Records => rows[i].sync # "synced"
          /\ Place(rows'[i]) \notin disturbed'
          => InSync(rows[i])'
  BY <1>1
<1> QED BY <1>2, ConsumerInvariant, PTL DEF Spec, OutcomesAreTrue

\* A record that says "pending" has a goroutine, or a handler about to start one.
THEOREM PendingConsumersAreServed == Spec => []PendingIsBeingSynced
<1>1. ConsumerInv => PendingIsBeingSynced
  BY DEF ConsumerInv
<1> QED BY <1>1, ConsumerInvariant, PTL
=============================================================================
