--------------------------- MODULE ClusterTopology ---------------------------
(***************************************************************************)
(* GetClusterTopology: the gateways of the active clusters are fetched one *)
(* after the other, while connections come and go; each cluster is marked  *)
(* "connected", "isolated" or "unknown"; then a map is walked in any order *)
(* and the clusters are put into groups by depth-first search.             *)
(*                                                                         *)
(* A gateway bears the name of its cluster.  Names are taken to differ in  *)
(* more than case (findClusterByName ignores it).  Gateways are maps too,  *)
(* so that the stack is filled, and emptied, in any order.                 *)
(***************************************************************************)
EXTENDS Integers, FiniteSets

CONSTANTS
  Members,      \* the active clusters
  Strangers,    \* names of gateways of clusters that are not on record
  MaxGateways,  \* bound: outbound gateways in the beginning
  MaxChanges    \* bound: changes of the gateways during one request

ASSUME TopologyAssumption ==
  /\ IsFiniteSet(Members)
  /\ MaxGateways \in Nat
  /\ MaxChanges \in Nat
  /\ Members \intersect Strangers = {}

VARIABLES
  gateway,     \* the outbound gateways of the clusters, as pairs (from, to)
  toFetch,     \* the clusters whose gateways have not been fetched
  mark,        \* mark[c]: the ConnectionStatus of c
  seen,        \* the connections found so far
  visited,
  stack,       \* stack[c]: how many times c is on the stack
  group,       \* the clusters of the group being searched
  size,        \* how many times a cluster was added to it
  groups,      \* SuperClusterGroups
  isolated,    \* IsolatedClusters
  connected,   \* ConnectedClusters
  changes

fetchVars == <<gateway, toFetch, mark, seen, changes>>
searchVars == <<visited, stack, group, size, groups, isolated, connected>>
topologyVars == <<fetchVars, searchVars>>

Gateways == {e \in Members \X (Members \union Strangers) : e[1] # e[2]}

EmptyStack == [c \in Members |-> 0]

TopologyInit ==
  /\ gateway \in {g \in SUBSET Gateways : Cardinality(g) <= MaxGateways}
  /\ toFetch = Members
  /\ mark = [c \in Members |-> "none"]
  /\ seen = {}
  /\ visited = {}
  /\ stack = EmptyStack
  /\ group = {}
  /\ size = 0
  /\ groups = {}
  /\ isolated = {}
  /\ connected = 0
  /\ changes = 0

-----------------------------------------------------------------------------
\* Connections to c count as far as they have been found.
MarkOf(c, found) ==
  IF \E e \in found : c \in {e[1], e[2]} THEN "connected" ELSE "isolated"

\* The next cluster of the list: its outbound gateways to clusters of the list,
\* or no answer.
FetchGateways(c) ==
  /\ c \in toFetch
  /\ toFetch' = toFetch \ {c}
  /\ \/ /\ seen' = seen \union {e \in gateway : e[1] = c /\ e[2] \in Members}
        /\ mark' = [mark EXCEPT ![c] = MarkOf(c, seen')]
     \/ /\ mark' = [mark EXCEPT ![c] = "unknown"]
        /\ UNCHANGED seen
  /\ UNCHANGED <<gateway, changes, searchVars>>

\* A gateway connects or disconnects.
GatewayChanges(e) ==
  /\ toFetch # {}
  /\ changes < MaxChanges
  /\ changes' = changes + 1
  /\ gateway' = IF e \in gateway THEN gateway \ {e} ELSE gateway \union {e}
  /\ UNCHANGED <<toFetch, mark, seen, searchVars>>

-----------------------------------------------------------------------------
\* The walk over the map comes to c.  An isolated cluster is set aside, the search
\* from any other begins.
WalkTo(c) ==
  /\ toFetch = {}
  /\ stack = EmptyStack
  /\ size = 0
  /\ c \in Members \ visited
  /\ IF mark[c] = "isolated"
       THEN /\ isolated' = isolated \union {c}
            /\ visited' = visited \union {c}
            /\ UNCHANGED stack
       ELSE /\ stack' = [stack EXCEPT ![c] = 1]
            /\ UNCHANGED <<isolated, visited>>
  /\ UNCHANGED <<group, size, groups, connected, fetchVars>>

\* Mutant of IncomingOf: incoming connections are not followed.
IncomingIgnored(c) == {}

OutgoingOf(c) == {d \in Members : <<c, d>> \in seen}
IncomingOf(c) == {d \in Members : <<d, c>> \in seen}

\* How many times the visit of c puts d on the stack.
Pushes(c, d) ==
  IF d \in visited \union {c} THEN 0
  ELSE (IF d \in OutgoingOf(c) THEN 1 ELSE 0) + (IF d \in IncomingOf(c) THEN 1 ELSE 0)

\* The visit of c, which is taken off the stack.
Visit(c) ==
  /\ visited' = visited \union {c}
  /\ group' = group \union {c}
  /\ size' = size + 1
  /\ stack' = [d \in Members |->
                 IF d = c THEN stack[c] - 1 ELSE stack[d] + Pushes(c, d)]

\* Mutant of PopStack: a cluster is visited as often as it is on the stack.
PopAndVisit(c) ==
  /\ stack[c] > 0
  /\ Visit(c)
  /\ UNCHANGED <<groups, isolated, connected, fetchVars>>

\* A cluster is taken off the stack, and visited unless it has been already.
PopStack(c) ==
  /\ stack[c] > 0
  /\ IF c \in visited
       THEN /\ stack' = [stack EXCEPT ![c] = @ - 1]
            /\ UNCHANGED <<visited, group, size>>
       ELSE Visit(c)
  /\ UNCHANGED <<groups, isolated, connected, fetchVars>>

\* The stack is empty.  A cluster by itself is no group.
FinishGroup ==
  /\ stack = EmptyStack
  /\ size > 0
  /\ IF size > 1
       THEN /\ groups' = groups \union {group}
            /\ connected' = connected + size
            /\ UNCHANGED isolated
       ELSE /\ isolated' = isolated \union group
            /\ UNCHANGED <<groups, connected>>
  /\ group' = {}
  /\ size' = 0
  /\ UNCHANGED <<visited, stack, fetchVars>>

Answered == toFetch = {} /\ visited = Members /\ stack = EmptyStack /\ size = 0

TopologyNext ==
  \/ \E c \in Members : FetchGateways(c) \/ WalkTo(c) \/ PopStack(c)
  \/ FinishGroup
  \/ \E e \in Gateways : GatewayChanges(e)

TopologySpec == TopologyInit /\ [][TopologyNext]_topologyVars

-----------------------------------------------------------------------------
\* As a reference: what is connected by the connections found, in either
\* direction, is in every set that contains c and that no connection leaves.
Closed(S) == \A e \in seen : e[1] \in S <=> e[2] \in S
Component(c) == {d \in Members : \A S \in SUBSET Members :
                                   c \in S /\ Closed(S) => d \in S}

\* Every active cluster is in the answer exactly once, in a group or isolated,
\* and the numbers add up, in whatever order the map is walked and the stack is
\* emptied and whatever changes between the fetches.
EveryClusterOnce ==
  Answered =>
    /\ (UNION groups) \union isolated = Members
    /\ \A g1, g2 \in groups : g1 = g2 \/ g1 \intersect g2 = {}
    /\ (UNION groups) \intersect isolated = {}
    /\ connected = Cardinality(UNION groups)
    /\ connected + Cardinality(isolated) = Cardinality(Members)

\* Clusters that are found connected share a group, unless one of them was
\* marked isolated before the connection to it was found: the walk sets it aside
\* and may cut others off.
GroupsAreComponents ==
  Answered =>
    \A c \in Members :
      (\A d \in Component(c) : mark[d] # "isolated") =>
        IF Component(c) = {c} THEN c \in isolated ELSE Component(c) \in groups

=============================================================================
