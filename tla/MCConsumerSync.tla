--------------------------- MODULE MCConsumerSync ---------------------------
(***************************************************************************)
(* Instances of ConsumerSync for TLC.  To bound the instance, a behaviour  *)
(* has either two names and two clients, and one record of the stream, or  *)
(* two records of the stream, which share the consumer of one name, and    *)
(* one client.  What is interchangeable is met in a fixed order.           *)
(***************************************************************************)
EXTENDS ConsumerSync

CONSTANTS i1, i2, s1, s2, x1, n1, n2, g1, g2, c1, c2, j1, j2,
          Parts    \* which of the two are looked at

VARIABLE part      \* bound: the one of this behaviour

TwoIds == {i1, i2}
TwoRecords == {s1, s2}
OfOneStream == [s \in TwoRecords |-> x1]   \* records of one stream, one after the other
TwoNames == {n1, n2}
TwoConfigs == {g1, g2}
TwoClients == {c1, c2}
TwoJobs == {j1, j2}
BothParts == {"names", "records"}
JustNames == {"names"}

\* The request that handler c has taken is of this part.
InPart(c) == part = "records" => c = c1 /\ h'[c].row.name = n1

\* Clients at rest are alike: the first one that is takes the request.  So are names
\* and configurations until the first request, and the records of the stream until
\* there is one.
InOrder ==
  /\ h[c1] = IdleHandler /\ h[c2] = IdleHandler => h'[c2] = IdleHandler
  /\ asked = 0 /\ asked' = 1 => h'[c1].row.name = n1 /\ h'[c1].row.cfg = g1
  /\ known = {} => known' \subseteq {s1}

PartsInit == Init /\ part \in Parts

PartsNext ==
  /\ Next
  /\ part = "names" => known' \subseteq {s1}
  /\ \A c \in Clients : h'[c] # IdleHandler => InPart(c)
  /\ InOrder
  /\ UNCHANGED part

PartsSpec == PartsInit /\ [][PartsNext]_<<vars, part>> /\ Fairness
=============================================================================
