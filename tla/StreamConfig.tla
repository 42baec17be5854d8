----------------------------- MODULE StreamConfig -----------------------------
(***************************************************************************)
(* The configuration of a stream on its way from a request through the row *)
(* and the cluster to the comparison of the two, with its sizes in units.  *)
(* Texts are small numbers, flags 0 and 1; a field that is not in a        *)
(* request's domain is missing or nil.                                     *)
(***************************************************************************)
EXTENDS Integers, Sequences, FiniteSets, Functions

CONSTANTS
  UnitBase,          \* 1024; bound: the ratio of two units in an instance
  StreamChoices,     \* what a request to create may give for each field
  StreamUpdates,     \* what one to update may
  DriftSteps,        \* by how much a number may be changed on the cluster
  MaxGivenStream     \* bound: fields given by all requests, or changed elsewhere

ASSUME StreamConfigAssumption ==
  UnitBase \in Nat \ {0, 1} /\ MaxGivenStream \in Nat

VARIABLES
  stream,            \* the row
  streamConfig,      \* what the cluster has
  inStep,            \* the last synchronisation succeeded, nobody intervened
  givenStream        \* bound: fields given or changed so far

streamConfigVars == <<stream, streamConfig, inStep, givenStream>>

-----------------------------------------------------------------------------
(* Sizes.  Values are in thousandths, as their column keeps them.           *)

Units == <<"B", "KB", "MB", "GB", "TB">>
UnitSize(i) ==
  <<1, UnitBase, UnitBase * UnitBase, UnitBase * UnitBase * UnitBase,
    UnitBase * UnitBase * UnitBase * UnitBase>>[i]

\* What is in no unit is in bytes.
BytesIn(unit) ==
  IF unit \in Range(Units) THEN UnitSize(CHOOSE i \in 1..5 : Units[i] = unit) ELSE 1

\* The quotient of Go, which truncates.
Truncated(n, d) == IF n < 0 THEN -((-n) \div d) ELSE n \div d

\* Mutant of ConvertToBytes: a value is taken as an integer first.
ConvertWholeToBytes(value, unit) == (value \div 1000) * BytesIn(unit)

ConvertToBytes(value, unit) == Truncated(value * BytesIn(unit), 1000)

\* The largest unit that is not larger than the size, and two decimals.
ConvertFromBytes(bytes) ==
  IF bytes < UnitBase THEN <<1000 * bytes, "B">>
  ELSE LET i == CHOOSE j \in 2..5 :
                  /\ UnitSize(j) <= bytes
                  /\ j < 5 => bytes < UnitSize(j + 1)
       IN <<10 * ((200 * bytes + UnitSize(i)) \div (2 * UnitSize(i))), Units[i]>>

\* A conversion to int32, whose range is that of four of the fourth unit.
Int32(n) ==
  LET span == 4 * UnitSize(4)
      m == n % span
  IN IF m < span \div 2 THEN m ELSE m - span

-----------------------------------------------------------------------------
(* From the request to the row.                                             *)

StreamNames == [storage |-> {"file", "memory"},
           retention |-> {"limits", "interest", "workqueue"},
           discard |-> {"old", "new"},
           compression |-> {"none", "s2"}]
StreamPolicies == DOMAIN StreamNames

Rates == {"max_msgs", "max_age", "max_consumers", "max_msgs_per_subject", "replicas",
          "duplicate_window"}
Sizes == {"max_bytes", "max_msg_size"}
Flags == {"no_ack", "allow_rollup_hdrs", "allow_direct", "mirror_direct",
          "deny_delete", "deny_purge", "discard_new_per_subject", "sealed"}
Texts == {"name", "description", "placement_cluster", "placement_tags", "metadata"}

\* The zero values that the database replaces.
StreamDefaults ==
  [storage |-> "file", retention |-> "limits", discard |-> "old",
   compression |-> "none", max_msgs |-> -1, max_bytes_value |-> -1000,
   max_bytes_unit |-> "B", max_msg_size_value |-> -1000, max_msg_size_unit |-> "B",
   max_consumers |-> -1, max_msgs_per_subject |-> -1, replicas |-> 1]

StreamFields ==
  StreamPolicies \cup Rates \cup Flags \cup Texts
    \cup {"subjects", "max_bytes_value", "max_bytes_unit",
          "max_msg_size_value", "max_msg_size_unit"}

\* What requests give, and others change, are numbers, and lists of subjects.
StreamNumbers == Rates \cup {"max_bytes_value", "max_msg_size_value"}

ASSUME StreamChoicesAssumption ==
  /\ \A f \in StreamNumbers :
       /\ f \in DOMAIN StreamChoices => StreamChoices[f] \subseteq Int
       /\ f \in DOMAIN StreamUpdates => StreamUpdates[f] \subseteq Int
  /\ "subjects" \in DOMAIN StreamChoices => StreamChoices["subjects"] \subseteq Seq(Nat)
  /\ "subjects" \in DOMAIN StreamUpdates => StreamUpdates["subjects"] \subseteq Seq(Nat)
  /\ DriftSteps \subseteq Int

StreamZero(f) ==
  CASE f \in StreamPolicies \cup {"max_bytes_unit", "max_msg_size_unit"} -> ""
    [] f = "subjects" -> <<>>
    [] OTHER -> 0

StreamField(q, f) == IF f \in DOMAIN q THEN q[f] ELSE StreamZero(f)

\* Validate of CreateJetStreamRequest.
ValidStream(q) ==
  /\ StreamField(q, "name") # 0
  /\ StreamField(q, "subjects") # <<>>
  /\ StreamField(q, "replicas") >= 1
  /\ StreamField(q, "max_msgs") >= -1
  /\ StreamField(q, "max_bytes_value") >= -1000

\* Fields that a request cannot give keep their defaults.
NotRequested == {"max_msgs_per_subject", "discard_new_per_subject", "sealed"}

StreamOf(q) ==
  [f \in StreamFields |->
     LET v == IF f \in NotRequested THEN StreamZero(f) ELSE StreamField(q, f)
     IN IF v = StreamZero(f) /\ f \in DOMAIN StreamDefaults THEN StreamDefaults[f] ELSE v]

\* An update without tags removes them.
UpdatedStream(s, q) ==
  [f \in StreamFields |->
     IF f \in DOMAIN q THEN q[f] ELSE IF f = "placement_tags" THEN 0 ELSE s[f]]

-----------------------------------------------------------------------------
(* From the row to the cluster.                                             *)

\* strings.ToLower of the names looked at.
LowerCase(p) == CASE p = "Memory" -> "memory" [] p = "New" -> "new" [] OTHER -> p

StreamPolicyOf(f, p) ==
  IF LowerCase(p) \in StreamNames[f] THEN LowerCase(p) ELSE StreamDefaults[f]

Above0(n) == IF n > 0 THEN n ELSE 0

BytesOf(s, f) ==
  IF f = "max_bytes" THEN ConvertToBytes(s.max_bytes_value, s.max_bytes_unit)
  ELSE ConvertToBytes(s.max_msg_size_value, s.max_msg_size_unit)
Limited(s, f) ==
  IF f = "max_bytes" THEN s.max_bytes_value > 0 ELSE s.max_msg_size_value > 0

StreamConfigFields ==
  StreamPolicies \cup Rates \cup Flags \cup Texts \cup {"subjects"} \cup Sizes

\* Times are in halves of a second on the cluster.
Times == {"max_age", "duplicate_window"}

buildStreamConfig(s) ==
  [f \in StreamConfigFields |->
     CASE f \in StreamPolicies -> StreamPolicyOf(f, s[f])
       [] f = "max_bytes" -> IF Limited(s, f) THEN BytesOf(s, f) ELSE 0
       [] f = "max_msg_size" -> IF Limited(s, f) THEN Int32(BytesOf(s, f)) ELSE 0
       [] f \in Times -> 2 * Above0(s[f])
       [] f \in Rates \ Times -> Above0(s[f])
       [] OTHER -> s[f]]

\* The server makes a missing limit an unlimited -1, and chooses a window of two
\* minutes for duplicates, or the age of the messages if that is less.
StoredStream(k) ==
  [f \in StreamConfigFields |->
     CASE f \in Sizes \cup {"max_msgs", "max_consumers", "max_msgs_per_subject"} ->
            IF k[f] > 0 THEN k[f] ELSE -1
       [] f = "replicas" /\ k[f] = 0 -> 1
       [] f = "duplicate_window" /\ k[f] = 0 ->
            IF k.max_age \in 1..239 THEN k.max_age ELSE 240
       [] OTHER -> k[f]]

\* The server takes no subject twice.
NoRepeats(subjects) == Cardinality(Range(subjects)) = Len(subjects)

-----------------------------------------------------------------------------
(* The comparison.                                                          *)

\* As many subjects, and all of the cluster's among the record's.
compareStringSlices(a, b) == Len(a) = Len(b) /\ Range(b) \subseteq Range(a)

\* Mutant of ComparedFields: the window for duplicates was forgotten.
ComparedWithoutWindow ==
  StreamPolicies \cup {"name", "subjects", "max_msgs", "max_bytes", "max_age",
    "replicas", "no_ack", "allow_direct", "allow_rollup_hdrs", "deny_delete",
    "deny_purge"}

ComparedFields ==
  StreamPolicies \cup {"name", "subjects", "max_msgs", "max_bytes", "max_age",
    "replicas", "no_ack", "allow_direct", "allow_rollup_hdrs", "deny_delete",
    "deny_purge", "duplicate_window"}

\* Mutant of InfoView: times are shown as they are.
RawInfoView(k, f) == k[f]

\* convertStreamInfoToStreamConfig, as the comparison sees it.
InfoView(k, f) ==
  CASE f = "max_bytes" -> ConvertToBytes(ConvertFromBytes(k[f])[1], ConvertFromBytes(k[f])[2])
    [] f \in Times -> k[f] \div 2
    [] OTHER -> k[f]

Differs(s, k, f) ==
  CASE f = "subjects" -> ~ compareStringSlices(s[f], k[f])
    [] f = "max_bytes" -> BytesOf(s, f) # InfoView(k, f)
    [] OTHER -> s[f] # InfoView(k, f)

compareStreamConfigs(s, k) == {f \in ComparedFields : Differs(s, k, f)}

-----------------------------------------------------------------------------
\* What every request to create a stream gives.
NecessaryForStream == [name |-> 1, subjects |-> <<1, 2>>, replicas |-> 1]

StreamConfigInit ==
  /\ stream = <<>>
  /\ streamConfig = <<>>
  /\ inStep = FALSE
  /\ givenStream = 0

\* The stream's goroutine is done before anything else happens: see JetStreamSync
\* for the rest.  The server may refuse the configuration.
SynchroniseStream ==
  \/ /\ NoRepeats(stream'.subjects)
     /\ streamConfig' = StoredStream(buildStreamConfig(stream'))
     /\ inStep' = TRUE
  \/ /\ UNCHANGED streamConfig
     /\ inStep' = FALSE

Given(f, g) == IF f = g THEN 1 ELSE 2

\* A request that gives v for f and w for g, beside what the base gives.
StreamRequest(base, f, v, g, w) ==
  [x \in {f, g} \cup DOMAIN base |->
     IF x = f THEN v ELSE IF x = g THEN w ELSE base[x]]

CreateStream ==
  /\ stream = <<>>
  /\ \E f, g \in DOMAIN StreamChoices :
       \E v \in StreamChoices[f], w \in StreamChoices[g] :
         LET q == StreamRequest(NecessaryForStream, f, v, g, w)
         IN /\ ValidStream(q)
            /\ stream' = StreamOf(q)
            /\ givenStream' = Given(f, g)
  /\ SynchroniseStream

UpdateStream ==
  /\ stream # <<>>
  /\ \E f, g \in DOMAIN StreamUpdates :
       \E v \in StreamUpdates[f], w \in StreamUpdates[g] :
         /\ givenStream + Given(f, g) <= MaxGivenStream
         /\ stream' = UpdatedStream(stream, StreamRequest(<<>>, f, v, g, w))
         /\ givenStream' = givenStream + Given(f, g)
  /\ SynchroniseStream

\* The lists of subjects that somebody may put in place.
OtherSubjects == {<<1>>, <<2, 1>>, <<1, 3>>}

\* Somebody changes the stream on the cluster, not through this program.
ChangeOnCluster ==
  /\ streamConfig # <<>>
  /\ givenStream < MaxGivenStream
  /\ \E f \in StreamConfigFields \ {"name"} :
       \/ /\ f \in StreamPolicies
          /\ \E p \in StreamNames[f] : streamConfig' = [streamConfig EXCEPT ![f] = p]
       \/ /\ f \in Rates \cup Sizes
          /\ \E d \in DriftSteps : streamConfig' = [streamConfig EXCEPT ![f] = @ + d]
       \/ /\ f \in Flags \cup Texts
          /\ streamConfig' = [streamConfig EXCEPT ![f] = 1 - @]
       \/ /\ f = "subjects"
          /\ \E x \in OtherSubjects : streamConfig' = [streamConfig EXCEPT ![f] = x]
  /\ inStep' = FALSE
  /\ givenStream' = givenStream + 1
  /\ UNCHANGED stream

StreamConfigNext == CreateStream \/ UpdateStream \/ ChangeOnCluster

StreamConfigSpec == StreamConfigInit /\ [][StreamConfigNext]_streamConfigVars

-----------------------------------------------------------------------------
\* The fields that the cluster cannot show as the row has them: names that are not
\* a policy's own, sizes that are rounded, limits that are not positive but for
\* the -1 that means none, and a window for duplicates that the server chooses.
Nat1 == Nat \ {0}

Unrounded(s) ==
  LET bytes == BytesOf(s, "max_bytes")
      shown == ConvertFromBytes(bytes)
  IN ConvertToBytes(shown[1], shown[2]) = bytes

StreamNeverAlike(s) ==
  {f \in StreamPolicies : s[f] \notin StreamNames[f]}
    \cup {f \in {"max_bytes"} : ~ Unrounded(s) \/ BytesOf(s, f) \notin Nat1 \cup {-1}}
    \cup {f \in {"max_msgs"} : s[f] \notin Nat1 \cup {-1}}
    \cup {f \in {"replicas", "duplicate_window"} : s[f] \notin Nat1}
    \cup {f \in {"max_age"} : s[f] < 0}

\* After a synchronisation that succeeded the comparison reports no other field.
StreamComparisonIsFair ==
  inStep => compareStreamConfigs(stream, streamConfig) \subseteq StreamNeverAlike(stream)

Near(f, x, y) ==
  \/ x = y
  \/ f \in Times /\ (x - y) \in {-1, 1}
  \/ f = "subjects" /\ Range(x) = Range(y)
  \/ /\ f = "max_bytes"
     /\ \E i \in 2..5 : /\ UnitSize(i) <= x \/ UnitSize(i) <= y
                      /\ 100 * (x - y) \in -(UnitSize(i) + 100)..UnitSize(i) + 100

\* What somebody or a refusal has left on the cluster for a field, other than what
\* would be stored of the row as it is.
GoneAstray(f) == ~ Near(f, StoredStream(buildStreamConfig(stream))[f], streamConfig[f])

\* Wherever the cluster's value of a field among these is another, whoever changed
\* what, the comparison reports the field, unless it is one that can never be alike.
ReportedAmong(fields) ==
  stream # <<>> /\ streamConfig # <<>> =>
    \A f \in fields \ StreamNeverAlike(stream) :
      GoneAstray(f) => f \in compareStreamConfigs(stream, streamConfig)

\* The fields that the comparison does not look at.
Unseen == {"description", "metadata", "placement_cluster", "placement_tags",
           "max_msg_size", "max_consumers", "max_msgs_per_subject", "mirror_direct",
           "discard_new_per_subject", "sealed"}

\* CompareJetStreamConfig reports every difference in the sixteen other fields, but
\* for times within a second, sizes within the decimals that are shown (and a
\* byte), and the order of subjects: after updates of the row, refusals by the
\* cluster, and changes made on the cluster, several of them in a row.
DifferencesAreReported == ReportedAmong(StreamConfigFields \ Unseen)

\* The route's documentation has it "compare database configuration with cluster
\* configuration and return differences": those of any field.
EveryDifferenceIsReported == ReportedAmong(StreamConfigFields)

\* What the row says of a size, in thousandths of a byte.
SizeAsked(value, unit) == value * BytesIn(unit)

\* A limit that the row sets is a limit on the cluster, unless it is less than one
\* byte, or so large that its 32 bits show none or less.
LimitsHold ==
  inStep =>
    /\ \A f \in {"max_msgs", "max_age", "max_consumers"} :
         stream[f] > 0 => streamConfig[f] > 0
    /\ SizeAsked(stream.max_bytes_value, stream.max_bytes_unit) >= 1000
         => streamConfig.max_bytes > 0
    /\ SizeAsked(stream.max_msg_size_value, stream.max_msg_size_unit)
         \in 1000..2000 * UnitSize(4) - 1
         => streamConfig.max_msg_size > 0
=============================================================================
