---------------------------- MODULE ConsumerConfig ----------------------------
(***************************************************************************)
(* The configuration of a consumer on its way from a request through the   *)
(* row and the cluster to the comparison of the two.  Texts and times are  *)
(* small numbers, flags 0 and 1; 0 is the zero value of Go.  A field that  *)
(* is not in a request's domain is missing or nil.                         *)
(***************************************************************************)
EXTENDS Integers

CONSTANTS
  CreateChoices,   \* what a request to create may give for each field
  UpdateChoices,   \* what one to update may
  MaxGiven         \* bound: fields given by all requests, besides the necessary

ASSUME ConsumerConfigAssumption == MaxGiven \in Nat

VARIABLES
  consumer,        \* the row, or what a request leaves of it
  consumerConfig,  \* what the cluster has, once it was synchronised
  given            \* bound: fields given so far

consumerConfigVars == <<consumer, consumerConfig, given>>

Policies == {"deliver_policy", "ack_policy", "replay_policy"}
Numbers == {"name", "durable", "description", "start_seq", "start_time",
  "opt_start_seq", "opt_start_time", "ack_wait", "max_deliver", "backoff",
  "filter_subject", "filter_subjects", "rate_limit_bps", "rate_limit",
  "sample_frequency", "max_waiting", "max_ack_pending", "max_batch", "max_bytes",
  "max_expires", "max_request_batch", "max_request_max_bytes",
  "max_request_expires", "deliver_subject", "deliver_group", "flow_control",
  "idle_heartbeat", "headers_only", "inactive_threshold", "replicas",
  "memory_storage", "metadata"}

ConsumerFields == {"mode", "consumer_type"} \cup Policies \cup Numbers

ASSUME ConsumerChoicesAssumption ==
  \A f \in Numbers :
    /\ f \in DOMAIN CreateChoices => CreateChoices[f] \subseteq Int
    /\ f \in DOMAIN UpdateChoices => UpdateChoices[f] \subseteq Int

Field(q, f) ==
  IF f \in DOMAIN q THEN q[f] ELSE IF f \in Numbers THEN 0 ELSE ""

\* Times in requests and on the cluster are in halves of a second, in rows in
\* seconds: ParseDurationToSeconds.
Seconds(t) == t \div 2
ParsedTimes == {"ack_wait", "backoff", "idle_heartbeat", "max_expires"}

-----------------------------------------------------------------------------
(* Requests.                                                                *)

Gives(q, fields) == DOMAIN q \cap fields # {}

\* Validate of CreateConsumerRequest.
ValidCreate(q) ==
  /\ q.mode = "push" =>
       Gives(q, {"deliver_subject"}) /\ ~ Gives(q, {"max_batch", "max_bytes", "max_expires"})
  /\ q.mode = "pull" =>
       ~ Gives(q, {"deliver_subject", "deliver_group", "flow_control",
                   "idle_heartbeat", "rate_limit_bps"})
  /\ Field(q, "deliver_policy") = "by_start_sequence" => Field(q, "start_seq") # 0
  /\ Field(q, "deliver_policy") = "by_start_time" => Gives(q, {"start_time"})
  /\ ~ (Gives(q, {"filter_subject"}) /\ Gives(q, {"filter_subjects"}))
  /\ Field(q, "deliver_policy") = "last_per_subject" =>
       Gives(q, {"filter_subject", "filter_subjects"})
  /\ Field(q, "ack_policy") = "none" =>
       Field(q, "max_deliver") <= 0 /\ ~ Gives(q, {"backoff"})
  /\ Gives(q, {"flow_control"}) => Gives(q, {"idle_heartbeat"})
  /\ Field(q, "replicas") >= 0

\* Validate of UpdateConsumerRequest, with the mode of the row.
ValidUpdate(q, mode) ==
  /\ mode = "push" =>
       /\ Field(q, "max_waiting") <= 0
       /\ ~ Gives(q, {"max_batch", "max_bytes", "max_expires"})
  /\ mode = "pull" =>
       /\ \A f \in {"deliver_subject", "deliver_group", "flow_control"} : Field(q, f) = 0
       /\ ~ Gives(q, {"idle_heartbeat", "rate_limit_bps"})
  /\ ~ (Gives(q, {"filter_subject"}) /\ Gives(q, {"filter_subjects"}))

ConsumerTypeOf(q) == q.mode

\* A field that is missing is taken from the older one.
Older == [start_seq |-> "opt_start_seq", start_time |-> "opt_start_time",
          rate_limit_bps |-> "rate_limit"]

\* The database replaces zero values of these columns.
ColumnDefaults ==
  [deliver_policy |-> "all", ack_policy |-> "explicit", replay_policy |-> "instant",
   ack_wait |-> 30, max_deliver |-> -1, max_ack_pending |-> 1000]

ConsumerOf(q) ==
  [f \in ConsumerFields |->
     CASE f = "consumer_type" -> ConsumerTypeOf(q)
       [] f \in DOMAIN Older -> Field(q, IF Gives(q, {f}) THEN f ELSE Older[f])
       [] f = "max_deliver" -> IF Gives(q, {f}) THEN q[f] ELSE -1
       [] f \in ParsedTimes -> Seconds(Field(q, f))
       [] OTHER -> Field(q, f)]

Inserted(c) ==
  [f \in ConsumerFields |->
     IF f \in DOMAIN ColumnDefaults /\ c[f] = Field(<<>>, f) THEN ColumnDefaults[f]
     ELSE c[f]]

\* A mode brings its type, which another given with it replaces.
Updated(c, q) ==
  [f \in ConsumerFields |->
     CASE f = "consumer_type" /\ ~ Gives(q, {f}) /\ Field(q, "mode") \in {"push", "pull"} ->
            q.mode
       [] f \in ParsedTimes /\ Gives(q, {f}) -> Seconds(q[f])
       [] OTHER -> IF Gives(q, {f}) THEN q[f] ELSE c[f]]

-----------------------------------------------------------------------------
(* The configuration sent to the cluster.                                   *)

\* strings.ToLower of the names looked at.
Spellings == [LAST |-> "last", AckNone |-> "acknone", Original |-> "original"]
ToLower(p) == IF p \in DOMAIN Spellings THEN Spellings[p] ELSE p

Names == [deliver_policy |-> {"all", "last", "new", "by_start_sequence",
                              "by_start_time", "last_per_subject"},
          ack_policy |-> {"explicit", "all", "none"},
          replay_policy |-> {"instant", "original"}]
AckNames == [ackexplicit |-> "explicit", ackall |-> "all", acknone |-> "none"]

\* What does not name a policy means the default.
PolicyOf(f, p) ==
  LET name == IF f = "ack_policy" /\ ToLower(p) \in DOMAIN AckNames
                THEN AckNames[ToLower(p)] ELSE ToLower(p)
  IN IF name \in Names[f] THEN name ELSE ColumnDefaults[f]

Positive(n) == IF n > 0 THEN n ELSE 0
FirstOf(m, n) == IF m > 0 THEN m ELSE Positive(n)

Pull(c) == "pull" \in {c.mode, c.consumer_type}
Push(c) == "push" \in {c.mode, c.consumer_type}

PullFields == {"max_waiting", "max_request_batch", "max_request_max_bytes",
               "max_request_expires"}
PushFields == {"deliver_subject", "deliver_group", "flow_control", "idle_heartbeat"}
Limits == [max_request_batch |-> "max_batch", max_request_max_bytes |-> "max_bytes",
           max_request_expires |-> "max_expires"]

ConfigFields ==
  ConsumerFields \ {"mode", "consumer_type", "start_seq", "start_time",
                    "rate_limit_bps", "max_batch", "max_bytes", "max_expires"}

\* Zero and negative numbers are not sent.
SentNumber(c, f) ==
  CASE f = "rate_limit" -> FirstOf(c.rate_limit_bps, c.rate_limit)
    [] f \in DOMAIN Limits -> FirstOf(c[Limits[f]], c[f])
    [] f = "opt_start_seq" ->
         IF PolicyOf("deliver_policy", c.deliver_policy) = "by_start_sequence"
           THEN FirstOf(c.start_seq, c.opt_start_seq) ELSE 0
    [] f = "opt_start_time" ->
         IF PolicyOf("deliver_policy", c.deliver_policy) = "by_start_time"
           THEN FirstOf(c.start_time, c.opt_start_time) ELSE 0
    [] f \in {"ack_wait", "idle_heartbeat", "inactive_threshold"} -> 2 * Positive(c[f])
    [] OTHER -> Positive(c[f])

buildConsumerConfig(c) ==
  [f \in ConfigFields |->
     CASE f \in Policies -> PolicyOf(f, c[f])
       [] f \in PullFields /\ ~ Pull(c) -> 0
       [] f \in PushFields /\ ~ Push(c) -> 0
       [] OTHER -> SentNumber(c, f)]

\* The server fills in what is not sent; the model does not tell from what.
ServerDefaults == [ack_wait |-> 60, max_deliver |-> -1, max_ack_pending |-> 1000]

Stored(k) ==
  [f \in ConfigFields |->
     CASE f \in DOMAIN ServerDefaults /\ k[f] = 0 -> ServerDefaults[f]
       [] f = "max_waiting" /\ k[f] = 0 /\ k.deliver_subject = 0 -> 512
       [] OTHER -> k[f]]

-----------------------------------------------------------------------------
(* The comparison.                                                          *)

Uncompared == {"backoff", "metadata", "max_request_batch", "max_request_max_bytes",
               "max_request_expires"}

\* Mutant of ClusterView: times are shown as they are.
RawView(k, f) == k[f]

ClusterView(k, f) ==
  IF f \in {"ack_wait", "idle_heartbeat", "inactive_threshold"} THEN Seconds(k[f])
  ELSE k[f]

compareConsumerConfigs(c, k) ==
  {f \in ConfigFields \ Uncompared : c[f] # ClusterView(k, f)}

-----------------------------------------------------------------------------
\* What every request to create a consumer gives.
Necessary == {[mode |-> "pull", ack_policy |-> "explicit"],
              [mode |-> "push", ack_policy |-> "explicit", deliver_subject |-> 1]}

ConsumerConfigInit ==
  /\ consumer = <<>>
  /\ consumerConfig = <<>>
  /\ given = 0

\* The consumer's goroutine is done before anything else happens, and the server
\* takes what it is sent: see ConsumerSync for the rest.
Synchronised == consumerConfig' = Stored(buildConsumerConfig(consumer'))

CreateFrom(q, n) ==
  /\ ValidCreate(q)
  /\ consumer' = Inserted(ConsumerOf(q))
  /\ Synchronised
  /\ given' = n

\* A consumer of the last message per subject needs a filter.
UpdateFrom(q, n) ==
  /\ given + n <= MaxGiven
  /\ ValidUpdate(q, consumer.mode)
  /\ Updated(consumer, q).deliver_policy = "last_per_subject" =>
       Updated(consumer, q).filter_subject # 0 \/ Updated(consumer, q).filter_subjects # 0
  /\ consumer' = Updated(consumer, q)
  /\ Synchronised
  /\ given' = given + n

Count(f, g) == IF f = g THEN 1 ELSE 2

\* A request that gives v for f and w for g, beside what the base gives.
ConsumerRequest(base, f, v, g, w) ==
  [x \in {f, g} \cup DOMAIN base |->
     IF x = f THEN v ELSE IF x = g THEN w ELSE base[x]]

CreateTheConsumer ==
  /\ consumer = <<>>
  /\ \E base \in Necessary, f, g \in DOMAIN CreateChoices :
       \E v \in CreateChoices[f], w \in CreateChoices[g] :
         CreateFrom(ConsumerRequest(base, f, v, g, w), Count(f, g))

UpdateTheConsumer ==
  /\ consumer # <<>>
  /\ \E f, g \in DOMAIN UpdateChoices :
       \E v \in UpdateChoices[f], w \in UpdateChoices[g] :
         UpdateFrom(ConsumerRequest(<<>>, f, v, g, w), Count(f, g))

ConsumerConfigNext == CreateTheConsumer \/ UpdateTheConsumer

ConsumerConfigSpec == ConsumerConfigInit /\ [][ConsumerConfigNext]_consumerConfigVars

-----------------------------------------------------------------------------
\* The fields that the cluster cannot show as the row has them: names that are not
\* a policy's own; the newer of two fields, which is sent, while the older is
\* compared; fields of the other mode; numbers below zero, which are not sent; and
\* zeros that the server fills in.
NeverAlike(c) ==
  {f \in Policies : c[f] \notin Names[f]}
    \cup {f \in {"opt_start_seq"} : c.start_seq # c[f] \/ c.deliver_policy # "by_start_sequence"}
    \cup {f \in {"opt_start_time"} : c.start_time # c[f] \/ c.deliver_policy # "by_start_time"}
    \cup {f \in {"rate_limit"} : c.rate_limit_bps \notin {0, c[f]}}
    \cup {f \in PullFields : ~ Pull(c)}
    \cup {f \in PushFields : ~ Push(c)}
    \cup {f \in Numbers : c[f] < 0}
    \cup {f \in {"ack_wait", "max_deliver", "max_ack_pending", "max_waiting"} : c[f] <= 0}

\* After a synchronisation the comparison reports no field but those, and the
\* unlimited number of deliveries is not among what it reports.
ConsumerComparisonIsFair ==
  consumer # <<>> =>
    /\ compareConsumerConfigs(consumer, consumerConfig) \subseteq NeverAlike(consumer)
    /\ consumer.max_deliver = -1 =>
         "max_deliver" \notin compareConsumerConfigs(consumer, consumerConfig)

=============================================================================
