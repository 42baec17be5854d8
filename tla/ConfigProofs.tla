------------------------------ MODULE ConfigProofs -------------------------------
(***************************************************************************)
(* Proofs about the configurations of consumers and streams, for whatever  *)
(* requests give and whatever is changed on the cluster: which differences *)
(* the comparisons report, and which limits hold.                          *)
(***************************************************************************)
EXTENDS MCReports, FiniteSetTheorems, TLAPS

-----------------------------------------------------------------------------
(* Consumers.                                                               *)

\* A row: its numbers are numbers.
ConsumerRowOK(c) == \A f \in Numbers : c[f] \in Int

\* What the cluster has is what the server made of the row.
ConsumerInv ==
  consumer # <<>> =>
    /\ ConsumerRowOK(consumer)
    /\ consumerConfig = Stored(buildConsumerConfig(consumer))

\* The numbers of a request are numbers.
LEMMA RequestNumbers ==
  ASSUME NEW base, NEW f, NEW v, NEW g, NEW w,
         \A x \in Numbers \cap DOMAIN base : base[x] \in Int,
         f \in Numbers => v \in Int,
         g \in Numbers => w \in Int
  PROVE  \A x \in Numbers : Field(ConsumerRequest(base, f, v, g, w), x) \in Int
  BY DEF ConsumerRequest, Field

\* A time in seconds is a number.
LEMMA SecondsAreNumbers == \A t \in Int : Seconds(t) \in Int
  BY DEF Seconds

\* The numbers of a row that is inserted are numbers, with the defaults too.
LEMMA InsertedNumbers ==
  ASSUME NEW q, \A x \in Numbers : Field(q, x) \in Int
  PROVE  ConsumerRowOK(Inserted(ConsumerOf(q)))
  <1>1. ASSUME NEW x \in Numbers PROVE ConsumerOf(q)[x] \in Int
    <2>1. x # "consumer_type" /\ x \in ConsumerFields
      BY DEF Numbers, ConsumerFields
    <2>2. CASE x \in DOMAIN Older
      <3>1. Older[x] \in Numbers BY <2>2 DEF Older, Numbers
      <3>2. ConsumerOf(q)[x] = Field(q, IF Gives(q, {x}) THEN x ELSE Older[x])
        BY <2>1, <2>2 DEF ConsumerOf, Older, ParsedTimes
      <3> QED BY <3>1, <3>2
    <2>3. CASE x = "max_deliver"
      <3>1. x \notin DOMAIN Older BY <2>3 DEF Older
      <3>2. Gives(q, {x}) => Field(q, x) = q[x] BY DEF Gives, Field
      <3>3. ConsumerOf(q)[x] = IF Gives(q, {x}) THEN q[x] ELSE -1
        BY <2>1, <2>3, <3>1 DEF ConsumerOf, ParsedTimes
      <3> QED BY <3>2, <3>3
    <2>4. CASE x \notin DOMAIN Older /\ x # "max_deliver"
      BY <2>1, <2>4, SecondsAreNumbers DEF ConsumerOf
    <2> QED BY <2>2, <2>3, <2>4
  <1>2. ASSUME NEW x \in Numbers, x \in DOMAIN ColumnDefaults PROVE ColumnDefaults[x] \in Int
    BY <1>2 DEF ColumnDefaults, Numbers
  <1>3. Numbers \subseteq ConsumerFields BY DEF ConsumerFields
  <1> QED BY <1>1, <1>2, <1>3 DEF ConsumerRowOK, Inserted

\* So are those of a row that is updated.
LEMMA UpdatedNumbers ==
  ASSUME NEW c, NEW q, ConsumerRowOK(c), \A x \in Numbers : Field(q, x) \in Int
  PROVE  ConsumerRowOK(Updated(c, q))
  <1> SUFFICES ASSUME NEW x \in Numbers PROVE Updated(c, q)[x] \in Int
    BY DEF ConsumerRowOK
  <1>1. x # "consumer_type" /\ x \in ConsumerFields
    BY DEF Numbers, ConsumerFields
  <1>2. Gives(q, {x}) => q[x] \in Int
    BY DEF Gives, Field
  <1> QED BY <1>1, <1>2, SecondsAreNumbers DEF Updated, ConsumerRowOK

\* Every request keeps the invariant: it ends with a synchronisation.
LEMMA ConsumerNextInv == ConsumerInv /\ [ConsumerConfigNext]_consumerConfigVars => ConsumerInv'
  <1> SUFFICES ASSUME ConsumerInv, [ConsumerConfigNext]_consumerConfigVars PROVE ConsumerInv'
    OBVIOUS
  <1>1. CASE CreateTheConsumer
    <2>1. PICK base \in Necessary, f \in DOMAIN CreateChoices, g \in DOMAIN CreateChoices :
            \E v \in CreateChoices[f], w \in CreateChoices[g] :
              CreateFrom(ConsumerRequest(base, f, v, g, w), Count(f, g))
      BY <1>1 DEF CreateTheConsumer
    <2>2. PICK v \in CreateChoices[f], w \in CreateChoices[g] :
            CreateFrom(ConsumerRequest(base, f, v, g, w), Count(f, g))
      BY <2>1
    <2>3. \A x \in Numbers \cap DOMAIN base : base[x] \in Int
      BY DEF Necessary, Numbers
    <2>4. (f \in Numbers => v \in Int) /\ (g \in Numbers => w \in Int)
      BY ConsumerChoicesAssumption
    <2> QED BY <2>2, <2>3, <2>4, RequestNumbers, InsertedNumbers
            DEF CreateFrom, Synchronised, ConsumerInv
  <1>2. CASE UpdateTheConsumer
    <2>1. PICK f \in DOMAIN UpdateChoices, g \in DOMAIN UpdateChoices :
            \E v \in UpdateChoices[f], w \in UpdateChoices[g] :
              UpdateFrom(ConsumerRequest(<<>>, f, v, g, w), Count(f, g))
      BY <1>2 DEF UpdateTheConsumer
    <2>2. PICK v \in UpdateChoices[f], w \in UpdateChoices[g] :
            UpdateFrom(ConsumerRequest(<<>>, f, v, g, w), Count(f, g))
      BY <2>1
    <2>3. (f \in Numbers => v \in Int) /\ (g \in Numbers => w \in Int)
      BY ConsumerChoicesAssumption
    <2>4. DOMAIN <<>> = {} OBVIOUS
    <2>5. \A x \in Numbers : Field(ConsumerRequest(<<>>, f, v, g, w), x) \in Int
      BY <2>3, <2>4, RequestNumbers
    <2>6. ConsumerRowOK(consumer)
      BY <1>2 DEF UpdateTheConsumer, ConsumerInv
    <2> QED BY <2>2, <2>5, <2>6, UpdatedNumbers DEF UpdateFrom, Synchronised, ConsumerInv
  <1>3. CASE UNCHANGED consumerConfigVars
    BY <1>3 DEF consumerConfigVars, ConsumerInv
  <1> QED BY <1>1, <1>2, <1>3 DEF ConsumerConfigNext

\* The name of a policy, in the spelling of the row, is understood.
LEMMA NamesAreUnderstood ==
  ASSUME NEW f \in Policies, NEW p \in Names[f]
  PROVE  PolicyOf(f, p) = p
  <1>1. CASE f = "deliver_policy"
    BY <1>1 DEF Names, PolicyOf, ToLower, Spellings
  <1>2. CASE f = "ack_policy"
    BY <1>2 DEF Names, PolicyOf, ToLower, Spellings, AckNames
  <1>3. CASE f = "replay_policy"
    BY <1>3 DEF Names, PolicyOf, ToLower, Spellings
  <1> QED BY <1>1, <1>2, <1>3 DEF Policies

\* What the cluster is sent of a number that is not below zero.
LEMMA NumbersAreSent ==
  ASSUME NEW c, ConsumerRowOK(c),
         NEW f \in (ConfigFields \cap Numbers) \ (Uncompared \cup NeverAlike(c))
  PROVE  ClusterView(buildConsumerConfig(c), f) = c[f]
  <1>1. c[f] \in Nat
    BY DEF ConsumerRowOK, NeverAlike
  <1>2. f \notin Policies BY DEF Policies, Numbers
  <1>3. (f \in PullFields => Pull(c)) /\ (f \in PushFields => Push(c))
    BY DEF NeverAlike
  <1>4. buildConsumerConfig(c)[f] = SentNumber(c, f)
    BY <1>2, <1>3 DEF buildConsumerConfig
  <1>5. f \notin DOMAIN Limits
    BY DEF Limits, Uncompared
  <1>6. CASE f = "rate_limit"
    <2>1. c.rate_limit_bps \in {0, c[f]} BY <1>6 DEF NeverAlike
    <2>2. c.rate_limit_bps \in Int /\ c.rate_limit = c[f]
      BY <1>6 DEF ConsumerRowOK, Numbers
    <2>3. SentNumber(c, f) = FirstOf(c.rate_limit_bps, c.rate_limit)
      BY <1>6 DEF SentNumber, Limits
    <2>4. FirstOf(c.rate_limit_bps, c.rate_limit) = c[f]
      BY <1>1, <2>1, <2>2 DEF FirstOf, Positive
    <2> QED BY <1>4, <1>6, <2>3, <2>4 DEF ClusterView
  <1>7. CASE f = "opt_start_seq"
    <2>1. c.start_seq = c[f] /\ c.deliver_policy = "by_start_sequence"
      BY <1>7 DEF NeverAlike
    <2>2. PolicyOf("deliver_policy", c.deliver_policy) = "by_start_sequence"
      BY <2>1, NamesAreUnderstood DEF Policies, Names
    <2> QED BY <1>1, <1>4, <1>5, <1>7, <2>1, <2>2 DEF SentNumber, FirstOf, Positive, ClusterView
  <1>8. CASE f = "opt_start_time"
    <2>1. c.start_time = c[f] /\ c.deliver_policy = "by_start_time"
      BY <1>8 DEF NeverAlike
    <2>2. PolicyOf("deliver_policy", c.deliver_policy) = "by_start_time"
      BY <2>1, NamesAreUnderstood DEF Policies, Names
    <2> QED BY <1>1, <1>4, <1>5, <1>8, <2>1, <2>2 DEF SentNumber, FirstOf, Positive, ClusterView
  <1>9. CASE f \in {"ack_wait", "idle_heartbeat", "inactive_threshold"}
    <2>1. SentNumber(c, f) = 2 * c[f]
      BY <1>1, <1>5, <1>9 DEF SentNumber, Positive
    <2> QED BY <1>1, <1>4, <1>9, <2>1 DEF ClusterView, Seconds
  <1>10. CASE f \notin {"rate_limit", "opt_start_seq", "opt_start_time", "ack_wait",
                        "idle_heartbeat", "inactive_threshold"}
    BY <1>1, <1>4, <1>5, <1>10 DEF SentNumber, Positive, ClusterView
  <1> QED BY <1>6, <1>7, <1>8, <1>9, <1>10

\* A field that the cluster can show as the row has it is shown so.
LEMMA FieldsAgree ==
  ASSUME NEW c, ConsumerRowOK(c), NEW f \in ConfigFields \ (Uncompared \cup NeverAlike(c))
  PROVE  c[f] = ClusterView(Stored(buildConsumerConfig(c)), f)
  <1> DEFINE k == buildConsumerConfig(c)
  <1>1. CASE f \in Policies
    <2>1. c[f] \in Names[f] BY <1>1 DEF NeverAlike
    <2>2. k[f] = PolicyOf(f, c[f]) BY <1>1 DEF buildConsumerConfig, Policies, PullFields, PushFields
    <2>3. Stored(k)[f] = k[f]
      BY <1>1 DEF Policies, Stored, ServerDefaults
    <2>4. PolicyOf(f, c[f]) = c[f] BY <1>1, <2>1, NamesAreUnderstood
    <2> QED BY <1>1, <2>2, <2>3, <2>4 DEF Policies, ClusterView
  <1>2. CASE f \in Numbers
    <2>1. ClusterView(k, f) = c[f] BY <1>2, NumbersAreSent
    <2>2. f \in {"ack_wait", "max_deliver", "max_ack_pending", "max_waiting"} => c[f] # 0
      BY DEF NeverAlike
    <2>3. f \in {"ack_wait", "max_deliver", "max_ack_pending", "max_waiting"} => k[f] # 0
      BY <2>1, <2>2 DEF ClusterView, Seconds
    <2>4. Stored(k)[f] = k[f]
      BY <2>3 DEF Stored, ServerDefaults
    <2> QED BY <2>1, <2>4 DEF ClusterView
  <1>3. f \in Policies \cup Numbers
    BY DEF ConfigFields, ConsumerFields
  <1> QED BY <1>1, <1>2, <1>3

\* The comparison of a consumer that was synchronised reports no field but those
\* that the cluster cannot show as the row has them.
THEOREM ConsumersCompareFairly == ConsumerConfigSpec => []ConsumerComparisonIsFair
  <1>1. ConsumerConfigInit => ConsumerInv
    BY DEF ConsumerConfigInit, ConsumerInv
  <1>2. ConsumerInv => ConsumerComparisonIsFair
    <2> SUFFICES ASSUME ConsumerInv, consumer # <<>>
                 PROVE  /\ compareConsumerConfigs(consumer, consumerConfig)
                             \subseteq NeverAlike(consumer)
                        /\ consumer.max_deliver = -1 =>
                             "max_deliver" \notin compareConsumerConfigs(consumer, consumerConfig)
      BY DEF ConsumerComparisonIsFair
    <2>1. ConsumerRowOK(consumer) /\ consumerConfig = Stored(buildConsumerConfig(consumer))
      BY DEF ConsumerInv
    <2>2. compareConsumerConfigs(consumer, consumerConfig) \subseteq NeverAlike(consumer)
      BY <2>1, FieldsAgree DEF compareConsumerConfigs
    <2>3. ASSUME consumer.max_deliver = -1
          PROVE  "max_deliver" \notin compareConsumerConfigs(consumer, consumerConfig)
      <3>1. "max_deliver" \in ConfigFields /\ "max_deliver" \notin Policies \cup PullFields \cup PushFields
        BY DEF ConfigFields, ConsumerFields, Numbers, Policies, PullFields, PushFields
      <3>2. SentNumber(consumer, "max_deliver") = 0
        BY <2>3 DEF SentNumber, Positive, Limits
      <3>3. buildConsumerConfig(consumer)["max_deliver"] = 0
        BY <3>1, <3>2 DEF buildConsumerConfig
      <3>4. consumerConfig["max_deliver"] = -1
        BY <2>1, <3>1, <3>3 DEF Stored, ServerDefaults
      <3> QED BY <2>3, <3>4 DEF compareConsumerConfigs, ClusterView
    <2> QED BY <2>2, <2>3
  <1> QED BY <1>1, <1>2, ConsumerNextInv, PTL DEF ConsumerConfigSpec

-----------------------------------------------------------------------------
(* Streams.                                                                 *)

\* A row: its numbers are numbers, its subjects a list.
StreamRowOK(s) ==
  /\ \A f \in StreamNumbers : s[f] \in Int
  /\ s.subjects \in Seq(Nat)

\* A configuration on the cluster, whoever made it what it is.
ClusterConfigOK(k) ==
  /\ DOMAIN k = StreamConfigFields
  /\ \A f \in Times \cup {"max_bytes"} : k[f] \in Int
  /\ k["subjects"] \in Seq(Nat)
  /\ NoRepeats(k["subjects"])

\* What the cluster has of a stream in step is what the server made of the row.
StreamInv ==
  /\ stream # <<>> => StreamRowOK(stream)
  /\ streamConfig # <<>> => ClusterConfigOK(streamConfig)
  /\ inStep =>
       /\ stream # <<>>
       /\ NoRepeats(stream.subjects)
       /\ streamConfig = StoredStream(buildStreamConfig(stream))

-----------------------------------------------------------------------------
\* Units are positive numbers of bytes.
LEMMA UnitSizes == \A i \in 1..5 : UnitSize(i) \in Nat \ {0}
  <1>1. UnitBase \in Nat \ {0} BY StreamConfigAssumption
  <1>2. \A c \in Nat \ {0} : c * UnitBase \in Nat \ {0} BY <1>1
  <1>3. UnitBase * UnitBase \in Nat \ {0} BY <1>1
  <1>4. (UnitBase * UnitBase) * UnitBase \in Nat \ {0} BY <1>2, <1>3
  <1>5. (UnitBase * UnitBase) * UnitBase * UnitBase \in Nat \ {0} BY <1>2, <1>4
  <1> QED BY <1>1, <1>3, <1>4, <1>5 DEF UnitSize

\* Units differ in their names.
LEMMA UnitNames ==
  /\ \A i \in 1..5 : Units[i] \in Range(Units) /\ BytesIn(Units[i]) = UnitSize(i)
  /\ \A unit \in Range(Units) : \E i \in 1..5 : unit = Units[i]
  <1>1. DOMAIN Units = 1..5 BY DEF Units
  <1>2. \A i, j \in 1..5 : Units[i] = Units[j] => i = j BY DEF Units
  <1>3. \A i \in 1..5 : Units[i] \in Range(Units)
    BY <1>1 DEF Range
  <1>4. ASSUME NEW i \in 1..5 PROVE (CHOOSE j \in 1..5 : Units[j] = Units[i]) = i
    BY <1>2
  <1>5. \A unit \in Range(Units) : \E i \in 1..5 : unit = Units[i]
    BY <1>1 DEF Range
  <1> QED BY <1>3, <1>4, <1>5 DEF BytesIn

\* So no factor is zero, whatever the unit.
LEMMA UnitsArePositive == \A unit : BytesIn(unit) \in Nat \ {0}
  <1> SUFFICES ASSUME NEW unit PROVE BytesIn(unit) \in Nat \ {0}
    OBVIOUS
  <1>1. CASE unit \in Range(Units) BY <1>1, UnitNames, UnitSizes
  <1>2. CASE unit \notin Range(Units) BY <1>2 DEF BytesIn
  <1> QED BY <1>1, <1>2

\* A size is cut to whole bytes; what was at least a byte is positive.
LEMMA BytesArePositive ==
  ASSUME NEW value \in Int, NEW unit
  PROVE  /\ ConvertToBytes(value, unit) \in Int
         /\ value <= 0 => ConvertToBytes(value, unit) <= 0
         /\ value >= 0 => ConvertToBytes(value, unit) >= 0
         /\ SizeAsked(value, unit) >= 1000 =>
              /\ value > 0
              /\ ConvertToBytes(value, unit) > 0
              /\ 1000 * ConvertToBytes(value, unit) <= SizeAsked(value, unit)
  <1> DEFINE u == BytesIn(unit)
             n == value * u
  <1>1. u \in Nat \ {0} BY UnitsArePositive
  <1>2. n \in Int BY <1>1
  <1>3. (value <= 0 => n <= 0) /\ (value >= 0 => n >= 0) BY <1>1
  <1>4. ConvertToBytes(value, unit) = Truncated(n, 1000) BY DEF ConvertToBytes
  <1>5. SizeAsked(value, unit) = n BY DEF SizeAsked
  <1> HIDE DEF n
  <1> QED BY <1>2, <1>3, <1>4, <1>5 DEF Truncated

\* The size that the comparison shows of a size on the cluster.
Shown(x) == ConvertToBytes(ConvertFromBytes(x)[1], ConvertFromBytes(x)[2])

\* It is the size itself where it is less than the second unit, and else differs
\* by half of the last decimal shown and a byte.
LEMMA SizesAreShown ==
  ASSUME NEW x \in Int
  PROVE  /\ Shown(x) \in Int
         /\ \/ x < UnitBase /\ Shown(x) = x
            \/ \E i \in 2..5 : /\ UnitSize(i) <= x
                               /\ 200 * x - UnitSize(i) - 200 < 200 * Shown(x)
                               /\ 200 * Shown(x) <= 200 * x + UnitSize(i)
  <1>1. CASE x < UnitBase
    <2>1. ConvertFromBytes(x) = <<1000 * x, "B">>
      BY <1>1 DEF ConvertFromBytes
    <2>2. Units[1] = "B" /\ UnitSize(1) = 1 BY DEF Units, UnitSize
    <2>3. BytesIn("B") = 1 BY <2>2, UnitNames
    <2>4. Shown(x) = Truncated((1000 * x) * 1, 1000)
      BY <2>1, <2>3 DEF Shown, ConvertToBytes
    <2>5. Truncated((1000 * x) * 1, 1000) = x
      BY DEF Truncated
    <2> QED BY <1>1, <2>4, <2>5
  <1>2. CASE ~ (x < UnitBase)
    <2> DEFINE P(j) == UnitSize(j) <= x /\ (j < 5 => x < UnitSize(j + 1))
               i == CHOOSE j \in 2..5 : P(j)
               u == UnitSize(i)
               n == (200 * x + u) \div (2 * u)
    <2>1. \E j \in 2..5 : P(j)
      <3>1. UnitSize(2) = UnitBase /\ UnitBase \in Nat
        BY StreamConfigAssumption DEF UnitSize
      <3>2. \A j \in 2..5 : UnitSize(j) \in Nat BY UnitSizes
      <3>3. UnitSize(2) <= x BY <1>2, <3>1
      <3>4. CASE x < UnitSize(3) BY <3>3, <3>4
      <3>5. CASE ~ (x < UnitSize(3)) /\ x < UnitSize(4) BY <3>2, <3>5
      <3>6. CASE ~ (x < UnitSize(4)) /\ x < UnitSize(5) BY <3>2, <3>6
      <3>7. CASE ~ (x < UnitSize(5)) BY <3>2, <3>7
      <3> QED BY <3>4, <3>5, <3>6, <3>7
    <2>2. i \in 2..5 /\ UnitSize(i) <= x
      <3> HIDE DEF P
      <3>1. i \in 2..5 /\ P(i) BY <2>1
      <3> QED BY <3>1 DEF P
    <2>3. ConvertFromBytes(x) = <<10 * n, Units[i]>>
      BY <1>2 DEF ConvertFromBytes
    <2> HIDE DEF P, i
    <2>4. u \in Nat \ {0} /\ BytesIn(Units[i]) = u
      <3>1. i \in 1..5 BY <2>2
      <3> QED BY <3>1, UnitSizes, UnitNames
    <2> HIDE DEF u
    <2>5. 200 * x + u \in Nat /\ 2 * u \in Nat \ {0}
      BY <2>2, <2>4 DEF u
    <2>6. n \in Int /\ (2 * u) * n <= 200 * x + u /\ 200 * x + u < (2 * u) * n + 2 * u
      BY <2>5
    <2>7. n >= 0
      BY <2>5
    <2> DEFINE p == n * u
    <2>8. p \in Int /\ p >= 0 /\ 2 * p <= 200 * x + u /\ 200 * x + u < 2 * p + 2 * u
      BY <2>4, <2>6, <2>7
    <2>9. Shown(x) = Truncated((10 * n) * u, 1000)
      BY <2>3, <2>4 DEF Shown, ConvertToBytes
    <2>10. (10 * n) * u = 10 * p
      BY <2>4, <2>6
    <2> HIDE DEF n, p
    <2>11. Truncated(10 * p, 1000) \in Int /\ 100 * Truncated(10 * p, 1000) <= p
             /\ p < 100 * Truncated(10 * p, 1000) + 100
      BY <2>8 DEF Truncated
    <2>12. /\ 200 * x - u - 200 < 200 * Shown(x)
           /\ 200 * Shown(x) <= 200 * x + u
           /\ Shown(x) \in Int
      BY <2>4, <2>8, <2>9, <2>10, <2>11
    <2> QED BY <2>2, <2>12 DEF u
  <1> QED BY <1>1, <1>2

\* Sizes that are shown alike are near each other.
LEMMA SizesAreNear ==
  ASSUME NEW x \in Int, NEW y \in Int, Shown(x) = Shown(y)
  PROVE  Near("max_bytes", x, y)
  <1> SUFFICES \/ x = y
               \/ \E i \in 2..5 : /\ UnitSize(i) <= x \/ UnitSize(i) <= y
                                  /\ 100 * (x - y) \in -(UnitSize(i) + 100)..UnitSize(i) + 100
    BY DEF Near
  <1>0. UnitBase \in Nat /\ \A i \in 2..5 : UnitSize(i) \in Nat
    BY UnitSizes, StreamConfigAssumption
  <1>1. CASE x < UnitBase /\ Shown(x) = x /\ y < UnitBase /\ Shown(y) = y
    BY <1>1
  <1>2. ASSUME NEW i \in 2..5, UnitSize(i) <= y, x < UnitBase, Shown(x) = x,
               200 * y - UnitSize(i) - 200 < 200 * Shown(y),
               200 * Shown(y) <= 200 * y + UnitSize(i)
        PROVE  100 * (x - y) \in -(UnitSize(i) + 100)..UnitSize(i) + 100
    BY <1>0, <1>2
  <1>3. ASSUME NEW i \in 2..5, UnitSize(i) <= x, y < UnitBase, Shown(y) = y,
               200 * x - UnitSize(i) - 200 < 200 * Shown(x),
               200 * Shown(x) <= 200 * x + UnitSize(i)
        PROVE  100 * (x - y) \in -(UnitSize(i) + 100)..UnitSize(i) + 100
    BY <1>0, <1>3
  <1>4. ASSUME NEW i \in 2..5, UnitSize(i) <= x,
               200 * x - UnitSize(i) - 200 < 200 * Shown(x),
               200 * Shown(x) <= 200 * x + UnitSize(i),
               NEW j \in 2..5, UnitSize(j) <= y,
               200 * y - UnitSize(j) - 200 < 200 * Shown(y),
               200 * Shown(y) <= 200 * y + UnitSize(j)
        PROVE  \E m \in {i, j} : 100 * (x - y) \in -(UnitSize(m) + 100)..UnitSize(m) + 100
    <2>1. UnitSize(i) \in Nat /\ UnitSize(j) \in Nat BY <1>0
    <2>2. Shown(x) \in Int /\ Shown(y) \in Int BY SizesAreShown
    <2>3. CASE UnitSize(i) >= UnitSize(j)
      BY <1>4, <2>1, <2>2, <2>3
    <2>4. CASE UnitSize(i) < UnitSize(j)
      BY <1>4, <2>1, <2>2, <2>4
    <2> QED BY <2>1, <2>3, <2>4
  <1> QED BY <1>1, <1>2, <1>3, <1>4, SizesAreShown

-----------------------------------------------------------------------------
\* The numbers of a request are numbers, its subjects a list.
LEMMA StreamRequestNumbers ==
  ASSUME NEW base, NEW f, NEW v, NEW g, NEW w,
         \A x \in StreamNumbers \cap DOMAIN base : base[x] \in Int,
         "subjects" \in DOMAIN base => base["subjects"] \in Seq(Nat),
         f \in StreamNumbers => v \in Int,
         g \in StreamNumbers => w \in Int,
         f = "subjects" => v \in Seq(Nat),
         g = "subjects" => w \in Seq(Nat),
         NEW q, q = StreamRequest(base, f, v, g, w)
  PROVE  /\ \A x \in StreamNumbers \cap DOMAIN q : q[x] \in Int
         /\ "subjects" \in DOMAIN q => q["subjects"] \in Seq(Nat)
  BY DEF StreamRequest

\* The kinds of fields have nothing in common.
LEMMA StreamKinds ==
  /\ StreamNumbers \subseteq StreamFields
  /\ "subjects" \in StreamFields
  /\ "subjects" \notin StreamNumbers \cup NotRequested \cup DOMAIN StreamDefaults
  /\ \A f \in StreamNumbers : StreamZero(f) = 0
  /\ \A f \in StreamNumbers \cap DOMAIN StreamDefaults : StreamDefaults[f] \in Int
  /\ StreamZero("subjects") = <<>>
  BY DEF StreamNumbers, Rates, StreamFields, StreamZero, StreamPolicies, StreamNames,
         StreamDefaults, NotRequested

\* The row made of a request, its defaults filled in.
LEMMA NewStreamRow ==
  ASSUME NEW q, \A x \in StreamNumbers \cap DOMAIN q : q[x] \in Int,
         "subjects" \in DOMAIN q => q["subjects"] \in Seq(Nat)
  PROVE  StreamRowOK(StreamOf(q))
  <1>1. ASSUME NEW f \in StreamNumbers PROVE StreamOf(q)[f] \in Int
    <2>1. StreamField(q, f) \in Int BY StreamKinds DEF StreamField
    <2> QED BY <2>1, StreamKinds DEF StreamOf
  <1>2. StreamOf(q)["subjects"] = StreamField(q, "subjects")
    BY StreamKinds DEF StreamOf
  <1>3. StreamField(q, "subjects") \in Seq(Nat)
    <2>1. <<>> \in Seq(Nat) OBVIOUS
    <2> QED BY <2>1, StreamKinds DEF StreamField
  <1> QED BY <1>1, <1>2, <1>3 DEF StreamRowOK

\* The row after an update.
LEMMA UpdatedStreamRow ==
  ASSUME NEW s, StreamRowOK(s),
         NEW q, \A x \in StreamNumbers \cap DOMAIN q : q[x] \in Int,
         "subjects" \in DOMAIN q => q["subjects"] \in Seq(Nat)
  PROVE  StreamRowOK(UpdatedStream(s, q))
  BY StreamKinds DEF StreamRowOK, UpdatedStream

\* What is sent of a row.
LEMMA FieldsAreSent ==
  ASSUME NEW s, NEW k, k = buildStreamConfig(s)
  PROVE  /\ \A f \in StreamPolicies : k[f] = StreamPolicyOf(f, s[f])
         /\ k["max_bytes"] = IF Limited(s, "max_bytes") THEN BytesOf(s, "max_bytes") ELSE 0
         /\ k["max_msg_size"] =
              IF Limited(s, "max_msg_size") THEN Int32(BytesOf(s, "max_msg_size")) ELSE 0
         /\ \A f \in Times : k[f] = 2 * Above0(s[f])
         /\ \A f \in Rates \ Times : k[f] = Above0(s[f])
         /\ \A f \in Flags \cup Texts \cup {"subjects"} : k[f] = s[f]
  BY DEF buildStreamConfig, StreamConfigFields, StreamPolicies, StreamNames, Sizes, Times,
         Rates, Flags, Texts

\* What the server keeps of what it is sent.
LEMMA FieldsAreStored ==
  ASSUME NEW k, NEW r, r = StoredStream(k)
  PROVE  /\ \A f \in Sizes \cup {"max_msgs", "max_consumers", "max_msgs_per_subject"} :
              r[f] = IF k[f] > 0 THEN k[f] ELSE -1
         /\ r["replicas"] = IF k["replicas"] = 0 THEN 1 ELSE k["replicas"]
         /\ k["duplicate_window"] # 0 => r["duplicate_window"] = k["duplicate_window"]
         /\ \A f \in StreamPolicies \cup Flags \cup Texts \cup {"subjects", "max_age"} :
              r[f] = k[f]
  BY DEF StoredStream, StreamConfigFields, StreamPolicies, StreamNames, Sizes, Rates,
         Flags, Texts

\* The numbers of a row, and its sizes in bytes.
LEMMA RowNumbers ==
  ASSUME NEW s, StreamRowOK(s)
  PROVE  /\ \A f \in Rates : s[f] \in Int
         /\ s.max_bytes_value \in Int /\ s.max_msg_size_value \in Int
         /\ \A f \in Sizes : BytesOf(s, f) \in Int
         /\ \A f \in Sizes : BytesOf(s, f) > 0 => Limited(s, f)
  BY BytesArePositive DEF StreamRowOK, StreamNumbers, Sizes, BytesOf, Limited

\* The lists of subjects that somebody may put in place have no repetitions.
LEMMA ShortListsAreWithoutRepeats ==
  ASSUME NEW x \in OtherSubjects
  PROVE  x \in Seq(Nat) /\ NoRepeats(x)
  <1>1. CASE x = << 1 >>
    <2>1. Range(x) = {1} /\ Len(x) = 1 BY <1>1 DEF Range
    <2>2. Cardinality({1}) = 1 BY FS_Singleton
    <2>3. x \in Seq(Nat) BY <1>1
    <2> QED BY <2>1, <2>2, <2>3 DEF NoRepeats
  <1>2. ASSUME NEW m \in Nat, NEW n \in Nat, m # n, x = <<m, n>>
        PROVE  x \in Seq(Nat) /\ NoRepeats(x)
    <2>1. Range(x) = {m} \cup {n} /\ Len(x) = 2 BY <1>2 DEF Range
    <2>2. IsFiniteSet({m}) /\ Cardinality({m}) = 1 BY FS_Singleton
    <2>3. Cardinality({m} \cup {n}) = 2 BY <1>2, <2>2, FS_AddElement
    <2> QED BY <1>2, <2>1, <2>3 DEF NoRepeats
  <1> QED BY <1>1, <1>2 DEF OtherSubjects

\* Times and sizes on the cluster are numbers.
LEMMA StoredNumbers ==
  ASSUME NEW s, StreamRowOK(s), NEW f \in Times \cup {"max_bytes"}
  PROVE  StoredStream(buildStreamConfig(s))[f] \in Int
  <1> DEFINE k == buildStreamConfig(s)
  <1>1. \A x \in Times : k[x] \in Int
    BY FieldsAreSent, RowNumbers DEF Times, Rates, Above0
  <1>2. k["max_bytes"] \in Int
    BY FieldsAreSent, RowNumbers DEF Sizes
  <1>3. CASE f \in {"max_age", "max_bytes"}
    BY <1>1, <1>2, <1>3, FieldsAreStored DEF Times, Sizes
  <1>4. CASE f = "duplicate_window"
    <2>1. StoredStream(k)[f] \in {k[f], k.max_age, 240}
      BY <1>4 DEF StoredStream, StreamConfigFields, StreamPolicies, StreamNames, Sizes, Rates
    <2> QED BY <1>1, <1>4, <2>1 DEF Times
  <1> QED BY <1>3, <1>4 DEF Times

\* What the server makes of a row is a configuration.
LEMMA StoredConfig ==
  ASSUME NEW s, StreamRowOK(s), NoRepeats(s.subjects)
  PROVE  ClusterConfigOK(StoredStream(buildStreamConfig(s)))
  <1> DEFINE r == StoredStream(buildStreamConfig(s))
  <1>1. DOMAIN r = StreamConfigFields BY DEF StoredStream
  <1>2. r["subjects"] = s["subjects"] BY FieldsAreSent, FieldsAreStored
  <1>3. s["subjects"] \in Seq(Nat) BY DEF StreamRowOK
  <1> QED BY <1>1, <1>2, <1>3, StoredNumbers DEF ClusterConfigOK

\* A change of one field leaves a configuration.
LEMMA ChangedConfig ==
  ASSUME ClusterConfigOK(streamConfig), ChangeOnCluster
  PROVE  ClusterConfigOK(streamConfig')
  <1>1. PICK g \in StreamConfigFields \ {"name"} :
          \/ /\ g \in StreamPolicies
             /\ \E p \in StreamNames[g] : streamConfig' = [streamConfig EXCEPT ![g] = p]
          \/ /\ g \in Rates \cup Sizes
             /\ \E d \in DriftSteps : streamConfig' = [streamConfig EXCEPT ![g] = @ + d]
          \/ /\ g \in Flags \cup Texts
             /\ streamConfig' = [streamConfig EXCEPT ![g] = 1 - @]
          \/ /\ g = "subjects"
             /\ \E x \in OtherSubjects :
                  streamConfig' = [streamConfig EXCEPT ![g] = x]
    BY DEF ChangeOnCluster
  <1>2. PICK v : streamConfig' = [streamConfig EXCEPT ![g] = v]
    BY <1>1
  <1>3. DOMAIN streamConfig' = StreamConfigFields
    BY <1>2 DEF ClusterConfigOK
  <1>4. \A f \in StreamConfigFields \ {g} : streamConfig'[f] = streamConfig[f]
    BY <1>2 DEF ClusterConfigOK
  <1>5. Times \cup {"max_bytes", "subjects"} \subseteq StreamConfigFields
    BY DEF Times, StreamConfigFields, Rates, Sizes
  <1>6. CASE g \in Times \cup {"max_bytes"}
    <2>1. g \notin StreamPolicies \cup Flags \cup Texts \cup {"subjects"}
      BY <1>6 DEF Times, StreamPolicies, StreamNames, Flags, Texts
    <2>2. PICK d \in DriftSteps : streamConfig' = [streamConfig EXCEPT ![g] = @ + d]
      BY <1>1, <2>1
    <2>3. streamConfig'[g] = streamConfig[g] + d
      BY <2>2 DEF ClusterConfigOK
    <2>4. d \in Int /\ streamConfig[g] \in Int
      BY <1>6, StreamChoicesAssumption DEF ClusterConfigOK
    <2>5. streamConfig'[g] \in Int BY <2>3, <2>4
    <2> QED BY <1>3, <1>4, <1>5, <1>6, <2>1, <2>5 DEF ClusterConfigOK
  <1>7. CASE g = "subjects"
    <2>1. g \notin StreamPolicies \cup Flags \cup Texts \cup Rates \cup Sizes \cup Times
             \cup {"max_bytes"}
      BY <1>7 DEF Times, StreamPolicies, StreamNames, Flags, Texts, Rates, Sizes
    <2>2. PICK x \in OtherSubjects : streamConfig' = [streamConfig EXCEPT ![g] = x]
      BY <1>1, <2>1
    <2>3. streamConfig'[g] = x
      BY <2>2 DEF ClusterConfigOK
    <2> QED
      BY <1>3, <1>4, <1>5, <1>7, <2>1, <2>3, ShortListsAreWithoutRepeats DEF ClusterConfigOK
  <1>8. CASE g \notin Times \cup {"max_bytes", "subjects"}
    BY <1>3, <1>4, <1>5, <1>8 DEF ClusterConfigOK
  <1> QED BY <1>6, <1>7, <1>8

\* Requests, and changes made on the cluster, keep the invariant.
LEMMA StreamChanges ==
  ASSUME StreamInv, [StreamConfigNext]_streamConfigVars
  PROVE  StreamInv'
  <1>1. CASE CreateStream
    <2>1. PICK f \in DOMAIN StreamChoices, g \in DOMAIN StreamChoices :
            \E v \in StreamChoices[f], w \in StreamChoices[g] :
              stream' = StreamOf(StreamRequest(NecessaryForStream, f, v, g, w))
      BY <1>1 DEF CreateStream
    <2>2. PICK v \in StreamChoices[f], w \in StreamChoices[g] :
            stream' = StreamOf(StreamRequest(NecessaryForStream, f, v, g, w))
      BY <2>1
    <2>3. /\ \A x \in StreamNumbers \cap DOMAIN NecessaryForStream : NecessaryForStream[x] \in Int
          /\ NecessaryForStream["subjects"] \in Seq(Nat)
      BY DEF NecessaryForStream, StreamNumbers, Rates
    <2>4. StreamRowOK(stream')
      BY <2>2, <2>3, StreamChoicesAssumption, StreamRequestNumbers, NewStreamRow
    <2>5. stream' # <<>>
      BY <2>2, StreamKinds DEF StreamOf
    <2> QED BY <1>1, <2>4, <2>5, StoredConfig DEF CreateStream, SynchroniseStream, StreamInv
  <1>2. CASE UpdateStream
    <2>1. PICK f \in DOMAIN StreamUpdates, g \in DOMAIN StreamUpdates :
            \E v \in StreamUpdates[f], w \in StreamUpdates[g] :
              stream' = UpdatedStream(stream, StreamRequest(<<>>, f, v, g, w))
      BY <1>2 DEF UpdateStream
    <2>2. PICK v \in StreamUpdates[f], w \in StreamUpdates[g] :
            stream' = UpdatedStream(stream, StreamRequest(<<>>, f, v, g, w))
      BY <2>1
    <2>3. DOMAIN <<>> = {} OBVIOUS
    <2>4. StreamRowOK(stream) BY <1>2 DEF UpdateStream, StreamInv
    <2>5. StreamRowOK(stream')
      BY <2>2, <2>3, <2>4, StreamChoicesAssumption, StreamRequestNumbers, UpdatedStreamRow
    <2>6. stream' # <<>>
      BY <2>2, StreamKinds DEF UpdatedStream
    <2> QED BY <1>2, <2>5, <2>6, StoredConfig DEF UpdateStream, SynchroniseStream, StreamInv
  <1>3. CASE ChangeOnCluster
    BY <1>3, ChangedConfig DEF ChangeOnCluster, StreamInv
  <1>4. CASE UNCHANGED streamConfigVars
    BY <1>4 DEF streamConfigVars, StreamInv
  <1> QED BY <1>1, <1>2, <1>3, <1>4 DEF StreamConfigNext

\* The invariant holds for any requests, defaults, units and changes.
THEOREM StreamInvariant == StreamConfigSpec => []StreamInv
  <1>1. StreamConfigInit => StreamInv BY DEF StreamConfigInit, StreamInv
  <1> QED BY <1>1, StreamChanges, PTL DEF StreamConfigSpec

-----------------------------------------------------------------------------
\* The conversion to 32 bits keeps what they hold.
LEMMA SmallNumbersAreKept ==
  ASSUME NEW n \in Nat, n < 2 * UnitSize(4)
  PROVE  Int32(n) = n
  <1>1. UnitSize(4) \in Nat \ {0} BY UnitSizes
  <1>2. n % (4 * UnitSize(4)) = n /\ (4 * UnitSize(4)) \div 2 = 2 * UnitSize(4)
    BY <1>1
  <1> QED BY <1>1, <1>2 DEF Int32

\* A limit that the row sets is a limit on the cluster (ConvertToBytes, the zero
\* values that are not sent, and max_msg_size in 32 bits), where the row gives a
\* byte or more, and fewer than 32 bits hold.
THEOREM LimitsAreSet == StreamConfigSpec => []LimitsHold
  <1>1. StreamInv => LimitsHold
    <2> SUFFICES ASSUME StreamInv, inStep PROVE LimitsHold
      BY DEF LimitsHold
    <2> DEFINE k == buildStreamConfig(stream)
    <2>1. StreamRowOK(stream) /\ streamConfig = StoredStream(k)
      BY DEF StreamInv
    <2>2. ASSUME NEW f \in {"max_msgs", "max_age", "max_consumers"}, stream[f] > 0
          PROVE  streamConfig[f] > 0
      <3>1. f \in Rates /\ (f \in Times <=> f = "max_age") BY DEF Rates, Times
      <3>2. stream[f] \in Int BY <2>1, <3>1, RowNumbers
      <3>3. k[f] = IF f = "max_age" THEN 2 * stream[f] ELSE stream[f]
        BY <2>2, <3>1, <3>2, FieldsAreSent DEF Above0
      <3> QED BY <2>1, <2>2, <3>2, <3>3, FieldsAreStored
    <2>3. ASSUME SizeAsked(stream.max_bytes_value, stream.max_bytes_unit) >= 1000
          PROVE  streamConfig.max_bytes > 0
      <3>1. BytesOf(stream, "max_bytes") \in Int /\ BytesOf(stream, "max_bytes") > 0
        BY <2>1, <2>3, RowNumbers, BytesArePositive DEF BytesOf, Sizes
      <3>2. k["max_bytes"] = BytesOf(stream, "max_bytes")
        BY <2>1, <3>1, RowNumbers, FieldsAreSent DEF Sizes
      <3> QED BY <2>1, <3>1, <3>2, FieldsAreStored DEF Sizes
    <2>4. ASSUME SizeAsked(stream.max_msg_size_value, stream.max_msg_size_unit)
                   \in 1000..2000 * UnitSize(4) - 1
          PROVE  streamConfig.max_msg_size > 0
      <3> DEFINE b == BytesOf(stream, "max_msg_size")
                 a == SizeAsked(stream.max_msg_size_value, stream.max_msg_size_unit)
      <3>1. b \in Int /\ b > 0 /\ 1000 * b <= a
        BY <2>1, <2>4, RowNumbers, BytesArePositive DEF BytesOf, Sizes
      <3>2. a \in Int /\ a < 2000 * UnitSize(4) /\ UnitSize(4) \in Nat
        BY <2>4, UnitSizes
      <3>3. b < 2 * UnitSize(4)
        BY <3>1, <3>2
      <3>4. Int32(b) = b
        BY <3>1, <3>3, SmallNumbersAreKept
      <3>5. k["max_msg_size"] = b
        BY <2>1, <3>1, <3>4, RowNumbers, FieldsAreSent DEF Sizes
      <3> QED BY <2>1, <3>1, <3>5, FieldsAreStored DEF Sizes
    <2> QED BY <2>2, <2>3, <2>4 DEF LimitsHold
  <1> QED BY <1>1, StreamInvariant, PTL

\* The name of a policy, in the spelling of the row, is understood.
LEMMA StreamNamesAreUnderstood ==
  ASSUME NEW f \in StreamPolicies, NEW p \in StreamNames[f]
  PROVE  StreamPolicyOf(f, p) = p
  <1>1. p \notin {"Memory", "New"}
    BY DEF StreamPolicies, StreamNames
  <1>2. LowerCase(p) = p BY <1>1 DEF LowerCase
  <1> QED BY <1>2 DEF StreamPolicyOf

\* A field that the cluster can show as the row has it is shown so.
LEMMA StreamFieldsAgree ==
  ASSUME NEW s, StreamRowOK(s), NEW f \in ComparedFields \ StreamNeverAlike(s)
  PROVE  ~ Differs(s, StoredStream(buildStreamConfig(s)), f)
  <1> DEFINE k == buildStreamConfig(s)
             r == StoredStream(k)
  <1>0. (f = "subjects") \/ (f = "max_bytes") \/ f \in Times
          \/ f \in StreamPolicies \cup {"name", "max_msgs", "replicas"} \cup Flags
    BY DEF ComparedFields, Times, Flags
  <1>1. CASE f \in StreamPolicies
    <2>1. f \notin {"subjects", "max_bytes"} \cup Times
      BY <1>1 DEF StreamPolicies, StreamNames, Times
    <2>2. s[f] \in StreamNames[f] BY <1>1 DEF StreamNeverAlike
    <2>3. r[f] = StreamPolicyOf(f, s[f]) BY <1>1, FieldsAreSent, FieldsAreStored
    <2> QED BY <1>1, <2>1, <2>2, <2>3, StreamNamesAreUnderstood DEF Differs, InfoView
  <1>2. CASE f \in Flags \cup {"name"}
    <2>1. f \notin {"subjects", "max_bytes"} \cup Times
      BY <1>2 DEF Flags, Times
    <2>2. r[f] = s[f] BY <1>2, FieldsAreSent, FieldsAreStored DEF Texts
    <2> QED BY <2>1, <2>2 DEF Differs, InfoView
  <1>3. CASE f = "subjects"
    <2>1. r[f] = s[f] BY <1>3, FieldsAreSent, FieldsAreStored
    <2> QED BY <1>3, <2>1 DEF Differs, compareStringSlices
  <1>4. CASE f = "max_bytes"
    <2> DEFINE b == BytesOf(s, f)
    <2>1. b \in Nat1 \cup {-1} /\ Unrounded(s)
      BY <1>4 DEF StreamNeverAlike
    <2>2. Limited(s, f) => b # -1
      BY <1>4, BytesArePositive, RowNumbers DEF BytesOf, Limited
    <2>3. r[f] = b
      BY <1>4, <2>1, <2>2, RowNumbers, FieldsAreSent, FieldsAreStored DEF Nat1, Sizes
    <2>4. InfoView(r, f) = b
      BY <1>4, <2>1, <2>3 DEF InfoView, Unrounded, Times
    <2> QED BY <1>4, <2>4 DEF Differs
  <1>5. CASE f \in Times
    <2>1. f \in Rates /\ f \notin {"subjects", "max_bytes"} /\ f \in {"max_age", "duplicate_window"}
      BY <1>5 DEF Times, Rates
    <2>2. s[f] \in Nat /\ (f = "duplicate_window" => s[f] # 0)
      BY <2>1, RowNumbers DEF StreamNeverAlike, Nat1
    <2>3. k[f] = 2 * s[f] BY <1>5, <2>2, FieldsAreSent DEF Above0
    <2>4. r[f] = 2 * s[f] BY <2>1, <2>2, <2>3, FieldsAreStored
    <2> QED BY <1>5, <2>1, <2>2, <2>4 DEF Differs, InfoView
  <1>6. CASE f \in {"max_msgs", "replicas"}
    <2>1. f \in Rates \ Times /\ f \notin {"subjects", "max_bytes"}
      BY <1>6 DEF Times, Rates
    <2>2. s[f] \in Nat1 \/ (f = "max_msgs" /\ s[f] = -1)
      BY <1>6 DEF StreamNeverAlike
    <2>3. k[f] = IF s[f] = -1 THEN 0 ELSE s[f]
      BY <2>1, <2>2, FieldsAreSent DEF Above0, Nat1
    <2>4. r[f] = s[f]
      BY <1>6, <2>2, <2>3, FieldsAreStored DEF Nat1
    <2> QED BY <2>1, <2>4 DEF Differs, InfoView
  <1> QED BY <1>0, <1>1, <1>2, <1>3, <1>4, <1>5, <1>6

\* The comparison of a stream in step reports no field but those that the cluster
\* cannot show as the row has them.
THEOREM StreamsCompareFairly == StreamConfigSpec => []StreamComparisonIsFair
  <1>1. StreamInv => StreamComparisonIsFair
    BY StreamFieldsAgree DEF StreamInv, StreamComparisonIsFair, compareStreamConfigs
  <1> QED BY <1>1, StreamInvariant, PTL

-----------------------------------------------------------------------------
\* A list of different subjects that are all in one of the same length has all of it.
LEMMA SubjectsAreTheSame ==
  ASSUME NEW a \in Seq(Nat), NEW b \in Seq(Nat), NoRepeats(b), compareStringSlices(a, b)
  PROVE  Range(a) = Range(b)
  <1>1. Len(a) \in Nat /\ Range(a) = {a[i] : i \in 1..Len(a)}
    BY DEF Range
  <1>2. IsFiniteSet(1..Len(a)) /\ Cardinality(1..Len(a)) = Len(a)
    <2> DEFINE n == Len(a)
    <2>1. n \in Int /\ n >= 0 BY <1>1
    <2> HIDE DEF n
    <2>2. Cardinality(1..n) = IF 1 > n THEN 0 ELSE n - 1 + 1
      BY <2>1, FS_Interval
    <2>3. Cardinality(1..n) = n BY <2>1, <2>2
    <2>4. IsFiniteSet(1..n) BY <2>1, FS_Interval
    <2> QED BY <2>3, <2>4 DEF n
  <1>3. IsFiniteSet(Range(a)) /\ Cardinality(Range(a)) <= Len(a)
    <2> DEFINE g == [i \in 1..Len(a) |-> a[i]]
    <2>1. g \in [1..Len(a) -> Range(a)] BY <1>1
    <2>2. \A t \in Range(a) : \E i \in 1..Len(a) : g[i] = t BY <1>1
    <2>3. g \in Surjection(1..Len(a), Range(a)) BY <2>1, <2>2 DEF Surjection
    <2> QED BY <1>2, <2>3, FS_Surjection
  <1>4. Cardinality(Range(b)) = Len(a) /\ Range(b) \subseteq Range(a)
    BY DEF NoRepeats, compareStringSlices
  <1>5. Cardinality(Range(b)) <= Cardinality(Range(a)) /\ Cardinality(Range(a)) \in Nat
    BY <1>3, <1>4, FS_Subset, FS_CardinalityType
  <1>6. Cardinality(Range(b)) = Cardinality(Range(a))
    BY <1>1, <1>3, <1>4, <1>5
  <1> QED BY <1>3, <1>4, <1>6, FS_Subset

\* What can be shown alike, and is not near it, differs.
LEMMA StrayDiffers ==
  ASSUME NEW s, StreamRowOK(s),
         NEW k, k = StoredStream(buildStreamConfig(s)),
         NEW l, ClusterConfigOK(l),
         NEW f \in ComparedFields \ StreamNeverAlike(s),
         ~ Near(f, k[f], l[f])
  PROVE  Differs(s, l, f)
  <1>0. ~ Differs(s, k, f) BY StreamFieldsAgree
  <1>1. CASE f = "subjects"
    <2>1. k[f] = s[f] BY <1>1, FieldsAreSent, FieldsAreStored
    <2>2. s[f] \in Seq(Nat) BY <1>1 DEF StreamRowOK
    <2>3. l[f] \in Seq(Nat) /\ NoRepeats(l[f]) BY <1>1 DEF ClusterConfigOK
    <2>4. Range(s[f]) # Range(l[f]) BY <1>1, <2>1 DEF Near
    <2> QED BY <1>1, <2>2, <2>3, <2>4, SubjectsAreTheSame DEF Differs
  <1>2. CASE f = "max_bytes"
    <2>1. k[f] \in Int /\ l[f] \in Int BY <1>2, StoredNumbers DEF ClusterConfigOK
    <2>2. InfoView(k, f) = Shown(k[f]) /\ InfoView(l, f) = Shown(l[f])
      BY <1>2 DEF InfoView, Shown, Times
    <2>3. BytesOf(s, f) = Shown(k[f]) BY <1>0, <1>2, <2>2 DEF Differs
    <2>4. Shown(k[f]) # Shown(l[f]) BY <1>2, <2>1, SizesAreNear
    <2> QED BY <1>2, <2>2, <2>3, <2>4 DEF Differs
  <1>3. CASE f \in Times
    <2>1. f \notin {"subjects", "max_bytes"} BY <1>3 DEF Times
    <2>2. k[f] \in Int /\ l[f] \in Int BY <1>3, StoredNumbers DEF ClusterConfigOK
    <2>3. k[f] # l[f] /\ (k[f] - l[f]) \notin {-1, 1} BY <1>3 DEF Near
    <2>4. s[f] = k[f] \div 2 BY <1>0, <1>3, <2>1 DEF Differs, InfoView
    <2>5. k[f] \div 2 # l[f] \div 2 BY <2>2, <2>3
    <2> QED BY <1>3, <2>1, <2>4, <2>5 DEF Differs, InfoView
  <1>4. CASE f \notin Times \cup {"subjects", "max_bytes"}
    <2>1. k[f] # l[f] BY DEF Near
    <2> QED BY <1>0, <1>4, <2>1 DEF Differs, InfoView
  <1> QED BY <1>1, <1>2, <1>3, <1>4

\* Whatever the units, sizes, requests and changes, the comparison reports every
\* difference in the fields it looks at; rounding hides no more than is said.
THEOREM StraysAreReported == StreamConfigSpec => []DifferencesAreReported
  <1>1. StreamInv => DifferencesAreReported
    <2> SUFFICES ASSUME StreamInv, stream # <<>>, streamConfig # <<>>,
                        NEW f \in (StreamConfigFields \ Unseen) \ StreamNeverAlike(stream),
                        GoneAstray(f)
                 PROVE  f \in compareStreamConfigs(stream, streamConfig)
      BY DEF DifferencesAreReported, ReportedAmong
    <2>1. f \in ComparedFields
      BY DEF StreamConfigFields, Unseen, ComparedFields, Rates, Flags, Texts, Sizes
    <2>2. StreamRowOK(stream) /\ ClusterConfigOK(streamConfig) BY DEF StreamInv
    <2>3. Differs(stream, streamConfig, f)
      BY <2>1, <2>2, StrayDiffers DEF GoneAstray
    <2> QED BY <2>1, <2>3 DEF compareStreamConfigs
  <1> QED BY <1>1, StreamInvariant, PTL

\* Neither comparison reports a difference that is none: for consumers and streams
\* that go their own ways.
THEOREM ComparisonsAreFair ==
  ConsumerConfigSpec /\ StreamConfigSpec => []ComparisonIsFair
  <1>1. ConsumerComparisonIsFair /\ StreamComparisonIsFair => ComparisonIsFair
    BY DEF ComparisonIsFair
  <1> QED BY <1>1, ConsumersCompareFairly, StreamsCompareFairly, PTL

=============================================================================
