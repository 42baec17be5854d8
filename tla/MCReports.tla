------------------------------ MODULE MCReports ------------------------------
(***************************************************************************)
(* Instances of JWTTaskStats, ApiAnswers, ConsumerConfig and StreamConfig  *)
(* for TLC: what the program tells its clients.  The four share nothing:   *)
(* to bound the instance, one of them is at work in a behaviour.           *)
(***************************************************************************)
EXTENDS JWTTaskStats, ApiAnswers, ConsumerConfig, StreamConfig

CONSTANTS t1, t2, t3

VARIABLE part    \* bound: the one at work

ThreeTasks == {t1, t2, t3}

\* Requests for consumers: names in the spelling of the row, in others, and none.
CreateOptions ==
  [consumer_type |-> {"push", "pull"},
   deliver_policy |-> {"all", "LAST", "by_start_sequence", "by_start_time",
                       "last_per_subject", "later"},
   ack_policy |-> {"all", "none", "AckNone", "maybe"},
   replay_policy |-> {"Original"},
   start_seq |-> {0, 7}, opt_start_seq |-> {7, 8}, start_time |-> {5},
   opt_start_time |-> {6}, ack_wait |-> {1, 4}, max_deliver |-> {-1, 0, 3},
   backoff |-> {4}, filter_subject |-> {1}, filter_subjects |-> {2},
   rate_limit_bps |-> {0, 2}, rate_limit |-> {3}, max_waiting |-> {9},
   max_ack_pending |-> {5}, max_batch |-> {0, 4}, max_bytes |-> {4},
   max_expires |-> {4}, max_request_batch |-> {6}, deliver_group |-> {1},
   flow_control |-> {1}, idle_heartbeat |-> {1, 10}, inactive_threshold |-> {3},
   replicas |-> {-1, 1}, memory_storage |-> {1}]

UpdateOptions ==
  [mode |-> {"push", "pull"}, consumer_type |-> {"push", "pull"},
   deliver_policy |-> {"by_start_sequence", "last_per_subject"},
   ack_policy |-> {"none", "AckNone"}, ack_wait |-> {0, 4}, max_deliver |-> {0},
   filter_subject |-> {1}, rate_limit_bps |-> {0, 2}, rate_limit |-> {0},
   max_waiting |-> {0, 9}, max_ack_pending |-> {0}, max_batch |-> {4},
   deliver_subject |-> {1}, deliver_group |-> {0, 1}, flow_control |-> {0, 1},
   idle_heartbeat |-> {10}, replicas |-> {-1, 3}]

\* Sizes at the boundaries of one byte, of two decimals and of 32 bits.
StreamOptions ==
  [subjects |-> {<<1, 1>>, <<1>>},
   storage |-> {"memory", "Memory", "ram"}, discard |-> {"New"},
   compression |-> {"s2", "zip"}, retention |-> {"workqueue"},
   max_msgs |-> {-1, 5}, max_bytes_value |-> {500, 1234, 2000, -500},
   max_bytes_unit |-> {"KB", "TB", "XB"}, max_age |-> {-1, 60},
   max_msg_size_value |-> {1, 500, 2000}, max_msg_size_unit |-> {"KB", "GB"},
   max_consumers |-> {3}, replicas |-> {0, 3}, duplicate_window |-> {-1, 30},
   allow_direct |-> {1}, placement_tags |-> {1}]

StreamUpdateOptions ==
  [subjects |-> {<<1, 1>>, <<3, 1>>}, storage |-> {"memory"}, max_msgs |-> {0, 5},
   max_bytes_value |-> {0, 1234, -1000}, max_bytes_unit |-> {"B", "GB"},
   max_age |-> {0}, max_msg_size_value |-> {2000}, max_msg_size_unit |-> {"TB"},
   max_consumers |-> {0}, duplicate_window |-> {30}, allow_direct |-> {0, 1}]

Drifts == {-2, 1, 7, 1000}

Parts == {"statistics", "answers", "consumers", "streams"}

ReportsInit ==
  /\ part \in Parts
  /\ StatsInit
  /\ IF part = "answers" THEN ApiInit
     ELSE ApiInit /\ endpoint = GetCluster /\ request = "good"
  /\ ConsumerConfigInit
  /\ StreamConfigInit

ReportsNext ==
  \/ /\ part = "statistics"
     /\ StatsNext
     /\ UNCHANGED <<apiVars, consumerConfigVars, streamConfigVars, part>>
  \/ /\ part = "answers"
     /\ ApiNext
     /\ UNCHANGED <<vars, statVars, consumerConfigVars, streamConfigVars, part>>
  \/ /\ part = "consumers"
     /\ ConsumerConfigNext
     /\ UNCHANGED <<vars, statVars, apiVars, streamConfigVars, part>>
  \/ /\ part = "streams"
     /\ StreamConfigNext
     /\ UNCHANGED <<vars, statVars, apiVars, consumerConfigVars, part>>

ReportsSpec ==
  ReportsInit /\ [][ReportsNext]_<<vars, statVars, apiVars, consumerConfigVars,
                                   streamConfigVars, part>>

\* After a synchronisation neither comparison reports a difference that is none,
\* but for the fields that the cluster cannot show as the row has them.
ComparisonIsFair == ConsumerComparisonIsFair /\ StreamComparisonIsFair
=============================================================================
