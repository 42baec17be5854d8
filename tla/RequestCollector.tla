-------------------------- MODULE RequestCollector --------------------------
(***************************************************************************)
(* ListServers: RequestMessage publishes a request with an inbox of its    *)
(* own, and the subscription's goroutine hands each answer to the          *)
(* collector and counts it; when the expected number is reached it closes  *)
(* a channel.  The caller waits for that or for the time-out, unsubscribes *)
(* and reads the collector's answers, without its lock, twice: the answers *)
(* and their number.                                                       *)
(***************************************************************************)
EXTENDS Naturals, FiniteSets

CONSTANTS
  Servers,       \* the servers that will answer
  MaxExpected    \* bound: the number of answers the caller expects

ASSUME CollectorAssumption == IsFiniteSet(Servers) /\ MaxExpected \in Nat

VARIABLES
  expected,    \* answers expected, 0 for as many as come in time
  garbled,     \* the servers whose answers cannot be parsed
  inbox,       \* answers on their way
  taken,       \* the answer the subscription's goroutine has taken, at most one
  callback,    \* that goroutine: "idle", "handling", "counting"
  count,       \* responseCount
  responses,   \* the collector's answers
  closed,      \* is the channel "done" closed
  caller,      \* where the caller is
  answer,      \* what the caller has read
  crashed      \* has the goroutine closed a closed channel: the process dies

collectorVars == <<expected, garbled, inbox, taken, callback, count, responses, closed,
                   caller, answer, crashed>>

CollectorInit ==
  /\ expected \in 0..MaxExpected
  /\ garbled \in SUBSET Servers
  /\ inbox = Servers
  /\ taken = {}
  /\ callback = "idle"
  /\ count = 0
  /\ responses = {}
  /\ closed = FALSE
  /\ caller = "waiting"
  /\ answer = [servers |-> {}, total |-> 0, reason |-> "none"]
  /\ crashed = FALSE

-----------------------------------------------------------------------------
Enough(n) == expected > 0 /\ n >= expected

\* Mutant of TakeAnswer: the subscription is not ended before the reads.
TakeLateAnswer(s) ==
  /\ ~ crashed
  /\ s \in inbox
  /\ callback = "idle"
  /\ inbox' = inbox \ {s}
  /\ taken' = {s}
  /\ callback' = "handling"
  /\ UNCHANGED <<expected, garbled, count, responses, closed, caller, answer, crashed>>

\* The goroutine takes an answer as long as there is a subscription.
TakeAnswer(s) ==
  /\ ~ crashed
  /\ s \in inbox
  /\ callback = "idle"
  /\ caller \in {"waiting", "returning"}
  /\ inbox' = inbox \ {s}
  /\ taken' = {s}
  /\ callback' = "handling"
  /\ UNCHANGED <<expected, garbled, count, responses, closed, caller, answer, crashed>>

\* The collector keeps it, unless it has finished or cannot parse it.
HandleResponse ==
  /\ ~ crashed
  /\ callback = "handling"
  /\ taken' = {}
  /\ callback' = "counting"
  /\ responses' = IF Enough(Cardinality(responses)) THEN responses
                  ELSE responses \union (taken \ garbled)
  /\ UNCHANGED <<expected, garbled, inbox, count, closed, caller, answer, crashed>>

\* Mutant of CountResponse: one answer too few is enough.
CountResponseEarly ==
  /\ ~ crashed
  /\ callback = "counting"
  /\ callback' = "idle"
  /\ count' = count + 1
  /\ closed' = (closed \/ Enough(count + 2))
  /\ crashed' = (closed /\ Enough(count + 2))
  /\ UNCHANGED <<expected, garbled, inbox, taken, responses, caller, answer>>

\* The callback counts the answer, whatever it was.  Closing a channel twice panics.
CountResponse ==
  /\ ~ crashed
  /\ callback = "counting"
  /\ callback' = "idle"
  /\ count' = count + 1
  /\ closed' = (closed \/ Enough(count + 1))
  /\ crashed' = (closed /\ Enough(count + 1))
  /\ UNCHANGED <<expected, garbled, inbox, taken, responses, caller, answer>>

\* The select: the channel or the time-out, when both are ready any of them.
StopWaiting ==
  /\ ~ crashed
  /\ caller = "waiting"
  /\ \E why \in IF closed THEN {"done", "timeout"} ELSE {"timeout"} :
       answer' = [answer EXCEPT !.reason = why]
  /\ caller' = "returning"
  /\ UNCHANGED <<expected, garbled, inbox, taken, callback, count, responses, closed, crashed>>

\* The deferred calls: no further answer is handed to the goroutine, which may
\* still be busy with one.
Unsubscribe ==
  /\ ~ crashed
  /\ caller = "returning"
  /\ caller' = "reading"
  /\ UNCHANGED <<expected, garbled, inbox, taken, callback, count, responses, closed,
                 answer, crashed>>

ReadServers ==
  /\ ~ crashed
  /\ caller = "reading"
  /\ caller' = "counting"
  /\ answer' = [answer EXCEPT !.servers = responses]
  /\ UNCHANGED <<expected, garbled, inbox, taken, callback, count, responses, closed, crashed>>

ReadTotal ==
  /\ ~ crashed
  /\ caller = "counting"
  /\ caller' = "answered"
  /\ answer' = [answer EXCEPT !.total = Cardinality(responses)]
  /\ UNCHANGED <<expected, garbled, inbox, taken, callback, count, responses, closed, crashed>>

Caller == StopWaiting \/ Unsubscribe \/ ReadServers \/ ReadTotal

CollectorNext ==
  \/ \E s \in Servers : TakeAnswer(s)
  \/ HandleResponse
  \/ CountResponse
  \/ Caller

CollectorSpec == CollectorInit /\ [][CollectorNext]_collectorVars

-----------------------------------------------------------------------------
\* Answers and their number are read apart and without the collector's lock: at
\* most the one answer the goroutine was busy with is counted and not listed.
AnswerIsConsistent ==
  caller = "answered" =>
    /\ Cardinality(answer.servers) <= answer.total
    /\ answer.total <= Cardinality(answer.servers) + 1

\* An answer given because enough servers had answered lacks no more than those
\* whose answers could not be parsed, and never lists more than were expected.
EnoughMeansEnough ==
  caller \in {"counting", "answered"} /\ expected > 0 =>
    /\ Cardinality(answer.servers) <= expected
    /\ answer.reason = "done" =>
         Cardinality(answer.servers) + Cardinality(garbled) >= expected

\* The process dies only if more servers answer than the caller expects.
NoSurplusNoPanic ==
  crashed => expected > 0 /\ Cardinality(Servers) > expected
=============================================================================
