----------------------------- MODULE ApiAnswers -----------------------------
(***************************************************************************)
(* A client sends a request to an endpoint and repeats it when the answer  *)
(* says that something failed.  One step of one attempt may fail.          *)
(***************************************************************************)
EXTENDS ApiHandlers, FiniteSets

CONSTANTS
  MaxApiFaults,    \* bound: steps that fail
  MaxAttempts      \* bound: how often the request is sent

ASSUME ApiAssumption == MaxApiFaults \in Nat /\ MaxAttempts \in Nat \ {0}

VARIABLES
  endpoint,    \* the endpoint asked
  request,     \* what the request is like
  found,       \* the records there are
  pos,         \* the next step of the handler
  done,        \* how often each effect has taken place
  acted,       \* has this attempt had an effect
  incomplete,  \* has a step failed that is only counted
  attempt, faults,
  answer,      \* the status code, 0 before
  cause        \* why this answer: "none", the kind of the step, or "fault"

apiVars == <<endpoint, request, found, pos, done, acted, incomplete, attempt,
             faults, answer, cause>>

Elements(s) == {s[i] : i \in DOMAIN s}
Named(steps, kinds) == {s.on : s \in {t \in Elements(steps) : t.kind \in kinds}}

\* What a handler needs, and what it promises: what it may skip or try is not
\* promised, but for the requests that need it.
Records(e) == Named(e.script, {"find", "each"})
Promised(e) == Named(e.script, {"insert", "save", "remove", "tell", "erase",
                             "each", "spawn"})

\* Good requests, requests that need no more than the necessary steps, requests
\* that cannot be parsed, requests that what is stored does not allow, and
\* requests for records that are not there.
Requests == {"good", "brief", "malformed", "unwelcome", "dangling"}

ApiInit ==
  /\ endpoint \in Endpoints
  /\ request \in Requests
  /\ found \in IF request = "dangling" THEN SUBSET Records(endpoint)
                ELSE {Records(endpoint)}
  /\ pos = 1
  /\ done = [x \in Named(endpoint.script, {s.kind : s \in Elements(endpoint.script)})
               |-> 0]
  /\ acted = FALSE
  /\ incomplete = FALSE
  /\ attempt = 1
  /\ faults = 0
  /\ answer = 0
  /\ cause = "none"

-----------------------------------------------------------------------------
Running == answer = 0 /\ pos <= Len(endpoint.script)
Here == endpoint.script[pos]
ChecksLeft == \E i \in pos + 1..Len(endpoint.script) :
                endpoint.script[i].kind = "check"

\* May the step refuse the request, and may it let it through?
MayRefuse(s) ==
  \/ s.kind = "never"
  \/ s.kind = "check" /\ request = "malformed"
  \/ s.kind = "rule" /\ request = "unwelcome"
  \/ s.kind = "find" /\ s.on \notin found
  \/ s.kind = "unique" /\ done[s.on] > 0

MayPass(s) ==
  \/ ~ MayRefuse(s)
  \/ s.kind = "check" /\ ChecksLeft
  \/ s.kind = "rule"

Answer(code, why) ==
  /\ answer' = code
  /\ cause' = why

Refuse ==
  /\ Running
  /\ MayRefuse(Here)
  /\ Answer(Here.no, Here.kind)
  /\ UNCHANGED <<endpoint, request, found, pos, done, acted, incomplete, attempt, faults>>

\* The effect of a step.
Do(s) ==
  /\ done' = [done EXCEPT ![s.on] =
                CASE s.kind = "insert" -> @ + 1
                  [] s.kind \in {"save", "remove", "tell", "erase", "spawn", "try",
                                 "each"} -> 1
                  [] OTHER -> @]
  /\ found' = IF s.kind \in {"remove", "erase", "each"} THEN found \ {s.on} ELSE found
  /\ acted' = (acted \/ done' # done)

Skips(s) == s.kind = "skip" /\ (done[s.on] > 0 \/ request = "brief")
Misses(s) == s.kind = "each" /\ s.on \notin found

Pass ==
  /\ Running
  /\ MayPass(Here)
  /\ IF Misses(Here)
       THEN incomplete' = TRUE /\ UNCHANGED <<done, found, acted>>
       ELSE Do(Here) /\ UNCHANGED incomplete
  /\ pos' = pos + 1 + (IF Skips(Here) THEN Here.skip ELSE 0)
  /\ UNCHANGED <<endpoint, request, attempt, faults, answer, cause>>

\* The step fails, and the handler answers.  A change of a cluster may fail with
\* a time-out and yet have taken place.
Fail ==
  /\ Running
  /\ Here.fail # 0
  /\ faults < MaxApiFaults
  /\ faults' = faults + 1
  /\ Answer(Here.fail, "fault")
  /\ \/ UNCHANGED <<done, found, acted>>
     \/ Here.kind \in {"tell", "erase"} /\ Do(Here)
  /\ UNCHANGED <<endpoint, request, pos, incomplete, attempt>>

\* The step fails, and the handler goes on.
FailQuietly ==
  /\ Running
  /\ Here.kind \in {"try", "each"}
  /\ faults < MaxApiFaults
  /\ faults' = faults + 1
  /\ incomplete' = (incomplete \/ Here.kind = "each")
  /\ pos' = pos + 1
  /\ UNCHANGED <<endpoint, request, found, done, acted, attempt, answer, cause>>

Finish ==
  /\ answer = 0
  /\ pos > Len(endpoint.script)
  /\ Answer(IF incomplete THEN endpoint.partly ELSE endpoint.ok, "none")
  /\ UNCHANGED <<endpoint, request, found, pos, done, acted, incomplete, attempt, faults>>

\* The client sends the request again if its answer tells of a failure.
Repeat ==
  /\ cause = "fault" \/ (answer # 0 /\ answer # endpoint.ok /\ incomplete)
  /\ attempt < MaxAttempts
  /\ attempt' = attempt + 1
  /\ pos' = 1
  /\ acted' = FALSE
  /\ incomplete' = FALSE
  /\ answer' = 0
  /\ cause' = "none"
  /\ UNCHANGED <<endpoint, request, found, done, faults>>

ApiNext == Refuse \/ Pass \/ Fail \/ FailQuietly \/ Finish \/ Repeat

ApiSpec == ApiInit /\ [][ApiNext]_apiVars

-----------------------------------------------------------------------------
\* A request answered with a 4xx code has changed nothing: whatever a client is
\* told to correct, it may correct and send again.  The handlers check before
\* they write, and what fails after the first write is answered 500.
ClientErrorsChangeNothing == answer \in 400..499 => ~ acted

\* Repeating a request that failed brings it to its end: no step is left out, none
\* is taken twice, but the deletions that failed again, whose records are still
\* there; except where the first attempt stands in the way of the second, or its
\* record is inserted once more.
HalfDone == {CreateAccount, AddAccountExport, AddAccountImport,
             RemoveAccountExport, RemoveAccountImport, CreateAccountAssociation,
             CreateUser, DeleteClusterJetStreamStream, DeleteClusterJetStreamConsumer}

RetryFinishes ==
  attempt > 1 /\ answer # 0 /\ cause # "fault" /\ request = "good"
    /\ endpoint \notin HalfDone =>
      \A x \in Promised(endpoint) :
        \/ done[x] = 1
        \/ incomplete /\ done[x] = 0 /\ x \in found

\* Every answer is one that the handler's documentation lists, except the two
\* that come from a text or a count: 403 when no server responds, and 206.
AnswersAreDocumented ==
  answer # 0 =>
    \/ answer \in endpoint.docs
    \/ endpoint = ListClusterServers /\ answer = 403
    \/ endpoint = BatchDeleteJetStreams /\ answer = 206
=============================================================================
