--------------------------- MODULE TaskLifecycle ---------------------------
(***************************************************************************)
(* What the table of JWT tasks promises to the operator who watches it: a  *)
(* task is created pending, is executed one attempt at a time, gives up    *)
(* after MaxRetries failed attempts, never leaves "completed", and is      *)
(* given a fresh set of attempts when an operator retries it.  Nothing is  *)
(* said here about who executes a task, in which order, or about the       *)
(* copies of a row held in memory.                                         *)
(***************************************************************************)
EXTENDS Naturals

CONSTANTS
  Tasks,       \* the task identifiers (uuid.New in createJWTTask)
  MaxRetries   \* JWTTask.MaxRetries, 3 for every task the services create

ASSUME MaxRetriesAssumption == MaxRetries \in Nat \ {0}

VARIABLES
  status,      \* status[t]: the Status column, "absent" before the insert
  attempts     \* attempts[t]: the Retries column

vars == <<status, attempts>>

Waiting == {"pending", "retrying"}

Init ==
  /\ status = [t \in Tasks |-> "absent"]
  /\ attempts = [t \in Tasks |-> 0]

Move(t, from, to, n) ==
  /\ status[t] \in from
  /\ status' = [status EXCEPT ![t] = to]
  /\ attempts' = [attempts EXCEPT ![t] = n]

Create(t)  == Move(t, {"absent"}, "pending", 0)
Begin(t)   == Move(t, Waiting, "processing", attempts[t])
Succeed(t) == Move(t, {"processing"}, "completed", attempts[t])

\* A failed attempt that leaves another one, and the one that does not.
FailAttempt(t) ==
  /\ attempts[t] + 1 < MaxRetries
  /\ Move(t, {"processing"}, "retrying", attempts[t] + 1)

GiveUp(t) ==
  /\ attempts[t] + 1 = MaxRetries
  /\ Move(t, {"processing"}, "failed", MaxRetries)

OperatorRetry(t) == Move(t, {"failed"}, "pending", 0)

Next ==
  \E t \in Tasks :
    \/ Create(t)
    \/ Begin(t)
    \/ Succeed(t)
    \/ FailAttempt(t)
    \/ GiveUp(t)
    \/ OperatorRetry(t)

Spec == Init /\ [][Next]_vars
=============================================================================
