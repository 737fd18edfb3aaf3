--------------------------- MODULE CaseLifecycle ---------------------------
(***************************************************************************)
(* What a case goes through, seen from outside: it is created NEW, advances *)
(* one stage at a time to CLOSED, or is cancelled before that; each stage   *)
(* is entered once; and exactly the party a stage waits for has a deadline. *)
(***************************************************************************)
EXTENDS Integers

CONSTANTS Cases, Absent

VARIABLES
  stage,     \* the status of each case, Absent before there is one
  entered,   \* how often each case has entered each status
  timers     \* the deadlines each case has running

lifecycleVars == <<stage, entered, timers>>

Path == <<Absent, "NEW", "WAITING_CLIENT", "WAITING_MODERATOR", "CLOSED">>
Statuses == {"NEW", "WAITING_CLIENT", "WAITING_MODERATOR", "CLOSED", "CANCELLED"}

\* The deadlines that run in a status.
Timers(status) ==
  [client |-> status = "WAITING_CLIENT", moderator |-> status = "WAITING_MODERATOR"]

LifecycleInit ==
  /\ stage = [c \in Cases |-> Absent]
  /\ entered = [c \in Cases |-> [status \in Statuses |-> 0]]
  /\ timers = [c \in Cases |-> Timers(Absent)]

Enter(c, status) ==
  /\ entered[c][status] = 0
  /\ stage' = [stage EXCEPT ![c] = status]
  /\ entered' = [entered EXCEPT ![c][status] = 1]
  /\ timers' = [timers EXCEPT ![c] = Timers(status)]

Advance(c) == \E i \in 1..4 : stage[c] = Path[i] /\ Enter(c, Path[i + 1])

Cancel(c) ==
  /\ stage[c] \in {"NEW", "WAITING_CLIENT", "WAITING_MODERATOR"}
  /\ Enter(c, "CANCELLED")

LifecycleNext == \E c \in Cases : Advance(c) \/ Cancel(c)

LifecycleSpec == LifecycleInit /\ [][LifecycleNext]_lifecycleVars
=============================================================================
