------------------------------- MODULE Store -------------------------------
(***************************************************************************)
(* The tables of the SQLite database that every service reads and writes   *)
(* (db/models), and the clock the services read.  A statement sees the     *)
(* last committed rows; a transaction that has written holds SQLite's      *)
(* single write lock until it ends, so its writes are one atomic step.     *)
(*                                                                         *)
(* Texts, references, reasons and timestamps that no decision reads are    *)
(* left out; closed_at and cancelled_at are kept as "has been set".        *)
(***************************************************************************)
EXTENDS Integers, Sequences, FiniteSets

CONSTANTS
  Cases,        \* public ids a case may be given
  Messages,     \* external message ids of client replies
  Moderators,   \* moderator ids
  Keys,         \* idempotency keys of deliveries
  None,         \* SQL NULL, and "no row"
  MaxClock      \* bound: the last instant of a run

ASSUME NoneAssumption == None \notin Nat /\ None \notin Cases
ASSUME MaxClockAssumption == MaxClock \in Nat

VARIABLES
  clock,        \* utc_now(), in minutes
  cases,        \* table cases: the row of each public id, None before it exists
  history,      \* table case_events: the events of each case in id order
  replies       \* table client_replies: the case that owns each message id

storeVars == <<clock, cases, history, replies>>

CaseStatus == {"NEW", "WAITING_CLIENT", "WAITING_MODERATOR", "CLOSED", "CANCELLED"}

CaseEventType ==
  {"CASE_CREATED", "CLIENT_REQUEST_SENT", "CLIENT_REPLY_RECEIVED",
   "MODERATOR_NOTIFIED", "CLIENT_REMINDER_SENT", "MODERATOR_REMINDER_SENT",
   "CASE_ESCALATED", "MODERATOR_CHANGED", "USER_ANSWER_CONFIRMED",
   "CASE_CLOSED", "CASE_CANCELLED", "DELIVERY_FAILED", "DELIVERY_RETRIED"}

Assignees == Moderators \cup {None}
Deadline == Nat \cup {None}

\* A row of table cases.
CaseRow ==
  [status : CaseStatus, moderator : Assignees,
   clientDeadline : Deadline, moderatorDeadline : Deadline,
   closed : BOOLEAN, cancelled : BOOLEAN]

ASSUME NoRowAssumption == None \notin CaseRow /\ None \notin CaseStatus

(***************************************************************************)
(* What an event's metadata and deduplication key say that a property      *)
(* reads: the reply it records, the old and the new moderator, the         *)
(* delivery key and attempt number, or the SLA action it acknowledges.     *)
(***************************************************************************)
SlaActionType ==
  {"REMIND_CLIENT", "REMIND_MODERATOR", "ESCALATE_CLIENT_WAIT",
   "ESCALATE_MODERATOR_WAIT"}
SlaAction == SlaActionType \X {1, 2, None}

ASSUME NoReferenceAssumption == None \notin Keys \X Nat

Reference ==
  {None} \cup Messages \cup (Assignees \X Assignees) \cup (Keys \X Nat)
    \cup SlaAction

CaseEvent == [type : CaseEventType, ref : Reference]
Event(type, ref) == [type |-> type, ref |-> ref]

StoreTypeOK ==
  /\ clock \in 0..MaxClock
  /\ cases \in [Cases -> CaseRow \cup {None}]
  /\ history \in [Cases -> Seq(CaseEvent)]
  /\ replies \in [Messages -> Cases \cup {None}]

StoreInit ==
  /\ clock = 0
  /\ cases = [c \in Cases |-> None]
  /\ history = [c \in Cases |-> << >>]
  /\ replies = [m \in Messages |-> None]

\* A route takes the time (get_current_time) before its handler starts to read:
\* by then it may have passed.
RequestTimes == 0..clock

\* Time passes: up to MaxClock.
Tick ==
  /\ clock < MaxClock
  /\ clock' = clock + 1
  /\ UNCHANGED <<cases, history, replies>>
=============================================================================
