---------------------------- MODULE CaseService ----------------------------
(***************************************************************************)
(* CaseService: the case commands, run by the request threads of FastAPI.  *)
(*                                                                         *)
(* Each thread has its own SQLAlchemy session.  A command first SELECTs    *)
(* the case, outside any transaction, and decides on that loaded row; its  *)
(* writes are flushed and committed later, in one transaction.  The UPDATE *)
(* has no version check, sets only the columns whose value differs from    *)
(* the loaded row, and finds whatever row is stored by then.  A call is    *)
(* therefore a read step and an atomic write step between which any other  *)
(* call may run.                                                           *)
(*                                                                         *)
(* A definition that says it is a fault is a mistake the one below it      *)
(* could contain; nothing uses it.                                         *)
(***************************************************************************)
EXTENDS Store

CONSTANTS
  Requests,            \* threads that serve case commands
  ClientMinutes,       \* settings.client_reminder_1_minutes
  ModeratorMinutes,    \* settings.moderator_reminder_1_minutes
  MaxHistory           \* bound: a command goes on only if the history is shorter

ASSUME MinutesAssumption ==
  ClientMinutes \in Nat \ {0} /\ ModeratorMinutes \in Nat \ {0}
ASSUME MaxHistoryAssumption == MaxHistory \in Nat

VARIABLE calls         \* the command each thread is serving

caseVars == <<clock, cases, history, replies, calls>>

Operations == {"mark", "reply", "confirm", "cancel", "reassign"}
Answers ==
  {"applied", "already", "rejected", "conflict", "not_found", "failed"}

ASSUME NoAnswerAssumption == None \notin Answers

Idle ==
  [phase |-> "idle", op |-> None, case |-> None, arg |-> None,
   loaded |-> None, now |-> 0, answer |-> None]

(***************************************************************************)
(* "loaded": the case has been read.  "staged": the command has decided to *)
(* write, the changes are in its session and not yet flushed.              *)
(***************************************************************************)
Call ==
  [phase : {"idle", "loaded", "staged", "answered"},
   op : Operations \cup {None}, case : Cases \cup {None},
   arg : Messages \cup Assignees, loaded : CaseRow \cup {None},
   now : Nat, answer : Answers \cup {None}]

-----------------------------------------------------------------------------
(* Decisions on the loaded row. *)

\* A fault: a closed case can still be cancelled.
AllowedFromAnyStatus(from, to) ==
  \/ from = "NEW" /\ to \in {"WAITING_CLIENT", "CANCELLED"}
  \/ from = "WAITING_CLIENT" /\ to \in {"WAITING_MODERATOR", "CANCELLED"}
  \/ from \in {"WAITING_MODERATOR", "CLOSED"} /\ to \in {"CLOSED", "CANCELLED"}

\* ALLOWED_TRANSITIONS and transition_case.
Allowed(from, to) ==
  \/ from = "NEW" /\ to \in {"WAITING_CLIENT", "CANCELLED"}
  \/ from = "WAITING_CLIENT" /\ to \in {"WAITING_MODERATOR", "CANCELLED"}
  \/ from = "WAITING_MODERATOR" /\ to \in {"CLOSED", "CANCELLED"}

\* A fault: any case that has left NEW counts as "already done".
ReachedByAnyMove(row, to) == row.status # "NEW"

\* A repeated command is recognised by the status it leads to.
Reached(row, to) == row.status = to

Target == [mark |-> "WAITING_CLIENT", confirm |-> "CLOSED", cancel |-> "CANCELLED"]

\* A fault: neither the lookup nor the unique index recognises a stored id.
ReplyNeverTaken(m) == FALSE

\* Another call has stored the message id already: by lookup, or by the unique index.
ReplyTaken(m) == replies[m] # None

-----------------------------------------------------------------------------
(* The row a flush leaves, from the stored row and the loaded one. *)

\* Faults: the sign of the interval is lost; no deadline is set.
DeadlineBefore(now, minutes) == now - minutes
NoDeadline(now, minutes) == None
DeadlineAfter(now, minutes) == now + minutes

\* "deadline = None" is written only if the session had loaded a deadline.
Cleared(stored, loaded) == IF loaded = None THEN stored ELSE None

SentRow(stored, loaded, now) ==
  [stored EXCEPT
     !.status = "WAITING_CLIENT",
     !.clientDeadline = DeadlineAfter(now, ClientMinutes),
     !.moderatorDeadline = Cleared(@, loaded.moderatorDeadline)]

RepliedRow(stored, loaded, now) ==
  [stored EXCEPT
     !.status = "WAITING_MODERATOR",
     !.clientDeadline = Cleared(@, loaded.clientDeadline),
     !.moderatorDeadline = DeadlineAfter(now, ModeratorMinutes)]

ClosedRow(stored, loaded) ==
  [stored EXCEPT
     !.status = "CLOSED",
     !.closed = TRUE,
     !.clientDeadline = Cleared(@, loaded.clientDeadline),
     !.moderatorDeadline = Cleared(@, loaded.moderatorDeadline)]

\* Faults, here and below: every column of the loaded row is written back.
CancelledStaleRow(stored, loaded) ==
  [loaded EXCEPT !.status = "CANCELLED", !.cancelled = TRUE,
                 !.clientDeadline = None, !.moderatorDeadline = None]
CancelledRow(stored, loaded) ==
  [stored EXCEPT
     !.status = "CANCELLED",
     !.cancelled = TRUE,
     !.clientDeadline = Cleared(@, loaded.clientDeadline),
     !.moderatorDeadline = Cleared(@, loaded.moderatorDeadline)]

ReassignedStaleRow(stored, loaded, moderator) ==
  [loaded EXCEPT !.moderator = moderator]
ReassignedRow(stored, loaded, moderator) == [stored EXCEPT !.moderator = moderator]

-----------------------------------------------------------------------------
(* The steps of a call. *)

Free(r) == calls[r].phase = "idle"

\* The call goes on with the row it has just read and the time it is.
Hold(r, phase, op, c, arg) ==
  /\ Len(history[c]) < MaxHistory
  /\ calls' = [calls EXCEPT ![r] =
                 [phase |-> phase, op |-> op, case |-> c, arg |-> arg,
                  loaded |-> cases[c], now |-> clock, answer |-> None]]

\* The call ends; its session drops what it had loaded.
Respond(r, op, c, arg, answer) ==
  calls' = [calls EXCEPT ![r] =
              [Idle EXCEPT !.phase = "answered", !.op = op, !.case = c,
                           !.arg = arg, !.answer = answer]]

Finish(r, answer) ==
  Respond(r, calls[r].op, calls[r].case, calls[r].arg, answer)

\* The case row is inserted, with its first event, in one transaction.
CreateCase(c, m) ==
  /\ cases[c] = None
  /\ cases' = [cases EXCEPT ![c] =
                 [status |-> "NEW", moderator |-> m,
                  clientDeadline |-> None, moderatorDeadline |-> None,
                  closed |-> FALSE, cancelled |-> FALSE]]
  /\ history' = [history EXCEPT ![c] = Append(@, Event("CASE_CREATED", None))]
  /\ UNCHANGED <<clock, replies, calls>>

RejectUnknownCase(r, op, c, arg) ==
  /\ Free(r)
  /\ cases[c] = None
  /\ Respond(r, op, c, arg, "not_found")
  /\ UNCHANGED storeVars

\* mark_client_request_sent, confirm_user_answered, cancel_case: read and decide.
ReceiveTransition(r, op, c) ==
  /\ Free(r)
  /\ cases[c] # None
  /\ \/ /\ Reached(cases[c], Target[op])
        /\ Respond(r, op, c, None, "already")
     \/ /\ ~Reached(cases[c], Target[op])
        /\ ~Allowed(cases[c].status, Target[op])
        /\ Respond(r, op, c, None, "rejected")
     \/ /\ ~Reached(cases[c], Target[op])
        /\ Allowed(cases[c].status, Target[op])
        /\ Hold(r, "staged", op, c, None)
  /\ UNCHANGED storeVars

\* reassign_moderator: read and decide; any status will do.
ReceiveReassign(r, c, moderator) ==
  /\ Free(r)
  /\ cases[c] # None
  /\ \/ /\ cases[c].moderator = moderator
        /\ Respond(r, "reassign", c, moderator, "already")
     \/ /\ cases[c].moderator # moderator
        /\ Hold(r, "staged", "reassign", c, moderator)
  /\ UNCHANGED storeVars

\* record_client_reply reads the case first ...
ReceiveReply(r, c, m) ==
  /\ Free(r)
  /\ cases[c] # None
  /\ Hold(r, "loaded", "reply", c, m)
  /\ UNCHANGED storeVars

\* A stored message id is a repetition for its own case, a conflict for another.
ReplyAnswer(m, c) == IF replies[m] = c THEN "already" ELSE "conflict"

\* ... and then looks the message id up, before it checks the transition.
LookUpReply(r) ==
  /\ calls[r].phase = "loaded"
  /\ LET m == calls[r].arg  legal == Allowed(calls[r].loaded.status, "WAITING_MODERATOR")
     IN \/ ReplyTaken(m) /\ Finish(r, ReplyAnswer(m, calls[r].case))
        \/ ~ReplyTaken(m) /\ ~legal /\ Finish(r, "rejected")
        \/ /\ ~ReplyTaken(m) /\ legal
           /\ calls' = [calls EXCEPT ![r].phase = "staged", ![r].now = clock]
  /\ UNCHANGED storeVars

-----------------------------------------------------------------------------
(* The transactions that write: one for each operation. *)

Staged(r, op) == calls[r].phase = "staged" /\ calls[r].op = op

Commit(r, row, events) ==
  /\ cases' = [cases EXCEPT ![calls[r].case] = row]
  /\ history' = [history EXCEPT ![calls[r].case] = events]
  /\ Finish(r, "applied")
  /\ UNCHANGED clock

CommitMark(r) ==
  /\ Staged(r, "mark")
  /\ LET c == calls[r].case
     IN Commit(r, SentRow(cases[c], calls[r].loaded, calls[r].now),
               Append(history[c], Event("CLIENT_REQUEST_SENT", None)))
  /\ UNCHANGED replies

\* The unique index refuses a message id stored since the lookup; nothing is written.
CommitReply(r) ==
  /\ Staged(r, "reply")
  /\ LET c == calls[r].case  m == calls[r].arg
     IN \/ /\ ReplyTaken(m)
           /\ Finish(r, ReplyAnswer(m, c))
           /\ UNCHANGED storeVars
        \/ /\ ~ReplyTaken(m)
           /\ replies' = [replies EXCEPT ![m] = c]
           /\ Commit(r, RepliedRow(cases[c], calls[r].loaded, calls[r].now),
                     Append(history[c], Event("CLIENT_REPLY_RECEIVED", m)))

CommitConfirm(r) ==
  /\ Staged(r, "confirm")
  /\ LET c == calls[r].case
     IN Commit(r, ClosedRow(cases[c], calls[r].loaded),
               Append(Append(history[c], Event("USER_ANSWER_CONFIRMED", None)),
                      Event("CASE_CLOSED", None)))
  /\ UNCHANGED replies

CommitCancel(r) ==
  /\ Staged(r, "cancel")
  /\ LET c == calls[r].case
     IN Commit(r, CancelledRow(cases[c], calls[r].loaded),
               Append(history[c], Event("CASE_CANCELLED", None)))
  /\ UNCHANGED replies

CommitReassign(r) ==
  /\ Staged(r, "reassign")
  /\ LET c == calls[r].case  moderator == calls[r].arg
     IN Commit(r, ReassignedRow(cases[c], calls[r].loaded, moderator),
               Append(history[c], Event("MODERATOR_CHANGED",
                                        <<calls[r].loaded.moderator, moderator>>)))
  /\ UNCHANGED replies

(***************************************************************************)
(* The session rolls back: the write lock was not free within SQLite's     *)
(* timeout, another exception was raised, or the process died.  Nothing    *)
(* was stored and the client sees an error or no answer at all.            *)
(***************************************************************************)
RollBack(r) ==
  /\ calls[r].phase \in {"loaded", "staged"}
  /\ Finish(r, "failed")
  /\ UNCHANGED storeVars

\* The answer has been sent: the thread is free for another request.
Return(r) ==
  /\ calls[r].phase = "answered"
  /\ calls' = [calls EXCEPT ![r] = Idle]
  /\ UNCHANGED storeVars

-----------------------------------------------------------------------------
CaseInit == StoreInit /\ calls = [r \in Requests |-> Idle]

Receive(r, c) ==
  \/ \E op \in {"mark", "confirm", "cancel"} :
       ReceiveTransition(r, op, c) \/ RejectUnknownCase(r, op, c, None)
  \/ \E m \in Messages : ReceiveReply(r, c, m) \/ RejectUnknownCase(r, "reply", c, m)
  \/ \E m \in Assignees :
       ReceiveReassign(r, c, m) \/ RejectUnknownCase(r, "reassign", c, m)

CommitCommand(r) ==
  \/ CommitMark(r) \/ CommitReply(r) \/ CommitConfirm(r)
  \/ CommitCancel(r) \/ CommitReassign(r)

CaseNext ==
  \/ Tick /\ UNCHANGED calls
  \/ \E c \in Cases, m \in Assignees : CreateCase(c, m)
  \/ \E r \in Requests :
       \/ \E c \in Cases : Receive(r, c)
       \/ LookUpReply(r) \/ CommitCommand(r) \/ RollBack(r) \/ Return(r)

CaseSpec == CaseInit /\ [][CaseNext]_caseVars

-----------------------------------------------------------------------------
(***************************************************************************)
(* Type correctness: the rows hold what the columns may hold, and a call   *)
(* that is to write has a stored case, the row it loaded and an argument   *)
(* of its operation.                                                       *)
(***************************************************************************)
CallOK(call) ==
  call.phase \in {"loaded", "staged"} =>
    /\ call.op \in Operations
    /\ call.case \in Cases
    /\ cases[call.case] # None
    /\ call.loaded \in CaseRow
    /\ call.op = "reply" => call.arg \in Messages
    /\ call.op = "reassign" => call.arg \in Assignees
    /\ call.phase = "loaded" => call.op = "reply"

TypeOK ==
  /\ StoreTypeOK
  /\ calls \in [Requests -> Call]
  /\ \A r \in Requests : CallOK(calls[r])

-----------------------------------------------------------------------------
(* Properties of the stored data, whatever calls overlap. *)

\* The status an event reports the case to have reached, None if it reports none.
Reports(event) ==
  CASE event.type = "CASE_CREATED" -> "NEW"
    [] event.type = "CLIENT_REQUEST_SENT" -> "WAITING_CLIENT"
    [] event.type = "CLIENT_REPLY_RECEIVED" -> "WAITING_MODERATOR"
    [] event.type = "CASE_CLOSED" -> "CLOSED"
    [] event.type = "CASE_CANCELLED" -> "CANCELLED"
    [] OTHER -> None

\* The last event that reports a status reports this one.
Audited(status, events) ==
  \E i \in DOMAIN events :
    /\ Reports(events[i]) = status
    /\ \A j \in DOMAIN events : j > i => Reports(events[j]) = None

(***************************************************************************)
(* The status column says what the last status event of the history says,  *)
(* although overlapping calls write rows they loaded before one another.   *)
(***************************************************************************)
AuditMatchesStatus ==
  \A c \in Cases : cases[c] # None => Audited(cases[c].status, history[c])

(***************************************************************************)
(* The moderator of a case is the one its last MODERATOR_CHANGED event     *)
(* names, although another command may have loaded the row before it.      *)
(***************************************************************************)
ModeratorMatchesHistory ==
  \A c \in Cases : \A i \in DOMAIN history[c] :
    (/\ history[c][i].type = "MODERATOR_CHANGED"
     /\ \A j \in DOMAIN history[c] :
          j > i => history[c][j].type # "MODERATOR_CHANGED")
    => history[c][i].ref[2] = cases[c].moderator

(***************************************************************************)
(* A stored reply and the event that reports it come and go together: the  *)
(* message id has one event, in the case that owns it, or no row at all.   *)
(***************************************************************************)
RepliesMatchHistory ==
  \A m \in Messages : \A c \in Cases :
    LET reported == {i \in DOMAIN history[c] :
                       history[c][i] = Event("CLIENT_REPLY_RECEIVED", m)}
    IN Cardinality(reported) = IF replies[m] = c THEN 1 ELSE 0

\* The row has the deadline that the SLA watchdog looks for.
Watched(row) ==
  /\ row.status = "WAITING_CLIENT" => row.clientDeadline # None
  /\ row.status = "WAITING_MODERATOR" => row.moderatorDeadline # None

\* A case that waits for somebody has its deadline, whichever row a command had loaded.
WaitHasDeadline == \A c \in Cases : cases[c] # None => Watched(cases[c])

\* The event by which an operation with this argument leaves its trace.
IsTrace(event, op, arg) ==
  \/ op = "mark" /\ event.type = "CLIENT_REQUEST_SENT"
  \/ op = "reply" /\ event = Event("CLIENT_REPLY_RECEIVED", arg)
  \/ op = "confirm" /\ event.type = "CASE_CLOSED"
  \/ op = "cancel" /\ event.type = "CASE_CANCELLED"
  \/ op = "reassign" /\ event.type = "MODERATOR_CHANGED" /\ event.ref[2] = arg

(***************************************************************************)
(* A client that is told its command is applied, or was already, can rely  *)
(* on it: the history holds the event.  (A moderator may have been         *)
(* assigned at creation, so "already" says nothing there.)                 *)
(***************************************************************************)
AnswersAreDurable ==
  \A r \in Requests :
    LET call == calls[r]
    IN (\/ call.answer = "applied"
        \/ call.answer = "already" /\ call.op # "reassign")
       => \E i \in DOMAIN history[call.case] :
            IsTrace(history[call.case][i], call.op, call.arg)

-----------------------------------------------------------------------------
(* What the documentation says of one case's story. *)

(***************************************************************************)
(* From one status event to the next the state machine allows the step:    *)
(* "Validate and apply one business-state transition atomically"           *)
(* (state_machine.transition_case), with CLOSED and CANCELLED final.       *)
(***************************************************************************)
TransitionsAllowed ==
  \A c \in Cases : \A i, j \in DOMAIN history[c] :
    (/\ i < j
     /\ Reports(history[c][i]) # None /\ Reports(history[c][j]) # None
     /\ \A k \in DOMAIN history[c] : i < k /\ k < j => Reports(history[c][k]) = None)
    => Allowed(Reports(history[c][i]), Reports(history[c][j]))

(***************************************************************************)
(* A finished case has no running deadline: closing and cancelling clear   *)
(* both (test_sla, the deadlines of closed and cancelled cases).           *)
(***************************************************************************)
FinishedHasNoDeadline ==
  \A c \in Cases :
    (cases[c] # None /\ cases[c].status \in {"CLOSED", "CANCELLED"})
    => cases[c].clientDeadline = None /\ cases[c].moderatorDeadline = None
=============================================================================
