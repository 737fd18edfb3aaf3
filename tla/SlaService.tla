----------------------------- MODULE SlaService -----------------------------
(***************************************************************************)
(* SlaService: which reminder or escalation a waiting case is due, and the *)
(* acknowledgement of one that was delivered, beside the case commands.    *)
(*                                                                         *)
(* A query lists, for each case, the highest threshold reached.  An        *)
(* acknowledgement is an event with a unique deduplication key; it is      *)
(* checked against the case it has loaded and changes no case.             *)
(***************************************************************************)
EXTENDS CaseService

CONSTANTS
  Watchers,               \* threads that serve acknowledgements
  ClientReminder2,        \* settings, in minutes after the wait began;
  ClientEscalation,       \*   the first reminders are ClientMinutes and
  ModeratorReminder2,     \*   ModeratorMinutes
  ModeratorEscalation

ASSUME ThresholdsAssumption ==
  /\ {ClientReminder2, ClientEscalation, ModeratorReminder2, ModeratorEscalation} \subseteq Nat
  /\ ClientMinutes < ClientReminder2 /\ ClientReminder2 < ClientEscalation
  /\ ModeratorMinutes < ModeratorReminder2 /\ ModeratorReminder2 < ModeratorEscalation

VARIABLE acks             \* the acknowledgement each watcher is serving

slaVars == <<clock, cases, history, replies, calls, acks>>

AckAnswers == {"applied", "already", "invalid", "not_found", "failed"}

NoAck ==
  [phase |-> "idle", case |-> None, action |-> None, loaded |-> None,
   now |-> 0, answer |-> None]

Ack ==
  [phase : {"idle", "loaded", "staged", "answered"}, case : Cases \cup {None},
   action : SlaAction \cup {None}, loaded : CaseRow \cup {None},
   now : Nat, answer : AckAnswers \cup {None}]

-----------------------------------------------------------------------------
(* The query: domain/sla.py on one case. *)

\* _first_deadline: the deadline of the wait the case is in.
FirstDeadline(row) ==
  CASE row.status = "WAITING_CLIENT" -> row.clientDeadline
    [] row.status = "WAITING_MODERATOR" -> row.moderatorDeadline
    [] OTHER -> None

\* The thresholds of a wait, lowest first, and the minutes at which each is reached.
Thresholds(status) ==
  IF status = "WAITING_CLIENT"
  THEN << <<"REMIND_CLIENT", 1>>, <<"REMIND_CLIENT", 2>>,
          <<"ESCALATE_CLIENT_WAIT", None>> >>
  ELSE << <<"REMIND_MODERATOR", 1>>, <<"REMIND_MODERATOR", 2>>,
          <<"ESCALATE_MODERATOR_WAIT", None>> >>
Offsets(status) ==
  IF status = "WAITING_CLIENT"
  THEN <<ClientMinutes, ClientReminder2, ClientEscalation>>
  ELSE <<ModeratorMinutes, ModeratorReminder2, ModeratorEscalation>>

WaitStarted(row) == FirstDeadline(row) - Offsets(row.status)[1]

\* A fault: a threshold counts only after its instant.
PassedLate(row, i, now) == now > WaitStarted(row) + Offsets(row.status)[i]
Passed(row, i, now) == now >= WaitStarted(row) + Offsets(row.status)[i]

\* A fault: every threshold passed is returned, as catch-up work.
AllOf(passed) == passed
Highest(passed) == {i \in passed : \A j \in passed : j <= i}

\* The event of an acknowledgement; which level or wait it names is its reference.
AckEventType ==
  [REMIND_CLIENT |-> "CLIENT_REMINDER_SENT", REMIND_MODERATOR |-> "MODERATOR_REMINDER_SENT",
   ESCALATE_CLIENT_WAIT |-> "CASE_ESCALATED", ESCALATE_MODERATOR_WAIT |-> "CASE_ESCALATED"]
AckEventTypes == {AckEventType[type] : type \in SlaActionType}
AckEvent(action) == Event(AckEventType[action[1]], action)

\* A fault: the level of an acknowledged reminder is ignored.
AcknowledgedSomeLevel(c, action) ==
  \E i \in DOMAIN history[c] : history[c][i].type = AckEventType[action[1]]
Acknowledged(c, action) == \E i \in DOMAIN history[c] : history[c][i] = AckEvent(action)

\* What get_due_actions at this time has for this case: one action or none.
Due(c, now) ==
  LET row == cases[c]
  IN IF row = None \/ FirstDeadline(row) = None \/ FirstDeadline(row) > now
     THEN {}
     ELSE LET highest == Highest({i \in 1..3 : Passed(row, i, now)})
          IN {action \in {Thresholds(row.status)[i] : i \in highest} : ~Acknowledged(c, action)}

-----------------------------------------------------------------------------
(* The check of an acknowledgement: _requested_due_at. *)

\* A fault: the action may be one of the other wait.
AnyWait(row, action) == TRUE
InItsWait(row, action) ==
  row.status = IF action[1] \in {"REMIND_CLIENT", "ESCALATE_CLIENT_WAIT"}
               THEN "WAITING_CLIENT" ELSE "WAITING_MODERATOR"

LevelValid(action) ==
  IF action[1] \in {"REMIND_CLIENT", "REMIND_MODERATOR"}
  THEN action[2] \in {1, 2} ELSE action[2] = None

ReminderOffset(level, first, second) == IF level = 1 THEN first ELSE second

\* The minutes from the first deadline of the wait to the action.
Delay(action) ==
  CASE action[1] = "REMIND_CLIENT" ->
         ReminderOffset(action[2], ClientMinutes, ClientReminder2) - ClientMinutes
    [] action[1] = "REMIND_MODERATOR" ->
         ReminderOffset(action[2], ModeratorMinutes, ModeratorReminder2) - ModeratorMinutes
    [] action[1] = "ESCALATE_CLIENT_WAIT" -> ClientEscalation - ClientMinutes
    [] action[1] = "ESCALATE_MODERATOR_WAIT" -> ModeratorEscalation - ModeratorMinutes

Acknowledgeable(row, action, now) ==
  /\ FirstDeadline(row) # None
  /\ InItsWait(row, action)
  /\ LevelValid(action)
  /\ now >= FirstDeadline(row) + Delay(action)

-----------------------------------------------------------------------------
(* acknowledge_action *)

EndAck(a, answer) ==
  acks' = [acks EXCEPT ![a] = [NoAck EXCEPT !.phase = "answered", !.answer = answer]]

\* The case is read ...
ReceiveAck(a, c, action, now) ==
  /\ acks[a].phase = "idle"
  /\ \/ cases[c] = None /\ EndAck(a, "not_found")
     \/ /\ cases[c] # None
        /\ acks' = [acks EXCEPT ![a] =
                      [phase |-> "loaded", case |-> c, action |-> action,
                       loaded |-> cases[c], now |-> now, answer |-> None]]
  /\ UNCHANGED <<storeVars, calls>>

\* A fault: neither the lookup nor the unique index finds the deduplication key.
AckNeverTaken(c, action) == FALSE
\* An event has the deduplication key: the one that acknowledges the action.
AckTaken(c, action) == Acknowledged(c, action)

\* ... then the deduplication key is looked up, and only then is the request checked.
LookUpAck(a) ==
  /\ acks[a].phase = "loaded"
  /\ LET ack == acks[a]
         taken == AckTaken(ack.case, ack.action)
         valid == Acknowledgeable(ack.loaded, ack.action, ack.now)
     IN \/ taken /\ EndAck(a, "already")
        \/ ~taken /\ ~valid /\ EndAck(a, "invalid")
        \/ ~taken /\ valid /\ acks' = [acks EXCEPT ![a].phase = "staged"]
  /\ UNCHANGED <<storeVars, calls>>

\* The unique index refuses the key if another call has stored it since.
CommitAck(a) ==
  /\ acks[a].phase = "staged"
  /\ LET c == acks[a].case  action == acks[a].action
     IN \/ /\ AckTaken(c, action)
           /\ EndAck(a, "already")
           /\ UNCHANGED history
        \/ /\ ~AckTaken(c, action)
           /\ history' = [history EXCEPT ![c] = Append(@, AckEvent(action))]
           /\ EndAck(a, "applied")
  /\ UNCHANGED <<clock, cases, replies, calls>>

\* Lock timeout, exception or crash before the commit: nothing is stored.
AbortAck(a) ==
  /\ acks[a].phase \in {"loaded", "staged"}
  /\ EndAck(a, "failed")
  /\ UNCHANGED <<storeVars, calls>>

ReturnAck(a) ==
  /\ acks[a].phase = "answered"
  /\ acks' = [acks EXCEPT ![a] = NoAck]
  /\ UNCHANGED <<storeVars, calls>>

SlaInit == CaseInit /\ acks = [a \in Watchers |-> NoAck]

AckStep(a) ==
  \/ \E c \in Cases, action \in SlaAction, now \in RequestTimes :
       ReceiveAck(a, c, action, now)
  \/ LookUpAck(a) \/ CommitAck(a) \/ AbortAck(a) \/ ReturnAck(a)

SlaNext ==
  \/ CaseNext /\ UNCHANGED acks
  \/ \E a \in Watchers : AckStep(a)

SlaSpec == SlaInit /\ [][SlaNext]_slaVars

-----------------------------------------------------------------------------
(***************************************************************************)
(* Type correctness.  A call that goes on names a stored case and has the  *)
(* row it loaded; one that is to write has a valid action.                 *)
(***************************************************************************)
AckOK(ack) ==
  /\ ack.phase \in {"loaded", "staged"} =>
       /\ ack.case \in Cases /\ ack.action \in SlaAction
       /\ cases[ack.case] # None /\ ack.loaded \in CaseRow
  /\ ack.phase = "staged" => Acknowledgeable(ack.loaded, ack.action, ack.now)

SlaTypeOK ==
  /\ TypeOK
  /\ acks \in [Watchers -> Ack]
  /\ \A a \in Watchers : AckOK(acks[a])

(***************************************************************************)
(* "Persistent deduplication keys": an action of a case is acknowledged by *)
(* one event, however often and by however many it is reported.            *)
(***************************************************************************)
AcknowledgedOnce ==
  \A c \in Cases, action \in SlaAction :
    Cardinality({i \in DOMAIN history[c] : history[c][i] = AckEvent(action)}) <= 1

\* The event with which a wait begins.
WaitBegins(action) ==
  IF action[1] \in {"REMIND_CLIENT", "ESCALATE_CLIENT_WAIT"}
  THEN "CLIENT_REQUEST_SENT" ELSE "CLIENT_REPLY_RECEIVED"

(***************************************************************************)
(* An acknowledgement in the history comes after the beginning of the wait *)
(* it is about, although the case it was checked on may be an old one.     *)
(***************************************************************************)
AcksFollowTheirWait ==
  \A c \in Cases : \A i \in DOMAIN history[c] :
    history[c][i].type \in AckEventTypes =>
      \E j \in 1..(i - 1) : history[c][j].type = WaitBegins(history[c][i].ref)

\* The place of an action among the thresholds of its wait.
Place(action) == IF action[2] = None THEN 3 ELSE action[2]

\* This action lies beyond that one in their wait.
Beyond(high, low) == WaitBegins(high) = WaitBegins(low) /\ Place(high) > Place(low)

\* The actions of the case whose acknowledgement would pass the check at this time.
Acceptable(c, now) ==
  {action \in SlaAction : cases[c] # None /\ Acknowledgeable(cases[c], action, now)}

(***************************************************************************)
(* The query and the check of an acknowledgement compute thresholds each   *)
(* on its own, and agree at every instant: what is listed is what would be *)
(* accepted, has nothing acceptable beyond it and is not acknowledged yet. *)
(***************************************************************************)
ListAgreesWithAck ==
  \A c \in Cases :
    LET acceptable == Acceptable(c, clock)
    IN Due(c, clock) = {action \in acceptable :
                          /\ ~AckTaken(c, action)
                          /\ \A high \in acceptable : ~Beyond(high, action)}

(***************************************************************************)
(* "Once a reached action is acknowledged, lower historical thresholds are *)
(* suppressed" (highest_due_action): as long as commands do not overlap.   *)
(***************************************************************************)
NoCatchUp ==
  \A c \in Cases : \A low \in Due(c, clock) : \A high \in SlaAction :
    Beyond(high, low) => ~Acknowledged(c, high)

(***************************************************************************)
(* A due action stays due from poll to poll until it is acknowledged, the  *)
(* wait has ended, or a threshold beyond it is reached: no late report of  *)
(* a lower one hides it, and a lost answer or a failed run of the watchdog *)
(* loses nothing.  As long as commands do not overlap.                     *)
(***************************************************************************)
DueUntilHandled ==
  [][\A c \in Cases : \A action \in Due(c, clock) :
       \/ action \in Due(c, clock)'
       \/ \E i \in DOMAIN history'[c] : history'[c][i] = AckEvent(action)
       \/ cases'[c].status # cases[c].status
       \/ \E high \in Acceptable(c, clock)' : Beyond(high, action)
  ]_<<clock, cases, history>>
=============================================================================
