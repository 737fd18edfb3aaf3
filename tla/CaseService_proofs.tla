------------------------- MODULE CaseService_proofs -------------------------
(***************************************************************************)
(* Type correctness of CaseService, and the agreement of the status column *)
(* with the history, for every set of cases, threads, messages and         *)
(* moderators.                                                             *)
(***************************************************************************)
EXTENDS CaseService, TLAPS

-----------------------------------------------------------------------------
(* The rows and the sequences the commands write. *)

\* Every row a transaction writes is a case row.
LEMMA WrittenRows ==
  ASSUME NEW stored \in CaseRow, NEW loaded \in CaseRow, NEW now \in Nat,
         NEW moderator \in Assignees
  PROVE  /\ SentRow(stored, loaded, now) \in CaseRow
         /\ RepliedRow(stored, loaded, now) \in CaseRow
         /\ ClosedRow(stored, loaded) \in CaseRow
         /\ CancelledRow(stored, loaded) \in CaseRow
         /\ ReassignedRow(stored, loaded, moderator) \in CaseRow
<1>1. \A minutes \in Nat : DeadlineAfter(now, minutes) \in Deadline
  BY DEF DeadlineAfter, Deadline
<1>2. \A d, e \in Deadline : Cleared(d, e) \in Deadline
  BY DEF Cleared, Deadline
<1>3. SentRow(stored, loaded, now) \in CaseRow
  BY <1>1, <1>2, MinutesAssumption DEF SentRow, CaseRow, CaseStatus
<1>4. RepliedRow(stored, loaded, now) \in CaseRow
  BY <1>1, <1>2, MinutesAssumption DEF RepliedRow, CaseRow, CaseStatus
<1>5. ClosedRow(stored, loaded) \in CaseRow
  BY <1>2 DEF ClosedRow, CaseRow, CaseStatus
<1>6. CancelledRow(stored, loaded) \in CaseRow
  BY <1>2 DEF CancelledRow, CaseRow, CaseStatus
<1>7. ReassignedRow(stored, loaded, moderator) \in CaseRow
  BY DEF ReassignedRow, CaseRow
<1> QED BY <1>3, <1>4, <1>5, <1>6, <1>7

\* Adding an event to a history leaves a history.
LEMMA AppendedEvent ==
  ASSUME NEW events \in Seq(CaseEvent), NEW type \in CaseEventType, NEW ref \in Reference
  PROVE  Append(events, Event(type, ref)) \in Seq(CaseEvent)
<1>1. Event(type, ref) \in CaseEvent
  BY DEF Event, CaseEvent
<1> QED BY <1>1

-----------------------------------------------------------------------------
(* Each way a call can go on keeps the types. *)

\* Ending a call on an unchanged store keeps the types.
LEMMA RespondTypeOK ==
  ASSUME TypeOK, NEW r \in Requests, NEW op \in Operations, NEW c \in Cases,
         NEW arg \in Messages \cup Assignees, NEW answer \in Answers,
         Respond(r, op, c, arg, answer), UNCHANGED storeVars
  PROVE  TypeOK'
<1>1. calls' \in [Requests -> Call]
  BY DEF TypeOK, Respond, Idle, Call
<1>2. \A q \in Requests : CallOK(calls[q])'
  BY DEF TypeOK, Respond, Idle, CallOK, storeVars, Call
<1> QED BY <1>1, <1>2 DEF TypeOK, StoreTypeOK, storeVars

\* Holding a call on the row it has read keeps the types.
LEMMA HoldTypeOK ==
  ASSUME TypeOK, NEW r \in Requests, NEW c \in Cases, cases[c] # None,
         NEW phase \in {"loaded", "staged"}, NEW op \in Operations,
         NEW arg \in Messages \cup Assignees,
         phase = "loaded" => op = "reply",
         op = "reply" => arg \in Messages, op = "reassign" => arg \in Assignees,
         Hold(r, phase, op, c, arg), UNCHANGED storeVars
  PROVE  TypeOK'
<1>1. cases[c] \in CaseRow /\ clock \in Nat
  BY MaxClockAssumption DEF TypeOK, StoreTypeOK
<1>2. calls' \in [Requests -> Call]
  BY <1>1 DEF TypeOK, Hold, Call
<1>3. \A q \in Requests : CallOK(calls[q])'
  BY <1>1 DEF TypeOK, Hold, CallOK, storeVars, Call
<1> QED BY <1>2, <1>3 DEF TypeOK, StoreTypeOK, storeVars

\* A transaction that stores a row, events and the answer keeps the types.
LEMMA CommitTypeOK ==
  ASSUME TypeOK, NEW r \in Requests, calls[r].phase = "staged",
         NEW row \in CaseRow, NEW events \in Seq(CaseEvent),
         Commit(r, row, events), replies' \in [Messages -> Cases \cup {None}]
  PROVE  TypeOK'
<1>1. StoreTypeOK'
  BY DEF TypeOK, StoreTypeOK, Commit, CallOK
<1>2. calls' \in [Requests -> Call]
  BY DEF TypeOK, Commit, Finish, Respond, Idle, Call, CallOK, Answers
<1>3. \A c \in Cases : cases[c] # None => cases'[c] # None
  BY NoRowAssumption DEF TypeOK, StoreTypeOK, Commit
<1>4. \A q \in Requests : CallOK(calls[q])'
  BY <1>3 DEF TypeOK, Commit, Finish, Respond, Idle, CallOK, Call
<1> QED BY <1>1, <1>2, <1>4 DEF TypeOK

\* So does one that stores nothing.
LEMMA FinishTypeOK ==
  ASSUME TypeOK, NEW r \in Requests, calls[r].phase \in {"loaded", "staged"},
         NEW answer \in Answers, Finish(r, answer), UNCHANGED storeVars
  PROVE  TypeOK'
<1>1. /\ calls[r].op \in Operations /\ calls[r].case \in Cases
      /\ calls[r].arg \in Messages \cup Assignees
  BY DEF TypeOK, CallOK, Call
<1> QED BY <1>1, RespondTypeOK DEF Finish

-----------------------------------------------------------------------------
(* Each step of the service keeps the types. *)

\* The reading steps keep the types.
LEMMA ReceiveTypeOK ==
  ASSUME TypeOK, NEW r \in Requests, NEW c \in Cases, Receive(r, c)
  PROVE  TypeOK'
<1> USE DEF Operations, Answers, Assignees
<1>1. ASSUME NEW op \in {"mark", "confirm", "cancel"}, ReceiveTransition(r, op, c)
      PROVE  TypeOK'
  <2>1. CASE \E answer \in {"already", "rejected"} : Respond(r, op, c, None, answer)
    BY <1>1, <2>1, RespondTypeOK DEF ReceiveTransition
  <2>2. CASE Hold(r, "staged", op, c, None)
    BY <1>1, <2>2, HoldTypeOK DEF ReceiveTransition
  <2> QED BY <1>1, <2>1, <2>2 DEF ReceiveTransition
<1>2. ASSUME NEW op \in Operations, NEW arg \in Messages \cup Assignees,
             RejectUnknownCase(r, op, c, arg)
      PROVE  TypeOK'
  BY <1>2, RespondTypeOK DEF RejectUnknownCase
<1>3. ASSUME NEW m \in Messages, ReceiveReply(r, c, m) PROVE TypeOK'
  BY <1>3, HoldTypeOK DEF ReceiveReply
<1>4. ASSUME NEW m \in Assignees, ReceiveReassign(r, c, m) PROVE TypeOK'
  <2>1. CASE Respond(r, "reassign", c, m, "already")
    BY <1>4, <2>1, RespondTypeOK DEF ReceiveReassign
  <2>2. CASE Hold(r, "staged", "reassign", c, m)
    BY <1>4, <2>2, HoldTypeOK DEF ReceiveReassign
  <2> QED BY <1>4, <2>1, <2>2 DEF ReceiveReassign
<1> QED BY <1>1, <1>2, <1>3, <1>4 DEF Receive

\* So does the lookup of a message id.
LEMMA LookUpTypeOK ==
  ASSUME TypeOK, NEW r \in Requests, LookUpReply(r)
  PROVE  TypeOK'
<1>1. CASE \E answer \in Answers : Finish(r, answer)
  BY <1>1, FinishTypeOK DEF LookUpReply
<1>2. CASE calls' = [calls EXCEPT ![r].phase = "staged", ![r].now = clock]
  <2>1. clock \in Nat
    BY MaxClockAssumption DEF TypeOK, StoreTypeOK
  <2>2. UNCHANGED storeVars /\ calls[r].phase = "loaded"
    BY DEF LookUpReply
  <2>3. calls' \in [Requests -> Call]
    BY <1>2, <2>1 DEF TypeOK, Call
  <2>4. \A q \in Requests : CallOK(calls[q])'
    BY <1>2, <2>2 DEF TypeOK, CallOK, Call, storeVars
  <2> QED BY <2>2, <2>3, <2>4 DEF TypeOK, StoreTypeOK, storeVars
<1> QED BY <1>1, <1>2 DEF LookUpReply, ReplyAnswer, Answers

\* So do the five writing transactions.
LEMMA CommitCommandTypeOK ==
  ASSUME TypeOK, NEW r \in Requests, CommitCommand(r)
  PROVE  TypeOK'
<1> DEFINE c == calls[r].case
           call == calls[r]
<1>1. /\ call.phase = "staged" /\ c \in Cases /\ cases[c] \in CaseRow
      /\ call.loaded \in CaseRow /\ call.now \in Nat
      /\ history[c] \in Seq(CaseEvent)
      /\ call.op = "reply" => call.arg \in Messages
      /\ call.op = "reassign" => call.arg \in Assignees
  BY DEF TypeOK, StoreTypeOK, CallOK, Call, CommitCommand, CommitMark, CommitReply,
         CommitConfirm, CommitCancel, CommitReassign, Staged
<1>2. replies \in [Messages -> Cases \cup {None}]
  BY DEF TypeOK, StoreTypeOK
<1>3. None \in Assignees
  BY DEF Assignees
<1>4. CASE CommitMark(r)
  <2>1. Append(history[c], Event("CLIENT_REQUEST_SENT", None)) \in Seq(CaseEvent)
    BY <1>1, AppendedEvent DEF CaseEventType, Reference
  <2> QED BY <1>1, <1>2, <1>3, <1>4, <2>1, WrittenRows, CommitTypeOK DEF CommitMark
<1>5. CASE CommitReply(r)
  <2>1. CASE ReplyTaken(call.arg)
    BY <1>1, <1>5, <2>1, FinishTypeOK DEF CommitReply, ReplyAnswer, Answers
  <2>2. CASE ~ReplyTaken(call.arg)
    <3>1. call.arg \in Messages
      BY <1>1, <1>5 DEF CommitReply, Staged
    <3>2. Append(history[c], Event("CLIENT_REPLY_RECEIVED", call.arg)) \in Seq(CaseEvent)
      BY <1>1, <3>1, AppendedEvent DEF CaseEventType, Reference
    <3>3. replies' \in [Messages -> Cases \cup {None}]
      BY <1>1, <1>2, <1>5, <2>2 DEF CommitReply
    <3> QED BY <1>1, <1>3, <1>5, <2>2, <3>2, <3>3, WrittenRows, CommitTypeOK DEF CommitReply
  <2> QED BY <2>1, <2>2
<1>6. CASE CommitConfirm(r)
  <2>1. Append(history[c], Event("USER_ANSWER_CONFIRMED", None)) \in Seq(CaseEvent)
    BY <1>1, AppendedEvent DEF CaseEventType, Reference
  <2>2. Append(Append(history[c], Event("USER_ANSWER_CONFIRMED", None)),
               Event("CASE_CLOSED", None)) \in Seq(CaseEvent)
    BY <2>1, AppendedEvent DEF CaseEventType, Reference
  <2> QED BY <1>1, <1>2, <1>3, <1>6, <2>2, WrittenRows, CommitTypeOK DEF CommitConfirm
<1>7. CASE CommitCancel(r)
  <2>1. Append(history[c], Event("CASE_CANCELLED", None)) \in Seq(CaseEvent)
    BY <1>1, AppendedEvent DEF CaseEventType, Reference
  <2> QED BY <1>1, <1>2, <1>3, <1>7, <2>1, WrittenRows, CommitTypeOK DEF CommitCancel
<1>8. CASE CommitReassign(r)
  <2>1. call.arg \in Assignees /\ call.loaded.moderator \in Assignees
    BY <1>1, <1>8 DEF CommitReassign, Staged, CaseRow
  <2>2. Append(history[c], Event("MODERATOR_CHANGED",
                                 <<call.loaded.moderator, call.arg>>)) \in Seq(CaseEvent)
    BY <1>1, <2>1, AppendedEvent DEF CaseEventType, Reference
  <2> QED BY <1>1, <1>2, <1>8, <2>1, <2>2, WrittenRows, CommitTypeOK DEF CommitReassign
<1> QED BY <1>4, <1>5, <1>6, <1>7, <1>8 DEF CommitCommand

\* A free thread holds a call.
LEMMA IdleIsCall == Idle \in Call
  BY DEF Idle, Call, Assignees

\* The empty database is well typed.
LEMMA CaseInitTypeOK == CaseInit => TypeOK
<1> SUFFICES ASSUME CaseInit PROVE TypeOK
  OBVIOUS
<1>1. StoreTypeOK
  BY MaxClockAssumption DEF CaseInit, StoreInit, StoreTypeOK
<1>2. calls \in [Requests -> Call]
  BY IdleIsCall DEF CaseInit
<1>3. \A r \in Requests : CallOK(calls[r])
  BY DEF CaseInit, CallOK, Idle
<1> QED BY <1>1, <1>2, <1>3 DEF TypeOK

\* Every step keeps the types.
LEMMA CaseNextTypeOK ==
  ASSUME TypeOK, [CaseNext]_caseVars
  PROVE  TypeOK'
<1>1. CASE Tick /\ UNCHANGED calls
  <2>1. clock' \in 0..MaxClock
    BY <1>1, MaxClockAssumption DEF Tick, TypeOK, StoreTypeOK
  <2> QED BY <1>1, <2>1 DEF Tick, TypeOK, StoreTypeOK, CallOK
<1>2. ASSUME NEW c \in Cases, NEW m \in Assignees, CreateCase(c, m)
      PROVE  TypeOK'
  <2>1. cases' \in [Cases -> CaseRow \cup {None}]
    BY <1>2 DEF CreateCase, TypeOK, StoreTypeOK, CaseRow, CaseStatus, Deadline
  <2>2. Append(history[c], Event("CASE_CREATED", None)) \in Seq(CaseEvent)
    BY AppendedEvent DEF TypeOK, StoreTypeOK, CaseEventType, Reference
  <2>3. history' \in [Cases -> Seq(CaseEvent)]
    BY <1>2, <2>2 DEF CreateCase, TypeOK, StoreTypeOK
  <2>4. \A d \in Cases : cases[d] # None => cases'[d] # None
    BY <1>2 DEF CreateCase, TypeOK, StoreTypeOK
  <2>5. \A r \in Requests : CallOK(calls[r])'
    BY <1>2, <2>4 DEF CreateCase, TypeOK, CallOK
  <2> QED BY <1>2, <2>1, <2>3, <2>5 DEF CreateCase, TypeOK, StoreTypeOK
<1>3. ASSUME NEW r \in Requests, RollBack(r) PROVE TypeOK'
  BY <1>3, FinishTypeOK DEF RollBack, Answers
<1>4. ASSUME NEW r \in Requests, Return(r) PROVE TypeOK'
  <2>1. calls' \in [Requests -> Call]
    BY <1>4, IdleIsCall DEF Return, TypeOK
  <2>2. \A q \in Requests : CallOK(calls[q])'
    BY <1>4 DEF Return, TypeOK, Idle, CallOK, storeVars, Call
  <2> QED BY <1>4, <2>1, <2>2 DEF Return, TypeOK, StoreTypeOK, storeVars
<1>5. CASE UNCHANGED caseVars
  BY <1>5 DEF caseVars, TypeOK, StoreTypeOK, CallOK
<1> QED
  BY <1>1, <1>2, <1>3, <1>4, <1>5, ReceiveTypeOK, LookUpTypeOK, CommitCommandTypeOK
  DEF CaseNext

\* No step removes a case.
LEMMA CasesStay ==
  ASSUME TypeOK, [CaseNext]_caseVars, NEW c \in Cases, cases[c] # None
  PROVE  cases'[c] # None
<1>1. ASSUME NEW d \in Cases, NEW m \in Assignees, CreateCase(d, m)
      PROVE  cases'[c] # None
  BY <1>1 DEF CreateCase, TypeOK, StoreTypeOK
<1>2. ASSUME NEW r \in Requests, CommitCommand(r) PROVE cases'[c] # None
  <2> DEFINE d == calls[r].case
             loaded == calls[r].loaded
  <2>1. /\ d \in Cases /\ cases[d] \in CaseRow
        /\ loaded \in CaseRow /\ calls[r].now \in Nat
        /\ calls[r].op = "reassign" => calls[r].arg \in Assignees
    BY <1>2 DEF TypeOK, StoreTypeOK, CallOK, Call, CommitCommand, CommitMark,
                CommitReply, CommitConfirm, CommitCancel, CommitReassign, Staged
  <2>2. ASSUME NEW row \in CaseRow, NEW events, Commit(r, row, events)
        PROVE  cases'[c] # None
    BY <2>1, <2>2, NoRowAssumption DEF Commit, TypeOK, StoreTypeOK
  <2>3. None \in Assignees
    BY DEF Assignees
  <2>4. CASE CommitMark(r)
    BY <2>1, <2>2, <2>3, <2>4, WrittenRows DEF CommitMark
  <2>5. CASE CommitReply(r)
    BY <2>1, <2>2, <2>3, <2>5, WrittenRows DEF CommitReply, storeVars
  <2>6. CASE CommitConfirm(r)
    BY <2>1, <2>2, <2>3, <2>6, WrittenRows DEF CommitConfirm
  <2>7. CASE CommitCancel(r)
    BY <2>1, <2>2, <2>3, <2>7, WrittenRows DEF CommitCancel
  <2>8. CASE CommitReassign(r)
    BY <2>1, <2>2, <2>8, WrittenRows DEF CommitReassign, Staged
  <2> QED BY <1>2, <2>4, <2>5, <2>6, <2>7, <2>8 DEF CommitCommand
<1>3. ASSUME NEW r \in Requests, NEW d \in Cases, Receive(r, d)
      PROVE  UNCHANGED cases
  BY <1>3 DEF Receive, ReceiveTransition, RejectUnknownCase, ReceiveReply,
              ReceiveReassign, storeVars
<1> QED
  BY <1>1, <1>2, <1>3
  DEF CaseNext, Tick, LookUpReply, RollBack, Return, storeVars, caseVars

(***************************************************************************)
(* The tables and the calls keep their types.                              *)
(***************************************************************************)
THEOREM CaseTypeCorrect == CaseSpec => []TypeOK
<1>1. CaseInit => TypeOK
  BY CaseInitTypeOK
<1>2. TypeOK /\ [CaseNext]_caseVars => TypeOK'
  BY CaseNextTypeOK
<1> QED BY <1>1, <1>2, PTL DEF CaseSpec

-----------------------------------------------------------------------------
(* The status column and the history. *)

\* An appended status event is the one the status must match.
LEMMA StatusEventAudited ==
  ASSUME NEW events \in Seq(CaseEvent), NEW event, NEW status,
         Reports(event) = status
  PROVE  Audited(status, Append(events, event))
<1> DEFINE longer == Append(events, event)
<1>1. Len(longer) \in DOMAIN longer /\ longer[Len(longer)] = event
  OBVIOUS
<1>2. \A j \in DOMAIN longer : ~(j > Len(longer))
  OBVIOUS
<1> QED BY <1>1, <1>2 DEF Audited

\* An event that reports no status leaves the audit as it was.
LEMMA OtherEventAudited ==
  ASSUME NEW events \in Seq(CaseEvent), NEW event, NEW status,
         Audited(status, events), Reports(event) = None
  PROVE  Audited(status, Append(events, event))
<1> DEFINE longer == Append(events, event)
<1>1. PICK i \in DOMAIN events :
        /\ Reports(events[i]) = status
        /\ \A j \in DOMAIN events : j > i => Reports(events[j]) = None
  BY DEF Audited
<1>2. /\ DOMAIN events \subseteq DOMAIN longer
      /\ \A j \in DOMAIN events : longer[j] = events[j]
  OBVIOUS
<1>3. \A j \in DOMAIN longer : j \in DOMAIN events \/ longer[j] = event
  OBVIOUS
<1>4. \A j \in DOMAIN longer : j > i => Reports(longer[j]) = None
  BY <1>1, <1>2, <1>3
<1> HIDE DEF longer
<1>5. Audited(status, longer)
  BY <1>1, <1>2, <1>4 DEF Audited
<1> QED BY <1>5 DEF longer

\* A commit is audited if its row and its events are: no other case is touched.
LEMMA CommitAudited ==
  ASSUME TypeOK, AuditMatchesStatus, NEW r \in Requests, NEW row, NEW events,
         calls[r].case \in Cases, Commit(r, row, events), Audited(row.status, events)
  PROVE  AuditMatchesStatus'
  BY DEF TypeOK, StoreTypeOK, AuditMatchesStatus, Commit

\* Each writing transaction stores a status and its event together.
LEMMA CommitCommandAudited ==
  ASSUME TypeOK, AuditMatchesStatus, NEW r \in Requests, CommitCommand(r)
  PROVE  AuditMatchesStatus'
<1> DEFINE c == calls[r].case
           loaded == calls[r].loaded
           now == calls[r].now
<1>1. /\ c \in Cases /\ cases[c] \in CaseRow /\ cases[c] # None
      /\ history[c] \in Seq(CaseEvent)
  BY DEF TypeOK, StoreTypeOK, CallOK, Call, CommitCommand, CommitMark, CommitReply,
         CommitConfirm, CommitCancel, CommitReassign, Staged
<1>2. Audited(cases[c].status, history[c])
  BY <1>1 DEF AuditMatchesStatus
<1>3. CASE CommitMark(r)
  <2>1. SentRow(cases[c], loaded, now).status = "WAITING_CLIENT"
    BY <1>1 DEF SentRow, CaseRow
  <2>2. Reports(Event("CLIENT_REQUEST_SENT", None)) = "WAITING_CLIENT"
    BY DEF Reports, Event
  <2> QED BY <1>1, <1>3, <2>1, <2>2, StatusEventAudited, CommitAudited DEF CommitMark
<1>4. CASE CommitReply(r)
  <2>1. CASE ReplyTaken(calls[r].arg)
    BY <1>4, <2>1 DEF CommitReply, AuditMatchesStatus, storeVars
  <2>2. CASE ~ReplyTaken(calls[r].arg)
    <3>1. RepliedRow(cases[c], loaded, now).status = "WAITING_MODERATOR"
      BY <1>1 DEF RepliedRow, CaseRow
    <3>2. Reports(Event("CLIENT_REPLY_RECEIVED", calls[r].arg)) = "WAITING_MODERATOR"
      BY DEF Reports, Event
    <3> QED BY <1>1, <1>4, <2>2, <3>1, <3>2, StatusEventAudited, CommitAudited
        DEF CommitReply
  <2> QED BY <2>1, <2>2
<1>5. CASE CommitConfirm(r)
  <2>1. ClosedRow(cases[c], loaded).status = "CLOSED"
    BY <1>1 DEF ClosedRow, CaseRow
  <2>2. Reports(Event("CASE_CLOSED", None)) = "CLOSED"
    BY DEF Reports, Event
  <2>3. Append(history[c], Event("USER_ANSWER_CONFIRMED", None)) \in Seq(CaseEvent)
    BY <1>1, AppendedEvent DEF CaseEventType, Reference
  <2> QED BY <1>1, <1>5, <2>1, <2>2, <2>3, StatusEventAudited, CommitAudited
      DEF CommitConfirm
<1>6. CASE CommitCancel(r)
  <2>1. CancelledRow(cases[c], loaded).status = "CANCELLED"
    BY <1>1 DEF CancelledRow, CaseRow
  <2>2. Reports(Event("CASE_CANCELLED", None)) = "CANCELLED"
    BY DEF Reports, Event
  <2> QED BY <1>1, <1>6, <2>1, <2>2, StatusEventAudited, CommitAudited DEF CommitCancel
<1>7. CASE CommitReassign(r)
  <2> DEFINE moderator == calls[r].arg
             change == Event("MODERATOR_CHANGED", <<loaded.moderator, moderator>>)
  <2>1. ReassignedRow(cases[c], loaded, moderator).status = cases[c].status
    BY <1>1 DEF ReassignedRow, CaseRow
  <2>2. Reports(change) = None
    BY DEF Reports, Event
  <2>3. Audited(cases[c].status, Append(history[c], change))
    BY <1>1, <1>2, <2>2, OtherEventAudited
  <2> QED BY <1>1, <1>7, <2>1, <2>3, CommitAudited DEF CommitReassign
<1> QED BY <1>3, <1>4, <1>5, <1>6, <1>7 DEF CommitCommand

\* Every step keeps the audit.
LEMMA CaseNextAudited ==
  ASSUME TypeOK, AuditMatchesStatus, [CaseNext]_caseVars
  PROVE  AuditMatchesStatus'
<1>1. ASSUME NEW c \in Cases, NEW m \in Assignees, CreateCase(c, m)
      PROVE  AuditMatchesStatus'
  <2>1. Reports(Event("CASE_CREATED", None)) = "NEW"
    BY DEF Reports, Event
  <2>2. history[c] \in Seq(CaseEvent)
    BY DEF TypeOK, StoreTypeOK
  <2>3. Audited("NEW", Append(history[c], Event("CASE_CREATED", None)))
    BY <2>1, <2>2, StatusEventAudited
  <2> QED BY <1>1, <2>3 DEF CreateCase, AuditMatchesStatus, TypeOK, StoreTypeOK
<1>2. CASE UNCHANGED <<cases, history>>
  BY <1>2 DEF AuditMatchesStatus
<1>3. ASSUME NEW r \in Requests, NEW c \in Cases, Receive(r, c)
      PROVE  UNCHANGED <<cases, history>>
  BY <1>3 DEF Receive, ReceiveTransition, RejectUnknownCase, ReceiveReply,
              ReceiveReassign, storeVars
<1> QED
  BY <1>1, <1>2, <1>3, CommitCommandAudited
  DEF CaseNext, Tick, LookUpReply, RollBack, Return, storeVars, caseVars

(***************************************************************************)
(* The status column is the one the last status event reports, although    *)
(* the commands decide on rows that others have changed since.             *)
(***************************************************************************)
THEOREM StatusIsAudited == CaseSpec => []AuditMatchesStatus
<1>1. CaseInit => AuditMatchesStatus
  BY DEF CaseInit, StoreInit, AuditMatchesStatus
<1>2. TypeOK /\ AuditMatchesStatus /\ [CaseNext]_caseVars => AuditMatchesStatus'
  BY CaseNextAudited
<1> QED BY <1>1, <1>2, CaseTypeCorrect, PTL DEF CaseSpec

-----------------------------------------------------------------------------
(* Deadlines. *)

\* A row written over a watched one is watched, whatever row was loaded.
LEMMA WrittenRowsWatched ==
  ASSUME NEW stored \in CaseRow, NEW loaded \in CaseRow, NEW now \in Nat,
         NEW moderator \in Assignees
  PROVE  /\ Watched(SentRow(stored, loaded, now))
         /\ Watched(RepliedRow(stored, loaded, now))
         /\ Watched(ClosedRow(stored, loaded))
         /\ Watched(CancelledRow(stored, loaded))
         /\ Watched(stored) => Watched(ReassignedRow(stored, loaded, moderator))
<1>1. \A minutes \in Nat : DeadlineAfter(now, minutes) # None
  BY NoneAssumption DEF DeadlineAfter
<1>2. Watched(SentRow(stored, loaded, now))
  BY <1>1, MinutesAssumption DEF Watched, SentRow, CaseRow
<1>3. Watched(RepliedRow(stored, loaded, now))
  BY <1>1, MinutesAssumption DEF Watched, RepliedRow, CaseRow
<1>4. Watched(ClosedRow(stored, loaded)) /\ Watched(CancelledRow(stored, loaded))
  BY DEF Watched, ClosedRow, CancelledRow, CaseRow
<1>5. Watched(stored) => Watched(ReassignedRow(stored, loaded, moderator))
  BY DEF Watched, ReassignedRow, CaseRow
<1> QED BY <1>2, <1>3, <1>4, <1>5

\* Every step keeps the deadlines of the waiting cases.
LEMMA CaseNextWatched ==
  ASSUME TypeOK, WaitHasDeadline, [CaseNext]_caseVars
  PROVE  WaitHasDeadline'
<1>1. ASSUME NEW c \in Cases, NEW m \in Assignees, CreateCase(c, m)
      PROVE  WaitHasDeadline'
  BY <1>1 DEF CreateCase, WaitHasDeadline, Watched, TypeOK, StoreTypeOK
<1>2. ASSUME NEW r \in Requests, CommitCommand(r) PROVE WaitHasDeadline'
  <2> DEFINE c == calls[r].case
             loaded == calls[r].loaded
  <2>1. /\ c \in Cases /\ cases[c] \in CaseRow /\ cases[c] # None
        /\ loaded \in CaseRow /\ calls[r].now \in Nat
        /\ calls[r].op = "reassign" => calls[r].arg \in Assignees
    BY <1>2 DEF TypeOK, StoreTypeOK, CallOK, Call, CommitCommand, CommitMark,
                CommitReply, CommitConfirm, CommitCancel, CommitReassign, Staged
  <2>2. ASSUME NEW row, NEW events, Commit(r, row, events), Watched(row)
        PROVE  WaitHasDeadline'
    BY <2>1, <2>2 DEF Commit, WaitHasDeadline, TypeOK, StoreTypeOK
  <2>3. None \in Assignees /\ Watched(cases[c])
    BY <2>1 DEF Assignees, WaitHasDeadline
  <2>4. CASE CommitMark(r)
    BY <2>1, <2>2, <2>3, <2>4, WrittenRowsWatched DEF CommitMark
  <2>5. CASE CommitReply(r)
    <3>1. CASE UNCHANGED storeVars
      BY <3>1 DEF WaitHasDeadline, storeVars
    <3> QED BY <2>1, <2>2, <2>3, <2>5, <3>1, WrittenRowsWatched DEF CommitReply
  <2>6. CASE CommitConfirm(r)
    BY <2>1, <2>2, <2>3, <2>6, WrittenRowsWatched DEF CommitConfirm
  <2>7. CASE CommitCancel(r)
    BY <2>1, <2>2, <2>3, <2>7, WrittenRowsWatched DEF CommitCancel
  <2>8. CASE CommitReassign(r)
    BY <2>1, <2>2, <2>3, <2>8, WrittenRowsWatched DEF CommitReassign, Staged
  <2> QED BY <1>2, <2>4, <2>5, <2>6, <2>7, <2>8 DEF CommitCommand
<1>3. CASE UNCHANGED cases
  BY <1>3 DEF WaitHasDeadline
<1>4. ASSUME NEW r \in Requests, NEW c \in Cases, Receive(r, c)
      PROVE  UNCHANGED cases
  BY <1>4 DEF Receive, ReceiveTransition, RejectUnknownCase, ReceiveReply,
              ReceiveReassign, storeVars
<1> QED
  BY <1>1, <1>2, <1>3, <1>4
  DEF CaseNext, Tick, LookUpReply, RollBack, Return, storeVars, caseVars

(***************************************************************************)
(* No case ever waits without the deadline the SLA watchdog queries for.   *)
(***************************************************************************)
THEOREM WaitsAreWatched == CaseSpec => []WaitHasDeadline
<1>1. CaseInit => WaitHasDeadline
  BY DEF CaseInit, StoreInit, WaitHasDeadline
<1>2. TypeOK /\ WaitHasDeadline /\ [CaseNext]_caseVars => WaitHasDeadline'
  BY CaseNextWatched
<1> QED BY <1>1, <1>2, CaseTypeCorrect, PTL DEF CaseSpec
=============================================================================
