-------------------------- MODULE SlaService_proofs --------------------------
(***************************************************************************)
(* Proofs about the acknowledgements of SlaService, for every set of       *)
(* cases, threads and actions and all thresholds: types, one event for     *)
(* each acknowledged action, and no acknowledgement before its wait.       *)
(***************************************************************************)
EXTENDS SlaService, CaseHistory_proofs

-----------------------------------------------------------------------------
(* The steps of an acknowledgement. *)

\* The event of an acknowledgement is an event of a case.
LEMMA AckEventOK ==
  ASSUME NEW action \in SlaAction
  PROVE  /\ AckEvent(action) \in CaseEvent
         /\ AckEvent(action).type \in AckEventTypes
         /\ AckEvent(action).ref = action
<1>1. action[1] \in SlaActionType /\ action \in Reference
  BY DEF SlaAction, Reference
<1>2. AckEventType[action[1]] \in CaseEventType
  BY <1>1 DEF AckEventType, SlaActionType, CaseEventType
<1>3. AckEventType[action[1]] \in AckEventTypes
  BY <1>1 DEF AckEventTypes
<1> QED BY <1>1, <1>2, <1>3 DEF AckEvent, Event, CaseEvent

\* These types are no others.
LEMMA AckTypes ==
  AckEventTypes = {"CLIENT_REMINDER_SENT", "MODERATOR_REMINDER_SENT", "CASE_ESCALATED"}
  BY DEF AckEventTypes, AckEventType, SlaActionType

\* What an acknowledgement leaves: the rows, and either the histories or all but one event.
StoresAck(a) ==
  LET c == acks[a].case  action == acks[a].action
  IN /\ acks[a].phase = "staged"
     /\ ~AckTaken(c, action)
     /\ history' = [history EXCEPT ![c] = Append(@, AckEvent(action))]

\* A step of an acknowledgement leaves no more.
LEMMA AckStepStores ==
  ASSUME NEW a \in Watchers, AckStep(a)
  PROVE  /\ UNCHANGED <<clock, cases, replies, calls>>
         /\ StoresAck(a) \/ UNCHANGED history
  BY DEF AckStep, ReceiveAck, LookUpAck, CommitAck, AbortAck, ReturnAck, storeVars, StoresAck

\* A call of the watchdog that is about to write has a case and an action.
LEMMA StagedAck ==
  ASSUME SlaTypeOK, NEW a \in Watchers, acks[a].phase \in {"loaded", "staged"}
  PROVE  /\ acks[a].case \in Cases /\ acks[a].action \in SlaAction
         /\ cases[acks[a].case] # None /\ acks[a].loaded \in CaseRow
         /\ history[acks[a].case] \in Seq(CaseEvent)
  BY DEF SlaTypeOK, AckOK, TypeOK, StoreTypeOK

\* The cases keep their types, and no event is lost.
LEMMA AckStepStore ==
  ASSUME SlaTypeOK, NEW a \in Watchers, AckStep(a)
  PROVE  TypeOK' /\ HistoriesGrow
<1>1. UNCHANGED <<clock, cases, replies, calls>>
  BY AckStepStores
<1>2. \A r \in Requests : CallOK(calls[r])'
  BY <1>1 DEF SlaTypeOK, TypeOK, CallOK
<1>3. CASE UNCHANGED history
  BY <1>1, <1>2, <1>3, SameHistories DEF SlaTypeOK, TypeOK, StoreTypeOK
<1>4. CASE StoresAck(a)
  <2> DEFINE c == acks[a].case
             event == AckEvent(acks[a].action)
  <2>1. c \in Cases /\ history[c] \in Seq(CaseEvent) /\ event \in CaseEvent
    BY <1>4, StagedAck, AckEventOK DEF StoresAck
  <2>2. history' = [history EXCEPT ![c] = Append(history[c], event)]
    BY <1>4 DEF StoresAck
  <2> HIDE DEF c, event
  <2>3. Kept(history[c], Append(history[c], event))
    BY <2>1, AppendKeeps
  <2>4. history \in [Cases -> Seq(CaseEvent)]
    BY DEF SlaTypeOK, TypeOK, StoreTypeOK
  <2>5. HistoriesGrow
    BY <2>1, <2>2, <2>3, <2>4 DEF HistoriesGrow, Kept
  <2>6. history' \in [Cases -> Seq(CaseEvent)]
    BY <2>1, <2>2, <2>4
  <2> QED BY <1>1, <1>2, <2>5, <2>6 DEF SlaTypeOK, TypeOK, StoreTypeOK
<1> QED BY <1>3, <1>4, AckStepStores

-----------------------------------------------------------------------------
(* Types. *)

\* Acknowledgements stay well formed while others write.
LEMMA AckStaysOK ==
  ASSUME SlaTypeOK, TypeOK', UNCHANGED acks, \A c \in Cases : cases[c] # None => cases'[c] # None
  PROVE  SlaTypeOK'
<1>1. ASSUME NEW a \in Watchers PROVE AckOK(acks[a])'
  BY DEF SlaTypeOK, AckOK
<1> QED BY <1>1 DEF SlaTypeOK

\* One watcher goes on, on the same rows.
LEMMA AckGoesOn ==
  ASSUME SlaTypeOK, TypeOK', UNCHANGED cases, NEW a \in Watchers, NEW ack \in Ack,
         acks' = [acks EXCEPT ![a] = ack], AckOK(ack)
  PROVE  SlaTypeOK'
<1>1. acks' \in [Watchers -> Ack]
  BY DEF SlaTypeOK
<1>2. ASSUME NEW b \in Watchers PROVE AckOK(acks[b])'
  <2>1. AckOK(acks'[b])
    BY DEF SlaTypeOK
  <2> QED BY <2>1 DEF AckOK
<1> QED BY <1>1, <1>2 DEF SlaTypeOK

\* An answer holds nothing.
LEMMA EndAckOK ==
  ASSUME SlaTypeOK, TypeOK', UNCHANGED cases, NEW a \in Watchers, NEW answer \in AckAnswers,
         EndAck(a, answer)
  PROVE  SlaTypeOK'
<1> DEFINE ack == [NoAck EXCEPT !.phase = "answered", !.answer = answer]
<1>1. ack \in Ack /\ ack.phase = "answered"
  BY DEF NoAck, Ack
<1>2. acks' = [acks EXCEPT ![a] = ack]
  BY DEF EndAck
<1> HIDE DEF ack
<1> QED BY <1>1, <1>2, AckGoesOn DEF AckOK

\* Every step of an acknowledgement keeps the types.
LEMMA AckStepOK ==
  ASSUME SlaTypeOK, NEW a \in Watchers, AckStep(a)
  PROVE  SlaTypeOK'
<1>1. TypeOK' /\ UNCHANGED cases
  BY AckStepStore, AckStepStores
<1>2. ASSUME NEW answer \in AckAnswers, EndAck(a, answer) PROVE SlaTypeOK'
  BY <1>1, <1>2, EndAckOK
<1>3. ASSUME NEW c \in Cases, NEW action \in SlaAction, NEW now \in RequestTimes,
             ReceiveAck(a, c, action, now)
      PROVE  SlaTypeOK'
  <2> DEFINE ack == [phase |-> "loaded", case |-> c, action |-> action,
                     loaded |-> cases[c], now |-> now, answer |-> None]
  <2>1. CASE cases[c] = None
    BY <1>2, <1>3, <2>1 DEF ReceiveAck, AckAnswers
  <2>2. CASE cases[c] # None
    <3>1. cases[c] \in CaseRow /\ now \in Nat
      BY <2>2 DEF SlaTypeOK, TypeOK, StoreTypeOK, RequestTimes
    <3>2. ack \in Ack /\ AckOK(ack)
      BY <2>2, <3>1 DEF Ack, AckOK
    <3>3. acks' = [acks EXCEPT ![a] = ack]
      BY <1>3, <2>2 DEF ReceiveAck
    <3> HIDE DEF ack
    <3> QED BY <1>1, <3>2, <3>3, AckGoesOn
  <2> QED BY <2>1, <2>2
<1>4. CASE LookUpAck(a)
  <2> DEFINE ack == [acks[a] EXCEPT !.phase = "staged"]
  <2>1. CASE /\ Acknowledgeable(acks[a].loaded, acks[a].action, acks[a].now)
             /\ acks' = [acks EXCEPT ![a].phase = "staged"]
    <3>1. acks[a] \in Ack /\ acks[a].phase = "loaded"
      BY <1>4 DEF SlaTypeOK, LookUpAck
    <3>2. /\ ack \in Ack /\ ack.phase = "staged" /\ ack.case = acks[a].case
          /\ ack.action = acks[a].action /\ ack.loaded = acks[a].loaded
          /\ ack.now = acks[a].now
      BY <3>1 DEF Ack
    <3>3. acks' = [acks EXCEPT ![a] = ack]
      BY <2>1
    <3> HIDE DEF ack
    <3>4. AckOK(ack)
      BY <2>1, <3>1, <3>2, StagedAck DEF AckOK
    <3> QED BY <1>1, <3>2, <3>3, <3>4, AckGoesOn
  <2> QED BY <1>2, <1>4, <2>1 DEF LookUpAck, AckAnswers
<1>5. CASE CommitAck(a)
  BY <1>2, <1>5 DEF CommitAck, AckAnswers
<1>6. CASE AbortAck(a)
  BY <1>2, <1>6 DEF AbortAck, AckAnswers
<1>7. CASE ReturnAck(a)
  <2>1. NoAck \in Ack /\ AckOK(NoAck)
    BY DEF NoAck, Ack, AckOK
  <2> QED BY <1>1, <1>7, <2>1, AckGoesOn DEF ReturnAck
<1> QED BY <1>3, <1>4, <1>5, <1>6, <1>7 DEF AckStep

\* Every step keeps the types.
LEMMA SlaNextOK ==
  ASSUME SlaTypeOK, [SlaNext]_slaVars
  PROVE  SlaTypeOK'
<1>1. ASSUME [CaseNext]_caseVars, UNCHANGED acks PROVE SlaTypeOK'
  <2>1. TypeOK' /\ \A c \in Cases : cases[c] # None => cases'[c] # None
    BY <1>1, CaseNextTypeOK, CasesStay DEF SlaTypeOK
  <2> QED BY <1>1, <2>1, AckStaysOK
<1> QED BY <1>1, AckStepOK DEF SlaNext, slaVars, caseVars

(***************************************************************************)
(* The acknowledgements keep their types beside the case commands, and one *)
(* that is about to be stored has passed the check.                        *)
(***************************************************************************)
THEOREM SlaTypeCorrect == SlaSpec => []SlaTypeOK
<1>1. SlaInit => SlaTypeOK
  <2>1. NoAck \in Ack /\ AckOK(NoAck)
    BY DEF NoAck, Ack, AckOK
  <2> QED BY <2>1, CaseInitTypeOK DEF SlaInit, SlaTypeOK
<1>2. SlaTypeOK /\ [SlaNext]_slaVars => SlaTypeOK'
  BY SlaNextOK
<1> QED BY <1>1, <1>2, PTL DEF SlaSpec

-----------------------------------------------------------------------------
(* One event for each action. *)

\* The property, in terms of places.
LEMMA AcksCounted ==
  AcknowledgedOnce <=>
    \A c \in Cases, action \in SlaAction :
      Cardinality(Places(AckEvent(action), history[c])) <= 1
  BY DEF AcknowledgedOnce, Places

\* A step that adds no acknowledgement keeps them where they are.
LEMMA AcksUndisturbed ==
  ASSUME AcknowledgedOnce, HistoriesGrow, NEW types, types \cap AckEventTypes = {},
         HistoriesAdd(types)
  PROVE  AcknowledgedOnce'
<1>1. ASSUME NEW c \in Cases, NEW action \in SlaAction
      PROVE  Cardinality(Places(AckEvent(action), history'[c])) <= 1
  <2>1. AckEvent(action).type \notin types /\ AckEvent(action) # RequestSent
    BY AckEventOK, AckTypes DEF RequestSent, Event
  <2>2. Places(AckEvent(action), history'[c]) = Places(AckEvent(action), history[c])
    BY <2>1, OtherTypesAdded DEF HistoriesGrow, HistoriesAdd
  <2> QED BY <2>2, AcksCounted
<1> QED BY <1>1 DEF AcknowledgedOnce, Places, AckEvent, Event, AckEventType

\* An acknowledgement that is stored was not there.
LEMMA AckStepOnce ==
  ASSUME SlaTypeOK, AcknowledgedOnce, NEW a \in Watchers, AckStep(a)
  PROVE  AcknowledgedOnce'
<1>1. CASE UNCHANGED history
  BY <1>1 DEF AcknowledgedOnce, AckEvent, Event, AckEventType
<1>2. CASE StoresAck(a)
  <2> DEFINE c == acks[a].case
             stored == acks[a].action
  <2>1. c \in Cases /\ stored \in SlaAction /\ history[c] \in Seq(CaseEvent)
    BY <1>2, StagedAck DEF StoresAck
  <2>2. history \in [Cases -> Seq(CaseEvent)]
    BY DEF SlaTypeOK, TypeOK, StoreTypeOK
  <2>3. history' = [history EXCEPT ![c] = Append(history[c], AckEvent(stored))]
    BY <1>2 DEF StoresAck
  <2>4. Places(AckEvent(stored), history[c]) = {}
    BY <1>2 DEF StoresAck, AckTaken, Acknowledged, Places
  <2> HIDE DEF c, stored
  <2>5. ASSUME NEW d \in Cases, NEW action \in SlaAction
        PROVE  Cardinality(Places(AckEvent(action), history'[d])) <= 1
    <3>1. Cardinality(Places(AckEvent(action), history[d])) <= 1
      BY AcksCounted
    <3>2. CASE d = c /\ AckEvent(action) = AckEvent(stored)
      <4>1. Cardinality(Places(AckEvent(stored), Append(history[c], AckEvent(stored)))) = 0 + 1
        BY <2>1, <2>4, SameEvent, FS_EmptySet
      <4> QED BY <2>1, <2>2, <2>3, <3>2, <4>1
    <3>3. CASE d = c /\ AckEvent(action) # AckEvent(stored)
      <4>1. Places(AckEvent(action), Append(history[c], AckEvent(stored)))
              = Places(AckEvent(action), history[c])
        BY <2>1, <3>3, OtherEvent
      <4> QED BY <2>1, <2>2, <2>3, <3>1, <3>3, <4>1
    <3>4. CASE d # c
      BY <2>2, <2>3, <3>1, <3>4
    <3> QED BY <3>2, <3>3, <3>4
  <2> QED BY <2>5 DEF AcknowledgedOnce, Places, AckEvent, Event, AckEventType
<1> QED BY <1>1, <1>2, AckStepStores

(***************************************************************************)
(* However many watchers report an action, and however often, it has one   *)
(* event: the deduplication key is checked again when the event is stored. *)
(***************************************************************************)
THEOREM ActionsAreAcknowledgedOnce == SlaSpec => []AcknowledgedOnce
<1>1. SlaInit => AcknowledgedOnce
  <2> SUFFICES ASSUME SlaInit, NEW c \in Cases, NEW action \in SlaAction
               PROVE  Cardinality(Places(AckEvent(action), history[c])) <= 1
    BY AcksCounted
  <2>1. Places(AckEvent(action), history[c]) = {}
    BY DEF SlaInit, CaseInit, StoreInit, Places
  <2> QED BY <2>1, FS_EmptySet
<1>2. SlaTypeOK /\ AcknowledgedOnce /\ [SlaNext]_slaVars => AcknowledgedOnce'
  <2> SUFFICES ASSUME SlaTypeOK, AcknowledgedOnce, [SlaNext]_slaVars
               PROVE  AcknowledgedOnce'
    OBVIOUS
  <2>1. ASSUME [CaseNext]_caseVars PROVE AcknowledgedOnce'
    <3>1. HistoriesGrow /\ HistoriesAdd(CommandEvents)
      BY <2>1, CaseNextGrows, CaseNextAdds DEF SlaTypeOK
    <3>2. CommandEvents \cap AckEventTypes = {}
      BY AckTypes DEF CommandEvents
    <3> QED BY <3>1, <3>2, AcksUndisturbed
  <2> QED BY <2>1, AckStepOnce DEF SlaNext, slaVars, caseVars
<1> QED BY <1>1, <1>2, SlaTypeCorrect, PTL DEF SlaSpec

-----------------------------------------------------------------------------
(* No acknowledgement before its wait. *)

\* An acknowledgement reports no status.
LEMMA AckReportsNothing ==
  ASSUME NEW action \in SlaAction
  PROVE  Reports(AckEvent(action)) = None
  BY AckEventOK, AckTypes DEF Reports

\* It changes no row either: the audit stays as it was.
LEMMA AckStepAudited ==
  ASSUME SlaTypeOK, AuditMatchesStatus, NEW a \in Watchers, AckStep(a)
  PROVE  AuditMatchesStatus'
<1>1. UNCHANGED cases
  BY AckStepStores
<1>2. CASE UNCHANGED history
  BY <1>1, <1>2 DEF AuditMatchesStatus
<1>3. CASE StoresAck(a)
  <2> DEFINE c == acks[a].case
             event == AckEvent(acks[a].action)
  <2>1. c \in Cases /\ history[c] \in Seq(CaseEvent) /\ Reports(event) = None
    BY <1>3, StagedAck, AckReportsNothing DEF StoresAck
  <2>2. history' = [history EXCEPT ![c] = Append(history[c], event)]
    BY <1>3 DEF StoresAck
  <2> HIDE DEF c, event
  <2>3. \A status : Audited(status, history[c]) => Audited(status, Append(history[c], event))
    BY <2>1, OtherEventAudited
  <2> QED BY <1>1, <2>1, <2>2, <2>3 DEF AuditMatchesStatus, SlaTypeOK, TypeOK, StoreTypeOK
<1> QED BY <1>2, <1>3, AckStepStores

\* The history has the event with which the wait of the loaded row began.
Begun(ack, histories) ==
  (ack.phase \in {"loaded", "staged"} /\ ack.loaded.status \in {"WAITING_CLIENT", "WAITING_MODERATOR"}) =>
    \E i \in DOMAIN histories[ack.case] :
      histories[ack.case][i].type =
        IF ack.loaded.status = "WAITING_CLIENT"
        THEN "CLIENT_REQUEST_SENT" ELSE "CLIENT_REPLY_RECEIVED"

(***************************************************************************)
(* The inductive invariant: the row an acknowledgement has loaded may be   *)
(* an old one, but what had happened then is still in the history.         *)
(***************************************************************************)
WaitsBegun == \A a \in Watchers : Begun(acks[a], history)
WaitOK == AuditMatchesStatus /\ WaitsBegun /\ AcksFollowTheirWait

\* What had begun has begun.
LEMMA StaysBegun ==
  ASSUME HistoriesGrow, NEW ack, ack.phase \in {"loaded", "staged"} => ack.case \in Cases,
         Begun(ack, history)
  PROVE  Begun(ack, history')
  BY DEF HistoriesGrow, Kept, Begun

\* A watcher that loads a case finds the event of the wait it is in.
LEMMA LoadedWaitHasBegun ==
  ASSUME SlaTypeOK, AuditMatchesStatus, NEW c \in Cases, cases[c] # None,
         NEW ack, ack.case = c, ack.loaded = cases[c]
  PROVE  Begun(ack, history)
<1>1. PICK i \in DOMAIN history[c] : Reports(history[c][i]) = cases[c].status
  BY DEF AuditMatchesStatus, Audited
<1>2. None \notin {"WAITING_CLIENT", "WAITING_MODERATOR"}
  BY NoRowAssumption DEF CaseStatus
<1>3. cases[c].status = "WAITING_CLIENT" => history[c][i].type = "CLIENT_REQUEST_SENT"
  BY <1>1, <1>2 DEF Reports
<1>4. cases[c].status = "WAITING_MODERATOR" => history[c][i].type = "CLIENT_REPLY_RECEIVED"
  BY <1>1, <1>2 DEF Reports
<1> QED BY <1>3, <1>4 DEF Begun

\* Other steps leave what the acknowledgements rely on.
LEMMA OthersKeepWaits ==
  ASSUME SlaTypeOK, WaitsBegun, AcksFollowTheirWait, HistoriesGrow, UNCHANGED acks,
         history' \in [Cases -> Seq(CaseEvent)],
         NEW types, types \cap AckEventTypes = {}, HistoriesAdd(types)
  PROVE  WaitsBegun' /\ AcksFollowTheirWait'
<1>1. ASSUME NEW a \in Watchers PROVE Begun(acks[a], history)'
  <2>1. Begun(acks[a], history')
    BY StaysBegun DEF WaitsBegun, SlaTypeOK, AckOK
  <2> QED BY <2>1 DEF Begun
<1>2. ASSUME NEW c \in Cases, NEW i \in DOMAIN history'[c],
             history'[c][i].type \in AckEventTypes
      PROVE  \E j \in 1..(i - 1) : history'[c][j].type = WaitBegins(history'[c][i].ref)
  <2>1. history[c] \in Seq(CaseEvent)
    BY DEF SlaTypeOK, TypeOK, StoreTypeOK
  <2>2. i \in DOMAIN history[c] /\ history'[c][i] = history[c][i]
    <3>1. RequestSent.type \notin AckEventTypes
      BY AckTypes DEF RequestSent, Event
    <3> QED BY <1>2, <3>1 DEF HistoriesAdd, Added, HistoriesGrow, Kept
  <2>3. PICK j \in 1..(i - 1) : history[c][j].type = WaitBegins(history[c][i].ref)
    BY <1>2, <2>2 DEF AcksFollowTheirWait
  <2>4. j \in DOMAIN history[c]
    BY <2>1, <2>2, <2>3
  <2> QED BY <2>2, <2>3, <2>4 DEF HistoriesGrow, Kept
<1> QED BY <1>1, <1>2 DEF WaitsBegun, AcksFollowTheirWait, AckEventTypes, AckEventType,
                          WaitBegins

\* One watcher goes on, with a wait that has begun if it still has a row.
LEMMA AckBegun ==
  ASSUME SlaTypeOK, WaitsBegun, HistoriesGrow, NEW a \in Watchers, NEW ack,
         acks' = [acks EXCEPT ![a] = ack],
         ack.phase \in {"loaded", "staged"} => ack.case \in Cases,
         Begun(ack, history)
  PROVE  WaitsBegun'
<1>1. ASSUME NEW b \in Watchers PROVE Begun(acks[b], history)'
  <2>1. CASE b = a
    <3>1. acks'[b] = ack
      BY <2>1 DEF SlaTypeOK
    <3> QED BY <3>1, StaysBegun DEF Begun
  <2>2. CASE b # a
    <3>1. acks'[b] = acks[b] /\ Begun(acks[b], history)
      BY <2>2 DEF SlaTypeOK, WaitsBegun
    <3>2. acks[b].phase \in {"loaded", "staged"} => acks[b].case \in Cases
      BY DEF SlaTypeOK, AckOK
    <3> QED BY <3>1, <3>2, StaysBegun DEF Begun
  <2> QED BY <2>1, <2>2
<1> QED BY <1>1 DEF WaitsBegun

\* The steps of an acknowledgement load a wait that has begun or keep it.
LEMMA AckStepBegun ==
  ASSUME SlaTypeOK, AuditMatchesStatus, WaitsBegun, NEW a \in Watchers, AckStep(a)
  PROVE  WaitsBegun'
<1>1. HistoriesGrow
  BY AckStepStore
<1>2. ASSUME NEW answer, EndAck(a, answer) PROVE WaitsBegun'
  <2> DEFINE ack == [NoAck EXCEPT !.phase = "answered", !.answer = answer]
  <2>1. ack.phase = "answered" /\ acks' = [acks EXCEPT ![a] = ack]
    BY <1>2 DEF EndAck, NoAck
  <2> HIDE DEF ack
  <2> QED BY <1>1, <2>1, AckBegun DEF Begun
<1>3. ASSUME NEW c \in Cases, NEW action, NEW now, ReceiveAck(a, c, action, now)
      PROVE  WaitsBegun'
  <2> DEFINE ack == [phase |-> "loaded", case |-> c, action |-> action,
                     loaded |-> cases[c], now |-> now, answer |-> None]
  <2>1. CASE cases[c] # None /\ acks' = [acks EXCEPT ![a] = ack]
    <3>1. ack.case = c /\ ack.loaded = cases[c]
      OBVIOUS
    <3> HIDE DEF ack
    <3>2. Begun(ack, history)
      BY <2>1, <3>1, LoadedWaitHasBegun
    <3> QED BY <1>1, <2>1, <3>1, <3>2, AckBegun
  <2> QED BY <1>2, <1>3, <2>1 DEF ReceiveAck
<1>4. CASE LookUpAck(a)
  <2> DEFINE ack == [acks[a] EXCEPT !.phase = "staged"]
  <2>1. CASE acks' = [acks EXCEPT ![a].phase = "staged"]
    <3>1. acks[a] \in Ack /\ acks[a].phase = "loaded" /\ Begun(acks[a], history)
      BY <1>4 DEF SlaTypeOK, LookUpAck, WaitsBegun
    <3>2. ack.case = acks[a].case /\ ack.loaded = acks[a].loaded
      BY <3>1 DEF Ack
    <3>3. acks' = [acks EXCEPT ![a] = ack]
      BY <2>1
    <3> HIDE DEF ack
    <3>4. Begun(ack, history)
      BY <3>1, <3>2 DEF Begun
    <3>5. ack.case \in Cases
      BY <3>1, <3>2, StagedAck
    <3> QED BY <1>1, <3>3, <3>4, <3>5, AckBegun
  <2> QED BY <1>2, <1>4, <2>1 DEF LookUpAck
<1>5. CASE ReturnAck(a)
  <2>1. NoAck.phase = "idle"
    BY DEF NoAck
  <2> QED BY <1>1, <1>5, <2>1, AckBegun DEF ReturnAck, Begun
<1> QED BY <1>2, <1>3, <1>4, <1>5 DEF AckStep, CommitAck, AbortAck

\* What is stored has passed the check, on a row in its wait.
LEMMA StagedWaitHasBegun ==
  ASSUME SlaTypeOK, WaitsBegun, NEW a \in Watchers, acks[a].phase = "staged"
  PROVE  \E j \in DOMAIN history[acks[a].case] :
           history[acks[a].case][j].type = WaitBegins(acks[a].action)
<1>1. InItsWait(acks[a].loaded, acks[a].action)
  BY DEF SlaTypeOK, AckOK, Acknowledgeable
<1>2. Begun(acks[a], history)
  BY DEF WaitsBegun
<1> QED BY <1>1, <1>2 DEF InItsWait, Begun, WaitBegins

\* An acknowledgement that is stored follows its wait.
LEMMA AckStepFollows ==
  ASSUME SlaTypeOK, WaitsBegun, AcksFollowTheirWait, NEW a \in Watchers, AckStep(a)
  PROVE  AcksFollowTheirWait'
<1>1. CASE UNCHANGED history
  BY <1>1 DEF AcksFollowTheirWait, AckEventTypes, AckEventType, WaitBegins
<1>2. CASE StoresAck(a)
  <2> DEFINE c == acks[a].case
             action == acks[a].action
             event == AckEvent(action)
             longer == Append(history[c], event)
  <2>1. c \in Cases /\ action \in SlaAction /\ history[c] \in Seq(CaseEvent)
    BY <1>2, StagedAck DEF StoresAck
  <2>2. history \in [Cases -> Seq(CaseEvent)]
    BY DEF SlaTypeOK, TypeOK, StoreTypeOK
  <2>3. history' = [history EXCEPT ![c] = longer]
    BY <1>2 DEF StoresAck
  <2>4. PICK begin \in DOMAIN history[c] : history[c][begin].type = WaitBegins(action)
    BY <1>2, StagedWaitHasBegun DEF StoresAck
  <2>5. event.ref = action
    BY <2>1, AckEventOK
  <2> HIDE DEF c, action, event
  <2>6. ASSUME NEW i \in DOMAIN longer, longer[i].type \in AckEventTypes
        PROVE  \E j \in 1..(i - 1) : longer[j].type = WaitBegins(longer[i].ref)
    <3>1. CASE i \in DOMAIN history[c]
      <4>1. longer[i] = history[c][i]
        BY <2>1, <3>1
      <4>2. PICK j \in 1..(i - 1) : history[c][j].type = WaitBegins(history[c][i].ref)
        BY <2>1, <2>6, <3>1, <4>1 DEF AcksFollowTheirWait
      <4>3. longer[j] = history[c][j]
        BY <2>1, <3>1, <4>2
      <4> QED BY <4>1, <4>2, <4>3
    <3>2. CASE i \notin DOMAIN history[c]
      <4>1. i = Len(history[c]) + 1 /\ longer[i] = event
        BY <2>1, <3>2
      <4>2. begin \in 1..(i - 1) /\ longer[begin] = history[c][begin]
        BY <2>1, <2>4, <4>1
      <4> QED BY <2>4, <2>5, <4>1, <4>2
    <3> QED BY <3>1, <3>2
  <2>7. ASSUME NEW d \in Cases, NEW i \in DOMAIN history'[d],
               history'[d][i].type \in AckEventTypes
        PROVE  \E j \in 1..(i - 1) : history'[d][j].type = WaitBegins(history'[d][i].ref)
    <3>1. CASE d = c
      BY <2>1, <2>2, <2>3, <2>6, <2>7, <3>1
    <3>2. CASE d # c
      BY <2>2, <2>3, <2>7, <3>2 DEF AcksFollowTheirWait
    <3> QED BY <3>1, <3>2
  <2> QED BY <2>7 DEF AcksFollowTheirWait, AckEventTypes, AckEventType, WaitBegins
<1> QED BY <1>1, <1>2, AckStepStores

\* Every step keeps the invariant.
LEMMA SlaNextWaits ==
  ASSUME SlaTypeOK, WaitOK, [SlaNext]_slaVars
  PROVE  WaitOK'
<1>1. ASSUME [CaseNext]_caseVars, UNCHANGED acks PROVE WaitOK'
  <2>1. AuditMatchesStatus'
    BY <1>1, CaseNextAudited DEF SlaTypeOK, WaitOK
  <2>2. /\ HistoriesGrow /\ HistoriesAdd(CommandEvents)
        /\ history' \in [Cases -> Seq(CaseEvent)]
    BY <1>1, CaseNextGrows, CaseNextAdds, CaseNextTypeOK DEF SlaTypeOK, TypeOK, StoreTypeOK
  <2>3. CommandEvents \cap AckEventTypes = {}
    BY AckTypes DEF CommandEvents
  <2>4. WaitsBegun' /\ AcksFollowTheirWait'
    BY <1>1, <2>2, <2>3, OthersKeepWaits DEF WaitOK
  <2> QED BY <2>1, <2>4 DEF WaitOK
<1>2. ASSUME NEW a \in Watchers, AckStep(a) PROVE WaitOK'
  BY <1>2, AckStepAudited, AckStepBegun, AckStepFollows DEF WaitOK
<1> QED BY <1>1, <1>2 DEF SlaNext, slaVars, caseVars

(***************************************************************************)
(* A reminder or an escalation is on record only after the event with      *)
(* which its wait began, although the row it was checked on may be an old  *)
(* one by the time it is stored.                                           *)
(***************************************************************************)
THEOREM AcksHaveTheirWait == SlaSpec => []AcksFollowTheirWait
<1>1. SlaInit => WaitOK
  <2> SUFFICES ASSUME SlaInit PROVE WaitOK
    OBVIOUS
  <2>1. AuditMatchesStatus /\ AcksFollowTheirWait
    BY DEF SlaInit, CaseInit, StoreInit, AuditMatchesStatus, AcksFollowTheirWait
  <2>2. WaitsBegun
    BY DEF SlaInit, WaitsBegun, Begun, NoAck
  <2> QED BY <2>1, <2>2 DEF WaitOK
<1>2. SlaTypeOK /\ WaitOK /\ [SlaNext]_slaVars => WaitOK'
  BY SlaNextWaits
<1>3. WaitOK => AcksFollowTheirWait
  BY DEF WaitOK
<1> QED BY <1>1, <1>2, <1>3, SlaTypeCorrect, PTL DEF SlaSpec

-----------------------------------------------------------------------------
(* The query and the check. *)

\* The waits of a case.
Waits == {"WAITING_CLIENT", "WAITING_MODERATOR"}

\* A case with a first deadline waits, and the deadline is an instant.
LEMMA DeadlineOfAWait ==
  ASSUME NEW row \in CaseRow, FirstDeadline(row) # None
  PROVE  row.status \in Waits /\ FirstDeadline(row) \in Nat
  BY DEF CaseRow, CaseStatus, Deadline, FirstDeadline, Waits

\* The settings of either wait are minutes.
LEMMA MinutesAreNumbers ==
  /\ ClientMinutes \in Nat /\ ClientReminder2 \in Nat /\ ClientEscalation \in Nat
  /\ ModeratorMinutes \in Nat /\ ModeratorReminder2 \in Nat /\ ModeratorEscalation \in Nat
  BY MinutesAssumption, ThresholdsAssumption

\* Each threshold is an action of the wait, at its place.
LEMMA ThresholdPlaces ==
  ASSUME NEW status \in Waits, NEW i \in 1..3
  PROVE  LET action == Thresholds(status)[i]
         IN /\ action \in SlaAction /\ Place(action) = i /\ LevelValid(action)
            /\ WaitBegins(action) = IF status = "WAITING_CLIENT"
                                    THEN "CLIENT_REQUEST_SENT" ELSE "CLIENT_REPLY_RECEIVED"
<1>1. i = 1 \/ i = 2 \/ i = 3
  OBVIOUS
<1>2. None \notin {1, 2, 3}
  BY NoneAssumption
<1> QED BY <1>1, <1>2 DEF Waits, Thresholds, SlaAction, SlaActionType, Place, LevelValid,
                          WaitBegins

\* The check reaches each threshold at the instant the query does.
LEMMA SameInstants ==
  ASSUME NEW row, row.status \in Waits, FirstDeadline(row) \in Nat, NEW i \in 1..3, NEW now \in Nat
  PROVE  /\ InItsWait(row, Thresholds(row.status)[i])
         /\ Passed(row, i, now)
              <=> now >= FirstDeadline(row) + Delay(Thresholds(row.status)[i])
<1>1. i = 1 \/ i = 2 \/ i = 3
  OBVIOUS
<1>2. CASE row.status = "WAITING_CLIENT"
  BY <1>1, <1>2, MinutesAreNumbers
  DEF Thresholds, InItsWait, Passed, WaitStarted, Offsets, Delay, ReminderOffset
<1>3. CASE row.status = "WAITING_MODERATOR"
  BY <1>1, <1>3, MinutesAreNumbers
  DEF Thresholds, InItsWait, Passed, WaitStarted, Offsets, Delay, ReminderOffset
<1> QED BY <1>2, <1>3 DEF Waits

\* A valid action of a wait is one of its thresholds.
LEMMA NoOtherActions ==
  ASSUME NEW row, row.status \in Waits, NEW action \in SlaAction,
         InItsWait(row, action), LevelValid(action)
  PROVE  \E i \in 1..3 : action = Thresholds(row.status)[i]
<1>1. PICK type \in SlaActionType, level \in {1, 2, None} : action = <<type, level>>
  BY DEF SlaAction
<1>2. None \notin {1, 2}
  BY NoneAssumption
<1>3. CASE type \in {"REMIND_CLIENT", "ESCALATE_CLIENT_WAIT"}
  <2>1. row.status = "WAITING_CLIENT"
    BY <1>1, <1>3 DEF InItsWait
  <2> QED BY <1>1, <1>2, <1>3, <2>1 DEF LevelValid, Thresholds
<1>4. CASE type \in {"REMIND_MODERATOR", "ESCALATE_MODERATOR_WAIT"}
  <2>1. row.status = "WAITING_MODERATOR"
    BY <1>1, <1>4 DEF InItsWait
  <2> QED BY <1>1, <1>2, <1>4, <2>1 DEF LevelValid, Thresholds
<1> QED BY <1>3, <1>4 DEF SlaActionType

\* What would be accepted are the thresholds passed.
LEMMA AcceptablePassed ==
  ASSUME NEW c \in Cases, cases[c] \in CaseRow, FirstDeadline(cases[c]) # None,
         cases[c] # None, NEW now \in Nat
  PROVE  Acceptable(c, now) =
           {Thresholds(cases[c].status)[i] : i \in {j \in 1..3 : Passed(cases[c], j, now)}}
<1> DEFINE row == cases[c]
<1>1. row.status \in Waits /\ FirstDeadline(row) \in Nat
  BY DeadlineOfAWait
<1>2. \A i \in 1..3 : /\ Thresholds(row.status)[i] \in SlaAction
                       /\ Acknowledgeable(row, Thresholds(row.status)[i], now)
                            <=> Passed(row, i, now)
  BY <1>1, ThresholdPlaces, SameInstants DEF Acknowledgeable
<1>3. \A action \in SlaAction : Acknowledgeable(row, action, now) =>
        \E i \in 1..3 : action = Thresholds(row.status)[i]
  BY <1>1, NoOtherActions DEF Acknowledgeable
<1> QED BY <1>2, <1>3 DEF Acceptable

\* Nothing is beyond the highest of the thresholds passed.
LEMMA HighestIsLast ==
  ASSUME NEW status \in Waits, NEW passed \in SUBSET (1..3), NEW i \in passed
  PROVE  i \in Highest(passed) <=>
           \A high \in {Thresholds(status)[j] : j \in passed} :
             ~Beyond(high, Thresholds(status)[i])
<1>1. \A j \in passed : /\ Place(Thresholds(status)[j]) = j
                         /\ WaitBegins(Thresholds(status)[j]) = WaitBegins(Thresholds(status)[i])
  BY ThresholdPlaces
<1>2. \A j \in passed : Beyond(Thresholds(status)[j], Thresholds(status)[i]) <=> j > i
  BY <1>1 DEF Beyond
<1> QED BY <1>2 DEF Highest

\* What the query lists is acceptable, and nothing acceptable lies beyond it.
LEMMA ListedIsAcceptable == SlaTypeOK => ListAgreesWithAck
<1> SUFFICES ASSUME SlaTypeOK, NEW c \in Cases
             PROVE  Due(c, clock) = {action \in Acceptable(c, clock) :
                      /\ ~AckTaken(c, action)
                      /\ \A high \in Acceptable(c, clock) : ~Beyond(high, action)}
  BY DEF ListAgreesWithAck
<1> DEFINE row == cases[c]
           passed == {i \in 1..3 : Passed(row, i, clock)}
           threshold(i) == Thresholds(row.status)[i]
<1>1. clock \in Nat /\ row \in CaseRow \cup {None}
  BY MaxClockAssumption DEF SlaTypeOK, TypeOK, StoreTypeOK
<1>2. CASE row = None \/ FirstDeadline(row) = None
  BY <1>2 DEF Due, Acceptable, Acknowledgeable
<1>3. CASE row # None /\ FirstDeadline(row) # None
  <2>1. row \in CaseRow /\ row.status \in Waits /\ FirstDeadline(row) \in Nat
    BY <1>1, <1>3, DeadlineOfAWait
  <2>2. Acceptable(c, clock) = {threshold(i) : i \in passed}
    BY <1>1, <1>3, <2>1, AcceptablePassed
  <2>3. \A i \in passed : i \in Highest(passed) <=>
          \A high \in Acceptable(c, clock) : ~Beyond(high, threshold(i))
    BY <2>1, <2>2, HighestIsLast
  <2>4. Highest(passed) \subseteq passed
    BY DEF Highest
  <2>5. FirstDeadline(row) > clock => passed = {}
    <3>1. FirstDeadline(row) > clock => \A i \in 1..3 : ~Passed(row, i, clock)
      <4>1. \A i \in 1..3 : Delay(threshold(i)) >= 0 /\ Delay(threshold(i)) \in Int
        BY <2>1, MinutesAreNumbers, ThresholdsAssumption
        DEF Waits, Thresholds, Delay, ReminderOffset
      <4>2. \A i \in 1..3 : Passed(row, i, clock) <=>
              clock >= FirstDeadline(row) + Delay(threshold(i))
        BY <1>1, <2>1, SameInstants
      <4> HIDE DEF threshold, row
      <4> QED BY <1>1, <2>1, <4>1, <4>2
    <3> QED BY <3>1
  <2> HIDE DEF passed, threshold
  <2>6. {action \in Acceptable(c, clock) :
           /\ ~AckTaken(c, action)
           /\ \A high \in Acceptable(c, clock) : ~Beyond(high, action)}
         = {action \in {threshold(i) : i \in Highest(passed)} : ~AckTaken(c, action)}
    BY <2>2, <2>3, <2>4
  <2>7. Due(c, clock) = {action \in {threshold(i) : i \in Highest(passed)} :
                          ~AckTaken(c, action)}
    <3>1. CASE FirstDeadline(row) > clock
      <4>1. Highest(passed) = {} /\ Due(c, clock) = {}
        BY <1>3, <2>4, <2>5, <3>1 DEF Due
      <4> QED BY <4>1
    <3>2. CASE ~(FirstDeadline(row) > clock)
      BY <1>3, <3>2 DEF Due, AckTaken, passed, threshold
    <3> QED BY <3>1, <3>2
  <2> QED BY <2>6, <2>7
<1> QED BY <1>2, <1>3

(***************************************************************************)
(* For all thresholds and at every instant, what the query lists is what   *)
(* an acknowledgement would be accepted for.                               *)
(***************************************************************************)
THEOREM QueryAgreesWithCheck == SlaSpec => []ListAgreesWithAck
<1> QED BY ListedIsAcceptable, SlaTypeCorrect, PTL

-----------------------------------------------------------------------------
(* No catch-up, if commands on one case do not overlap. *)

\* What is acknowledged of the wait a case is in, is valid and had been reached.
AcksTimely ==
  \A c \in Cases, action \in SlaAction :
    (cases[c] # None /\ InItsWait(cases[c], action) /\ Acknowledged(c, action))
    => LevelValid(action) /\ clock >= FirstDeadline(cases[c]) + Delay(action)

\* A row that a watcher has loaded is an old one, or has the deadline of the wait still.
Current(ack, rows) ==
  (ack.phase \in {"loaded", "staged"} /\ ack.loaded.status \in Waits
     /\ rows[ack.case].status = ack.loaded.status)
  => FirstDeadline(rows[ack.case]) = FirstDeadline(ack.loaded)
AcksCurrent == \A a \in Watchers : Current(acks[a], cases) /\ acks[a].now <= clock

\* An action is in its wait if the case is in the status that its first event reports.
LEMMA WaitOfAction ==
  ASSUME NEW row, NEW action
  PROVE  InItsWait(row, action) <=>
           row.status = IF WaitBegins(action) = "CLIENT_REQUEST_SENT"
                        THEN "WAITING_CLIENT" ELSE "WAITING_MODERATOR"
  BY DEF InItsWait, WaitBegins

\* A case that moves to a wait has no event of that wait behind it.
LEMMA NewWaitIsNew ==
  ASSUME TypeOK, TypeOK', StoryOK, NEW c \in Cases, Moves(c), NEW i \in DOMAIN history[c],
         NEW type \in {"CLIENT_REQUEST_SENT", "CLIENT_REPLY_RECEIVED"},
         cases'[c].status =
           IF type = "CLIENT_REQUEST_SENT" THEN "WAITING_CLIENT" ELSE "WAITING_MODERATOR"
  PROVE  history[c][i].type # type
<1>1. /\ cases[c].status \in CaseStatus /\ cases'[c].status \in CaseStatus
      /\ Allowed(cases[c].status, cases'[c].status)
      /\ Behind(history[c], cases[c].status)
  BY DEF Moves, TypeOK, StoreTypeOK, CaseRow, StoryOK
<1>2. cases'[c].status \notin {None} \cup Earlier[cases[c].status]
  BY <1>1, AllowedIsAhead, NoRowAssumption
<1>3. Reports(history[c][i]) # cases'[c].status
  BY <1>1, <1>2 DEF Behind
<1>4. history[c][i].type = type => Reports(history[c][i]) = cases'[c].status
  BY DEF Reports
<1> QED BY <1>3, <1>4

\* Either a case keeps its status and its deadlines, or it goes on.
LEMMA StaysOrGoesOn ==
  ASSUME StoryStep, NEW c \in Cases
  PROVE  Stays(c) \/ Moves(c) \/ Appears(c)
  BY DEF StoryStep

\* A case that stays has the first deadline it had.
LEMMA StayingDeadline ==
  ASSUME NEW c \in Cases, Stays(c), cases[c] # None
  PROVE  FirstDeadline(cases'[c]) = FirstDeadline(cases[c]) /\ cases'[c].status = cases[c].status
  BY DEF Stays, FirstDeadline

\* Acknowledgements stay timely while the case goes on.
LEMMA StoryKeepsTimely ==
  ASSUME SlaTypeOK, TypeOK', StoryOK, AcksFollowTheirWait, AcksTimely, StoryStep,
         NEW types, types \cap AckEventTypes = {}, HistoriesAdd(types), HistoriesGrow,
         clock' >= clock
  PROVE  AcksTimely'
<1> SUFFICES ASSUME NEW c \in Cases, NEW action \in SlaAction, cases'[c] # None,
                    InItsWait(cases'[c], action), Acknowledged(c, action)'
             PROVE  LevelValid(action) /\ clock' >= FirstDeadline(cases'[c]) + Delay(action)
  BY DEF AcksTimely, InItsWait, LevelValid, FirstDeadline, Delay
<1>1. Acknowledged(c, action)
  <2>1. PICK i \in DOMAIN history'[c] : history'[c][i] = AckEvent(action)
    BY DEF Acknowledged, AckEvent, Event, AckEventType
  <2>2. AckEvent(action).type \notin types /\ AckEvent(action) # RequestSent
    BY AckEventOK, AckTypes DEF RequestSent, Event
  <2>3. i \in DOMAIN history[c]
    BY <2>1, <2>2 DEF HistoriesAdd, Added
  <2> QED BY <2>1, <2>3 DEF HistoriesGrow, Kept, Acknowledged
<1>2. CASE Stays(c)
  <2>1. cases[c] # None
    BY <1>2 DEF Stays
  <2>2. FirstDeadline(cases'[c]) = FirstDeadline(cases[c]) /\ cases'[c].status = cases[c].status
    BY <1>2, <2>1, StayingDeadline
  <2>3. LevelValid(action) /\ clock >= FirstDeadline(cases[c]) + Delay(action)
    BY <1>1, <2>1, <2>2 DEF AcksTimely, InItsWait
  <2>4. cases[c].status \in Waits
    BY <2>2 DEF InItsWait, Waits
  <2>5. FirstDeadline(cases[c]) \in Nat
    <3>1. cases[c] \in CaseRow /\ cases[c].status \in Waits
      BY <2>1, <2>4 DEF SlaTypeOK, TypeOK, StoreTypeOK
    <3>2. Timed(cases[c])
      BY <2>1 DEF StoryOK
    <3> QED BY <3>1, <3>2 DEF Timed, FirstDeadline, Waits, CaseRow, Deadline
  <2>6. Delay(action) \in Int
    BY <2>3, MinutesAreNumbers DEF LevelValid, Delay, ReminderOffset, SlaAction, SlaActionType
  <2>7. clock \in Nat /\ clock' \in Nat
    BY MaxClockAssumption DEF SlaTypeOK, TypeOK, StoreTypeOK
  <2> QED BY <2>2, <2>3, <2>5, <2>6, <2>7
<1>3. CASE Moves(c)
  <2>1. PICK i \in DOMAIN history[c] : history[c][i] = AckEvent(action)
    BY <1>1 DEF Acknowledged
  <2>2. PICK j \in 1..(i - 1) : history[c][j].type = WaitBegins(action)
    BY <2>1, AckEventOK DEF AcksFollowTheirWait
  <2>3. j \in DOMAIN history[c]
    BY <2>1, <2>2 DEF SlaTypeOK, TypeOK, StoreTypeOK
  <2>4. WaitBegins(action) \in {"CLIENT_REQUEST_SENT", "CLIENT_REPLY_RECEIVED"}
    BY DEF WaitBegins
  <2>5. cases'[c].status = IF WaitBegins(action) = "CLIENT_REQUEST_SENT"
                           THEN "WAITING_CLIENT" ELSE "WAITING_MODERATOR"
    BY WaitOfAction
  <2>6. history[c][j].type # WaitBegins(action)
    BY <1>3, <2>3, <2>4, <2>5, NewWaitIsNew DEF SlaTypeOK
  <2> QED BY <2>2, <2>6
<1>4. CASE Appears(c)
  BY <1>4 DEF Appears, InItsWait
<1> QED BY <1>2, <1>3, <1>4, StaysOrGoesOn

\* A row that a watcher has loaded stays current, or is an old one from now on.
LEMMA StoryKeepsCurrent ==
  ASSUME SlaTypeOK, TypeOK', StoryOK, WaitsBegun, AcksCurrent, StoryStep,
         UNCHANGED acks, clock' >= clock
  PROVE  AcksCurrent'
<1> SUFFICES ASSUME NEW a \in Watchers
             PROVE  Current(acks[a], cases') /\ acks[a].now <= clock'
  BY DEF AcksCurrent, Current, Waits, FirstDeadline
<1> DEFINE ack == acks[a]
           c == ack.case
<1>1. Current(ack, cases) /\ ack.now <= clock /\ Begun(ack, history)
  BY DEF AcksCurrent, WaitsBegun
<1>2. ack.now <= clock'
  <2>1. ack.now \in Nat /\ clock \in Nat /\ clock' \in Nat
    BY MaxClockAssumption DEF SlaTypeOK, Ack, TypeOK, StoreTypeOK
  <2> QED BY <1>1, <2>1
<1>3. ASSUME ack.phase \in {"loaded", "staged"}, ack.loaded.status \in Waits,
             cases'[c].status = ack.loaded.status
      PROVE  FirstDeadline(cases'[c]) = FirstDeadline(ack.loaded)
  <2>1. c \in Cases /\ cases[c] # None
    BY <1>3, StagedAck
  <2>2. CASE Stays(c)
    <3>1. FirstDeadline(cases'[c]) = FirstDeadline(cases[c]) /\ cases'[c].status = cases[c].status
      BY <2>1, <2>2, StayingDeadline
    <3> QED BY <1>1, <1>3, <3>1 DEF Current
  <2>3. CASE Moves(c)
    <3> DEFINE type == IF ack.loaded.status = "WAITING_CLIENT"
                       THEN "CLIENT_REQUEST_SENT" ELSE "CLIENT_REPLY_RECEIVED"
    <3>1. PICK i \in DOMAIN history[c] : history[c][i].type = type
      BY <1>1, <1>3 DEF Begun, Waits
    <3>2. /\ type \in {"CLIENT_REQUEST_SENT", "CLIENT_REPLY_RECEIVED"}
          /\ cases'[c].status = IF type = "CLIENT_REQUEST_SENT"
                                THEN "WAITING_CLIENT" ELSE "WAITING_MODERATOR"
      BY <1>3 DEF Waits
    <3> HIDE DEF type
    <3>3. history[c][i].type # type
      BY <2>1, <2>3, <3>2, NewWaitIsNew DEF SlaTypeOK
    <3> QED BY <3>1, <3>3
  <2>4. CASE Appears(c)
    BY <2>1, <2>4 DEF Appears
  <2> QED BY <2>1, <2>2, <2>3, <2>4, StaysOrGoesOn
<1> QED BY <1>2, <1>3 DEF Current

\* An acknowledgement that is stored is timely.
LEMMA AckStepTimely ==
  ASSUME SlaTypeOK, AcksTimely, AcksCurrent, NEW a \in Watchers, AckStep(a)
  PROVE  AcksTimely'
<1>1. UNCHANGED <<clock, cases>>
  BY AckStepStores
<1>2. CASE UNCHANGED history
  BY <1>1, <1>2 DEF AcksTimely, InItsWait, LevelValid, FirstDeadline, Delay, Acknowledged,
                    AckEvent, Event, AckEventType
<1>3. CASE StoresAck(a)
  <2> DEFINE d == acks[a].case
             stored == acks[a].action
             loaded == acks[a].loaded
  <2>1. /\ d \in Cases /\ stored \in SlaAction /\ history[d] \in Seq(CaseEvent)
        /\ history \in [Cases -> Seq(CaseEvent)] /\ loaded \in CaseRow
        /\ acks[a].phase = "staged" /\ acks[a].now \in Nat
    BY <1>3, StagedAck DEF StoresAck, SlaTypeOK, TypeOK, StoreTypeOK, Ack
  <2>2. history' = [history EXCEPT ![d] = Append(history[d], AckEvent(stored))]
    BY <1>3 DEF StoresAck
  <2>3. Acknowledgeable(loaded, stored, acks[a].now) /\ Current(acks[a], cases)
        /\ acks[a].now <= clock
    BY <2>1 DEF SlaTypeOK, AckOK, AcksCurrent
  <2> SUFFICES ASSUME NEW c \in Cases, NEW action \in SlaAction, cases[c] # None,
                      InItsWait(cases[c], action), Acknowledged(c, action)'
               PROVE  LevelValid(action) /\ clock >= FirstDeadline(cases[c]) + Delay(action)
    BY <1>1 DEF AcksTimely, InItsWait, LevelValid, FirstDeadline, Delay
  <2>4. CASE Acknowledged(c, action)
    BY <2>4 DEF AcksTimely
  <2>5. CASE ~Acknowledged(c, action)
    <3>1. PICK i \in DOMAIN history'[c] : history'[c][i] = AckEvent(action)
      BY DEF Acknowledged, AckEvent, Event, AckEventType
    <3>2. c = d
      BY <2>1, <2>2, <2>5, <3>1 DEF Acknowledged
    <3>3. AckEvent(action) = AckEvent(stored)
      <4> HIDE DEF d, stored
      <4>1. history'[c] = Append(history[c], AckEvent(stored))
        BY <2>1, <2>2, <3>2
      <4>2. ~(i \in DOMAIN history[c] /\ history[c][i] = AckEvent(action))
        BY <2>5 DEF Acknowledged
      <4> QED BY <2>1, <3>1, <4>1, <4>2
    <3>4. action = stored
      BY <2>1, <3>3, AckEventOK
    <3>5. InItsWait(loaded, action) /\ FirstDeadline(loaded) # None
          /\ LevelValid(action) /\ acks[a].now >= FirstDeadline(loaded) + Delay(action)
      BY <2>3, <3>4 DEF Acknowledgeable
    <3>6. loaded.status \in Waits /\ cases[c].status = loaded.status
      BY <3>5 DEF InItsWait, Waits
    <3>7. FirstDeadline(cases[c]) = FirstDeadline(loaded)
      BY <2>1, <2>3, <3>2, <3>6 DEF Current
    <3>8. FirstDeadline(loaded) \in Nat
      BY <2>1, <3>5, DeadlineOfAWait
    <3>9. Delay(action) \in Int
      BY <3>5, MinutesAreNumbers DEF LevelValid, Delay, ReminderOffset, SlaAction, SlaActionType
    <3>10. clock \in Nat
      BY MaxClockAssumption DEF SlaTypeOK, TypeOK, StoreTypeOK
    <3> HIDE DEF loaded
    <3> QED BY <2>1, <2>3, <3>5, <3>7, <3>8, <3>9, <3>10
  <2> QED BY <2>4, <2>5
<1> QED BY <1>2, <1>3, AckStepStores

\* A watcher loads what is stored, or keeps what it has loaded.
LEMMA AckStepCurrent ==
  ASSUME SlaTypeOK, AcksCurrent, NEW a \in Watchers, AckStep(a)
  PROVE  AcksCurrent'
<1>1. UNCHANGED <<clock, cases>>
  BY AckStepStores
<1>2. ASSUME NEW ack, acks' = [acks EXCEPT ![a] = ack], Current(ack, cases), ack.now <= clock
      PROVE  AcksCurrent'
  <2>1. \A b \in Watchers : acks'[b] = IF b = a THEN ack ELSE acks[b]
    BY <1>2 DEF SlaTypeOK
  <2>2. \A b \in Watchers : Current(acks'[b], cases') /\ acks'[b].now <= clock'
    BY <1>1, <1>2, <2>1 DEF AcksCurrent
  <2> QED BY <2>2 DEF AcksCurrent, Current, Waits, FirstDeadline
<1>3. ASSUME NEW answer, EndAck(a, answer) PROVE AcksCurrent'
  <2> DEFINE ack == [NoAck EXCEPT !.phase = "answered", !.answer = answer]
  <2>1. ack.phase = "answered" /\ ack.now = 0 /\ acks' = [acks EXCEPT ![a] = ack]
    BY <1>3 DEF EndAck, NoAck
  <2>2. clock >= 0
    BY MaxClockAssumption DEF SlaTypeOK, TypeOK, StoreTypeOK
  <2> HIDE DEF ack
  <2> QED BY <1>2, <2>1, <2>2, MaxClockAssumption DEF Current, SlaTypeOK, TypeOK, StoreTypeOK
<1>4. ASSUME NEW c \in Cases, NEW action, NEW now \in RequestTimes, ReceiveAck(a, c, action, now)
      PROVE  AcksCurrent'
  <2> DEFINE ack == [phase |-> "loaded", case |-> c, action |-> action,
                     loaded |-> cases[c], now |-> now, answer |-> None]
  <2>1. CASE acks' = [acks EXCEPT ![a] = ack]
    <3>1. ack.now <= clock
      BY MaxClockAssumption DEF RequestTimes, SlaTypeOK, TypeOK, StoreTypeOK
    <3>2. Current(ack, cases)
      BY DEF Current
    <3> HIDE DEF ack
    <3> QED BY <1>2, <2>1, <3>1, <3>2
  <2> QED BY <1>3, <1>4, <2>1 DEF ReceiveAck
<1>5. CASE LookUpAck(a)
  <2> DEFINE ack == [acks[a] EXCEPT !.phase = "staged"]
  <2>1. CASE acks' = [acks EXCEPT ![a].phase = "staged"]
    <3>1. /\ acks[a] \in Ack /\ acks[a].phase = "loaded"
          /\ Current(acks[a], cases) /\ acks[a].now <= clock
      BY <1>5 DEF SlaTypeOK, LookUpAck, AcksCurrent
    <3>2. ack.case = acks[a].case /\ ack.loaded = acks[a].loaded /\ ack.now = acks[a].now
      BY <3>1 DEF Ack
    <3>3. acks' = [acks EXCEPT ![a] = ack]
      BY <2>1
    <3> HIDE DEF ack
    <3>4. Current(ack, cases)
      BY <3>1, <3>2 DEF Current
    <3> QED BY <1>2, <3>1, <3>2, <3>3, <3>4
  <2> QED BY <1>3, <1>5, <2>1 DEF LookUpAck
<1>6. CASE ReturnAck(a)
  <2>1. NoAck.phase = "idle" /\ NoAck.now <= clock
    BY MaxClockAssumption DEF NoAck, SlaTypeOK, TypeOK, StoreTypeOK
  <2> QED BY <1>2, <1>6, <2>1 DEF ReturnAck, Current
<1> QED BY <1>3, <1>4, <1>5, <1>6 DEF AckStep, CommitAck, AbortAck

\* An acknowledgement leaves every story where it is.
LEMMA AckStepStory ==
  ASSUME SlaTypeOK, NEW a \in Watchers, AckStep(a)
  PROVE  StoryStep
<1>1. UNCHANGED <<clock, cases, replies, calls>>
  BY AckStepStores
<1>2. CASE UNCHANGED history
  BY <1>1, <1>2, SameStories
<1>3. CASE StoresAck(a)
  <2> DEFINE d == acks[a].case
             event == AckEvent(acks[a].action)
  <2>1. /\ d \in Cases /\ history[d] \in Seq(CaseEvent)
        /\ cases[d] # None /\ Reports(event) = None
    BY <1>3, StagedAck, AckReportsNothing DEF StoresAck
  <2>2. history' = [history EXCEPT ![d] = Append(history[d], event)]
    BY <1>3 DEF StoresAck
  <2> HIDE DEF d, event
  <2>3. NoneReported(history[d], Append(history[d], event))
    BY <2>1, AppendReports
  <2>4. \A c \in Cases : NoneReported(history[c], history'[c])
    BY <2>2, <2>3 DEF NoneReported, Kept, SlaTypeOK, TypeOK, StoreTypeOK
  <2>5. \A c \in Cases \ {d} : history'[c] = history[c]
    BY <2>2 DEF SlaTypeOK, TypeOK, StoreTypeOK
  <2>6. \A c \in Cases : Stays(c)
    BY <1>1, <2>1, <2>4, <2>5 DEF Stays
  <2> QED BY <2>6 DEF StoryStep
<1> QED BY <1>2, <1>3, AckStepStores

\* Time goes forward.
LEMMA TimeGoesForward ==
  ASSUME TypeOK, [CaseNext]_caseVars
  PROVE  clock' >= clock
<1>1. clock \in Nat
  BY MaxClockAssumption DEF TypeOK, StoreTypeOK
<1>2. CASE UNCHANGED clock
  BY <1>1, <1>2
<1>3. CASE Tick
  BY <1>1, <1>3 DEF Tick
<1>4. ASSUME NEW r \in Requests, CommitCommand(r) PROVE UNCHANGED clock
  BY <1>4 DEF CommitCommand, CommitMark, CommitReply, CommitConfirm, CommitCancel,
              CommitReassign, Commit, storeVars
<1> QED BY <1>2, <1>3, <1>4, ReadingSteps DEF CaseNext, CreateCase, storeVars, caseVars

(***************************************************************************)
(* The inductive invariant.  With it, what the query lists is what is due: *)
(* an action beyond it that is acknowledged would be acceptable, and then  *)
(* the query lists that one or nothing.                                    *)
(***************************************************************************)
SerialSlaInv ==
  /\ SlaTypeOK /\ WaitOK /\ StoryOK /\ LoadsFresh
  /\ AcksTimely /\ AcksCurrent

\* The empty database has nothing to say.
LEMMA SerialSlaInit == SlaInit => SerialSlaInv
<1> SUFFICES ASSUME SlaInit PROVE SerialSlaInv
  OBVIOUS
<1>1. SerialInv
  BY SerialInit DEF SlaInit
<1>2. SlaTypeOK
  <2>1. NoAck \in Ack /\ AckOK(NoAck)
    BY DEF NoAck, Ack, AckOK
  <2> QED BY <1>1, <2>1 DEF SlaInit, SlaTypeOK, SerialInv
<1>3. AcksFollowTheirWait /\ AcksTimely
  BY DEF SlaInit, CaseInit, StoreInit, AcksFollowTheirWait, AcksTimely
<1>4. WaitsBegun
  BY DEF SlaInit, WaitsBegun, Begun, NoAck
<1>5. AcksCurrent
  BY DEF SlaInit, CaseInit, StoreInit, AcksCurrent, Current, NoAck
<1> QED BY <1>1, <1>2, <1>3, <1>4, <1>5 DEF SerialInv, SerialSlaInv, WaitOK

\* Every step keeps it, is a step of the stories, and takes no time back.
LEMMA SerialSlaNext ==
  ASSUME SerialSlaInv, OneCommandPerCase, [SlaNext]_slaVars
  PROVE  SerialSlaInv' /\ StoryStep /\ clock' >= clock
<1>1. SlaTypeOK' /\ WaitOK'
  BY SlaNextOK, SlaNextWaits DEF SerialSlaInv
<1>2. SlaTypeOK /\ TypeOK /\ TypeOK' /\ AuditMatchesStatus /\ AcksFollowTheirWait /\ WaitsBegun
      /\ StoryOK /\ LoadsFresh /\ AcksTimely /\ AcksCurrent
  BY <1>1 DEF SerialSlaInv, SlaTypeOK, WaitOK
<1>3. ASSUME [CaseNext]_caseVars, UNCHANGED acks
      PROVE  SerialSlaInv' /\ StoryStep /\ clock' >= clock
  <2>1. clock' >= clock /\ HistoriesGrow /\ HistoriesAdd(CommandEvents)
    BY <1>2, <1>3, TimeGoesForward, CaseNextGrows, CaseNextAdds
  <2>2. StoryStep /\ StoryOK'
    BY <1>2, <1>3, CaseNextStory, StoryGoesOn DEF StoryOK
  <2>3. LoadsFresh'
    BY <1>2, <1>3, CaseNextFresh
  <2>4. CommandEvents \cap AckEventTypes = {}
    BY AckTypes DEF CommandEvents
  <2>5. AcksTimely' /\ AcksCurrent'
    BY <1>2, <1>3, <2>1, <2>2, <2>4, StoryKeepsTimely, StoryKeepsCurrent
  <2> QED BY <1>1, <2>1, <2>2, <2>3, <2>5 DEF SerialSlaInv
<1>4. ASSUME NEW a \in Watchers, AckStep(a)
      PROVE  SerialSlaInv' /\ StoryStep /\ clock' >= clock
  <2>1. UNCHANGED <<clock, cases, calls>> /\ clock' >= clock
    BY <1>2, <1>4, AckStepStores, MaxClockAssumption DEF TypeOK, StoreTypeOK
  <2>2. StoryStep /\ StoryOK'
    BY <1>2, <1>4, AckStepStory, StoryGoesOn
  <2>3. LoadsFresh'
    BY <1>2, <2>1 DEF LoadsFresh, StillStored, Decided, UnderWay
  <2>4. AcksTimely' /\ AcksCurrent'
    BY <1>2, <1>4, AckStepTimely, AckStepCurrent
  <2> QED BY <1>1, <2>1, <2>2, <2>3, <2>4 DEF SerialSlaInv
<1> QED BY <1>3, <1>4 DEF SlaNext, slaVars, caseVars

\* What is listed has nothing beyond it that is acknowledged.
LEMMA NothingBeyondIsAcknowledged ==
  ASSUME SerialSlaInv, ListAgreesWithAck
  PROVE  NoCatchUp
<1> SUFFICES ASSUME NEW c \in Cases, NEW low \in Due(c, clock), NEW high \in SlaAction,
                    Beyond(high, low), Acknowledged(c, high)
             PROVE  FALSE
  BY DEF NoCatchUp
<1>1. /\ low \in Acceptable(c, clock)
      /\ \A other \in Acceptable(c, clock) : ~Beyond(other, low)
  BY DEF ListAgreesWithAck
<1>2. /\ cases[c] # None /\ FirstDeadline(cases[c]) # None
      /\ InItsWait(cases[c], low)
  BY <1>1 DEF Acceptable, Acknowledgeable
<1>3. InItsWait(cases[c], high)
  BY <1>2, WaitOfAction DEF Beyond
<1>4. LevelValid(high) /\ clock >= FirstDeadline(cases[c]) + Delay(high)
  BY <1>2, <1>3 DEF SerialSlaInv, AcksTimely
<1>5. high \in Acceptable(c, clock)
  BY <1>2, <1>3, <1>4 DEF Acceptable, Acknowledgeable
<1> QED BY <1>1, <1>5

(***************************************************************************)
(* As long as commands on a case do not overlap, no lower threshold is     *)
(* listed once a higher one of its wait is acknowledged, however watchers  *)
(* and commands overlap otherwise and however old their rows are.          *)
(***************************************************************************)
THEOREM SerialNoCatchUp == SlaSpec /\ []OneCommandPerCase => []NoCatchUp
<1>1. SlaInit => SerialSlaInv
  BY SerialSlaInit
<1>2. SerialSlaInv /\ OneCommandPerCase /\ [SlaNext]_slaVars => SerialSlaInv'
  BY SerialSlaNext
<1>3. SerialSlaInv /\ ListAgreesWithAck => NoCatchUp
  BY NothingBeyondIsAcknowledged
<1> QED BY <1>1, <1>2, <1>3, QueryAgreesWithCheck, PTL DEF SlaSpec

\* One step of a due action.
LEMMA DueStaysDue ==
  ASSUME SlaTypeOK, SlaTypeOK', ListAgreesWithAck, ListAgreesWithAck', StoryStep,
         clock' >= clock, NEW c \in Cases, NEW action \in Due(c, clock),
         cases'[c].status = cases[c].status,
         ~\E i \in DOMAIN history'[c] : history'[c][i] = AckEvent(action),
         ~\E high \in Acceptable(c, clock)' : Beyond(high, action)
  PROVE  action \in Due(c, clock)'
<1>1. action \in Acceptable(c, clock)
  BY DEF ListAgreesWithAck
<1>2. /\ action \in SlaAction /\ cases[c] # None /\ FirstDeadline(cases[c]) # None
      /\ InItsWait(cases[c], action) /\ LevelValid(action)
      /\ clock >= FirstDeadline(cases[c]) + Delay(action)
  BY <1>1 DEF Acceptable, Acknowledgeable
<1>3. Stays(c)
  <2>1. ~Appears(c)
    BY <1>2 DEF Appears
  <2>2. ~Moves(c)
    BY DEF Moves, Allowed
  <2> QED BY <2>1, <2>2, StaysOrGoesOn
<1>4. FirstDeadline(cases'[c]) = FirstDeadline(cases[c]) /\ cases'[c] # None
  BY <1>2, <1>3, StayingDeadline DEF Stays
<1>5. FirstDeadline(cases[c]) \in Nat
  BY <1>2, DeadlineOfAWait DEF SlaTypeOK, TypeOK, StoreTypeOK
<1>6. Delay(action) \in Int
  BY <1>2, MinutesAreNumbers DEF LevelValid, Delay, ReminderOffset, SlaAction, SlaActionType
<1>7. clock' >= FirstDeadline(cases'[c]) + Delay(action)
  BY <1>2, <1>4, <1>5, <1>6, MaxClockAssumption DEF SlaTypeOK, TypeOK, StoreTypeOK
<1>8. action \in Acceptable(c, clock)'
  BY <1>2, <1>4, <1>7 DEF Acceptable, Acknowledgeable, InItsWait, LevelValid, FirstDeadline, Delay
<1>9. ~AckTaken(c, action)'
  BY DEF AckTaken, Acknowledged, AckEvent, Event, AckEventType
<1> QED BY <1>8, <1>9 DEF ListAgreesWithAck

(***************************************************************************)
(* And a due action stays due until it is acknowledged, its wait has       *)
(* ended, or a threshold beyond it is reached.                             *)
(***************************************************************************)
THEOREM SerialDueUntilHandled == SlaSpec /\ []OneCommandPerCase => DueUntilHandled
<1>1. SlaInit => SerialSlaInv
  BY SerialSlaInit
<1>2. SerialSlaInv /\ OneCommandPerCase /\ [SlaNext]_slaVars
        => SerialSlaInv' /\ StoryStep /\ clock' >= clock
  BY SerialSlaNext
<1>3. /\ SerialSlaInv /\ SerialSlaInv' /\ ListAgreesWithAck /\ ListAgreesWithAck'
      /\ StoryStep /\ clock' >= clock
      => \A c \in Cases : \A action \in Due(c, clock) :
           \/ action \in Due(c, clock)'
           \/ \E i \in DOMAIN history'[c] : history'[c][i] = AckEvent(action)
           \/ cases'[c].status # cases[c].status
           \/ \E high \in Acceptable(c, clock)' : Beyond(high, action)
  BY DueStaysDue DEF SerialSlaInv
<1> QED BY <1>1, <1>2, <1>3, QueryAgreesWithCheck, PTL DEF SlaSpec, DueUntilHandled
=============================================================================
