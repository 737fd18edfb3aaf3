--------------------------- MODULE Backend_proofs ---------------------------
(***************************************************************************)
(* The whole backend: what is proved of deliveries and acknowledgements,   *)
(* each beside the case commands, holds when all of them write to the same *)
(* database.  Their steps share histories and rows, so each theorem asks   *)
(* what the steps of the others leave alone.                               *)
(***************************************************************************)
EXTENDS Backend, DeliveryEffects_proofs, SlaService_proofs

-----------------------------------------------------------------------------
(* Types. *)

BackendTypeOK == DeliveryTypeOK /\ SlaTypeOK

\* A step is that of a command, of a worker or of a watcher, or leaves everything.
LEMMA BackendSteps ==
  ASSUME [BackendNext]_backendVars
  PROVE  \/ [DeliveryNext]_deliveryVars /\ UNCHANGED acks
         \/ \E a \in Watchers : AckStep(a) /\ UNCHANGED <<attempts, jobs>>
  BY DEF BackendNext, backendVars, deliveryVars

-----------------------------------------------------------------------------
(* What a delivery call writes. *)

\* One event of an attempt, in one case, which becomes WAITING_CLIENT if a request was sent.
Writes ==
  \E c \in Cases, type \in AttemptEvents, k \in Keys, n \in Nat :
    /\ history' = [history EXCEPT ![c] = Append(@, Told(type, k, n))]
    /\ \/ type # "CLIENT_REQUEST_SENT" /\ UNCHANGED cases
       \/ /\ type = "CLIENT_REQUEST_SENT" /\ cases[c] # None
          /\ \E now \in Nat : cases' = [cases EXCEPT ![c] = SentRow(@, @, now)]

\* A worker writes that, or leaves cases and histories.
LEMMA WorkerWrites ==
  ASSUME DeliveryTypeOK, NEW w \in Workers, DeliveryStep(w)
  PROVE  Writes \/ UNCHANGED <<cases, history>>
<1> DEFINE job == jobs[w]
           k == job.key
           n == job.number
<1>1. CASE CommitStart(w)
  <2>1. /\ k \in Keys /\ n \in Nat /\ job.delivery.case \in Cases
    BY <1>1 DEF CommitStart, DeliveryTypeOK, JobOK, Job, Identity
  <2>2. "DELIVERY_RETRIED" \in AttemptEvents /\ "DELIVERY_RETRIED" # "CLIENT_REQUEST_SENT"
    BY DEF AttemptEvents
  <2>3. CASE InsertAttempt(w)
    <3>1. UNCHANGED cases /\ history' =
            IF n > 1 THEN [history EXCEPT ![job.delivery.case] =
                             Append(@, Told("DELIVERY_RETRIED", k, n))]
            ELSE history
      BY <1>1, <2>3 DEF CommitStart, InsertAttempt, Told
    <3> QED BY <2>1, <2>2, <3>1 DEF Writes
  <2> QED BY <1>1, <2>3 DEF CommitStart, LoseStart
<1>2. CASE CommitResult(w)
  <2> DEFINE delivery == attempts[k][n].delivery
             c == delivery.case
  <2>1. /\ k \in Keys /\ n \in Nat /\ c \in Cases /\ cases[c] # None /\ job.now \in Nat
    <3>1. k \in Keys /\ n \in DOMAIN attempts[k] /\ job \in Job
      BY <1>2 DEF CommitResult, DeliveryTypeOK, JobOK
    <3> QED BY <3>1, StoredAttempt DEF DeliveryTypeOK, Job
  <2>2. CASE RecordFailure(w)
    <3>1. history' = [history EXCEPT ![c] = Append(@, Told("DELIVERY_FAILED", k, n))]
          /\ UNCHANGED cases
      BY <2>2 DEF RecordFailure, Record, Told
    <3>2. "DELIVERY_FAILED" \in AttemptEvents /\ "DELIVERY_FAILED" # "CLIENT_REQUEST_SENT"
      BY DEF AttemptEvents
    <3> HIDE DEF c, k, n
    <3> QED BY <2>1, <3>1, <3>2 DEF Writes
  <2>3. CASE ApplyEffect(delivery, job)
    <3>1. \/ /\ cases' = [cases EXCEPT ![c] = SentRow(@, @, job.now)]
             /\ history' = [history EXCEPT ![c] = Append(@, Told("CLIENT_REQUEST_SENT", k, n))]
          \/ /\ history' = [history EXCEPT ![c] = Append(@, Told("MODERATOR_NOTIFIED", k, n))]
             /\ UNCHANGED cases
          \/ UNCHANGED <<cases, history>>
      BY <2>3 DEF ApplyEffect, Record, Told
    <3>2. /\ {"CLIENT_REQUEST_SENT", "MODERATOR_NOTIFIED"} \subseteq AttemptEvents
          /\ "MODERATOR_NOTIFIED" # "CLIENT_REQUEST_SENT"
      BY DEF AttemptEvents
    <3> HIDE DEF c, k, n
    <3> QED BY <2>1, <3>1, <3>2 DEF Writes
  <2> QED BY <1>2, <2>2, <2>3 DEF CommitResult, LoseResult, RecordSuccess
<1> QED
  BY <1>1, <1>2
  DEF DeliveryStep, ReceiveStart, ReceiveResult, AbortJob, ReturnJob, storeVars

\* No step removes a case.
LEMMA WorkerKeepsCases ==
  ASSUME DeliveryTypeOK, NEW w \in Workers, DeliveryStep(w), NEW c \in Cases, cases[c] # None
  PROVE  cases'[c] # None
<1>1. CASE UNCHANGED cases
  BY <1>1
<1>2. ASSUME NEW d \in Cases, NEW now \in Nat, cases[d] # None,
             cases' = [cases EXCEPT ![d] = SentRow(@, @, now)]
      PROVE  cases'[c] # None
  <2>1. cases \in [Cases -> CaseRow \cup {None}] /\ cases[d] \in CaseRow
    BY <1>2 DEF DeliveryTypeOK, TypeOK, StoreTypeOK
  <2>2. SentRow(cases[d], cases[d], now) \in CaseRow
    BY <2>1, WrittenRows DEF Assignees
  <2>3. SentRow(cases[d], cases[d], now) # None
    BY <2>2, NoRowAssumption
  <2> QED BY <1>2, <2>1, <2>3
<1> QED BY <1>1, <1>2, WorkerWrites DEF Writes

\* Every step keeps the types of all calls, whoever makes it.
LEMMA BackendNextOK ==
  ASSUME BackendTypeOK, [BackendNext]_backendVars
  PROVE  BackendTypeOK'
<1>1. CASE [DeliveryNext]_deliveryVars /\ UNCHANGED acks
  <2>1. DeliveryTypeOK' /\ TypeOK'
    BY <1>1, DeliveryNextOK DEF BackendTypeOK, DeliveryTypeOK
  <2>2. \A c \in Cases : cases[c] # None => cases'[c] # None
    <3>1. [CaseNext]_caseVars \/ \E w \in Workers : DeliveryStep(w)
      BY <1>1 DEF DeliveryNext, deliveryVars, caseVars
    <3> QED BY <3>1, CasesStay, WorkerKeepsCases DEF BackendTypeOK, SlaTypeOK
  <2> QED BY <1>1, <2>1, <2>2, AckStaysOK DEF BackendTypeOK
<1>2. ASSUME NEW a \in Watchers, AckStep(a), UNCHANGED <<attempts, jobs>>
      PROVE  BackendTypeOK'
  <2>1. SlaTypeOK' /\ TypeOK' /\ UNCHANGED cases
    BY <1>2, AckStepOK, AckStepStore, AckStepStores DEF BackendTypeOK
  <2>2. DeliveryTypeOK'
    BY <1>2, <2>1 DEF BackendTypeOK, DeliveryTypeOK, JobOK
  <2> QED BY <2>1, <2>2 DEF BackendTypeOK
<1> QED BY <1>1, <1>2, BackendSteps

\* The whole backend keeps its types.
LEMMA BackendTypeCorrect == BackendSpec => []BackendTypeOK
<1>1. BackendInit => BackendTypeOK
  <2> SUFFICES ASSUME BackendInit PROVE BackendTypeOK
    OBVIOUS
  <2>1. NoAck \in Ack /\ AckOK(NoAck)
    BY DEF NoAck, Ack, AckOK
  <2>2. DeliveryTypeOK
    BY DeliveryInitOK DEF BackendInit
  <2> QED BY <2>1, <2>2 DEF BackendInit, BackendTypeOK, SlaTypeOK, DeliveryTypeOK
<1>2. BackendTypeOK /\ [BackendNext]_backendVars => BackendTypeOK'
  BY BackendNextOK
<1> QED BY <1>1, <1>2, PTL DEF BackendSpec

-----------------------------------------------------------------------------
(* Status and deadlines. *)

\* An event of an attempt reports the status of its row, or none.
LEMMA ToldReports ==
  ASSUME NEW type \in AttemptEvents, NEW k, NEW n
  PROVE  Reports(Told(type, k, n))
           = IF type = "CLIENT_REQUEST_SENT" THEN "WAITING_CLIENT" ELSE None
<1>1. Told(type, k, n).type = type
  BY DEF Told, Event
<1> QED BY <1>1 DEF Reports, AttemptEvents

\* What a delivery call writes is audited and watched.
LEMMA WorkerAudited ==
  ASSUME DeliveryTypeOK, AuditMatchesStatus, WaitHasDeadline, Writes
  PROVE  AuditMatchesStatus' /\ WaitHasDeadline'
<1>1. PICK c \in Cases, type \in AttemptEvents, k \in Keys, n \in Nat :
        /\ history' = [history EXCEPT ![c] = Append(@, Told(type, k, n))]
        /\ \/ type # "CLIENT_REQUEST_SENT" /\ UNCHANGED cases
           \/ /\ type = "CLIENT_REQUEST_SENT" /\ cases[c] # None
              /\ \E now \in Nat : cases' = [cases EXCEPT ![c] = SentRow(@, @, now)]
  BY DEF Writes
<1> DEFINE event == Told(type, k, n)
<1>2. /\ history \in [Cases -> Seq(CaseEvent)] /\ history[c] \in Seq(CaseEvent)
      /\ cases \in [Cases -> CaseRow \cup {None}]
      /\ Reports(event) = IF type = "CLIENT_REQUEST_SENT" THEN "WAITING_CLIENT" ELSE None
  BY ToldReports DEF DeliveryTypeOK, TypeOK, StoreTypeOK
<1>3. history' = [history EXCEPT ![c] = Append(@, event)]
  BY <1>1
<1> HIDE DEF event
<1>4. /\ history'[c] = Append(history[c], event)
      /\ \A d \in Cases \ {c} : history'[d] = history[d]
  BY <1>2, <1>3
<1>5. CASE type # "CLIENT_REQUEST_SENT" /\ UNCHANGED cases
  <2>1. \A status : Audited(status, history[c]) => Audited(status, Append(history[c], event))
    BY <1>2, <1>5, OtherEventAudited
  <2>2. ASSUME NEW d \in Cases, cases'[d] # None PROVE Audited(cases'[d].status, history'[d])
    <3>1. Audited(cases[d].status, history[d])
      BY <1>5, <2>2 DEF AuditMatchesStatus
    <3> QED BY <1>4, <1>5, <2>1, <3>1
  <2>3. AuditMatchesStatus'
    BY <2>2 DEF AuditMatchesStatus
  <2>4. WaitHasDeadline'
    BY <1>5 DEF WaitHasDeadline, Watched
  <2> QED BY <2>3, <2>4
<1>6. CASE /\ type = "CLIENT_REQUEST_SENT" /\ cases[c] # None
           /\ \E now \in Nat : cases' = [cases EXCEPT ![c] = SentRow(@, @, now)]
  <2>1. PICK now \in Nat : cases' = [cases EXCEPT ![c] = SentRow(@, @, now)]
    BY <1>6
  <2> DEFINE row == SentRow(cases[c], cases[c], now)
  <2>2. cases[c] \in CaseRow
    BY <1>2, <1>6
  <2>3. row.status = "WAITING_CLIENT"
    BY <2>2 DEF SentRow, CaseRow
  <2>4. Watched(row)
    BY <2>2, WrittenRowsWatched DEF Assignees
  <2>5. cases'[c] = row /\ \A d \in Cases \ {c} : cases'[d] = cases[d]
    BY <1>2, <2>1
  <2> HIDE DEF row
  <2>6. Audited(row.status, history'[c])
    BY <1>2, <1>4, <1>6, <2>3, StatusEventAudited
  <2>7. ASSUME NEW d \in Cases, cases'[d] # None
        PROVE  Audited(cases'[d].status, history'[d]) /\ Watched(cases'[d])
    <3>1. CASE d = c
      BY <2>4, <2>5, <2>6, <3>1
    <3>2. CASE d # c
      <4>1. cases'[d] = cases[d] /\ history'[d] = history[d]
        BY <1>4, <2>5, <3>2
      <4> QED BY <2>7, <4>1 DEF AuditMatchesStatus, WaitHasDeadline
    <3> QED BY <3>1, <3>2
  <2>8. AuditMatchesStatus'
    BY <2>7 DEF AuditMatchesStatus
  <2>9. WaitHasDeadline'
    BY <2>7 DEF WaitHasDeadline, Watched
  <2> QED BY <2>8, <2>9
<1> QED BY <1>1, <1>5, <1>6

\* Every step of the backend keeps audit and deadlines.
LEMMA BackendNextAudited ==
  ASSUME BackendTypeOK, AuditMatchesStatus, WaitHasDeadline, [BackendNext]_backendVars
  PROVE  AuditMatchesStatus' /\ WaitHasDeadline'
<1>1. CASE [CaseNext]_caseVars
  BY <1>1, CaseNextAudited, CaseNextWatched DEF BackendTypeOK, SlaTypeOK
<1>2. ASSUME NEW w \in Workers, DeliveryStep(w)
      PROVE  AuditMatchesStatus' /\ WaitHasDeadline'
  <2>1. CASE UNCHANGED <<cases, history>>
    BY <2>1 DEF AuditMatchesStatus, WaitHasDeadline, Watched
  <2> QED BY <1>2, <2>1, WorkerWrites, WorkerAudited DEF BackendTypeOK
<1>3. ASSUME NEW a \in Watchers, AckStep(a)
      PROVE  AuditMatchesStatus' /\ WaitHasDeadline'
  <2>1. UNCHANGED cases
    BY <1>3, AckStepStores
  <2>2. WaitHasDeadline'
    BY <2>1 DEF WaitHasDeadline, Watched
  <2> QED BY <1>3, <2>2, AckStepAudited DEF BackendTypeOK
<1> QED
  BY <1>1, <1>2, <1>3, BackendSteps DEF DeliveryNext, deliveryVars, caseVars

\* The empty database has nothing to audit.
LEMMA BackendAudited == BackendSpec => [](AuditMatchesStatus /\ WaitHasDeadline)
<1>1. BackendInit => AuditMatchesStatus /\ WaitHasDeadline
  BY DEF BackendInit, DeliveryInit, CaseInit, StoreInit, AuditMatchesStatus, WaitHasDeadline
<1>2. BackendTypeOK /\ (AuditMatchesStatus /\ WaitHasDeadline) /\ [BackendNext]_backendVars
        => (AuditMatchesStatus /\ WaitHasDeadline)'
  BY BackendNextAudited
<1> QED BY <1>1, <1>2, BackendTypeCorrect, PTL DEF BackendSpec

(***************************************************************************)
(* The status of a case is the one its last status event reports, also     *)
(* when a delivery call moves it while commands hold older rows of it.     *)
(***************************************************************************)
THEOREM BackendStatusIsAudited == BackendSpec => []AuditMatchesStatus
<1> QED BY BackendAudited, PTL

(***************************************************************************)
(* A case that waits has its deadline, also when a delivery call began the *)
(* wait.                                                                   *)
(***************************************************************************)
THEOREM BackendWaitsAreWatched == BackendSpec => []WaitHasDeadline
<1> QED BY BackendAudited, PTL

-----------------------------------------------------------------------------
(* Histories. *)

\* One event at the end of one history.
LEMMA OneEventAdded ==
  ASSUME history \in [Cases -> Seq(CaseEvent)], NEW c \in Cases, NEW event, NEW types,
         event.type \in types,
         history' = [history EXCEPT ![c] = Append(@, event)]
  PROVE  HistoriesGrow /\ HistoriesAdd(types)
<1>1. /\ history[c] \in Seq(CaseEvent)
      /\ history'[c] = Append(history[c], event)
      /\ \A d \in Cases \ {c} : history'[d] = history[d]
  OBVIOUS
<1>2. Kept(history[c], history'[c]) /\ Added(history[c], history'[c], types)
  BY <1>1 DEF Kept, Added
<1>3. \A d \in Cases \ {c} : Kept(history[d], history'[d]) /\ Added(history[d], history'[d], types)
  BY <1>1 DEF Kept, Added
<1> QED BY <1>2, <1>3 DEF HistoriesGrow, HistoriesAdd

\* A delivery call adds events of attempts only.
LEMMA WorkerAdds ==
  ASSUME DeliveryTypeOK, NEW w \in Workers, DeliveryStep(w)
  PROVE  HistoriesGrow /\ HistoriesAdd(AttemptEvents)
<1>1. CASE UNCHANGED history
  BY <1>1 DEF HistoriesGrow, Kept, HistoriesAdd, Added
<1>2. CASE Writes
  <2>1. PICK c \in Cases, type \in AttemptEvents, k \in Keys, n \in Nat :
          /\ history' = [history EXCEPT ![c] = Append(@, Told(type, k, n))]
          /\ \/ type # "CLIENT_REQUEST_SENT" /\ UNCHANGED cases
             \/ /\ type = "CLIENT_REQUEST_SENT" /\ cases[c] # None
                /\ \E now \in Nat : cases' = [cases EXCEPT ![c] = SentRow(@, @, now)]
    BY <1>2 DEF Writes
  <2>2. Told(type, k, n).type \in AttemptEvents
    BY ToldApart
  <2>3. history \in [Cases -> Seq(CaseEvent)]
    BY DEF DeliveryTypeOK, TypeOK, StoreTypeOK
  <2> QED BY <2>1, <2>2, <2>3, OneEventAdded
<1> QED BY <1>1, <1>2, WorkerWrites

\* An acknowledgement adds its own only.
LEMMA WatcherAdds ==
  ASSUME SlaTypeOK, NEW a \in Watchers, AckStep(a)
  PROVE  HistoriesGrow /\ HistoriesAdd(AckEventTypes)
<1>1. CASE UNCHANGED history
  BY <1>1 DEF HistoriesGrow, Kept, HistoriesAdd, Added
<1>2. CASE StoresAck(a)
  <2> DEFINE c == acks[a].case
             event == AckEvent(acks[a].action)
  <2>1. c \in Cases /\ event.type \in AckEventTypes
    BY <1>2, StagedAck, AckEventOK DEF StoresAck
  <2>2. history' = [history EXCEPT ![c] = Append(@, event)]
    BY <1>2 DEF StoresAck
  <2>3. history \in [Cases -> Seq(CaseEvent)]
    BY DEF SlaTypeOK, TypeOK, StoreTypeOK
  <2> HIDE DEF c, event
  <2> QED BY <2>1, <2>2, <2>3, OneEventAdded
<1> QED BY <1>1, <1>2, AckStepStores

\* Whoever else makes a step adds no acknowledgement.
LEMMA OthersAcknowledgeNothing ==
  ASSUME BackendTypeOK, [DeliveryNext]_deliveryVars
  PROVE  HistoriesGrow /\ \E types : types \cap AckEventTypes = {} /\ HistoriesAdd(types)
<1>1. CASE [CaseNext]_caseVars
  <2>1. CommandEvents \cap AckEventTypes = {}
    BY AckTypes DEF CommandEvents
  <2> QED BY <1>1, <2>1, CaseNextGrows, CaseNextAdds DEF BackendTypeOK, SlaTypeOK
<1>2. ASSUME NEW w \in Workers, DeliveryStep(w)
      PROVE  HistoriesGrow /\ HistoriesAdd(AttemptEvents)
  BY <1>2, WorkerAdds DEF BackendTypeOK
<1>3. AttemptEvents \cap AckEventTypes = {}
  BY AckTypes DEF AttemptEvents
<1> QED BY <1>1, <1>2, <1>3 DEF DeliveryNext, deliveryVars, caseVars

-----------------------------------------------------------------------------
(* Acknowledgements. *)

(***************************************************************************)
(* An action has one acknowledgement in the whole backend: deliveries, too,*)
(* write to the history it is looked up in.                                *)
(***************************************************************************)
THEOREM BackendAcknowledgesOnce == BackendSpec => []AcknowledgedOnce
<1>1. BackendInit => AcknowledgedOnce
  <2> SUFFICES ASSUME BackendInit, NEW c \in Cases, NEW action \in SlaAction
               PROVE  Cardinality(Places(AckEvent(action), history[c])) <= 1
    BY AcksCounted
  <2>1. Places(AckEvent(action), history[c]) = {}
    BY DEF BackendInit, DeliveryInit, CaseInit, StoreInit, Places
  <2> QED BY <2>1, FS_EmptySet
<1>2. BackendTypeOK /\ AcknowledgedOnce /\ [BackendNext]_backendVars => AcknowledgedOnce'
  <2> SUFFICES ASSUME BackendTypeOK, AcknowledgedOnce, [BackendNext]_backendVars
               PROVE  AcknowledgedOnce'
    OBVIOUS
  <2>1. CASE [DeliveryNext]_deliveryVars
    BY <2>1, OthersAcknowledgeNothing, AcksUndisturbed
  <2>2. ASSUME NEW a \in Watchers, AckStep(a) PROVE AcknowledgedOnce'
    BY <2>2, AckStepOnce DEF BackendTypeOK
  <2> QED BY <2>1, <2>2, BackendSteps
<1> QED BY <1>1, <1>2, BackendTypeCorrect, PTL DEF BackendSpec

(***************************************************************************)
(* A reminder or an escalation is on record only after the event with      *)
(* which its wait began, also when that was the success of a delivery.     *)
(***************************************************************************)
THEOREM BackendAcksHaveTheirWait == BackendSpec => []AcksFollowTheirWait
<1>1. BackendInit => WaitsBegun /\ AcksFollowTheirWait
  <2> SUFFICES ASSUME BackendInit PROVE WaitsBegun /\ AcksFollowTheirWait
    OBVIOUS
  <2>1. AcksFollowTheirWait
    BY DEF BackendInit, DeliveryInit, CaseInit, StoreInit, AcksFollowTheirWait
  <2>2. WaitsBegun
    BY DEF BackendInit, WaitsBegun, Begun, NoAck
  <2> QED BY <2>1, <2>2
<1>2. BackendTypeOK /\ BackendTypeOK' /\ AuditMatchesStatus
        /\ (WaitsBegun /\ AcksFollowTheirWait) /\ [BackendNext]_backendVars
        => (WaitsBegun /\ AcksFollowTheirWait)'
  <2> SUFFICES ASSUME BackendTypeOK, BackendTypeOK', AuditMatchesStatus, WaitsBegun,
                      AcksFollowTheirWait, [BackendNext]_backendVars
               PROVE  WaitsBegun' /\ AcksFollowTheirWait'
    OBVIOUS
  <2>1. CASE [DeliveryNext]_deliveryVars /\ UNCHANGED acks
    <3>1. history' \in [Cases -> Seq(CaseEvent)]
      BY DEF BackendTypeOK, SlaTypeOK, TypeOK, StoreTypeOK
    <3> QED BY <2>1, <3>1, OthersAcknowledgeNothing, OthersKeepWaits DEF BackendTypeOK
  <2>2. ASSUME NEW a \in Watchers, AckStep(a) PROVE WaitsBegun' /\ AcksFollowTheirWait'
    BY <2>2, AckStepBegun, AckStepFollows DEF BackendTypeOK
  <2> QED BY <2>1, <2>2, BackendSteps
<1> QED BY <1>1, <1>2, BackendTypeCorrect, BackendStatusIsAudited, PTL DEF BackendSpec

-----------------------------------------------------------------------------
(* Attempts. *)

\* Acknowledgements touch no attempt: the discipline holds in the whole backend.
LEMMA BackendAttemptsAreDisciplined == BackendSpec => []AttemptsOK
<1>1. BackendInit => AttemptsOK
  <2> SUFFICES ASSUME BackendInit PROVE AttemptsOK
    OBVIOUS
  <2>1. /\ \A k \in Keys : attempts[k] = << >>
        /\ \A w \in Workers : jobs[w].phase # "staged"
    BY NoJobType DEF BackendInit, DeliveryInit
  <2> QED BY <2>1, RetryAssumption
          DEF AttemptsOK, OneLiveAttempt, RetriesAreLimited, OneIdentityPerKey,
              StartsStayJustified, Justified
<1>2. BackendTypeOK /\ AttemptsOK /\ [BackendNext]_backendVars => AttemptsOK'
  <2>1. AttemptsOK /\ UNCHANGED <<attempts, jobs>> => AttemptsOK'
    BY DEF AttemptsOK, OneLiveAttempt, RetriesAreLimited, OneIdentityPerKey,
           StartsStayJustified, Justified
  <2> QED BY <2>1, BackendSteps, DeliveryNextDiscipline DEF BackendTypeOK
<1> QED BY <1>1, <1>2, BackendTypeCorrect, PTL DEF BackendSpec

\* An acknowledgement tells nothing of attempts.
LEMMA WatcherTellsNothing ==
  ASSUME BackendTypeOK, HistoryOK, NEW a \in Watchers, AckStep(a), UNCHANGED attempts
  PROVE  HistoryOK'
<1>1. HistoriesGrow /\ HistoriesAdd(AckEventTypes)
  BY WatcherAdds DEF BackendTypeOK
<1>2. AttemptEvents \cap AckEventTypes = {}
  BY AckTypes DEF AttemptEvents
<1>3. ASSUME NEW k \in Keys, NEW n \in Nat, NEW type \in AttemptEvents, NEW c \in Cases
      PROVE  Places(Told(type, k, n), history'[c]) = Places(Told(type, k, n), history[c])
  <2>1. Told(type, k, n).type \notin AckEventTypes /\ Told(type, k, n) # RequestSent
    BY <1>2, ToldApart
  <2> QED BY <1>1, <2>1, OtherTypesAdded DEF HistoriesGrow, HistoriesAdd
<1>4. RowsGoOn
  BY DEF RowsGoOn
<1>5. \A k \in Keys, n \in Nat, type \in AttemptEvents :
        Tells(attempts', type, k, n) <=> Tells(attempts, type, k, n)
  OBVIOUS
<1> QED BY <1>3, <1>4, <1>5, NothingTold

(***************************************************************************)
(* In the whole backend the history of a case has each failure, retry and  *)
(* effect of its attempts once, and no other.                              *)
(***************************************************************************)
THEOREM BackendTellsAttempts == BackendSpec => []HistoryMatchesAttempts
<1>1. BackendInit => HistoryOK
  <2> SUFFICES ASSUME BackendInit, NEW c \in Cases, NEW k \in Keys, NEW n \in Nat,
                      NEW type \in AttemptEvents
               PROVE  Cardinality(Places(Told(type, k, n), history[c]))
                        = IF Tells(attempts, type, k, n) THEN 1 ELSE 0
    BY DEF HistoryOK
  <2>1. Places(Told(type, k, n), history[c]) = {}
    BY DEF BackendInit, DeliveryInit, CaseInit, StoreInit, Places
  <2>2. ~Tells(attempts, type, k, n)
    BY DEF BackendInit, DeliveryInit, Tells
  <2> QED BY <2>1, <2>2, FS_EmptySet
<1>2. BackendTypeOK /\ AttemptsOK /\ HistoryOK /\ [BackendNext]_backendVars => HistoryOK'
  BY BackendSteps, StepTold, WatcherTellsNothing DEF BackendTypeOK
<1>3. BackendTypeOK /\ HistoryOK => HistoryMatchesAttempts
  BY HistoryTold DEF BackendTypeOK
<1> QED BY <1>1, <1>2, <1>3, BackendTypeCorrect, BackendAttemptsAreDisciplined, PTL
        DEF BackendSpec

-----------------------------------------------------------------------------
(* Replies, and what commands are answered. *)

\* A delivery call or an acknowledgement answers no command.
LEMMA OthersLeaveCommands ==
  ASSUME \/ \E w \in Workers : DeliveryStep(w)
         \/ \E a \in Watchers : AckStep(a)
  PROVE  UNCHANGED <<clock, replies, calls>>
<1>1. ASSUME NEW w \in Workers, DeliveryStep(w) PROVE UNCHANGED <<clock, replies, calls>>
  BY <1>1 DEF DeliveryStep, ReceiveStart, ReceiveResult, CommitStart, CommitResult, AbortJob,
              ReturnJob, storeVars
<1> QED BY <1>1, AckStepStores

\* A step that adds no reply and answers no command keeps what is said of them.
LEMMA CommandsUndisturbed ==
  ASSUME TypeOK, RepliesMatchHistory, AnswersOK, UNCHANGED <<replies, calls>>, HistoriesGrow,
         NEW types, "CLIENT_REPLY_RECEIVED" \notin types, HistoriesAdd(types)
  PROVE  RepliesMatchHistory' /\ AnswersOK'
<1>1. ASSUME NEW m \in Messages, NEW c \in Cases
      PROVE  Places(Reply(m), history'[c]) = Places(Reply(m), history[c])
  <2>1. Reply(m).type = "CLIENT_REPLY_RECEIVED" /\ Reply(m) # RequestSent
    BY DEF Reply, RequestSent, Event
  <2> QED BY <2>1, OtherTypesAdded DEF HistoriesGrow, HistoriesAdd
<1>2. RepliesMatchHistory'
  BY <1>1, RepliesUndisturbed
<1>3. \A r \in Requests : Traced(calls'[r], history')
  BY StaysTraced DEF AnswersOK
<1> QED BY <1>2, <1>3 DEF AnswersOK, Traced, Promises, IsTrace, Event

\* A reassignment names the old and the new moderator, or nobody.
AssigneesNamed(events) ==
  \A i \in DOMAIN events :
    events[i].type = "MODERATOR_CHANGED" => events[i].ref \in Assignees \X Assignees
ReassignmentsOK == \A c \in Cases : AssigneesNamed(history[c])

\* No other event names anybody.
LEMMA OtherEventNamesNobody ==
  ASSUME NEW events \in Seq(CaseEvent), NEW event, AssigneesNamed(events),
         event.type = "MODERATOR_CHANGED" => event.ref \in Assignees \X Assignees
  PROVE  AssigneesNamed(Append(events, event))
  BY DEF AssigneesNamed

\* Steps without a reassignment.
LEMMA NothingReassigned ==
  ASSUME ReassignmentsOK, HistoriesGrow, NEW types, "MODERATOR_CHANGED" \notin types,
         HistoriesAdd(types)
  PROVE  ReassignmentsOK'
<1>1. RequestSent.type # "MODERATOR_CHANGED"
  BY DEF RequestSent, Event
<1>2. ASSUME NEW c \in Cases, NEW i \in DOMAIN history'[c],
             history'[c][i].type = "MODERATOR_CHANGED"
      PROVE  history'[c][i].ref \in Assignees \X Assignees
  <2>1. i \in DOMAIN history[c]
    BY <1>1, <1>2 DEF HistoriesAdd, Added
  <2>2. history'[c][i] = history[c][i]
    BY <2>1 DEF HistoriesGrow, Kept
  <2> QED BY <1>2, <2>1, <2>2 DEF ReassignmentsOK, AssigneesNamed
<1> QED BY <1>2 DEF ReassignmentsOK, AssigneesNamed, Assignees

\* A command writes its events.
LEMMA CommitAssignees ==
  ASSUME TypeOK, ReassignmentsOK, NEW r \in Requests, NEW row, NEW events,
         calls[r].case \in Cases, Commit(r, row, events), AssigneesNamed(events)
  PROVE  ReassignmentsOK'
<1>1. history \in [Cases -> Seq(CaseEvent)] /\ history' = [history EXCEPT ![calls[r].case] = events]
  BY DEF TypeOK, StoreTypeOK, Commit
<1>2. \A c \in Cases : AssigneesNamed(history'[c])
  BY <1>1 DEF ReassignmentsOK
<1> QED BY <1>2 DEF ReassignmentsOK, AssigneesNamed, Assignees

\* Only CommitReassign writes a reassignment, from the row it has loaded.
LEMMA CommitCommandAssignees ==
  ASSUME TypeOK, ReassignmentsOK, NEW r \in Requests, CommitCommand(r)
  PROVE  ReassignmentsOK'
<1> DEFINE c == calls[r].case
<1>1. calls[r].phase = "staged"
  BY DEF CommitCommand, CommitMark, CommitReply, CommitConfirm, CommitCancel, CommitReassign,
         Staged
<1>2. c \in Cases /\ history[c] \in Seq(CaseEvent) /\ AssigneesNamed(history[c])
  BY <1>1, StagedCall DEF ReassignmentsOK
<1>3. \A type, ref : type # "MODERATOR_CHANGED" =>
        AssigneesNamed(Append(history[c], Event(type, ref)))
  BY <1>2, OtherEventNamesNobody DEF Event
<1>4. CASE CommitMark(r)
  BY <1>2, <1>3, <1>4, CommitAssignees DEF CommitMark
<1>5. CASE CommitReply(r)
  <2>1. CASE UNCHANGED storeVars
    BY <2>1 DEF storeVars, ReassignmentsOK, AssigneesNamed
  <2> QED BY <1>2, <1>3, <1>5, <2>1, CommitAssignees DEF CommitReply
<1>6. CASE CommitConfirm(r)
  <2> DEFINE half == Append(history[c], Event("USER_ANSWER_CONFIRMED", None))
  <2>1. half \in Seq(CaseEvent) /\ AssigneesNamed(half)
    BY <1>2, <1>3, HalfConfirmed
  <2>2. AssigneesNamed(Append(half, Event("CASE_CLOSED", None)))
    BY <2>1, OtherEventNamesNobody DEF Event
  <2> QED BY <1>2, <1>6, <2>2, CommitAssignees DEF CommitConfirm
<1>7. CASE CommitCancel(r)
  BY <1>2, <1>3, <1>7, CommitAssignees DEF CommitCancel
<1>8. CASE CommitReassign(r)
  <2> DEFINE event == Event("MODERATOR_CHANGED", <<calls[r].loaded.moderator, calls[r].arg>>)
  <2>1. calls[r].loaded \in CaseRow /\ calls[r].arg \in Assignees
    BY <1>1, <1>8, StagedCall DEF CommitReassign, Staged
  <2>2. event.ref \in Assignees \X Assignees
    BY <2>1 DEF Event, CaseRow
  <2> HIDE DEF event
  <2>3. AssigneesNamed(Append(history[c], event))
    BY <1>2, <2>2, OtherEventNamesNobody
  <2> QED BY <1>2, <1>8, <2>3, CommitAssignees DEF CommitReassign, event
<1> QED BY <1>4, <1>5, <1>6, <1>7, <1>8 DEF CommitCommand

\* Every step of the commands.
LEMMA CaseNextAssignees ==
  ASSUME TypeOK, ReassignmentsOK, [CaseNext]_caseVars
  PROVE  ReassignmentsOK'
<1>1. CASE UNCHANGED history
  BY <1>1 DEF ReassignmentsOK, AssigneesNamed
<1>2. ASSUME NEW c \in Cases, NEW m \in Assignees, CreateCase(c, m) PROVE ReassignmentsOK'
  <2>1. history \in [Cases -> Seq(CaseEvent)] /\ history[c] \in Seq(CaseEvent)
    BY DEF TypeOK, StoreTypeOK
  <2>2. AssigneesNamed(Append(history[c], Event("CASE_CREATED", None)))
    BY <2>1, OtherEventNamesNobody DEF ReassignmentsOK, Event
  <2>3. \A d \in Cases : AssigneesNamed(history'[d])
    BY <1>2, <2>1, <2>2 DEF CreateCase, ReassignmentsOK
  <2> QED BY <2>3 DEF ReassignmentsOK, AssigneesNamed, Assignees
<1>3. ASSUME NEW r \in Requests,
             \/ \E c \in Cases : Receive(r, c)
             \/ LookUpReply(r) \/ RollBack(r) \/ Return(r)
      PROVE  UNCHANGED history
  BY <1>3, ReadingSteps DEF storeVars
<1> QED BY <1>1, <1>2, <1>3, CommitCommandAssignees DEF CaseNext, Tick, caseVars

-----------------------------------------------------------------------------
(***************************************************************************)
(* The inductive invariant of the backend: everything above at once.  What *)
(* commands, deliveries and acknowledgements rely on holds together.       *)
(***************************************************************************)
CommandsOK == RepliesMatchHistory /\ AnswersOK /\ ReassignmentsOK
BackendInv ==
  /\ BackendTypeOK
  /\ AuditMatchesStatus /\ WaitHasDeadline
  /\ CommandsOK
  /\ AttemptsOK /\ AnswersStand

\* It holds of the empty database.
LEMMA BackendInitInv == BackendInit => BackendInv
<1> SUFFICES ASSUME BackendInit PROVE BackendInv
  OBVIOUS
<1>1. BackendTypeOK
  <2>1. NoAck \in Ack /\ AckOK(NoAck)
    BY DEF NoAck, Ack, AckOK
  <2>2. DeliveryTypeOK
    BY DeliveryInitOK DEF BackendInit
  <2> QED BY <2>1, <2>2 DEF BackendInit, BackendTypeOK, SlaTypeOK, DeliveryTypeOK
<1>2. CaseInit
  BY DEF BackendInit, DeliveryInit
<1>3. /\ cases = [c \in Cases |-> None] /\ history = [c \in Cases |-> << >>]
      /\ replies = [m \in Messages |-> None] /\ calls = [r \in Requests |-> Idle]
  BY <1>2 DEF CaseInit, StoreInit
<1>4. AuditMatchesStatus /\ WaitHasDeadline
  BY <1>3 DEF AuditMatchesStatus, WaitHasDeadline
<1>5. RepliesMatchHistory
  <2> SUFFICES ASSUME NEW m \in Messages, NEW c \in Cases
               PROVE  Cardinality(Places(Reply(m), history[c]))
                        = IF replies[m] = c THEN 1 ELSE 0
    BY RepliesCounted
  <2>1. Places(Reply(m), history[c]) = {} /\ replies[m] # c
    BY <1>3, NoneAssumption DEF Places
  <2> QED BY <2>1, FS_EmptySet
<1>6. AnswersOK
  BY <1>3, NoAnswerAssumption DEF AnswersOK, Traced, Promises, Idle, Answers
<1>7. ReassignmentsOK
  BY <1>3 DEF ReassignmentsOK, AssigneesNamed
<1>8. AttemptsOK
  <2>1. /\ \A k \in Keys : attempts[k] = << >>
        /\ \A w \in Workers : jobs[w].phase # "staged"
    BY NoJobType DEF BackendInit, DeliveryInit
  <2> QED BY <2>1, RetryAssumption
          DEF AttemptsOK, OneLiveAttempt, RetriesAreLimited, OneIdentityPerKey,
              StartsStayJustified, Justified
<1>9. AnswersStand
  <2>1. NoJob.answer = None
    BY DEF NoJob
  <2>2. NoJob.answer \notin ReliedOn
    BY <2>1, NoJobAnswerAssumption DEF ReliedOn, JobAnswers
  <2> QED BY <2>2, NothingSaid DEF BackendInit, DeliveryInit, AnswersStand
<1> QED BY <1>1, <1>4, <1>5, <1>6, <1>7, <1>8, <1>9 DEF BackendInv, CommandsOK

\* Every step keeps what commands were answered, whoever makes it.
LEMMA BackendNextCommands ==
  ASSUME BackendTypeOK, AuditMatchesStatus, CommandsOK, [BackendNext]_backendVars
  PROVE  CommandsOK'
<1>1. CASE [CaseNext]_caseVars
  BY <1>1, CaseNextReplies, CaseNextTraced, CaseNextAssignees
  DEF CommandsOK, BackendTypeOK, SlaTypeOK
<1>2. ASSUME \/ \E w \in Workers : DeliveryStep(w)
             \/ \E a \in Watchers : AckStep(a)
      PROVE  CommandsOK'
  <2>1. UNCHANGED <<replies, calls>> /\ TypeOK
    BY <1>2, OthersLeaveCommands DEF BackendTypeOK, SlaTypeOK
  <2>2. {"CLIENT_REPLY_RECEIVED", "MODERATOR_CHANGED"} \cap (AttemptEvents \cup AckEventTypes) = {}
    BY AckTypes DEF AttemptEvents
  <2>3. HistoriesGrow /\ (HistoriesAdd(AttemptEvents) \/ HistoriesAdd(AckEventTypes))
    BY <1>2, WorkerAdds, WatcherAdds DEF BackendTypeOK
  <2> QED BY <2>1, <2>2, <2>3, CommandsUndisturbed, NothingReassigned DEF CommandsOK
<1> QED BY <1>1, <1>2, BackendSteps DEF DeliveryNext, deliveryVars, caseVars

\* Every step keeps what workers have answered.
LEMMA BackendNextStands ==
  ASSUME BackendTypeOK, AttemptsOK, AnswersStand, [BackendNext]_backendVars
  PROVE  AttemptsOK' /\ AnswersStand' /\ RowsGoOn
<1>1. CASE [DeliveryNext]_deliveryVars
  BY <1>1, DeliveryNextDiscipline, StepStands, StepKeepsRows DEF BackendTypeOK
<1>2. CASE UNCHANGED <<attempts, jobs>>
  <2>1. AttemptsOK'
    BY <1>2 DEF AttemptsOK, OneLiveAttempt, RetriesAreLimited, OneIdentityPerKey,
                StartsStayJustified, Justified
  <2>2. AnswersStand'
    BY <1>2 DEF AnswersStand, Stands, ReliedOn
  <2> QED BY <1>2, <2>1, <2>2 DEF RowsGoOn
<1> QED BY <1>1, <1>2, BackendSteps

\* Every step keeps the invariant, and what is in the tables.
LEMMA BackendNextInv ==
  ASSUME BackendInv, [BackendNext]_backendVars
  PROVE  BackendInv' /\ HistoriesGrow /\ RowsGoOn
<1>1. BackendTypeOK' /\ AuditMatchesStatus' /\ WaitHasDeadline'
  BY BackendNextOK, BackendNextAudited DEF BackendInv
<1>2. CommandsOK' /\ AttemptsOK' /\ AnswersStand' /\ RowsGoOn
  BY BackendNextCommands, BackendNextStands DEF BackendInv
<1>3. HistoriesGrow
  BY BackendSteps, OthersAcknowledgeNothing, WatcherAdds DEF BackendInv, BackendTypeOK
<1> QED BY <1>1, <1>2, <1>3 DEF BackendInv

\* The whole backend keeps it.
LEMMA BackendKeepsInv == BackendSpec => []BackendInv
<1> QED BY BackendInitInv, BackendNextInv, PTL DEF BackendSpec

(***************************************************************************)
(* What a command was answered, and each stored reply's one event, last    *)
(* also while deliveries and acknowledgements write to the same histories. *)
(***************************************************************************)
THEOREM BackendAnswersHold == BackendSpec => [](AnswersAreDurable /\ RepliesMatchHistory)
<1>1. BackendInv => AnswersAreDurable /\ RepliesMatchHistory
  BY DEF BackendInv, CommandsOK, AnswersOK, Traced, Promises, AnswersAreDurable
<1> QED BY <1>1, BackendKeepsInv, PTL

(***************************************************************************)
(* What a start or a report was answered stays true in the whole backend,  *)
(* and the attempts keep their discipline: one is live, retries are        *)
(* limited, and a key is one delivery.                                     *)
(***************************************************************************)
THEOREM BackendAttemptsLast ==
  BackendSpec => [](ResultsAreDurable /\ OneLiveAttempt /\ RetriesAreLimited /\ OneIdentityPerKey)
<1>1. BackendInv => ResultsAreDurable /\ OneLiveAttempt /\ RetriesAreLimited /\ OneIdentityPerKey
  BY DEF BackendInv, AnswersStand, Stands, ReliedOn, ResultsAreDurable, AttemptsOK
<1> QED BY <1>1, BackendKeepsInv, PTL

-----------------------------------------------------------------------------
(* Commands that nothing overlaps on their case. *)

\* A worker is about to report on a request to the client.
Reporting(w) ==
  /\ jobs[w].phase = "staged" /\ jobs[w].op = "result"
  /\ attempts[jobs[w].key][jobs[w].number].delivery.type = "CLIENT_REQUEST"

(***************************************************************************)
(* The hypothesis: while a command is under way on a case, no other is,    *)
(* nor a report on a request to its client.  Reports may overlap one       *)
(* another, and other deliveries and acknowledgements whatever they like.  *)
(***************************************************************************)
NoReportBesideCommand ==
  \A w \in Workers, r \in Requests :
    (Reporting(w) /\ UnderWay(calls[r]))
    => attempts[jobs[w].key][jobs[w].number].delivery.case # calls[r].case
NoOverlap == OneCommandPerCase /\ NoReportBesideCommand

\* One event that reports no status, in a case there is.
Notes ==
  \E c \in Cases, type \in AttemptEvents \ {"CLIENT_REQUEST_SENT"} : \E k, n :
    /\ cases[c] # None
    /\ history' = [history EXCEPT ![c] = Append(@, Told(type, k, n))]
    /\ UNCHANGED cases

\* The success of a request to the client, which the case must allow.
Sends(w) ==
  LET c == attempts[jobs[w].key][jobs[w].number].delivery.case
  IN /\ Reporting(w) /\ c \in Cases /\ cases[c] # None
     /\ Allowed(cases[c].status, "WAITING_CLIENT")
     /\ cases' = [cases EXCEPT ![c] = SentRow(@, @, jobs[w].now)]
     /\ history' = [history EXCEPT ![c] =
                      Append(@, Told("CLIENT_REQUEST_SENT", jobs[w].key, jobs[w].number))]

\* What a worker writes of a case is that or nothing.
LEMMA WorkerNotes ==
  ASSUME DeliveryTypeOK, NEW w \in Workers, DeliveryStep(w)
  PROVE  UNCHANGED <<cases, history>> \/ Notes \/ Sends(w)
<1> DEFINE job == jobs[w]
           k == job.key
           n == job.number
<1>1. CASE CommitStart(w)
  <2>1. job.delivery.case \in Cases /\ cases[job.delivery.case] # None
    BY <1>1 DEF CommitStart, DeliveryTypeOK, JobOK, Identity
  <2>2. "DELIVERY_RETRIED" \in AttemptEvents \ {"CLIENT_REQUEST_SENT"}
    BY DEF AttemptEvents
  <2>3. CASE InsertAttempt(w)
    <3>1. UNCHANGED cases /\ history' =
            IF n > 1 THEN [history EXCEPT ![job.delivery.case] =
                             Append(@, Told("DELIVERY_RETRIED", k, n))]
            ELSE history
      BY <1>1, <2>3 DEF CommitStart, InsertAttempt, Told
    <3> QED BY <2>1, <2>2, <3>1 DEF Notes
  <2> QED BY <1>1, <2>3 DEF CommitStart, LoseStart
<1>2. CASE CommitResult(w)
  <2> DEFINE delivery == attempts[k][n].delivery
             c == delivery.case
  <2>1. c \in Cases /\ cases[c] # None
    <3>1. k \in Keys /\ n \in DOMAIN attempts[k]
      BY <1>2 DEF CommitResult, DeliveryTypeOK, JobOK
    <3> QED BY <3>1, StoredAttempt DEF DeliveryTypeOK
  <2>2. {"DELIVERY_FAILED", "MODERATOR_NOTIFIED"}
          \subseteq AttemptEvents \ {"CLIENT_REQUEST_SENT"}
    BY DEF AttemptEvents
  <2>3. CASE RecordFailure(w)
    <3>1. history' = [history EXCEPT ![c] = Append(@, Told("DELIVERY_FAILED", k, n))]
          /\ UNCHANGED cases
      BY <2>3 DEF RecordFailure, Record, Told
    <3> HIDE DEF c, k, n
    <3> QED BY <2>1, <2>2, <3>1 DEF Notes
  <2>4. CASE EffectAllowed(delivery) /\ ApplyEffect(delivery, job)
    <3>1. CASE delivery.type = "CLIENT_REQUEST"
               /\ cases' = [cases EXCEPT ![c] = SentRow(@, @, job.now)]
               /\ Record(c, "CLIENT_REQUEST_SENT", job)
      <4>1. Reporting(w)
        BY <1>2, <3>1 DEF CommitResult, Reporting
      <4>2. Allowed(cases[c].status, "WAITING_CLIENT")
        BY <2>4, <3>1 DEF EffectAllowed
      <4> QED BY <2>1, <3>1, <4>1, <4>2 DEF Sends, Record, Told
    <3>2. CASE Record(c, "MODERATOR_NOTIFIED", job) /\ UNCHANGED cases
      <4>1. history' = [history EXCEPT ![c] = Append(@, Told("MODERATOR_NOTIFIED", k, n))]
            /\ UNCHANGED cases
        BY <3>2 DEF Record, Told
      <4> HIDE DEF c, k, n
      <4> QED BY <2>1, <2>2, <4>1 DEF Notes
    <3> QED BY <2>4, <3>1, <3>2 DEF ApplyEffect
  <2> QED BY <1>2, <2>3, <2>4 DEF CommitResult, LoseResult, RecordSuccess
<1> QED
  BY <1>1, <1>2
  DEF DeliveryStep, ReceiveStart, ReceiveResult, AbortJob, ReturnJob, storeVars

\* An event of a case that reports no status, or a request that is allowed: a step of the story.
LEMMA WorkerStory ==
  ASSUME DeliveryTypeOK, NEW w \in Workers, DeliveryStep(w)
  PROVE  StoryStep
<1>1. /\ cases \in [Cases -> CaseRow \cup {None}]
      /\ history \in [Cases -> Seq(CaseEvent)]
      /\ jobs[w].now \in Nat
  BY DEF DeliveryTypeOK, TypeOK, StoreTypeOK, Job
<1>2. CASE UNCHANGED <<cases, history>>
  BY <1>2, SameStories
<1>3. CASE Notes
  <2>1. PICK c \in Cases, type \in AttemptEvents \ {"CLIENT_REQUEST_SENT"} : \E k, n :
          /\ cases[c] # None
          /\ history' = [history EXCEPT ![c] = Append(@, Told(type, k, n))]
          /\ UNCHANGED cases
    BY <1>3 DEF Notes
  <2>2. PICK k, n :
          /\ cases[c] # None
          /\ history' = [history EXCEPT ![c] = Append(@, Told(type, k, n))]
          /\ UNCHANGED cases
    BY <2>1
  <2> DEFINE event == Told(type, k, n)
  <2>3. Reports(event) = None
    BY ToldReports
  <2>4. history' = [history EXCEPT ![c] = Append(@, event)]
    BY <2>2
  <2> HIDE DEF event
  <2>5. NoneReported(history[c], Append(history[c], event))
    BY <1>1, <2>3, AppendReports
  <2>6. \A d \in Cases : NoneReported(history[d], history'[d])
    BY <1>1, <2>4, <2>5 DEF NoneReported, Kept
  <2>7. \A d \in Cases \ {c} : history'[d] = history[d]
    BY <1>1, <2>4
  <2>8. \A d \in Cases : Stays(d)
    BY <2>2, <2>6, <2>7 DEF Stays
  <2> QED BY <2>8 DEF StoryStep
<1>4. CASE Sends(w)
  <2> DEFINE c == attempts[jobs[w].key][jobs[w].number].delivery.case
             row == SentRow(cases[c], cases[c], jobs[w].now)
             event == Told("CLIENT_REQUEST_SENT", jobs[w].key, jobs[w].number)
  <2>1. /\ c \in Cases /\ cases[c] # None /\ Allowed(cases[c].status, "WAITING_CLIENT")
        /\ cases' = [cases EXCEPT ![c] = row]
        /\ history' = [history EXCEPT ![c] = Append(@, event)]
    BY <1>1, <1>4 DEF Sends
  <2>2. cases[c] \in CaseRow
    BY <1>1, <2>1
  <2>3. row.status = "WAITING_CLIENT"
    BY <2>2 DEF SentRow, CaseRow
  <2>4. Timed(row) /\ row # None
    BY <1>1, <2>2, WrittenRowsTimed, WrittenRows, NoRowAssumption DEF Assignees
  <2>5. Reports(event) = "WAITING_CLIENT"
    BY ToldReports DEF AttemptEvents
  <2> HIDE DEF c, row, event
  <2>6. OneReported(history[c], Append(history[c], event), "WAITING_CLIENT")
    BY <1>1, <2>1, <2>5, AppendReports
  <2>7. /\ cases'[c] = row /\ history'[c] = Append(history[c], event)
        /\ \A d \in Cases \ {c} : cases'[d] = cases[d] /\ history'[d] = history[d]
    BY <1>1, <2>1
  <2>8. Moves(c)
    BY <2>1, <2>3, <2>4, <2>6, <2>7 DEF Moves
  <2>9. \A d \in Cases \ {c} : Stays(d)
    BY <2>7 DEF Stays, NoneReported, Kept
  <2> QED BY <2>1, <2>8, <2>9 DEF StoryStep
<1> QED BY <1>2, <1>3, <1>4, WorkerNotes

\* A report that overlaps no command on its case leaves every command its load.
LEMMA WorkerLeavesFresh ==
  ASSUME BackendTypeOK, LoadsFresh, NoReportBesideCommand, NEW w \in Workers, DeliveryStep(w)
  PROVE  LoadsFresh'
<1>1. UNCHANGED calls
  BY OthersLeaveCommands
<1>2. ASSUME NEW r \in Requests, UnderWay(calls[r])
      PROVE  cases'[calls[r].case] = cases[calls[r].case]
  <2>1. CASE UNCHANGED cases
    BY <2>1
  <2>2. CASE Sends(w)
    <3> DEFINE c == attempts[jobs[w].key][jobs[w].number].delivery.case
    <3>1. c # calls[r].case
      BY <1>2, <2>2 DEF Sends, NoReportBesideCommand
    <3>2. calls[r].case \in Cases /\ cases \in [Cases -> CaseRow \cup {None}]
      BY <1>2 DEF UnderWay, BackendTypeOK, SlaTypeOK, TypeOK, StoreTypeOK, CallOK
    <3>3. cases' = [cases EXCEPT ![c] = SentRow(@, @, jobs[w].now)]
      BY <2>2 DEF Sends
    <3> HIDE DEF c
    <3> QED BY <3>1, <3>2, <3>3
  <2> QED BY <2>1, <2>2, WorkerNotes DEF Notes, BackendTypeOK
<1> QED BY <1>1, <1>2 DEF LoadsFresh, StillStored, Decided, UnderWay

\* The invariant of the cases and their watchers, in the whole backend.
SerialBackendInv == BackendTypeOK /\ SerialSlaInv

\* Every step keeps it, is a step of the stories, and takes no time back.
LEMMA SerialBackendNext ==
  ASSUME SerialBackendInv, NoOverlap, [BackendNext]_backendVars
  PROVE  SerialBackendInv' /\ StoryStep /\ clock' >= clock
<1>1. BackendTypeOK'
  BY BackendNextOK DEF SerialBackendInv
<1>2. /\ BackendTypeOK /\ SlaTypeOK /\ SlaTypeOK' /\ TypeOK /\ TypeOK'
      /\ OneCommandPerCase /\ NoReportBesideCommand
      /\ AuditMatchesStatus /\ AcksFollowTheirWait /\ WaitsBegun
      /\ StoryOK /\ LoadsFresh /\ AcksTimely /\ AcksCurrent
  BY <1>1 DEF SerialBackendInv, SerialSlaInv, BackendTypeOK, SlaTypeOK, WaitOK, NoOverlap
<1>3. AuditMatchesStatus'
  <2>1. WaitHasDeadline
    BY <1>2 DEF StoryOK, Timed, WaitHasDeadline, Watched
  <2> QED BY <1>2, <2>1, BackendNextAudited
<1>4. CASE [SlaNext]_slaVars
  BY <1>1, <1>2, <1>4, SerialSlaNext DEF SerialBackendInv
<1>5. ASSUME NEW w \in Workers, DeliveryStep(w), UNCHANGED acks
      PROVE  SerialBackendInv' /\ StoryStep /\ clock' >= clock
  <2>1. UNCHANGED clock /\ clock' >= clock
    BY <1>2, <1>5, OthersLeaveCommands, MaxClockAssumption DEF TypeOK, StoreTypeOK
  <2>2. HistoriesGrow /\ HistoriesAdd(AttemptEvents)
    BY <1>2, <1>5, WorkerAdds DEF BackendTypeOK
  <2>3. AttemptEvents \cap AckEventTypes = {}
    BY AckTypes DEF AttemptEvents
  <2>4. StoryStep /\ StoryOK'
    BY <1>2, <1>5, WorkerStory, StoryGoesOn DEF BackendTypeOK
  <2>5. LoadsFresh'
    BY <1>2, <1>5, WorkerLeavesFresh
  <2>6. AcksTimely' /\ AcksCurrent'
    BY <1>2, <1>5, <2>1, <2>2, <2>3, <2>4, StoryKeepsTimely, StoryKeepsCurrent
  <2>7. WaitsBegun' /\ AcksFollowTheirWait'
    <3>1. history' \in [Cases -> Seq(CaseEvent)]
      BY <1>2 DEF TypeOK, StoreTypeOK
    <3> QED BY <1>2, <1>5, <2>2, <2>3, <3>1, OthersKeepWaits
  <2> QED BY <1>1, <1>2, <1>3, <2>1, <2>4, <2>5, <2>6, <2>7
          DEF SerialBackendInv, SerialSlaInv, WaitOK
<1> QED
  BY <1>2, <1>4, <1>5 DEF BackendNext, DeliveryNext, SlaNext, backendVars, slaVars, caseVars

\* The empty database, again.
LEMMA SerialBackendInit == BackendInit => SerialBackendInv
<1> SUFFICES ASSUME BackendInit PROVE SerialBackendInv
  OBVIOUS
<1>1. BackendTypeOK
  BY BackendInitInv DEF BackendInv
<1>2. SlaInit
  BY DEF BackendInit, DeliveryInit, SlaInit
<1> QED BY <1>1, <1>2, SerialSlaInit DEF SerialBackendInv

(***************************************************************************)
(* The query and the check of an acknowledgement agree beside deliveries.  *)
(***************************************************************************)
THEOREM BackendQueryAgrees == BackendSpec => []ListAgreesWithAck
<1>1. BackendTypeOK => ListAgreesWithAck
  BY ListedIsAcceptable DEF BackendTypeOK
<1> QED BY <1>1, BackendTypeCorrect, PTL

(***************************************************************************)
(* The whole backend keeps every promise about the story of a case, if no  *)
(* command is overlapped on its case: the transitions of the state machine *)
(* only, no deadline left at the end, no catch-up.                         *)
(***************************************************************************)
THEOREM BackendStoriesAreLegal ==
  BackendSpec /\ []NoOverlap
    => [](TransitionsAllowed /\ FinishedHasNoDeadline /\ NoCatchUp)
<1>1. SerialBackendInv /\ NoOverlap /\ [BackendNext]_backendVars => SerialBackendInv'
  BY SerialBackendNext
<1>2. SerialBackendInv /\ ListAgreesWithAck
        => TransitionsAllowed /\ FinishedHasNoDeadline /\ NoCatchUp
  BY StoryIsLegal, NothingBeyondIsAcknowledged DEF SerialBackendInv, SerialSlaInv, SlaTypeOK
<1> QED BY <1>1, <1>2, SerialBackendInit, BackendQueryAgrees, PTL DEF BackendSpec

(***************************************************************************)
(* It then implements the lifecycle, whether a command or a delivery is    *)
(* what takes the case to WAITING_CLIENT.                                  *)
(***************************************************************************)
THEOREM BackendImplementsLifecycle ==
  BackendSpec /\ []NoOverlap => ImplementsLifecycle
<1>1. BackendInit => Lifecycle!LifecycleInit
  BY CaseInitIsLifecycle DEF BackendInit, DeliveryInit
<1>2. SerialBackendInv /\ NoOverlap /\ [BackendNext]_backendVars
        => SerialBackendInv' /\ StoryStep
  BY SerialBackendNext
<1>3. SerialBackendInv /\ SerialBackendInv' /\ StoryStep
        => [Lifecycle!LifecycleNext]_(Lifecycle!lifecycleVars)
  BY StoryIsLifecycle DEF SerialBackendInv, SerialSlaInv, SlaTypeOK
<1> QED BY <1>1, <1>2, <1>3, SerialBackendInit, PTL
        DEF BackendSpec, ImplementsLifecycle, Lifecycle!LifecycleSpec

(***************************************************************************)
(* And what is due stays due until it is handled.                          *)
(***************************************************************************)
THEOREM BackendDueUntilHandled ==
  BackendSpec /\ []NoOverlap => DueUntilHandled
<1>1. SerialBackendInv /\ NoOverlap /\ [BackendNext]_backendVars
        => SerialBackendInv' /\ StoryStep /\ clock' >= clock
  BY SerialBackendNext
<1>2. /\ SerialBackendInv /\ SerialBackendInv' /\ ListAgreesWithAck /\ ListAgreesWithAck'
      /\ StoryStep /\ clock' >= clock
      => \A c \in Cases : \A action \in Due(c, clock) :
           \/ action \in Due(c, clock)'
           \/ \E i \in DOMAIN history'[c] : history'[c][i] = AckEvent(action)
           \/ cases'[c].status # cases[c].status
           \/ \E high \in Acceptable(c, clock)' : Beyond(high, action)
  BY DueStaysDue DEF SerialBackendInv, SerialSlaInv
<1> QED BY <1>1, <1>2, SerialBackendInit, BackendQueryAgrees, PTL DEF BackendSpec, DueUntilHandled

-----------------------------------------------------------------------------
(* Attempts, as a client and the recovery see them. *)

\* Acknowledgements change no attempt and no delivery call.
LEMMA StepsOnAttempts ==
  ASSUME [BackendNext]_backendVars
  PROVE  [DeliveryNext]_deliveryVars \/ UNCHANGED <<attempts, jobs>>
  BY BackendSteps

(***************************************************************************)
(* No row of an attempt is lost and no result is changed by any step.      *)
(***************************************************************************)
THEOREM BackendRowsAreFinal == BackendSpec => ResultsAreFinal
<1>1. BackendTypeOK /\ AttemptsOK /\ [BackendNext]_backendVars =>
        \A k \in Keys : \A n \in DOMAIN attempts[k] :
          /\ n \in DOMAIN attempts'[k]
          /\ attempts[k][n].status # "PENDING" => attempts'[k][n] = attempts[k][n]
  BY StepsOnAttempts, StepKeepsRows DEF RowsGoOn, BackendTypeOK
<1> QED
  BY <1>1, BackendTypeCorrect, BackendAttemptsAreDisciplined, PTL
  DEF BackendSpec, ResultsAreFinal

(***************************************************************************)
(* A key lives the life LogicalDelivery describes, whatever the commands   *)
(* and acknowledgements on its case are.                                   *)
(***************************************************************************)
THEOREM BackendImplementsLogical == BackendSpec => ImplementsLogicalDelivery
<1>1. BackendInit => Logical!LogicalInit
  BY DEF BackendInit, DeliveryInit, Logical!LogicalInit, LogicalState
<1>2. BackendTypeOK /\ AttemptsOK /\ [BackendNext]_backendVars
        => [Logical!LogicalNext]_(Logical!logicalVars)
  BY StepsOnAttempts, StepIsLogical, LogicalUndisturbed DEF BackendTypeOK
<1> QED
  BY <1>1, <1>2, BackendTypeCorrect, BackendAttemptsAreDisciplined, PTL
  DEF BackendSpec, ImplementsLogicalDelivery, Logical!LogicalSpec

(***************************************************************************)
(* A start decides on what is still so when it commits, and the recovery   *)
(* is given the deliveries a start would retry.                            *)
(***************************************************************************)
THEOREM BackendStartsAreJustified ==
  BackendSpec => [](StartsStayJustified /\ ListAgreesWithStart)
<1>1. BackendInit => ResultsAreDated
  BY DEF BackendInit, DeliveryInit, ResultsAreDated
<1>2. BackendTypeOK /\ AttemptsOK /\ ResultsAreDated /\ [BackendNext]_backendVars
        => ResultsAreDated'
  <2>1. ResultsAreDated /\ UNCHANGED attempts => ResultsAreDated'
    BY DEF ResultsAreDated
  <2> QED BY <2>1, StepsOnAttempts, StepDatesResults DEF BackendTypeOK
<1>3. BackendTypeOK /\ AttemptsOK /\ ResultsAreDated
        => StartsStayJustified /\ ListAgreesWithStart
  BY DatedListAgrees DEF BackendTypeOK, AttemptsOK
<1> QED
  BY <1>1, <1>2, <1>3, BackendTypeCorrect, BackendAttemptsAreDisciplined, PTL DEF BackendSpec

(***************************************************************************)
(* Deliveries move a case only as the state machine allows and notify a    *)
(* moderator only of a case that waits for one, whatever acknowledgements  *)
(* write to its history at the same time.                                  *)
(***************************************************************************)
THEOREM BackendEffectsAreLegal == BackendSpec => EffectsRespectLifecycle
<1>1. BackendTypeOK /\ [BackendNext]_backendVars => \A c \in Cases : Respects(c)
  BY StepsOnAttempts, StepRespects DEF Respects, BackendTypeOK
<1> QED
  BY <1>1, BackendTypeCorrect, PTL DEF BackendSpec, EffectsRespectLifecycle, Respects

-----------------------------------------------------------------------------
(* The moderator. *)

\* An event of another kind, in a case there is, and every row keeps its moderator.
LEMMA OtherEventKeepsModerators ==
  ASSUME TypeOK, ModeratorOK, NEW c \in Cases, cases[c] # None, NEW event,
         event.type # "MODERATOR_CHANGED",
         history' = [history EXCEPT ![c] = Append(@, event)],
         \A d \in Cases : cases'[d].moderator = cases[d].moderator,
         \A d \in Cases : cases[d] # None => cases'[d] # None
  PROVE  ModeratorOK'
<1>1. /\ history[c] \in Seq(CaseEvent)
      /\ history'[c] = Append(history[c], event)
      /\ \A d \in Cases \ {c} : history'[d] = history[d]
  BY DEF TypeOK, StoreTypeOK
<1>2. \A d \in Cases : NamesModerator(history[d], cases[d].moderator)
  BY DEF ModeratorOK
<1>3. NamesModerator(history'[c], cases[c].moderator)
  BY <1>1, <1>2, OtherEventNames
<1>4. \A d \in Cases : NamesModerator(history'[d], cases'[d].moderator)
  BY <1>1, <1>2, <1>3
<1>5. \A d \in Cases : NamesModerator(history[d], cases[d].moderator)'
  BY <1>4 DEF NamesModerator
<1>6. HistoryBegins'
  BY <1>1 DEF ModeratorOK, HistoryBegins
<1> QED BY <1>5, <1>6 DEF ModeratorOK

\* A delivery call keeps the moderators.
LEMMA WorkerKeepsModerators ==
  ASSUME DeliveryTypeOK, ModeratorOK, NEW w \in Workers, DeliveryStep(w)
  PROVE  ModeratorOK'
<1>1. TypeOK /\ cases \in [Cases -> CaseRow \cup {None}]
  BY DEF DeliveryTypeOK, TypeOK, StoreTypeOK
<1>2. CASE UNCHANGED <<cases, history>>
  BY <1>2 DEF ModeratorOK, HistoryBegins, NamesModerator
<1>3. CASE Notes
  <2>1. PICK c \in Cases, type \in AttemptEvents \ {"CLIENT_REQUEST_SENT"} : \E k, n :
          /\ cases[c] # None
          /\ history' = [history EXCEPT ![c] = Append(@, Told(type, k, n))]
          /\ UNCHANGED cases
    BY <1>3 DEF Notes
  <2>2. PICK k, n :
          /\ cases[c] # None
          /\ history' = [history EXCEPT ![c] = Append(@, Told(type, k, n))]
          /\ UNCHANGED cases
    BY <2>1
  <2>3. Told(type, k, n).type # "MODERATOR_CHANGED"
    BY DEF Told, Event, AttemptEvents
  <2> QED BY <1>1, <2>2, <2>3, OtherEventKeepsModerators
<1>4. CASE Sends(w)
  <2> DEFINE c == attempts[jobs[w].key][jobs[w].number].delivery.case
             event == Told("CLIENT_REQUEST_SENT", jobs[w].key, jobs[w].number)
  <2>1. /\ c \in Cases /\ cases[c] # None
        /\ cases' = [cases EXCEPT ![c] = SentRow(@, @, jobs[w].now)]
        /\ history' = [history EXCEPT ![c] = Append(@, event)]
    BY <1>4 DEF Sends
  <2>2. event.type # "MODERATOR_CHANGED"
    BY DEF Told, Event
  <2>3. cases[c] \in CaseRow
    BY <1>1, <2>1
  <2>4. SentRow(cases[c], cases[c], jobs[w].now).moderator = cases[c].moderator
    BY <2>3 DEF SentRow, CaseRow
  <2>5. \A d \in Cases : cases[d] # None => cases'[d] # None
    BY WorkerKeepsCases
  <2> HIDE DEF c, event
  <2>6. \A d \in Cases : cases'[d].moderator = cases[d].moderator
    BY <1>1, <2>1, <2>4
  <2> QED BY <1>1, <2>1, <2>2, <2>5, <2>6, OtherEventKeepsModerators
<1> QED BY <1>2, <1>3, <1>4, WorkerNotes

\* An acknowledgement keeps them.
LEMMA WatcherKeepsModerators ==
  ASSUME SlaTypeOK, ModeratorOK, NEW a \in Watchers, AckStep(a)
  PROVE  ModeratorOK'
<1>1. UNCHANGED cases /\ (StoresAck(a) \/ UNCHANGED history)
  BY AckStepStores
<1>2. CASE UNCHANGED history
  BY <1>1, <1>2 DEF ModeratorOK, HistoryBegins, NamesModerator
<1>3. CASE StoresAck(a)
  <2> DEFINE c == acks[a].case
             event == AckEvent(acks[a].action)
  <2>1. c \in Cases /\ cases[c] # None /\ event.type \in AckEventTypes
    BY <1>3, StagedAck, AckEventOK DEF StoresAck
  <2>2. "MODERATOR_CHANGED" \notin AckEventTypes
    BY AckTypes
  <2>3. history' = [history EXCEPT ![c] = Append(@, event)]
    BY <1>3 DEF StoresAck
  <2> HIDE DEF c, event
  <2> QED BY <1>1, <2>1, <2>2, <2>3, OtherEventKeepsModerators DEF SlaTypeOK
<1> QED BY <1>1, <1>2, <1>3

(***************************************************************************)
(* The moderator of a case is the one of its last reassignment in the      *)
(* whole backend: a delivery that writes the row leaves the moderator.     *)
(***************************************************************************)
THEOREM BackendModeratorIsAudited == BackendSpec => []ModeratorMatchesHistory
<1>1. BackendInit => ModeratorOK
  BY DEF BackendInit, DeliveryInit, CaseInit, StoreInit, ModeratorOK, HistoryBegins, NamesModerator
<1>2. BackendTypeOK /\ ModeratorOK /\ [BackendNext]_backendVars => ModeratorOK'
  <2> SUFFICES ASSUME BackendTypeOK, ModeratorOK, [BackendNext]_backendVars PROVE ModeratorOK'
    OBVIOUS
  <2>1. DeliveryTypeOK /\ SlaTypeOK /\ TypeOK
    BY DEF BackendTypeOK, SlaTypeOK
  <2>2. CASE [DeliveryNext]_deliveryVars
    <3>1. [CaseNext]_caseVars \/ \E w \in Workers : DeliveryStep(w)
      BY <2>2 DEF DeliveryNext, deliveryVars, caseVars
    <3> QED BY <2>1, <3>1, CaseNextNames, WorkerKeepsModerators
  <2> QED BY <2>1, <2>2, BackendSteps, WatcherKeepsModerators
<1> QED BY <1>1, <1>2, ModeratorNamed, BackendTypeCorrect, PTL DEF BackendSpec
=============================================================================
