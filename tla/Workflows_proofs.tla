--------------------------- MODULE Workflows_proofs ---------------------------
(***************************************************************************)
(* What is proved of the workflows: they use the backend only as anybody   *)
(* may, so all that holds of the backend holds beside them; what they have *)
(* acknowledged was delivered, and what they report is not contradicted,   *)
(* for every number of runs, wherever they overlap and stop.               *)
(***************************************************************************)
EXTENDS Workflows, Backend_proofs

-----------------------------------------------------------------------------
(* The inductive invariant, of the values a run works on. *)

\* The reply is in the history of the case.
Replied(c, m, histories) == \E i \in DOMAIN histories[c] : histories[c][i] = Reply(m)

\* If the key is that of a notification, the reply it is about has been stored.
Earned(k, histories) ==
  \A c \in Cases, m \in Messages : k = NotificationKey[c, m] => Replied(c, m, histories)

SucceededIn(k, rows) == \E n \in DOMAIN rows[k] : rows[k][n].status = "SUCCEEDED"

Run == [items : SUBSET Item, serving : Item \cup {None}, failed : BOOLEAN]

\* What an item has come by on its way.
ItemStands(item, rows, histories) ==
  /\ item.stage \in {"complete", "delivered"} =>
       item.action # None /\ SucceededIn(item.key, rows)
  /\ item.stage \in {"pending", "transported", "delivered"} =>
       item.number \in DOMAIN rows[item.key]
  /\ item.stage \in {"transported", "delivered"} <=> item.outcome # None
  /\ item.action # None => SlaKey[item.delivery.case, item.action] = item.key
  /\ Earned(item.key, histories)

\* No call is under way, or one of a run that has stopped; or a start or a report
\* of the item that is served; or its acknowledgement.
Serves(run, job, ack) ==
  \/ /\ run.serving = None
     /\ job.phase = "idle" \/ ack.phase = "idle"
     /\ run.items # {} => job.phase = "idle" /\ ack.phase = "idle"
  \/ /\ run.serving # None /\ job.phase # "idle" /\ ack.phase = "idle"
     /\ job.key = run.serving.key
     /\ \/ run.serving.stage = "listed" /\ job.op = "start"
        \/ /\ run.serving.stage = "transported" /\ job.op = "result"
           /\ job.number = run.serving.number /\ job.outcome = run.serving.outcome
  \/ /\ run.serving # None /\ job.phase = "idle" /\ ack.phase # "idle"
     /\ run.serving.stage \in {"complete", "delivered"}

RunStands(run, rows, histories) ==
  /\ run \in Run
  /\ \A item \in run.items : ItemStands(item, rows, histories)
  /\ run.serving # None =>
       /\ run.serving \in run.items
       /\ \A other \in run.items : NodeOrder[run.serving.stage] <= NodeOrder[other.stage]
  /\ run.items = {} => run = NoRun

\* A start is of a key that was earned; a report gives the transport's message id,
\* and is in conflict only with a result that differs.
JobStands(job, rows, histories) ==
  /\ job.phase = "idle" => job = NoJob
  /\ job.phase = "answered" => job.answer \in JobAnswers
  /\ job.phase # "idle" /\ job.op = "start" => job.key \in Keys /\ Earned(job.key, histories)
  /\ job.phase # "idle" /\ job.op = "result" =>
       /\ job.key \in Keys /\ job.number \in DOMAIN rows[job.key]
       /\ job.outcome \in {"SUCCEEDED", "FAILED"}
       /\ job.outcome = "SUCCEEDED" => job.externalId = TransportId[job.key, job.number]
       /\ job.answer = "conflict" =>
            rows[job.key][job.number].status \notin {"PENDING", job.outcome}

\* An acknowledgement is asked for only after an attempt has succeeded.
AckStands(ack, rows) ==
  ack.phase \in {"loaded", "staged"} =>
    /\ ack.case \in Cases /\ ack.action \in DueAction
    /\ SucceededIn(SlaKey[ack.case, ack.action], rows)

PlaceStands(run, job, ack, rows, histories) ==
  /\ RunStands(run, rows, histories)
  /\ Serves(run, job, ack)
  /\ JobStands(job, rows, histories)
  /\ AckStands(ack, rows)

\* What succeeded has the transport's message id.
SentAs(row, k, n) == row.status = "SUCCEEDED" => row.externalId = TransportId[k, n]

\* A key that has been started was earned.
RowsStand(rows, histories) ==
  \A k \in Keys :
    /\ rows[k] # << >> => Earned(k, histories)
    /\ \A n \in DOMAIN rows[k] : SentAs(rows[k][n], k, n)

\* A command that has ended has an answer; a reply has its case and its message id.
CallEnded(call) ==
  call.phase = "answered" =>
    /\ call.answer \in Answers
    /\ call.op = "reply" => call.case \in Cases /\ call.arg \in Messages

CallsEnded == \A r \in Requests : CallEnded(calls[r])

AllStand == \A w \in Runs : PlaceStands(runs[w], jobs[w], acks[w], attempts, history)

\* All of it together, beside the invariant of the backend.
WorkflowInv ==
  /\ BackendInv
  /\ CallsEnded
  /\ DOMAIN runs = Runs /\ faults \in 0..MaxFaults
  /\ AllStand
  /\ RowsStand(attempts, history)
  /\ AckedWasDelivered

-----------------------------------------------------------------------------
(* Commands that have ended. *)

\* One call goes on, every other call as it was.
LEMMA OtherCallsEnded ==
  ASSUME TypeOK, CallsEnded, NEW r \in Requests, NEW call, calls' = [calls EXCEPT ![r] = call],
         CallEnded(call)
  PROVE  CallsEnded'
<1>1. \A q \in Requests : CallEnded(calls'[q])
  BY DEF CallsEnded, TypeOK
<1> QED BY <1>1 DEF CallsEnded, CallEnded

\* A call that ends with an answer.
LEMMA ResponseEnds ==
  ASSUME TypeOK, CallsEnded, NEW r \in Requests, NEW op, NEW c, NEW arg, NEW answer \in Answers,
         op = "reply" => c \in Cases /\ arg \in Messages, Respond(r, op, c, arg, answer)
  PROVE  CallsEnded'
<1> DEFINE call == [Idle EXCEPT !.phase = "answered", !.op = op, !.case = c, !.arg = arg,
                                !.answer = answer]
<1>1. CallEnded(call)
  BY DEF CallEnded, Idle
<1>2. calls' = [calls EXCEPT ![r] = call]
  BY DEF Respond
<1> HIDE DEF call
<1> QED BY <1>1, <1>2, OtherCallsEnded

\* Every step of the commands.
LEMMA CaseNextCallsEnded ==
  ASSUME TypeOK, CallsEnded, [CaseNext]_caseVars
  PROVE  CallsEnded'
<1>1. CASE UNCHANGED calls
  BY <1>1 DEF CallsEnded, CallEnded, Answers
<1>2. ASSUME NEW r \in Requests, NEW phase \in {"loaded", "staged"}, NEW op, NEW c, NEW arg,
             Hold(r, phase, op, c, arg)
      PROVE  CallsEnded'
  <2> DEFINE call == [phase |-> phase, op |-> op, case |-> c, arg |-> arg,
                      loaded |-> cases[c], now |-> clock, answer |-> None]
  <2>1. CallEnded(call) /\ calls' = [calls EXCEPT ![r] = call]
    BY <1>2 DEF CallEnded, Hold
  <2> HIDE DEF call
  <2> QED BY <2>1, OtherCallsEnded
<1>3. {"applied", "already", "rejected", "conflict", "not_found", "failed"} \subseteq Answers
  BY DEF Answers
<1>4. ASSUME NEW r \in Requests, NEW c \in Cases, Receive(r, c) PROVE CallsEnded'
  <2>1. ASSUME NEW op \in {"mark", "confirm", "cancel"}, ReceiveTransition(r, op, c)
        PROVE  CallsEnded'
    BY <1>2, <1>3, <2>1, ResponseEnds DEF ReceiveTransition
  <2>2. ASSUME NEW op, NEW arg, op = "reply" => arg \in Messages, RejectUnknownCase(r, op, c, arg)
        PROVE  CallsEnded'
    BY <1>3, <2>2, ResponseEnds DEF RejectUnknownCase
  <2>3. ASSUME NEW m \in Messages, ReceiveReply(r, c, m) PROVE CallsEnded'
    BY <1>2, <2>3 DEF ReceiveReply
  <2>4. ASSUME NEW m \in Assignees, ReceiveReassign(r, c, m) PROVE CallsEnded'
    BY <1>2, <1>3, <2>4, ResponseEnds DEF ReceiveReassign
  <2> QED BY <1>4, <2>1, <2>2, <2>3, <2>4 DEF Receive
<1>5. ASSUME NEW r \in Requests, calls[r].phase \in {"loaded", "staged"},
             NEW answer \in Answers, Finish(r, answer)
      PROVE  CallsEnded'
  <2>1. calls[r].case \in Cases /\ (calls[r].op = "reply" => calls[r].arg \in Messages)
    BY <1>5 DEF TypeOK, CallOK
  <2> QED BY <1>5, <2>1, ResponseEnds DEF Finish
<1>6. ASSUME NEW r \in Requests, LookUpReply(r) PROVE CallsEnded'
  <2>1. ReplyAnswer(calls[r].arg, calls[r].case) \in Answers
    BY <1>3 DEF ReplyAnswer
  <2>2. CASE calls' = [calls EXCEPT ![r].phase = "staged", ![r].now = clock]
    <3>1. calls[r] \in Call
      BY DEF TypeOK
    <3>2. CallEnded([calls[r] EXCEPT !.phase = "staged", !.now = clock])
      BY <3>1 DEF CallEnded, Call
    <3>3. calls' = [calls EXCEPT ![r] = [calls[r] EXCEPT !.phase = "staged", !.now = clock]]
      BY <2>2 DEF TypeOK
    <3> QED BY <3>2, <3>3, OtherCallsEnded
  <2> QED BY <1>3, <1>5, <1>6, <2>1, <2>2 DEF LookUpReply
<1>7. ASSUME NEW r \in Requests, CommitCommand(r) PROVE CallsEnded'
  <2>1. calls[r].phase = "staged"
    BY <1>7 DEF CommitCommand, CommitMark, CommitReply, CommitConfirm, CommitCancel,
                CommitReassign, Staged
  <2>2. \E answer \in Answers : Finish(r, answer)
    BY <1>3, <1>7 DEF CommitCommand, CommitMark, CommitReply, CommitConfirm, CommitCancel,
                      CommitReassign, Commit, ReplyAnswer
  <2> QED BY <1>5, <2>1, <2>2
<1>8. ASSUME NEW r \in Requests, RollBack(r) PROVE CallsEnded'
  BY <1>3, <1>5, <1>8 DEF RollBack
<1>9. ASSUME NEW r \in Requests, Return(r) PROVE CallsEnded'
  <2>1. CallEnded(Idle)
    BY DEF CallEnded, Idle
  <2> QED BY <1>9, <2>1, OtherCallsEnded DEF Return
<1> QED
  BY <1>1, <1>4, <1>6, <1>7, <1>8, <1>9 DEF CaseNext, CreateCase, caseVars

-----------------------------------------------------------------------------
(* The workflows use the backend as anybody may. *)

\* What a run has in hand.
LEMMA ItemsOfRun ==
  ASSUME WorkflowInv, NEW w \in Runs, NEW item \in runs[w].items
  PROVE  /\ item \in Item /\ item.key \in Keys /\ item.delivery \in Identity
         /\ item.action \in DueAction \cup {None} /\ item.allowRetry \in BOOLEAN
         /\ item.number \in Nat /\ item.outcome \in {"SUCCEEDED", "FAILED", None}
         /\ item.stage \in DOMAIN NodeOrder
         /\ ItemStands(item, attempts, history)
<1>1. item \in Item /\ ItemStands(item, attempts, history)
  BY DEF WorkflowInv, AllStand, PlaceStands, RunStands, Run
<1> QED BY <1>1 DEF Item

\* An item that is to be reported has an attempt and an outcome.
LEMMA TransportedItem ==
  ASSUME NEW item, ItemStands(item, attempts, history), item.stage = "transported"
  PROVE  item.number \in DOMAIN attempts[item.key] /\ item.outcome # None
  BY DEF ItemStands

\* The tables as the workflows find them.
LEMMA Tables ==
  ASSUME WorkflowInv
  PROVE  /\ DeliveryTypeOK /\ SlaTypeOK /\ TypeOK /\ AttemptsOK /\ AnswersStand /\ CommandsOK
         /\ attempts \in [Keys -> Seq(Attempt)] /\ history \in [Cases -> Seq(CaseEvent)]
         /\ jobs \in [Runs -> Job] /\ acks \in [Runs -> Ack] /\ clock \in RequestTimes
  BY RunsAssumption
  DEF WorkflowInv, BackendInv, BackendTypeOK, DeliveryTypeOK, SlaTypeOK, TypeOK, StoreTypeOK,
      RequestTimes

\* The places where runs may be are the backend's threads.
LEMMA Threads == Workers = Runs /\ Watchers = Runs
  BY RunsAssumption

\* Starting, reporting and acknowledging are calls with arguments of their types.
LEMMA SendStartIsCall ==
  ASSUME WorkflowInv, NEW w \in Runs, SendStart(w)
  PROVE  DeliveryStep(w) /\ UNCHANGED acks
<1>1. PICK item \in AtNode(w) :
        ReceiveStart(w, item.key, item.delivery, item.allowRetry, clock)
  BY DEF SendStart
<1>2. item \in runs[w].items
  BY DEF AtNode
<1>3. /\ item.key \in Keys /\ item.delivery \in Deliveries /\ item.allowRetry \in BOOLEAN
      /\ clock \in RequestTimes
  BY <1>2, ItemsOfRun, Tables, AnyDeliveryAssumption
<1> QED BY <1>1, <1>3 DEF DeliveryStep, SendStart

\* A transported item names an attempt within the limit.
LEMMA SendReportIsCall ==
  ASSUME WorkflowInv, NEW w \in Runs, SendReport(w)
  PROVE  DeliveryStep(w) /\ UNCHANGED acks
<1>1. PICK item \in AtNode(w) :
        /\ item.stage = "transported"
        /\ ReceiveResult(w, item.key, item.number, item.outcome, MessageId(w, item), clock)
  BY DEF SendReport
<1>2. item \in runs[w].items
  BY DEF AtNode
<1>3. /\ item.key \in Keys /\ clock \in RequestTimes
      /\ item.outcome \in {"SUCCEEDED", "FAILED"} /\ item.number \in DOMAIN attempts[item.key]
  BY <1>1, <1>2, ItemsOfRun, Tables DEF ItemStands
<1>4. item.number \in 1..MaxAttempts
  <2>1. attempts[item.key] \in Seq(Attempt) /\ Len(attempts[item.key]) <= MaxAttempts
    BY <1>3, Tables DEF AttemptsOK, RetriesAreLimited
  <2> QED BY <1>3, <2>1, RetryAssumption
<1>5. MessageId(w, item) \in ExternalIds \cup {None}
  BY <1>3, <1>4, TransportAssumption DEF MessageId
<1> QED BY <1>1, <1>3, <1>4, <1>5 DEF DeliveryStep, SendReport

\* A delivered item has the action it carries out.
LEMMA SendAckIsCall ==
  ASSUME WorkflowInv, NEW w \in Runs, SendAck(w)
  PROVE  AckStep(w) /\ UNCHANGED <<attempts, jobs>>
<1>1. PICK item \in AtNode(w) :
        /\ item.stage \in {"complete", "delivered"}
        /\ ReceiveAck(w, item.delivery.case, item.action, clock)
  BY DEF SendAck
<1>2. item \in runs[w].items
  BY DEF AtNode
<1>3. /\ item.delivery.case \in Cases /\ item.action \in SlaAction /\ clock \in RequestTimes
  BY <1>1, <1>2, ItemsOfRun, Tables DEF ItemStands, Identity, DueAction
<1> QED BY <1>1, <1>3 DEF AckStep, SendAck

\* Every step of the workflows is one of the backend, or leaves it alone.
LEMMA WorkflowSteps ==
  ASSUME WorkflowInv, [WorkflowNext]_workflowVars
  PROVE  [BackendNext]_backendVars
<1>1. ASSUME NEW w \in Runs, DeliveryStep(w) /\ UNCHANGED acks
      PROVE  BackendNext
  BY <1>1, Threads DEF BackendNext, DeliveryNext
<1>2. ASSUME NEW w \in Runs, AckStep(w) /\ UNCHANGED <<attempts, jobs>>
      PROVE  BackendNext
  BY <1>2, Threads DEF BackendNext
<1>3. CASE CaseNext /\ UNCHANGED <<attempts, jobs, acks, runs, faults>>
  BY <1>3 DEF BackendNext, DeliveryNext
<1>4. ASSUME NEW w \in Runs, Advance(w) PROVE [BackendNext]_backendVars
  <2>1. CASE SendStart(w) \/ SendReport(w) \/ SendAck(w)
    BY <1>1, <1>2, <2>1, SendStartIsCall, SendReportIsCall, SendAckIsCall
  <2>2. CASE TakeStart(w) \/ TakeReport(w) \/ TakeAck(w) \/ Drop(w)
    BY <1>1, <1>2, <2>2 DEF TakeStart, TakeReport, TakeAck, Drop, DeliveryStep, AckStep
  <2>3. CASE Serve(w)
    BY <1>1, <1>2, <2>3 DEF Serve, DeliveryStep, AckStep
  <2>4. CASE Transport(w)
    BY <2>4 DEF Transport, storeVars, backendVars
  <2> QED BY <1>4, <2>1, <2>2, <2>3, <2>4 DEF Advance
<1>5. ASSUME NEW w \in Runs, FailCall(w) PROVE BackendNext
  BY <1>1, <1>2, <1>5 DEF FailCall, DeliveryStep, AckStep
<1>6. ASSUME NEW w \in Runs, Poll(w) \/ StopRun(w) \/ \E c \in Cases : RequestWebhook(w, c)
      PROVE  UNCHANGED backendVars
  BY <1>6 DEF Poll, StopRun, RequestWebhook, storeVars, backendVars
<1>7. ASSUME NEW w \in Runs, NEW r \in Requests, ReplyWebhook(w, r)
      PROVE  BackendNext
  BY <1>7 DEF ReplyWebhook, BackendNext, DeliveryNext, CaseNext
<1>8. CASE UNCHANGED workflowVars
  BY <1>8 DEF workflowVars, backendVars
<1> QED BY <1>3, <1>4, <1>5, <1>6, <1>7, <1>8 DEF WorkflowNext

-----------------------------------------------------------------------------
(* What stands goes on standing. *)

\* Events stay, so what was earned stays so.
LEMMA StaysEarned ==
  ASSUME HistoriesGrow, NEW k, Earned(k, history)
  PROVE  Earned(k, history')
  BY DEF HistoriesGrow, Kept, Earned, Replied

\* Results are final.
LEMMA StaysSucceeded ==
  ASSUME RowsGoOn, NEW k \in Keys, SucceededIn(k, attempts)
  PROVE  SucceededIn(k, attempts')
  BY DEF RowsGoOn, SucceededIn

\* An item keeps what it has come by, whatever the tables have got.
LEMMA ItemStaysStanding ==
  ASSUME HistoriesGrow, RowsGoOn, NEW item \in Item, ItemStands(item, attempts, history)
  PROVE  ItemStands(item, attempts', history')
<1>1. item.key \in Keys
  BY DEF Item
<1>2. Earned(item.key, history')
  BY StaysEarned DEF ItemStands
<1>3. SucceededIn(item.key, attempts) => SucceededIn(item.key, attempts')
  BY <1>1, StaysSucceeded
<1>4. item.number \in DOMAIN attempts[item.key] => item.number \in DOMAIN attempts'[item.key]
  BY <1>1 DEF RowsGoOn
<1> QED BY <1>2, <1>3, <1>4 DEF ItemStands

\* So does a run,
LEMMA RunStaysStanding ==
  ASSUME HistoriesGrow, RowsGoOn, NEW run, RunStands(run, attempts, history)
  PROVE  RunStands(run, attempts', history')
<1>1. \A item \in run.items : item \in Item
  BY DEF RunStands, Run
<1>2. \A item \in run.items : ItemStands(item, attempts', history')
  BY <1>1, ItemStaysStanding DEF RunStands
<1> QED BY <1>2 DEF RunStands

\* a call of a delivery,
LEMMA JobStaysStanding ==
  ASSUME HistoriesGrow, RowsGoOn, NEW job, JobStands(job, attempts, history)
  PROVE  JobStands(job, attempts', history')
<1>1. job.phase # "idle" /\ job.op = "start" => Earned(job.key, history')
  BY StaysEarned DEF JobStands
<1>2. ASSUME job.phase # "idle", job.op = "result"
      PROVE  /\ job.number \in DOMAIN attempts'[job.key]
             /\ job.answer = "conflict" =>
                  attempts'[job.key][job.number].status \notin {"PENDING", job.outcome}
  <2>1. job.key \in Keys /\ job.number \in DOMAIN attempts[job.key]
    BY <1>2 DEF JobStands
  <2>2. /\ job.number \in DOMAIN attempts'[job.key]
        /\ attempts[job.key][job.number].status # "PENDING" =>
             attempts'[job.key][job.number] = attempts[job.key][job.number]
    BY <2>1 DEF RowsGoOn
  <2> QED BY <1>2, <2>2 DEF JobStands
<1> QED BY <1>1, <1>2 DEF JobStands

\* and an acknowledgement.
LEMMA AckStaysStanding ==
  ASSUME RowsGoOn, NEW ack, AckStands(ack, attempts)
  PROVE  AckStands(ack, attempts')
<1>1. ASSUME ack.case \in Cases, ack.action \in DueAction
      PROVE  SlaKey[ack.case, ack.action] \in Keys
  BY <1>1, KeysAssumption
<1> QED BY <1>1, StaysSucceeded DEF AckStands

\* All that a place holds.
LEMMA PlaceStaysStanding ==
  ASSUME HistoriesGrow, RowsGoOn, NEW run, NEW job, NEW ack,
         PlaceStands(run, job, ack, attempts, history)
  PROVE  PlaceStands(run, job, ack, attempts', history')
<1>1. RunStands(run, attempts', history')
  BY RunStaysStanding DEF PlaceStands
<1>2. JobStands(job, attempts', history') /\ AckStands(ack, attempts')
  BY JobStaysStanding, AckStaysStanding DEF PlaceStands
<1> QED BY <1>1, <1>2 DEF PlaceStands

\* A step of one place.
OnlyHere(w) ==
  \A v \in Runs \ {w} : runs'[v] = runs[v] /\ jobs'[v] = jobs[v] /\ acks'[v] = acks[v]

\* It has to stand there; elsewhere all stays.
LEMMA OnePlaceGoesOn ==
  ASSUME AllStand, HistoriesGrow, RowsGoOn, NEW w \in Runs, OnlyHere(w),
         PlaceStands(runs'[w], jobs'[w], acks'[w], attempts', history')
  PROVE  AllStand'
<1>1. ASSUME NEW v \in Runs
      PROVE  PlaceStands(runs'[v], jobs'[v], acks'[v], attempts', history')
  <2>1. CASE v = w
    BY <2>1
  <2>2. CASE v # w
    BY <2>2, PlaceStaysStanding DEF AllStand, OnlyHere
  <2> QED BY <2>1, <2>2
<1>2. ASSUME NEW v \in Runs
      PROVE  PlaceStands(runs[v], jobs[v], acks[v], attempts, history)'
  BY <1>1
<1> QED BY <1>2 DEF AllStand

\* Nothing is going on: the lists are empty and no call is under way.
LEMMA NothingGoesOn ==
  /\ NoRun \in Run /\ NoRun.items = {} /\ NoRun.serving = None /\ NoRun.failed = FALSE
  /\ NoJob.phase = "idle" /\ NoAck.phase = "idle"
  /\ \A rows, histories : JobStands(NoJob, rows, histories) /\ AckStands(NoAck, rows)
<1>1. NoRun \in Run /\ NoRun.items = {} /\ NoRun.serving = None /\ NoRun.failed = FALSE
  BY DEF NoRun, Run
<1>2. NoJob.phase = "idle" /\ NoAck.phase = "idle"
  BY DEF NoJob, NoAck
<1> QED BY <1>1, <1>2 DEF JobStands, AckStands

-----------------------------------------------------------------------------
(* A run begins. *)

\* A new item is one to be started, of a key that is earned.
Fresh(item) ==
  /\ item \in Item /\ item.stage = "listed" /\ item.outcome = None
  /\ item.action # None => SlaKey[item.delivery.case, item.action] = item.key
  /\ Earned(item.key, history)

\* NewItem makes one.
LEMMA NewItemFresh ==
  ASSUME NEW k \in Keys, NEW d \in Identity, NEW action \in DueAction \cup {None},
         NEW allowRetry \in BOOLEAN, Earned(k, history),
         action # None => SlaKey[d.case, action] = k
  PROVE  Fresh(NewItem(k, d, action, allowRetry))
<1> DEFINE item == NewItem(k, d, action, allowRetry)
<1>1. item \in Item
  BY DEF NewItem, Item, NodeOrder
<1>2. /\ item.key = k /\ item.delivery = d /\ item.action = action
      /\ item.stage = "listed" /\ item.outcome = None
  BY DEF NewItem
<1> QED BY <1>1, <1>2 DEF Fresh

\* The key of an SLA action or a request is no notification's.
LEMMA OtherKeysEarned ==
  ASSUME NEW c \in Cases, NEW histories
  PROVE  /\ Earned(RequestKey[c], histories)
         /\ \A action \in DueAction : Earned(SlaKey[c, action], histories)
  BY NotificationKeysAssumption DEF Earned

\* The key of a notification tells the case and the message.
LEMMA NotificationKeys ==
  ASSUME NEW c \in Cases, NEW m \in Messages
  PROVE  /\ NotificationKey[c, m] \in Keys
         /\ \A histories : Replied(c, m, histories) => Earned(NotificationKey[c, m], histories)
<1>1. NotificationKey[c, m] \in Keys
  BY KeysAssumption
<1>2. ASSUME NEW d \in Cases, NEW n \in Messages, NotificationKey[c, m] = NotificationKey[d, n]
      PROVE  c = d /\ m = n
  BY <1>2, NotificationKeysAssumption
<1> QED BY <1>1, <1>2 DEF Earned

\* What is due is an action with a level.
LEMMA DueIsAction ==
  ASSUME TypeOK, NEW c \in Cases, NEW action, action \in Due(c, clock)
  PROVE  action \in DueAction /\ cases[c] # None
<1> DEFINE row == cases[c]
<1>1. row # None /\ FirstDeadline(row) # None
  BY DEF Due
<1>2. row \in CaseRow
  BY <1>1 DEF TypeOK, StoreTypeOK
<1>3. row.status \in Waits
  BY <1>1, <1>2, DeadlineOfAWait
<1>4. PICK i \in 1..3 : action = Thresholds(row.status)[i]
  BY DEF Due, Highest
<1> QED BY <1>1, <1>3, <1>4, ThresholdPlaces DEF DueAction

\* The watchdog's list.
LEMMA SlaItemsFresh ==
  ASSUME TypeOK, NEW item \in SlaItems
  PROVE  Fresh(item)
<1>1. PICK c \in Cases : \E action \in Due(c, clock) : item = SlaItem(c, action)
  BY DEF SlaItems
<1> PICK action \in Due(c, clock) : item = SlaItem(c, action)
  BY <1>1
<1>2. action \in DueAction /\ action[1] \in SlaActionType /\ cases[c] \in CaseRow
  BY DueIsAction DEF DueAction, SlaAction, TypeOK, StoreTypeOK
<1>3. SlaRecipient(c, action) \in Recipients
  <2>1. cases[c].moderator \in Moderators \cup {None}
    BY <1>2 DEF CaseRow, Assignees
  <2>2. CASE action[1] = "REMIND_CLIENT"
    BY <2>2, RecipientsAssumption DEF SlaRecipient
  <2>3. CASE action[1] = "REMIND_MODERATOR"
    BY <2>1, <2>3, RecipientsAssumption DEF SlaRecipient
  <2>4. CASE action[1] \notin {"REMIND_CLIENT", "REMIND_MODERATOR"}
    BY <2>4, RecipientsAssumption DEF SlaRecipient
  <2> QED BY <2>2, <2>3, <2>4
<1>4. SlaDeliveryType[action[1]] \in DeliveryType
  BY <1>2 DEF SlaDeliveryType, SlaActionType, DeliveryType
<1> DEFINE d == [case |-> c, type |-> SlaDeliveryType[action[1]],
                 recipient |-> SlaRecipient(c, action)]
<1>5. d \in Identity /\ d.case = c
  BY <1>3, <1>4 DEF Identity
<1>6. item = NewItem(SlaKey[c, action], d, action, FALSE)
  BY <1>1 DEF SlaItem
<1>7. SlaKey[c, action] \in Keys /\ Earned(SlaKey[c, action], history)
  BY <1>2, KeysAssumption, OtherKeysEarned
<1> HIDE DEF d
<1> QED BY <1>2, <1>5, <1>6, <1>7, NewItemFresh

\* The recovery list: its keys have rows, so they were earned.
LEMMA RecoveryItemsFresh ==
  ASSUME WorkflowInv, NEW item \in RecoveryItems
  PROVE  Fresh(item)
<1>1. PICK k \in Keys :
        /\ Retryable(k, clock)
        /\ item = NewItem(k, Last(k).delivery, Hint(k, Last(k).delivery), TRUE)
  BY DEF RecoveryItems
<1> DEFINE d == Last(k).delivery
           action == Hint(k, d)
<1>2. attempts[k] # << >> /\ attempts[k] \in Seq(Attempt)
  BY <1>1, Tables DEF Retryable
<1>3. d \in Identity
  <2>1. Len(attempts[k]) \in DOMAIN attempts[k]
    BY <1>2
  <2> QED BY <2>1, StoredAttempt, Tables DEF Last
<1>4. Earned(k, history)
  BY <1>2 DEF WorkflowInv, RowsStand
<1>5. action \in DueAction \cup {None} /\ (action # None => SlaKey[d.case, action] = k)
  <2> HIDE DEF d
  <2>1. CASE ActionsOf(k, d) = {}
    BY <2>1 DEF Hint
  <2>2. CASE ActionsOf(k, d) # {}
    <3>1. Hint(k, d) \in ActionsOf(k, d)
      BY <2>2 DEF Hint
    <3> QED BY <3>1 DEF ActionsOf
  <2> QED BY <2>1, <2>2
<1> HIDE DEF d, action
<1> QED BY <1>1, <1>3, <1>4, <1>5, NewItemFresh DEF d, action

\* The list of a webhook has one item.
LEMMA RequestItemFresh ==
  ASSUME NEW c \in Cases
  PROVE  Fresh(RequestItem(c))
<1> DEFINE d == [case |-> c, type |-> "CLIENT_REQUEST", recipient |-> ClientContact]
<1>1. d \in Identity
  BY RecipientsAssumption DEF Identity, DeliveryType
<1>2. RequestKey[c] \in Keys /\ Earned(RequestKey[c], history)
  BY KeysAssumption, OtherKeysEarned
<1>3. RequestItem(c) = NewItem(RequestKey[c], d, None, TRUE)
  BY DEF RequestItem
<1> HIDE DEF d
<1> QED BY <1>1, <1>2, <1>3, NewItemFresh

\* A command that was answered with success was applied, now or before.
LEMMA AcceptedReply ==
  ASSUME NEW answer \in Answers, Accepted(answer)
  PROVE  answer \in {"applied", "already"}
  BY DEF Answers, Accepted, HttpStatus

\* A reply that was accepted is stored: its notification is earned.
LEMMA NotificationItemFresh ==
  ASSUME WorkflowInv, NEW r \in Requests, calls[r].phase = "answered", calls[r].op = "reply",
         Accepted(calls[r].answer), NEW moderator \in ModeratorsOf(calls[r].case) \ {None}
  PROVE  Fresh(NotificationItem(calls[r].case, calls[r].arg, moderator))
<1> DEFINE c == calls[r].case
           m == calls[r].arg
           d == [case |-> c, type |-> "MODERATOR_NOTIFICATION", recipient |-> moderator]
<1>1. c \in Cases /\ m \in Messages /\ calls[r].answer \in Answers
  BY DEF WorkflowInv, CallsEnded, CallEnded
<1>2. Replied(c, m, history)
  <2>1. calls[r].answer \in {"applied", "already"}
    BY <1>1, AcceptedReply
  <2>2. Traced(calls[r], history)
    BY Tables DEF CommandsOK, AnswersOK
  <2>3. PICK i \in DOMAIN history[c] : IsTrace(history[c][i], "reply", m)
    BY <2>1, <2>2 DEF Traced, Promises
  <2> QED BY <2>3 DEF IsTrace, Replied, Reply
<1>3. NotificationKey[c, m] \in Keys /\ Earned(NotificationKey[c, m], history)
  BY <1>1, <1>2, NotificationKeys
<1>4. moderator \in Recipients
  <2>1. CASE cases[c] # None /\ moderator = cases[c].moderator
    <3>1. cases[c] \in CaseRow
      BY <1>1, <2>1, Tables DEF TypeOK, StoreTypeOK
    <3> QED BY <2>1, <3>1, RecipientsAssumption DEF CaseRow, Assignees
  <2>2. ASSUME NEW i \in DOMAIN history[c], history[c][i].type = "MODERATOR_CHANGED",
               moderator \in {history[c][i].ref[1], history[c][i].ref[2]}
        PROVE  moderator \in Recipients
    <3>1. history[c][i].ref \in Assignees \X Assignees
      BY <1>1, <2>2, Tables DEF CommandsOK, ReassignmentsOK, AssigneesNamed
    <3> QED BY <2>2, <3>1, RecipientsAssumption DEF Assignees
  <2> QED BY <2>1, <2>2 DEF ModeratorsOf
<1>5. d \in Identity
  BY <1>1, <1>4 DEF Identity, DeliveryType
<1>6. NotificationItem(c, m, moderator) = NewItem(NotificationKey[c, m], d, None, TRUE)
  BY DEF NotificationItem
<1> HIDE DEF d
<1> QED BY <1>3, <1>5, <1>6, NewItemFresh

\* A run of fresh items in a vacant place.
LEMMA BeginStands ==
  ASSUME WorkflowInv, HistoriesGrow, RowsGoOn, NEW w \in Runs, Vacant(w),
         UNCHANGED <<jobs, acks>>, NEW items, \A item \in items : Fresh(item), Begin(w, items)
  PROVE  AllStand' /\ DOMAIN runs' = Runs
<1> DEFINE run == [NoRun EXCEPT !.items = items]
<1>1. runs' = [runs EXCEPT ![w] = run] /\ items # {}
  BY DEF Begin
<1>2. run.items = items /\ run.serving = None /\ run.failed = FALSE
  BY DEF NoRun
<1>3. run \in Run
  BY DEF NoRun, Run, Fresh
<1>4. \A item \in items : ItemStands(item, attempts, history)
  BY DEF Fresh, ItemStands
<1>5. RunStands(run, attempts, history)
  BY <1>1, <1>2, <1>3, <1>4 DEF RunStands
<1> HIDE DEF run
<1>6. jobs[w].phase = "idle" /\ acks[w].phase = "idle" /\ AllStand
  BY DEF Vacant, AllStand, WorkflowInv
<1>7. PlaceStands(run, jobs[w], acks[w], attempts, history)
  BY <1>2, <1>5, <1>6 DEF AllStand, PlaceStands, Serves
<1>8. runs'[w] = run /\ OnlyHere(w) /\ DOMAIN runs' = Runs
  BY <1>1 DEF OnlyHere, WorkflowInv
<1>9. PlaceStands(run, jobs[w], acks[w], attempts', history')
  BY <1>7, PlaceStaysStanding
<1> QED BY <1>6, <1>8, <1>9, OnePlaceGoesOn

-----------------------------------------------------------------------------
(* A run sends. *)

\* The call of a worker that has received a start under this key.
IsStart(job, k) ==
  /\ job.phase \in {"staged", "answered"} /\ job.op = "start" /\ job.key = k
  /\ job.phase = "answered" => job.answer \in JobAnswers

\* The call of one that has received this report, which may be in conflict with the row.
IsReport(job, k, n, outcome, ext, rows) ==
  /\ job.phase \in {"staged", "answered"} /\ job.op = "result" /\ job.key = k
  /\ job.number = n /\ job.outcome = outcome /\ job.externalId = ext
  /\ job.phase = "answered" => job.answer \in JobAnswers
  /\ job.answer = "conflict" => /\ rows[k][n].status # "PENDING"
                               /\ ~SameResult(rows[k][n], outcome, ext)

\* What a start leaves of the call: its key, and an answer if it has one.
LEMMA StartSent ==
  ASSUME NEW w, NEW k, NEW d, NEW allowRetry, NEW now, ReceiveStart(w, k, d, allowRetry, now)
  PROVE  \E job : jobs' = [jobs EXCEPT ![w] = job] /\ IsStart(job, k)
<1>1. ASSUME NEW number, NEW answer \in JobAnswers, Answer(w, StartJob(k, d, number, now), answer)
      PROVE  \E job : jobs' = [jobs EXCEPT ![w] = job] /\ IsStart(job, k)
  <2> DEFINE job == [StartJob(k, d, number, now) EXCEPT !.phase = "answered", !.now = 0,
                                                        !.answer = answer]
  <2>1. IsStart(job, k)
    BY DEF StartJob, NoJob, IsStart
  <2>2. jobs' = [jobs EXCEPT ![w] = job]
    BY <1>1 DEF Answer
  <2> HIDE DEF job
  <2> QED BY <2>1, <2>2
<1>2. ASSUME NEW number, Stage(w, StartJob(k, d, number, now))
      PROVE  \E job : jobs' = [jobs EXCEPT ![w] = job] /\ IsStart(job, k)
  <2> DEFINE job == [StartJob(k, d, number, now) EXCEPT !.phase = "staged"]
  <2>1. IsStart(job, k)
    BY DEF StartJob, NoJob, IsStart
  <2>2. jobs' = [jobs EXCEPT ![w] = job]
    BY <1>2 DEF Stage
  <2> HIDE DEF job
  <2> QED BY <2>1, <2>2
<1>3. {"not_found", "identity_conflict", "completed", "pending", "failed_before", "exhausted",
       "not_due"} \subseteq JobAnswers
  BY DEF JobAnswers
<1> QED BY <1>1, <1>2, <1>3 DEF ReceiveStart, RefuseStart, ReuseAttempt, DecideRetry

\* A report of a stored attempt is kept to be written, or answered from its result.
LEMMA ReportSent ==
  ASSUME NEW w, NEW k, NEW n, NEW outcome, NEW ext, NEW now,
         ReceiveResult(w, k, n, outcome, ext, now), n \in DOMAIN attempts[k], outcome # "PENDING"
  PROVE  \E job : jobs' = [jobs EXCEPT ![w] = job] /\ IsReport(job, k, n, outcome, ext, attempts)
<1> DEFINE report == ResultJob(k, n, outcome, ext, now)
           row == attempts[k][n]
<1>1. ASSUME Stage(w, report)
      PROVE  \E job : jobs' = [jobs EXCEPT ![w] = job] /\ IsReport(job, k, n, outcome, ext, attempts)
  <2> DEFINE job == [report EXCEPT !.phase = "staged"]
  <2>1. None # "conflict"
    BY NoJobAnswerAssumption DEF JobAnswers
  <2>2. IsReport(job, k, n, outcome, ext, attempts)
    BY <2>1 DEF ResultJob, NoJob, IsReport
  <2>3. jobs' = [jobs EXCEPT ![w] = job]
    BY <1>1 DEF Stage
  <2> HIDE DEF job
  <2> QED BY <2>2, <2>3
<1>2. ASSUME NEW answer \in {"already", "conflict"}, Answer(w, report, answer),
             row.status # "PENDING", answer = "conflict" => ~SameResult(row, outcome, ext)
      PROVE  \E job : jobs' = [jobs EXCEPT ![w] = job] /\ IsReport(job, k, n, outcome, ext, attempts)
  <2> DEFINE job == [report EXCEPT !.phase = "answered", !.now = 0, !.answer = answer]
  <2>1. answer \in JobAnswers
    BY DEF JobAnswers
  <2>2. IsReport(job, k, n, outcome, ext, attempts)
    BY <1>2, <2>1 DEF ResultJob, NoJob, IsReport
  <2>3. jobs' = [jobs EXCEPT ![w] = job]
    BY <1>2 DEF Answer
  <2> HIDE DEF job
  <2> QED BY <2>2, <2>3
<1>3. \/ Stage(w, report)
      \/ row.status # "PENDING" /\ AnswerCompleted(w, report)
  BY DEF ReceiveResult
<1>4. /\ report.key = k /\ report.number = n /\ report.outcome = outcome
      /\ report.externalId = ext
  BY DEF ResultJob, NoJob
<1> HIDE DEF report
<1> QED BY <1>1, <1>2, <1>3, <1>4 DEF AnswerCompleted

\* What a run at rest is like: with items it has no call under way.
LEMMA AtRest ==
  ASSUME WorkflowInv, NEW w \in Runs, runs[w].serving = None, NEW item \in AtNode(w)
  PROVE  /\ jobs[w].phase = "idle" /\ acks[w].phase = "idle"
         /\ item \in runs[w].items /\ runs[w] \in Run /\ AllStand
         /\ RunStands(runs[w], attempts, history)
         /\ \A other \in runs[w].items : NodeOrder[item.stage] <= NodeOrder[other.stage]
<1>1. item \in runs[w].items
      /\ \A other \in runs[w].items : NodeOrder[item.stage] <= NodeOrder[other.stage]
  BY DEF AtNode
<1>2. PlaceStands(runs[w], jobs[w], acks[w], attempts, history) /\ AllStand
  BY DEF WorkflowInv, AllStand
<1> QED BY <1>1, <1>2 DEF PlaceStands, RunStands, Serves

\* A run that serves an item still stands.
LEMMA ServingStands ==
  ASSUME WorkflowInv, NEW w \in Runs, runs[w].serving = None, NEW item \in AtNode(w), Send(w, item)
  PROVE  /\ RunStands(runs'[w], attempts, history) /\ runs'[w].serving = item /\ item # None
         /\ DOMAIN runs' = Runs /\ \A v \in Runs \ {w} : runs'[v] = runs[v]
<1> DEFINE run == [runs[w] EXCEPT !.serving = item]
<1>1. /\ runs'[w] = run /\ DOMAIN runs' = Runs /\ \A v \in Runs \ {w} : runs'[v] = runs[v]
  BY DEF Send, WorkflowInv
<1>2. /\ item \in Item /\ runs[w] \in Run /\ RunStands(runs[w], attempts, history)
      /\ item \in runs[w].items
      /\ \A other \in runs[w].items : NodeOrder[item.stage] <= NodeOrder[other.stage]
  BY AtRest, ItemsOfRun
<1>3. run \in Run /\ run.items = runs[w].items /\ run.serving = item
  BY <1>2 DEF Run
<1> HIDE DEF run
<1>4. RunStands(run, attempts, history)
  BY <1>2, <1>3 DEF RunStands
<1> QED BY <1>1, <1>2, <1>3, <1>4, NoItemAssumption

\* A step of one place that leaves it standing on the tables as they were.
LEMMA MovesHere ==
  ASSUME WorkflowInv, HistoriesGrow, RowsGoOn, NEW w \in Runs, OnlyHere(w),
         PlaceStands(runs'[w], jobs'[w], acks'[w], attempts, history)
  PROVE  AllStand'
<1>1. PlaceStands(runs'[w], jobs'[w], acks'[w], attempts', history')
  BY PlaceStaysStanding
<1> QED BY <1>1, OnePlaceGoesOn DEF WorkflowInv

\* A start is sent for an item of an earned key.
LEMMA SendStartStands ==
  ASSUME WorkflowInv, HistoriesGrow, RowsGoOn, NEW w \in Runs, SendStart(w)
  PROVE  AllStand' /\ DOMAIN runs' = Runs
<1>1. PICK item \in AtNode(w) :
        /\ item.stage = "listed"
        /\ ReceiveStart(w, item.key, item.delivery, item.allowRetry, clock)
        /\ Send(w, item)
  BY DEF SendStart
<1>2. runs[w].serving = None /\ UNCHANGED acks
  BY DEF SendStart
<1>3. acks[w].phase = "idle" /\ item \in runs[w].items /\ AllStand
  BY <1>2, AtRest
<1>4. item.key \in Keys /\ Earned(item.key, history)
  BY <1>3, ItemsOfRun DEF ItemStands
<1>5. PICK job : jobs' = [jobs EXCEPT ![w] = job] /\ IsStart(job, item.key)
  BY <1>1, StartSent
<1>6. jobs'[w] = job /\ \A v \in Runs \ {w} : jobs'[v] = jobs[v]
  BY <1>5, Tables
<1>7. /\ RunStands(runs'[w], attempts, history) /\ runs'[w].serving = item /\ item # None
      /\ DOMAIN runs' = Runs /\ \A v \in Runs \ {w} : runs'[v] = runs[v]
  BY <1>1, <1>2, ServingStands
<1>8. Serves(runs'[w], job, acks[w])
  BY <1>1, <1>3, <1>5, <1>7 DEF Serves, IsStart
<1>9. JobStands(job, attempts, history)
  BY <1>4, <1>5 DEF JobStands, IsStart
<1>10. PlaceStands(runs'[w], jobs'[w], acks'[w], attempts, history)
  BY <1>2, <1>3, <1>6, <1>7, <1>8, <1>9 DEF AllStand, PlaceStands
<1>11. OnlyHere(w)
  BY <1>2, <1>6, <1>7 DEF OnlyHere
<1> QED BY <1>7, <1>10, <1>11, MovesHere

\* A report with the transport's message id: if it is in conflict, the results differ.
LEMMA ReportStands ==
  ASSUME WorkflowInv, NEW job, NEW k \in Keys, NEW n, n \in DOMAIN attempts[k],
         NEW outcome \in {"SUCCEEDED", "FAILED"}, NEW ext,
         outcome = "SUCCEEDED" => ext = TransportId[k, n], IsReport(job, k, n, outcome, ext, attempts)
  PROVE  JobStands(job, attempts, history)
<1>1. attempts[k][n].status = "SUCCEEDED" => attempts[k][n].externalId = TransportId[k, n]
  BY DEF WorkflowInv, RowsStand, SentAs
<1>2. job.answer = "conflict" => attempts[k][n].status \notin {"PENDING", outcome}
  BY <1>1 DEF IsReport, SameResult
<1> QED BY <1>2 DEF IsReport, JobStands

\* A report is sent with the message id of the attempt.
LEMMA SendReportStands ==
  ASSUME WorkflowInv, HistoriesGrow, RowsGoOn, NEW w \in Runs, SendReport(w)
  PROVE  AllStand' /\ DOMAIN runs' = Runs
<1>1. PICK item \in AtNode(w) :
        /\ item.stage = "transported"
        /\ ReceiveResult(w, item.key, item.number, item.outcome, MessageId(w, item), clock)
        /\ Send(w, item)
  BY DEF SendReport
<1>2. runs[w].serving = None /\ UNCHANGED acks
  BY DEF SendReport
<1>3. acks[w].phase = "idle" /\ item \in runs[w].items /\ AllStand
  BY <1>2, AtRest
<1>4. /\ item.key \in Keys /\ item.number \in DOMAIN attempts[item.key]
      /\ item.outcome \in {"SUCCEEDED", "FAILED"}
  BY <1>1, <1>3, ItemsOfRun, TransportedItem
<1>5. item.outcome = "SUCCEEDED" => MessageId(w, item) = TransportId[item.key, item.number]
  BY DEF MessageId
<1>6. PICK job : /\ jobs' = [jobs EXCEPT ![w] = job]
                 /\ IsReport(job, item.key, item.number, item.outcome, MessageId(w, item),
                             attempts)
  <2>1. item.outcome # "PENDING"
    BY <1>4
  <2>2. ReceiveResult(w, item.key, item.number, item.outcome, MessageId(w, item), clock)
    BY <1>1
  <2> QED BY ONLY <1>4, <2>1, <2>2, ReportSent
<1>7. JobStands(job, attempts, history)
  BY <1>4, <1>5, <1>6, ReportStands
<1>8. jobs'[w] = job /\ \A v \in Runs \ {w} : jobs'[v] = jobs[v]
  BY <1>6, Tables
<1>9. /\ RunStands(runs'[w], attempts, history) /\ runs'[w].serving = item /\ item # None
      /\ DOMAIN runs' = Runs /\ \A v \in Runs \ {w} : runs'[v] = runs[v]
  BY <1>1, <1>2, ServingStands
<1>10. Serves(runs'[w], job, acks[w])
  BY <1>1, <1>3, <1>6, <1>9 DEF Serves, IsReport
<1>11. PlaceStands(runs'[w], jobs'[w], acks'[w], attempts, history)
  BY <1>2, <1>3, <1>7, <1>8, <1>9, <1>10 DEF AllStand, PlaceStands
<1>12. OnlyHere(w)
  BY <1>2, <1>8, <1>9 DEF OnlyHere
<1> QED BY <1>9, <1>11, <1>12, MovesHere

\* An acknowledgement is sent for an action that was delivered.
LEMMA SendAckStands ==
  ASSUME WorkflowInv, HistoriesGrow, RowsGoOn, NEW w \in Runs, SendAck(w)
  PROVE  AllStand' /\ DOMAIN runs' = Runs
<1>1. PICK item \in AtNode(w) :
        /\ item.stage \in {"complete", "delivered"}
        /\ ReceiveAck(w, item.delivery.case, item.action, clock)
        /\ Send(w, item)
  BY DEF SendAck
<1>2. runs[w].serving = None /\ UNCHANGED jobs
  BY DEF SendAck
<1>3. jobs[w].phase = "idle" /\ item \in runs[w].items /\ AllStand
  BY <1>2, AtRest
<1> DEFINE c == item.delivery.case
           action == item.action
<1>4. c \in Cases /\ action \in DueAction /\ SucceededIn(SlaKey[c, action], attempts)
  BY <1>1, <1>3, ItemsOfRun DEF ItemStands, Identity
<1>5. PICK ack : /\ acks' = [acks EXCEPT ![w] = ack]
                 /\ \/ ack.phase = "answered"
                    \/ ack.phase = "loaded" /\ ack.case = c /\ ack.action = action
  <2>1. ASSUME NEW answer, EndAck(w, answer)
        PROVE  \E ack : acks' = [acks EXCEPT ![w] = ack] /\ ack.phase = "answered"
    <3> DEFINE ended == [NoAck EXCEPT !.phase = "answered", !.answer = answer]
    <3>1. ended.phase = "answered" /\ acks' = [acks EXCEPT ![w] = ended]
      BY <2>1 DEF EndAck, NoAck
    <3> HIDE DEF ended
    <3> QED BY <3>1
  <2> DEFINE loaded == [phase |-> "loaded", case |-> c, action |-> action,
                        loaded |-> cases[c], now |-> clock, answer |-> None]
  <2>2. loaded.phase = "loaded" /\ loaded.case = c /\ loaded.action = action
    OBVIOUS
  <2>3. EndAck(w, "not_found") \/ acks' = [acks EXCEPT ![w] = loaded]
    BY <1>1 DEF ReceiveAck
  <2> HIDE DEF loaded
  <2> QED BY <2>1, <2>2, <2>3
<1>6. acks'[w] = ack /\ \A v \in Runs \ {w} : acks'[v] = acks[v]
  BY <1>5, Tables
<1>7. /\ RunStands(runs'[w], attempts, history) /\ runs'[w].serving = item /\ item # None
      /\ DOMAIN runs' = Runs /\ \A v \in Runs \ {w} : runs'[v] = runs[v]
  BY <1>1, <1>2, ServingStands
<1>8. Serves(runs'[w], jobs[w], ack)
  BY <1>1, <1>3, <1>5, <1>7 DEF Serves
<1>9. AckStands(ack, attempts)
  BY <1>4, <1>5 DEF AckStands
<1>10. PlaceStands(runs'[w], jobs'[w], acks'[w], attempts, history)
  BY <1>2, <1>3, <1>6, <1>7, <1>8, <1>9 DEF AllStand, PlaceStands
<1>11. OnlyHere(w)
  BY <1>2, <1>6, <1>7 DEF OnlyHere
<1> QED BY <1>7, <1>10, <1>11, MovesHere

-----------------------------------------------------------------------------
(* A run takes what it was answered. *)

\* The call of a run has ended; the other places have not moved.
CallDone(w) ==
  /\ jobs'[w] = NoJob /\ acks'[w].phase = "idle"
  /\ \A v \in Runs \ {w} : jobs'[v] = jobs[v] /\ acks'[v] = acks[v]

\* A run that goes on with items that stand.
LEMMA RunContinues ==
  ASSUME WorkflowInv, HistoriesGrow, RowsGoOn, NEW w \in Runs, CallDone(w), NEW items,
         \A item \in items : item \in Item /\ ItemStands(item, attempts, history),
         NEW failed \in BOOLEAN, Continue(w, items, failed)
  PROVE  AllStand' /\ DOMAIN runs' = Runs
<1> DEFINE run == IF items = {} THEN NoRun
                  ELSE [items |-> items, serving |-> None, failed |-> failed]
<1>1. runs' = [runs EXCEPT ![w] = run] /\ DOMAIN runs = Runs
  BY DEF Continue, WorkflowInv
<1>2. RunStands(run, attempts, history) /\ run.serving = None
  <2>1. CASE items = {}
    BY <2>1, NothingGoesOn DEF RunStands
  <2>2. CASE items # {}
    <3>1. run.items = items /\ run.serving = None /\ run.failed = failed /\ run \in Run
      BY <2>2 DEF Run
    <3> HIDE DEF run
    <3> QED BY <2>2, <3>1 DEF RunStands
  <2> QED BY <2>1, <2>2
<1> HIDE DEF run
<1>3. runs'[w] = run /\ DOMAIN runs' = Runs /\ \A v \in Runs \ {w} : runs'[v] = runs[v]
  BY <1>1
<1>4. jobs'[w] = NoJob /\ acks'[w].phase = "idle" /\ jobs'[w].phase = "idle"
      /\ JobStands(jobs'[w], attempts, history)
  BY NothingGoesOn DEF CallDone
<1>5. Serves(run, jobs'[w], acks'[w]) /\ AckStands(acks'[w], attempts)
  BY <1>2, <1>4 DEF Serves, AckStands
<1>6. PlaceStands(runs'[w], jobs'[w], acks'[w], attempts, history)
  BY <1>2, <1>3, <1>4, <1>5 DEF PlaceStands
<1>7. OnlyHere(w)
  BY <1>3 DEF OnlyHere, CallDone
<1> QED BY <1>3, <1>6, <1>7, MovesHere

\* The item that was served has left, perhaps as another.
LEMMA RunLeaves ==
  ASSUME WorkflowInv, HistoriesGrow, RowsGoOn, NEW w \in Runs, CallDone(w), NEW next,
         \A item \in next : item \in Item /\ ItemStands(item, attempts, history),
         Leave(w, next)
  PROVE  AllStand' /\ DOMAIN runs' = Runs
<1> DEFINE others == runs[w].items \ {runs[w].serving}
           items == IF runs[w].failed THEN others ELSE others \cup next
<1>1. Continue(w, items, runs[w].failed)
  BY DEF Leave
<1>2. runs[w].failed \in BOOLEAN
  BY DEF WorkflowInv, AllStand, PlaceStands, RunStands, Run
<1>3. \A item \in items : item \in Item /\ ItemStands(item, attempts, history)
  BY ItemsOfRun
<1> HIDE DEF items
<1> QED BY <1>1, <1>2, <1>3, RunContinues

\* A refused item has left.
LEMMA RunFails ==
  ASSUME WorkflowInv, HistoriesGrow, RowsGoOn, NEW w \in Runs, CallDone(w), Fail(w)
  PROVE  AllStand' /\ DOMAIN runs' = Runs
<1> DEFINE items == AtNode(w) \ {runs[w].serving}
<1>1. \A item \in items : item \in Item /\ ItemStands(item, attempts, history)
  BY ItemsOfRun DEF AtNode
<1>2. Continue(w, items, TRUE)
  BY DEF Fail
<1> HIDE DEF items
<1> QED BY <1>1, <1>2, RunContinues

\* The answer to a start or to a report is about the item that is served.
LEMMA JobServes ==
  ASSUME WorkflowInv, NEW w \in Runs, runs[w].serving # None, jobs[w].phase # "idle"
  PROVE  /\ acks[w].phase = "idle" /\ runs[w].serving \in runs[w].items
         /\ jobs[w].key = runs[w].serving.key
         /\ jobs[w].op = "start" => runs[w].serving.stage = "listed"
         /\ jobs[w].op = "result" =>
              /\ runs[w].serving.stage = "transported"
              /\ jobs[w].outcome = runs[w].serving.outcome
         /\ jobs[w] \in Job /\ Stands(jobs[w], attempts)
         /\ jobs[w].phase = "answered" => jobs[w].answer \in JobAnswers
<1>1. PlaceStands(runs[w], jobs[w], acks[w], attempts, history)
  BY DEF WorkflowInv, AllStand
<1>2. Serves(runs[w], jobs[w], acks[w]) /\ runs[w].serving \in runs[w].items
  BY <1>1 DEF PlaceStands, RunStands
<1>3. jobs[w] \in Job /\ Stands(jobs[w], attempts)
  BY Tables, Threads DEF AnswersStand
<1>4. jobs[w].phase = "answered" => jobs[w].answer \in JobAnswers
  BY <1>1 DEF PlaceStands, JobStands
<1> QED BY <1>2, <1>3, <1>4 DEF Serves

\* An answer has been returned to the run.
LEMMA JobReturned ==
  ASSUME WorkflowInv, NEW w \in Runs, ReturnJob(w), UNCHANGED acks, acks[w].phase = "idle"
  PROVE  CallDone(w)
  BY Tables DEF ReturnJob, CallDone

\* The item that was started, in its next stage.
LEMMA StartedItem ==
  ASSUME WorkflowInv, NEW w \in Runs, runs[w].serving # None, jobs[w].op = "start",
         jobs[w].phase = "answered", NEW next \in AfterStart(runs[w].serving, jobs[w])
  PROVE  next \in Item /\ ItemStands(next, attempts, history)
<1> DEFINE item == runs[w].serving
           job == jobs[w]
           complete == [item EXCEPT !.stage = "complete"]
           pending == [item EXCEPT !.stage = "pending", !.number = job.number]
<1>1. /\ item \in runs[w].items /\ job.key = item.key /\ item.stage = "listed"
      /\ job \in Job /\ Stands(job, attempts)
  BY JobServes
<1>2. item \in Item /\ ItemStands(item, attempts, history)
  BY <1>1, ItemsOfRun
<1>3. item.outcome = None
  BY <1>1, <1>2 DEF ItemStands
<1>4. CASE job.answer = "completed" /\ item.action # None /\ next = complete
  <2>1. SucceededIn(item.key, attempts)
    BY <1>1, <1>4 DEF Stands, ReliedOn, SucceededIn
  <2>2. /\ complete.key = item.key /\ complete.delivery = item.delivery
        /\ complete.action = item.action /\ complete.stage = "complete"
        /\ complete.outcome = item.outcome /\ complete \in Item
    BY <1>2 DEF Item, NodeOrder
  <2> HIDE DEF complete, item, job
  <2>3. ItemStands(complete, attempts, history)
    BY <1>2, <1>3, <1>4, <2>1, <2>2 DEF ItemStands
  <2> QED BY <1>4, <2>2, <2>3
<1>5. CASE job.answer \in {"applied", "pending"} /\ next = pending
  <2>1. job.number \in DOMAIN attempts[item.key]
    BY <1>1, <1>5 DEF Stands, ReliedOn
  <2>2. /\ pending.key = item.key /\ pending.delivery = item.delivery
        /\ pending.action = item.action /\ pending.stage = "pending"
        /\ pending.outcome = item.outcome /\ pending.number = job.number /\ pending \in Item
    BY <1>1, <1>2 DEF Item, NodeOrder, Job
  <2> HIDE DEF pending, item, job
  <2>3. ItemStands(pending, attempts, history)
    BY <1>2, <1>3, <1>5, <2>1, <2>2 DEF ItemStands
  <2> QED BY <1>5, <2>2, <2>3
<1> QED BY <1>4, <1>5 DEF AfterStart, Completed, NeedsAck

\* The answer to a start.
LEMMA TakeStartStands ==
  ASSUME WorkflowInv, HistoriesGrow, RowsGoOn, NEW w \in Runs, TakeStart(w)
  PROVE  AllStand' /\ DOMAIN runs' = Runs
<1>1. /\ runs[w].serving # None /\ jobs[w].op = "start" /\ jobs[w].phase = "answered"
      /\ ReturnJob(w) /\ UNCHANGED acks
  BY DEF TakeStart, ReturnJob
<1>2. CallDone(w)
  BY <1>1, JobServes, JobReturned
<1>3. Leave(w, AfterStart(runs[w].serving, jobs[w])) \/ Fail(w)
  BY DEF TakeStart
<1> QED BY <1>1, <1>2, <1>3, StartedItem, RunLeaves, RunFails

\* A start or a report that was accepted was answered with what a client relies on.
LEMMA AcceptedJob ==
  ASSUME NEW answer \in JobAnswers, Accepted(answer)
  PROVE  answer \in ReliedOn
  BY DEF JobAnswers, Accepted, HttpStatus, ReliedOn

\* The item that was reported as delivered has an attempt that succeeded.
LEMMA ReportedItem ==
  ASSUME WorkflowInv, NEW w \in Runs, runs[w].serving # None, jobs[w].op = "result",
         jobs[w].phase = "answered", Accepted(jobs[w].answer),
         NEW next \in AfterReport(runs[w].serving)
  PROVE  next \in Item /\ ItemStands(next, attempts, history)
<1> DEFINE item == runs[w].serving
           job == jobs[w]
           delivered == [item EXCEPT !.stage = "delivered"]
<1>1. /\ item \in runs[w].items /\ job.key = item.key /\ item.stage = "transported"
      /\ job.outcome = item.outcome /\ Stands(job, attempts) /\ job.answer \in ReliedOn
  BY JobServes, AcceptedJob
<1>2. item \in Item /\ ItemStands(item, attempts, history)
  BY <1>1, ItemsOfRun
<1>3. item.outcome = "SUCCEEDED" /\ item.action # None /\ next = delivered
  BY DEF AfterReport, NeedsAck
<1>4. SucceededIn(item.key, attempts)
  BY <1>1, <1>3 DEF Stands, SucceededIn
<1>5. item.number \in DOMAIN attempts[item.key] /\ item.outcome # None
  BY <1>1, <1>2, TransportedItem
<1>6. /\ delivered.key = item.key /\ delivered.delivery = item.delivery
      /\ delivered.action = item.action /\ delivered.stage = "delivered"
      /\ delivered.outcome = item.outcome /\ delivered.number = item.number
      /\ delivered \in Item
  BY <1>2 DEF Item, NodeOrder
<1> HIDE DEF delivered, item, job
<1>7. ItemStands(delivered, attempts, history)
  BY <1>2, <1>3, <1>4, <1>5, <1>6 DEF ItemStands
<1> QED BY <1>3, <1>6, <1>7

\* The answer to a report.
LEMMA TakeReportStands ==
  ASSUME WorkflowInv, HistoriesGrow, RowsGoOn, NEW w \in Runs, TakeReport(w)
  PROVE  AllStand' /\ DOMAIN runs' = Runs
<1>1. /\ runs[w].serving # None /\ jobs[w].op = "result" /\ jobs[w].phase = "answered"
      /\ ReturnJob(w) /\ UNCHANGED acks
  BY DEF TakeReport, ReturnJob
<1>2. CallDone(w)
  BY <1>1, JobServes, JobReturned
<1>3. (Accepted(jobs[w].answer) /\ Leave(w, AfterReport(runs[w].serving))) \/ Fail(w)
  BY DEF TakeReport
<1> QED BY <1>1, <1>2, <1>3, ReportedItem, RunLeaves, RunFails

\* The answer to an acknowledgement.
LEMMA TakeAckStands ==
  ASSUME WorkflowInv, HistoriesGrow, RowsGoOn, NEW w \in Runs, TakeAck(w)
  PROVE  AllStand' /\ DOMAIN runs' = Runs
<1>1. /\ runs[w].serving # None /\ acks[w].phase = "answered" /\ UNCHANGED jobs
      /\ acks' = [acks EXCEPT ![w] = NoAck]
  BY DEF TakeAck, ReturnAck
<1>2. PlaceStands(runs[w], jobs[w], acks[w], attempts, history)
  BY DEF WorkflowInv, AllStand
<1>3. jobs[w] = NoJob
  BY <1>1, <1>2 DEF PlaceStands, Serves, JobStands
<1>4. CallDone(w)
  BY <1>1, <1>3, Tables, NothingGoesOn DEF CallDone
<1>5. Leave(w, {}) \/ Fail(w)
  BY DEF TakeAck
<1> QED BY <1>4, <1>5, RunLeaves, RunFails

\* The transport ends: the item has an outcome.
LEMMA TransportStands ==
  ASSUME WorkflowInv, HistoriesGrow, RowsGoOn, NEW w \in Runs, Transport(w)
  PROVE  AllStand' /\ DOMAIN runs' = Runs
<1>1. PICK item \in AtNode(w), outcome \in {"SUCCEEDED", "FAILED"} :
        /\ item.stage = "pending"
        /\ runs' = [runs EXCEPT ![w].items =
             (@ \ {item}) \cup {[item EXCEPT !.stage = "transported", !.outcome = outcome]}]
  BY DEF Transport
<1>2. runs[w].serving = None /\ UNCHANGED <<jobs, acks>>
  BY DEF Transport
<1>3. /\ jobs[w].phase = "idle" /\ acks[w].phase = "idle" /\ item \in runs[w].items
      /\ runs[w] \in Run /\ AllStand
  BY <1>2, AtRest
<1>4. item \in Item /\ ItemStands(item, attempts, history)
  BY <1>3, ItemsOfRun
<1> DEFINE sent == [item EXCEPT !.stage = "transported", !.outcome = outcome]
           items == (runs[w].items \ {item}) \cup {sent}
           run == [runs[w] EXCEPT !.items = items]
<1>5. /\ sent.key = item.key /\ sent.delivery = item.delivery /\ sent.action = item.action
      /\ sent.number = item.number /\ sent.stage = "transported" /\ sent.outcome = outcome
      /\ sent \in Item
  BY <1>4 DEF Item, NodeOrder
<1>6. runs' = [runs EXCEPT ![w] = run]
  BY <1>1
<1> HIDE DEF sent
<1>7. ItemStands(sent, attempts, history)
  <2>1. item.number \in DOMAIN attempts[item.key] /\ outcome # None
    BY <1>1, <1>4, NoItemAssumption DEF ItemStands
  <2> QED BY <1>4, <1>5, <2>1 DEF ItemStands
<1>8. \A other \in items : other \in Item /\ ItemStands(other, attempts, history)
  BY <1>5, <1>7, ItemsOfRun
<1>9. items # {}
  OBVIOUS
<1> HIDE DEF items
<1>10. run \in Run /\ run.items = items /\ run.serving = None
  BY <1>2, <1>3, <1>8 DEF Run
<1> HIDE DEF run
<1>11. RunStands(run, attempts, history)
  BY <1>8, <1>9, <1>10 DEF RunStands
<1>12. runs'[w] = run /\ DOMAIN runs' = Runs /\ OnlyHere(w)
  BY <1>2, <1>6 DEF OnlyHere, WorkflowInv
<1>13. PlaceStands(runs'[w], jobs'[w], acks'[w], attempts, history)
  BY <1>2, <1>3, <1>10, <1>11, <1>12 DEF AllStand, PlaceStands, Serves
<1> QED BY <1>12, <1>13, MovesHere

-----------------------------------------------------------------------------
(* The backend serves, and things fail. *)

\* The stored result is another than the one reported.
Conflicts(job, rows) ==
  /\ rows[job.key][job.number].status # "PENDING"
  /\ ~SameResult(rows[job.key][job.number], job.outcome, job.externalId)

\* The call that is answered keeps what it is about.
LEMMA EndedJobStands ==
  ASSUME WorkflowInv, NEW job, JobStands(job, attempts, history), job.phase = "staged",
         NEW ended, ended.phase = "answered", ended.answer \in JobAnswers, ended.op = job.op,
         ended.key = job.key, ended.number = job.number, ended.outcome = job.outcome,
         ended.externalId = job.externalId,
         ended.answer = "conflict" => Conflicts(job, attempts)
  PROVE  JobStands(ended, attempts, history)
<1>1. ended.op = "start" => ended.key \in Keys /\ Earned(ended.key, history)
  BY DEF JobStands
<1>2. ASSUME ended.op = "result"
      PROVE  /\ ended.key \in Keys /\ ended.number \in DOMAIN attempts[ended.key]
             /\ ended.outcome \in {"SUCCEEDED", "FAILED"}
             /\ ended.outcome = "SUCCEEDED" =>
                  ended.externalId = TransportId[ended.key, ended.number]
  BY <1>2 DEF JobStands
<1>3. ASSUME ended.op = "result", ended.answer = "conflict"
      PROVE  attempts[ended.key][ended.number].status \notin {"PENDING", ended.outcome}
  <2> DEFINE row == attempts[ended.key][ended.number]
  <2>1. row.status = "SUCCEEDED" => row.externalId = TransportId[ended.key, ended.number]
    BY <1>2, <1>3 DEF WorkflowInv, RowsStand, SentAs
  <2>2. row.status # "PENDING" /\ ~SameResult(row, ended.outcome, ended.externalId)
    BY <1>3 DEF Conflicts
  <2> HIDE DEF row
  <2>3. row.status # ended.outcome
    BY <1>2, <1>3, <2>1, <2>2 DEF SameResult
  <2> QED BY <2>2, <2>3 DEF row
<1> QED BY <1>1, <1>2, <1>3 DEF JobStands

\* A staged call ends.
LEMMA JobEnds ==
  ASSUME WorkflowInv, NEW w \in Runs, jobs[w].phase = "staged", NEW answer \in JobAnswers,
         Answer(w, jobs[w], answer), UNCHANGED <<runs, acks>>,
         answer = "conflict" => Conflicts(jobs[w], attempts)
  PROVE  PlaceStands(runs'[w], jobs'[w], acks'[w], attempts, history) /\ OnlyHere(w)
<1> DEFINE job == [jobs[w] EXCEPT !.phase = "answered", !.now = 0, !.answer = answer]
<1>1. jobs' = [jobs EXCEPT ![w] = job]
  BY DEF Answer
<1>2. jobs[w] \in Job /\ PlaceStands(runs[w], jobs[w], acks[w], attempts, history)
  BY Tables DEF WorkflowInv, AllStand
<1>3. /\ job.phase = "answered" /\ job.answer = answer /\ job.op = jobs[w].op
      /\ job.key = jobs[w].key /\ job.number = jobs[w].number
      /\ job.outcome = jobs[w].outcome /\ job.externalId = jobs[w].externalId
  BY <1>2 DEF Job
<1> HIDE DEF job
<1>4. jobs'[w] = job /\ OnlyHere(w) /\ UNCHANGED <<runs, acks>>
  BY <1>1, Tables DEF OnlyHere
<1>5. Serves(runs[w], job, acks[w])
  BY <1>2, <1>3 DEF PlaceStands, Serves
<1>6. JobStands(job, attempts, history)
  BY <1>2, <1>3, EndedJobStands DEF PlaceStands
<1> QED BY <1>2, <1>4, <1>5, <1>6 DEF PlaceStands

\* The transaction of a start or a report ends with an answer.
LEMMA CommitAnswers ==
  ASSUME NEW w, CommitStart(w) \/ CommitResult(w)
  PROVE  /\ jobs[w].phase = "staged"
         /\ \E answer \in JobAnswers :
              /\ Answer(w, jobs[w], answer)
              /\ answer = "conflict" => Conflicts(jobs[w], attempts)
<1>1. jobs[w].phase = "staged"
  BY DEF CommitStart, CommitResult
<1>2. {"applied", "already", "identity_conflict", "pending", "persistence_error", "conflict",
       "rejected"} \subseteq JobAnswers
  BY DEF JobAnswers
<1>3. CASE InsertAttempt(w) \/ LoseStart(w)
  <2>1. \E answer \in {"applied", "identity_conflict", "pending", "persistence_error"} :
          Answer(w, jobs[w], answer)
    BY <1>3 DEF InsertAttempt, LoseStart
  <2> QED BY <1>1, <1>2, <2>1
<1>4. CASE LoseResult(w)
  <2> DEFINE row == attempts[jobs[w].key][jobs[w].number]
  <2>1. \/ Answer(w, jobs[w], "already")
        \/ ~SameResult(row, jobs[w].outcome, jobs[w].externalId) /\ Answer(w, jobs[w], "conflict")
    BY <1>4 DEF LoseResult, AnswerCompleted
  <2>2. row.status # "PENDING"
    BY <1>4 DEF LoseResult, StillPending
  <2>3. ~SameResult(row, jobs[w].outcome, jobs[w].externalId) => Conflicts(jobs[w], attempts)
    BY <2>2 DEF Conflicts
  <2> HIDE DEF row
  <2> QED BY <1>1, <1>2, <2>1, <2>3
<1>5. CASE RecordFailure(w) \/ RecordSuccess(w)
  <2>1. \E answer \in {"applied", "rejected"} : Answer(w, jobs[w], answer)
    BY <1>5 DEF RecordFailure, RecordSuccess
  <2> QED BY <1>1, <1>2, <2>1
<1> QED BY <1>3, <1>4, <1>5 DEF CommitStart, CommitResult

\* The call of an acknowledgement goes on; its case and action stay until it ends.
LEMMA ServedAckStands ==
  ASSUME WorkflowInv, NEW w \in Runs, acks[w].phase # "idle", UNCHANGED <<runs, jobs>>,
         NEW ack, acks' = [acks EXCEPT ![w] = ack],
         \/ ack.phase = "answered"
         \/ /\ acks[w].phase = "loaded" /\ ack.phase = "staged"
            /\ ack.case = acks[w].case /\ ack.action = acks[w].action
  PROVE  PlaceStands(runs'[w], jobs'[w], acks'[w], attempts, history) /\ OnlyHere(w)
<1>1. PlaceStands(runs[w], jobs[w], acks[w], attempts, history)
  BY DEF WorkflowInv, AllStand
<1>2. acks'[w] = ack /\ OnlyHere(w) /\ UNCHANGED <<runs, jobs>>
  BY Tables DEF OnlyHere
<1>3. Serves(runs[w], jobs[w], ack)
  BY <1>1 DEF PlaceStands, Serves
<1>4. AckStands(ack, attempts)
  BY <1>1 DEF PlaceStands, AckStands
<1> QED BY <1>1, <1>2, <1>3, <1>4 DEF PlaceStands

\* An acknowledgement that ends.
LEMMA AckEnds ==
  ASSUME WorkflowInv, NEW w \in Runs, acks[w].phase # "idle", UNCHANGED <<runs, jobs>>,
         NEW answer, EndAck(w, answer)
  PROVE  PlaceStands(runs'[w], jobs'[w], acks'[w], attempts, history) /\ OnlyHere(w)
<1> DEFINE ack == [NoAck EXCEPT !.phase = "answered", !.answer = answer]
<1>1. ack.phase = "answered" /\ acks' = [acks EXCEPT ![w] = ack]
  BY DEF EndAck, NoAck
<1> HIDE DEF ack
<1> QED BY <1>1, ServedAckStands

\* The backend serves the call of a run.
LEMMA ServeStands ==
  ASSUME WorkflowInv, HistoriesGrow, RowsGoOn, NEW w \in Runs, Serve(w)
  PROVE  AllStand' /\ DOMAIN runs' = Runs
<1>1. UNCHANGED runs /\ DOMAIN runs' = Runs
  BY DEF Serve, WorkflowInv
<1>2. CASE (CommitStart(w) \/ CommitResult(w)) /\ UNCHANGED acks
  BY <1>1, <1>2, CommitAnswers, JobEnds, MovesHere
<1>3. CASE (LookUpAck(w) \/ CommitAck(w)) /\ UNCHANGED <<attempts, jobs>>
  <2>1. acks[w].phase \in {"loaded", "staged"}
    BY <1>3 DEF LookUpAck, CommitAck
  <2>2. CASE \E answer : EndAck(w, answer)
    BY <1>1, <1>3, <2>1, <2>2, AckEnds, MovesHere
  <2>3. CASE acks[w].phase = "loaded" /\ acks' = [acks EXCEPT ![w].phase = "staged"]
    <3> DEFINE ack == [acks[w] EXCEPT !.phase = "staged"]
    <3>1. acks' = [acks EXCEPT ![w] = ack]
      BY <2>3, Tables
    <3>2. /\ ack.phase = "staged" /\ ack.case = acks[w].case /\ ack.action = acks[w].action
      BY Tables DEF Ack
    <3> HIDE DEF ack
    <3> QED BY <1>1, <1>3, <2>3, <3>1, <3>2, ServedAckStands, MovesHere
  <2> QED BY <1>3, <2>2, <2>3 DEF LookUpAck, CommitAck
<1> QED BY <1>2, <1>3 DEF Serve

\* An answer that reaches nobody: the run has no items any more.
LEMMA DropStands ==
  ASSUME WorkflowInv, HistoriesGrow, RowsGoOn, NEW w \in Runs, Drop(w)
  PROVE  AllStand' /\ DOMAIN runs' = Runs
<1>1. UNCHANGED runs /\ DOMAIN runs' = Runs /\ runs[w].serving = None
  BY DEF Drop, WorkflowInv
<1>2. PlaceStands(runs[w], jobs[w], acks[w], attempts, history)
  BY DEF WorkflowInv, AllStand
<1>3. CASE ReturnJob(w) /\ UNCHANGED acks
  <2>1. jobs[w].phase = "answered" /\ jobs' = [jobs EXCEPT ![w] = NoJob]
    BY <1>3 DEF ReturnJob
  <2>2. jobs'[w] = NoJob /\ OnlyHere(w)
    BY <1>1, <1>3, <2>1, Tables DEF OnlyHere
  <2>3. Serves(runs[w], NoJob, acks[w])
    BY <1>1, <1>2, <2>1, NothingGoesOn DEF PlaceStands, Serves
  <2>4. PlaceStands(runs'[w], jobs'[w], acks'[w], attempts, history)
    BY <1>1, <1>2, <1>3, <2>2, <2>3, NothingGoesOn DEF PlaceStands
  <2> QED BY <1>1, <2>2, <2>4, MovesHere
<1>4. CASE ReturnAck(w) /\ UNCHANGED <<attempts, jobs>>
  <2>1. acks[w].phase = "answered" /\ acks' = [acks EXCEPT ![w] = NoAck]
    BY <1>4 DEF ReturnAck
  <2>2. acks'[w] = NoAck /\ OnlyHere(w)
    BY <1>1, <1>4, <2>1, Tables DEF OnlyHere
  <2>3. Serves(runs[w], jobs[w], NoAck)
    BY <1>1, <1>2, <2>1, NothingGoesOn DEF PlaceStands, Serves
  <2>4. PlaceStands(runs'[w], jobs'[w], acks'[w], attempts, history)
    BY <1>1, <1>2, <1>4, <2>2, <2>3, NothingGoesOn DEF PlaceStands
  <2> QED BY <1>1, <2>2, <2>4, MovesHere
<1> QED BY <1>3, <1>4 DEF Drop

\* A call that fails in the backend.
LEMMA FailCallStands ==
  ASSUME WorkflowInv, HistoriesGrow, RowsGoOn, NEW w \in Runs, FailCall(w)
  PROVE  AllStand' /\ DOMAIN runs' = Runs
<1>1. UNCHANGED runs /\ DOMAIN runs' = Runs
  BY DEF FailCall, WorkflowInv
<1>2. CASE AbortJob(w) /\ UNCHANGED acks
  <2>1. /\ jobs[w].phase = "staged" /\ Answer(w, jobs[w], "failed")
        /\ "failed" \in JobAnswers /\ "failed" # "conflict"
    BY <1>2 DEF AbortJob, JobAnswers
  <2> QED BY <1>1, <1>2, <2>1, JobEnds, MovesHere
<1>3. CASE AbortAck(w) /\ UNCHANGED <<attempts, jobs>>
  <2>1. acks[w].phase # "idle" /\ EndAck(w, "failed")
    BY <1>3 DEF AbortAck
  <2> QED BY <1>1, <1>3, <2>1, AckEnds, MovesHere
<1> QED BY <1>2, <1>3 DEF FailCall

\* A run that ends leaves at most the call it has made.
LEMMA StopRunStands ==
  ASSUME WorkflowInv, HistoriesGrow, RowsGoOn, NEW w \in Runs, StopRun(w)
  PROVE  AllStand' /\ DOMAIN runs' = Runs
<1>1. runs' = [runs EXCEPT ![w] = NoRun] /\ UNCHANGED <<jobs, acks>> /\ DOMAIN runs = Runs
  BY DEF StopRun, WorkflowInv
<1>2. runs'[w] = NoRun /\ OnlyHere(w) /\ DOMAIN runs' = Runs
  BY <1>1 DEF OnlyHere
<1>3. PlaceStands(runs[w], jobs[w], acks[w], attempts, history)
  BY DEF WorkflowInv, AllStand
<1>4. RunStands(NoRun, attempts, history)
  BY NothingGoesOn DEF RunStands
<1>5. Serves(NoRun, jobs[w], acks[w])
  BY <1>3, NothingGoesOn DEF PlaceStands, Serves
<1>6. PlaceStands(runs'[w], jobs'[w], acks'[w], attempts, history)
  BY <1>1, <1>2, <1>3, <1>4, <1>5 DEF PlaceStands
<1> QED BY <1>2, <1>6, MovesHere

\* The workflows wait.
LEMMA WaitingStands ==
  ASSUME WorkflowInv, HistoriesGrow, RowsGoOn, UNCHANGED <<jobs, acks, runs>>
  PROVE  AllStand' /\ DOMAIN runs' = Runs
<1>1. ASSUME NEW v \in Runs
      PROVE  PlaceStands(runs'[v], jobs'[v], acks'[v], attempts', history')
  BY PlaceStaysStanding DEF WorkflowInv, AllStand
<1>2. ASSUME NEW v \in Runs
      PROVE  PlaceStands(runs[v], jobs[v], acks[v], attempts, history)'
  BY <1>1
<1> QED BY <1>2 DEF AllStand, WorkflowInv

\* Watchdogs and webhooks begin runs.
LEMMA PollStands ==
  ASSUME WorkflowInv, HistoriesGrow, RowsGoOn, NEW w \in Runs, Poll(w)
  PROVE  AllStand' /\ DOMAIN runs' = Runs
<1>1. Vacant(w) /\ UNCHANGED <<jobs, acks>> /\ TypeOK
  BY Tables DEF Poll
<1>2. \A item \in SlaItems : Fresh(item)
  BY <1>1, SlaItemsFresh
<1>3. \A item \in RecoveryItems : Fresh(item)
  BY RecoveryItemsFresh
<1> QED BY <1>1, <1>2, <1>3, BeginStands DEF Poll

\* A webhook begins a run of one item, whose key is earned.
LEMMA WebhooksStand ==
  ASSUME WorkflowInv, HistoriesGrow, RowsGoOn, NEW w \in Runs,
         \/ \E c \in Cases : RequestWebhook(w, c)
         \/ \E r \in Requests : ReplyWebhook(w, r)
  PROVE  AllStand' /\ DOMAIN runs' = Runs
<1>1. ASSUME NEW c \in Cases, RequestWebhook(w, c)
      PROVE  AllStand' /\ DOMAIN runs' = Runs
  <2>1. Vacant(w) /\ UNCHANGED <<jobs, acks>> /\ Begin(w, {RequestItem(c)})
    BY <1>1 DEF RequestWebhook
  <2>2. \A item \in {RequestItem(c)} : Fresh(item)
    BY RequestItemFresh
  <2> QED BY <2>1, <2>2, BeginStands
<1>2. ASSUME NEW r \in Requests, ReplyWebhook(w, r)
      PROVE  AllStand' /\ DOMAIN runs' = Runs
  <2>1. /\ Vacant(w) /\ UNCHANGED <<jobs, acks>>
        /\ calls[r].phase = "answered" /\ calls[r].op = "reply" /\ Accepted(calls[r].answer)
    BY <1>2 DEF ReplyWebhook
  <2>2. PICK moderator \in ModeratorsOf(calls[r].case) \ {None} :
          Begin(w, {NotificationItem(calls[r].case, calls[r].arg, moderator)})
    BY <1>2 DEF ReplyWebhook
  <2> DEFINE item == NotificationItem(calls[r].case, calls[r].arg, moderator)
  <2>3. Fresh(item)
    BY <2>1, NotificationItemFresh
  <2>4. Begin(w, {item})
    BY <2>2
  <2> HIDE DEF item
  <2>5. \A other \in {item} : Fresh(other)
    BY <2>3
  <2> QED BY <2>1, <2>4, <2>5, BeginStands
<1> QED BY <1>1, <1>2

\* Wherever a run is and whatever it does, every place stands after it.
LEMMA StepLeavesAllStanding ==
  ASSUME WorkflowInv, HistoriesGrow, RowsGoOn, [WorkflowNext]_workflowVars
  PROVE  AllStand' /\ DOMAIN runs' = Runs
<1>1. CASE UNCHANGED <<jobs, acks, runs>>
  BY <1>1, WaitingStands
<1>2. ASSUME NEW w \in Runs, Advance(w)
      PROVE  AllStand' /\ DOMAIN runs' = Runs
  BY <1>2, SendStartStands, TakeStartStands, TransportStands, SendReportStands,
     TakeReportStands, SendAckStands, TakeAckStands, ServeStands, DropStands DEF Advance
<1>3. ASSUME NEW w \in Runs, Poll(w) \/ FailCall(w) \/ StopRun(w)
      PROVE  AllStand' /\ DOMAIN runs' = Runs
  BY <1>3, PollStands, FailCallStands, StopRunStands
<1> QED BY <1>1, <1>2, <1>3, WebhooksStand DEF WorkflowNext, workflowVars

-----------------------------------------------------------------------------
(* The rows. *)

\* The rows of one key are replaced.
LEMMA OneKeyStands ==
  ASSUME WorkflowInv, HistoriesGrow, NEW k \in Keys, NEW rows,
         attempts' = [attempts EXCEPT ![k] = rows], Earned(k, history),
         \A n \in DOMAIN rows : SentAs(rows[n], k, n)
  PROVE  RowsStand(attempts', history')
<1>1. attempts'[k] = rows /\ \A l \in Keys \ {k} : attempts'[l] = attempts[l]
  BY Tables
<1>2. ASSUME NEW l \in Keys
      PROVE  /\ attempts'[l] # << >> => Earned(l, history')
             /\ \A n \in DOMAIN attempts'[l] : SentAs(attempts'[l][n], l, n)
  <2>1. CASE l = k
    BY <1>1, <2>1, StaysEarned
  <2>2. CASE l # k
    <3>1. attempts'[l] = attempts[l]
      BY <1>1, <2>2
    <3>2. attempts[l] # << >> => Earned(l, history)
      BY DEF WorkflowInv, RowsStand
    <3>3. \A n \in DOMAIN attempts[l] : SentAs(attempts[l][n], l, n)
      BY DEF WorkflowInv, RowsStand
    <3> QED BY <3>1, <3>2, <3>3, StaysEarned
  <2> QED BY <2>1, <2>2
<1> QED BY <1>2 DEF RowsStand

\* A row is inserted, pending, for a key that was earned.
LEMMA InsertedRowStands ==
  ASSUME WorkflowInv, HistoriesGrow, NEW w \in Runs, CommitStart(w), InsertAttempt(w)
  PROVE  RowsStand(attempts', history')
<1> DEFINE k == jobs[w].key
           row == [delivery |-> jobs[w].delivery, status |-> "PENDING", externalId |-> None,
                   createdAt |-> jobs[w].now, completedAt |-> None]
           rows == Append(attempts[k], row)
<1>1. jobs[w].phase = "staged" /\ jobs[w].op = "start" /\ JobStands(jobs[w], attempts, history)
  BY DEF CommitStart, WorkflowInv, AllStand, PlaceStands
<1>2. k \in Keys /\ Earned(k, history)
  BY <1>1 DEF JobStands
<1>3. attempts' = [attempts EXCEPT ![k] = rows]
  BY DEF InsertAttempt
<1>4. attempts[k] \in Seq(Attempt) /\ \A n \in DOMAIN attempts[k] : SentAs(attempts[k][n], k, n)
  BY <1>2, Tables DEF WorkflowInv, RowsStand
<1>5. row.status = "PENDING"
  OBVIOUS
<1>6. \A n : SentAs(row, k, n)
  BY <1>5 DEF SentAs
<1> HIDE DEF k, row
<1>7. \A n \in DOMAIN rows : SentAs(rows[n], k, n)
  BY <1>4, <1>6
<1> HIDE DEF rows
<1> QED BY <1>2, <1>3, <1>7, OneKeyStands

\* A row is completed, with the message id that was reported.
LEMMA CompletedRowStands ==
  ASSUME WorkflowInv, HistoriesGrow, NEW w \in Runs, CommitResult(w), CompleteRow(jobs[w])
  PROVE  RowsStand(attempts', history')
<1> DEFINE job == jobs[w]
           k == job.key
           n == job.number
           row == CompletedRow(attempts[k][n], job)
           rows == [attempts[k] EXCEPT ![n] = row]
<1>1. job.phase = "staged" /\ job.op = "result" /\ JobStands(job, attempts, history)
  BY DEF CommitResult, WorkflowInv, AllStand, PlaceStands
<1>2. k \in Keys /\ n \in DOMAIN attempts[k]
  BY <1>1 DEF JobStands
<1>3. job.outcome = "SUCCEEDED" => job.externalId = TransportId[k, n]
  BY <1>1 DEF JobStands
<1>4. attempts' = [attempts EXCEPT ![k] = rows]
  BY <1>2, Tables DEF CompleteRow
<1>5. attempts[k] \in Seq(Attempt) /\ attempts[k][n] \in Attempt
  BY <1>2, Tables
<1>6. attempts[k] # << >>
  BY <1>2, <1>5
<1>7. Earned(k, history) /\ \A i \in DOMAIN attempts[k] : SentAs(attempts[k][i], k, i)
  BY <1>2, <1>6 DEF WorkflowInv, RowsStand
<1>8. /\ row.status = job.outcome
      /\ job.outcome = "SUCCEEDED" => row.externalId = job.externalId
  BY <1>5 DEF CompletedRow, Attempt
<1> HIDE DEF job, k, n, row
<1>9. SentAs(row, k, n)
  BY <1>3, <1>8 DEF SentAs
<1>10. \A i \in DOMAIN rows : SentAs(rows[i], k, i)
  BY <1>2, <1>5, <1>7, <1>9
<1> HIDE DEF rows
<1> QED BY <1>2, <1>4, <1>7, <1>10, OneKeyStands

\* Every step.
LEMMA StepLeavesRowsStanding ==
  ASSUME WorkflowInv, HistoriesGrow, [WorkflowNext]_workflowVars
  PROVE  RowsStand(attempts', history')
<1>1. CASE UNCHANGED attempts
  <2>1. ASSUME NEW k \in Keys, attempts'[k] # << >> PROVE Earned(k, history')
    <3>1. Earned(k, history)
      BY <1>1, <2>1 DEF WorkflowInv, RowsStand
    <3> QED BY <3>1, StaysEarned
  <2>2. ASSUME NEW k \in Keys, NEW n \in DOMAIN attempts'[k]
        PROVE  SentAs(attempts'[k][n], k, n)
    BY <1>1 DEF WorkflowInv, RowsStand
  <2> QED BY <2>1, <2>2 DEF RowsStand
<1>2. ASSUME NEW w \in Runs, CommitStart(w) PROVE RowsStand(attempts', history')
  BY <1>1, <1>2, InsertedRowStands DEF CommitStart, LoseStart
<1>3. ASSUME NEW w \in Runs, CommitResult(w) PROVE RowsStand(attempts', history')
  BY <1>1, <1>3, CompletedRowStands DEF CommitResult, LoseResult, RecordFailure, RecordSuccess
<1>4. ASSUME NEW w \in Runs, Advance(w) PROVE RowsStand(attempts', history')
  <2>1. CASE Serve(w)
    BY <1>1, <1>2, <1>3, <2>1 DEF Serve
  <2>2. CASE ~Serve(w)
    BY <1>1, <1>4, <2>2
    DEF Advance, SendStart, ReceiveStart, TakeStart, Transport, SendReport, ReceiveResult,
        TakeReport, SendAck, TakeAck, Drop, ReturnJob
  <2> QED BY <2>1, <2>2
<1>5. ASSUME NEW w \in Runs, FailCall(w) PROVE UNCHANGED attempts
  BY <1>5 DEF FailCall, AbortJob
<1>6. ASSUME NEW w \in Runs,
             \/ Poll(w) \/ StopRun(w)
             \/ \E c \in Cases : RequestWebhook(w, c)
             \/ \E r \in Requests : ReplyWebhook(w, r)
      PROVE  UNCHANGED attempts
  BY <1>6 DEF Poll, StopRun, RequestWebhook, ReplyWebhook
<1> QED BY <1>1, <1>4, <1>5, <1>6 DEF WorkflowNext, workflowVars

-----------------------------------------------------------------------------
(* Acknowledgements. *)

\* An acknowledgement that is new after a step of the backend was staged for its action.
LEMMA NewAckWasStaged ==
  ASSUME WorkflowInv, [BackendNext]_backendVars, NEW c \in Cases, NEW action \in DueAction,
         NEW i \in DOMAIN history'[c], history'[c][i] = AckEvent(action)
  PROVE  \/ Acknowledged(c, action)
         \/ \E a \in Runs : /\ acks[a].phase = "staged" /\ acks[a].case = c
                            /\ acks[a].action = action
<1>1. action \in SlaAction /\ AckEvent(action).type \in AckEventTypes
  BY AckEventOK DEF DueAction
<1>2. CASE [DeliveryNext]_deliveryVars
  <2>1. HistoriesGrow /\ \E types : types \cap AckEventTypes = {} /\ HistoriesAdd(types)
    BY <1>2, OthersAcknowledgeNothing DEF WorkflowInv, BackendInv
  <2>2. RequestSent.type \notin AckEventTypes
    BY AckTypes DEF RequestSent, Event
  <2>3. i \in DOMAIN history[c]
    BY <1>1, <2>1, <2>2 DEF HistoriesAdd, Added
  <2>4. history[c][i] = AckEvent(action)
    BY <2>1, <2>3 DEF HistoriesGrow, Kept
  <2> QED BY <2>3, <2>4 DEF Acknowledged
<1>3. ASSUME NEW a \in Runs, AckStep(a), StoresAck(a)
      PROVE  \/ Acknowledged(c, action)
             \/ acks[a].phase = "staged" /\ acks[a].case = c /\ acks[a].action = action
  <2> DEFINE d == acks[a].case
             event == AckEvent(acks[a].action)
  <2>1. /\ acks[a].phase = "staged" /\ d \in Cases /\ acks[a].action \in SlaAction
        /\ history[d] \in Seq(CaseEvent)
    BY <1>3, StagedAck, Tables, Threads DEF StoresAck
  <2>2. history' = [history EXCEPT ![d] = Append(@, event)] /\ history \in [Cases -> Seq(CaseEvent)]
    BY <1>3, Tables DEF StoresAck
  <2>3. event = AckEvent(action) => acks[a].action = action
    <3>1. AckEvent(acks[a].action).ref = acks[a].action /\ AckEvent(action).ref = action
      BY <1>1, <2>1, AckEventOK
    <3> QED BY <3>1
  <2> HIDE DEF d, event
  <2>4. CASE i \in DOMAIN history[c] /\ history'[c][i] = history[c][i]
    BY <2>4 DEF Acknowledged
  <2>5. CASE c = d /\ history'[c][i] = event
    BY <2>1, <2>3, <2>5 DEF d
  <2>6. CASE c = d
    <3>1. history'[c] = Append(history[c], event) /\ history[c] \in Seq(CaseEvent)
      BY <2>1, <2>2, <2>6
    <3>2. \/ i \in DOMAIN history[c] /\ history'[c][i] = history[c][i]
          \/ history'[c][i] = event
      BY <3>1
    <3> QED BY <2>4, <2>5, <2>6, <3>2
  <2>7. CASE c # d
    <3>1. history'[c] = history[c]
      BY <2>2, <2>7
    <3> QED BY <2>4, <3>1
  <2> QED BY <2>6, <2>7
<1>4. CASE UNCHANGED history
  BY <1>4 DEF Acknowledged
<1> QED BY <1>2, <1>3, <1>4, BackendSteps, AckStepStores, Threads

\* So its delivery had succeeded.
LEMMA StepLeavesAckedDelivered ==
  ASSUME WorkflowInv, [BackendNext]_backendVars, RowsGoOn
  PROVE  AckedWasDelivered'
<1>1. ASSUME NEW c \in Cases, NEW action \in DueAction,
             NEW i \in DOMAIN history'[c], history'[c][i] = AckEvent(action)
      PROVE  SucceededIn(SlaKey[c, action], attempts')
  <2>1. SlaKey[c, action] \in Keys
    BY KeysAssumption
  <2>2. SucceededIn(SlaKey[c, action], attempts)
    <3>1. CASE Acknowledged(c, action)
      BY <3>1 DEF WorkflowInv, AckedWasDelivered, Succeeded, SucceededIn
    <3>2. ASSUME NEW a \in Runs, acks[a].phase = "staged", acks[a].case = c,
                 acks[a].action = action
          PROVE  SucceededIn(SlaKey[c, action], attempts)
      BY <3>2 DEF WorkflowInv, AllStand, PlaceStands, AckStands
    <3>3. \/ Acknowledged(c, action)
          \/ \E a \in Runs : /\ acks[a].phase = "staged" /\ acks[a].case = c
                             /\ acks[a].action = action
      BY <1>1, NewAckWasStaged
    <3> QED BY <3>1, <3>2, <3>3, Zenon
  <2> QED BY <2>1, <2>2, StaysSucceeded
<1>2. ASSUME NEW c \in Cases, NEW action \in DueAction, Acknowledged(c, action)'
      PROVE  Succeeded(SlaKey[c, action])'
  BY <1>1, <1>2 DEF Acknowledged, Succeeded, SucceededIn
<1> QED BY <1>2 DEF AckedWasDelivered, DueAction

-----------------------------------------------------------------------------
(* The inductive invariant. *)

\* Before anything has happened.
LEMMA WorkflowInitInv == WorkflowInit => WorkflowInv
<1> SUFFICES ASSUME WorkflowInit PROVE WorkflowInv
  OBVIOUS
<1>1. BackendInv
  BY BackendInitInv DEF WorkflowInit
<1>2. /\ history = [c \in Cases |-> << >>] /\ calls = [r \in Requests |-> Idle]
      /\ attempts = [k \in Keys |-> << >>] /\ jobs = [w \in Runs |-> NoJob]
      /\ acks = [w \in Runs |-> NoAck] /\ runs = [w \in Runs |-> NoRun] /\ faults = 0
  BY Threads DEF WorkflowInit, BackendInit, DeliveryInit, CaseInit, StoreInit
<1>3. CallsEnded
  BY <1>2 DEF CallsEnded, CallEnded, Idle
<1>4. DOMAIN runs = Runs /\ faults \in 0..MaxFaults
  BY <1>2, RunsAssumption
<1>5. AllStand
  <2>1. RunStands(NoRun, attempts, history)
    BY NothingGoesOn DEF RunStands
  <2>2. Serves(NoRun, NoJob, NoAck)
    BY NothingGoesOn DEF Serves
  <2> QED BY <1>2, <2>1, <2>2, NothingGoesOn DEF AllStand, PlaceStands
<1>6. RowsStand(attempts, history)
  BY <1>2 DEF RowsStand
<1>7. AckedWasDelivered
  <2>1. \A c \in Cases : \A action : ~Acknowledged(c, action)
    BY <1>2 DEF Acknowledged
  <2> QED BY <2>1, Zenon DEF AckedWasDelivered
<1> QED BY <1>1, <1>3, <1>4, <1>5, <1>6, <1>7 DEF WorkflowInv

\* After every step.
LEMMA WorkflowNextInv ==
  ASSUME WorkflowInv, [WorkflowNext]_workflowVars
  PROVE  WorkflowInv'
<1>1. [BackendNext]_backendVars
  BY WorkflowSteps
<1>2. BackendInv' /\ HistoriesGrow /\ RowsGoOn
  BY <1>1, BackendNextInv DEF WorkflowInv
<1>3. CallsEnded'
  <2>1. [CaseNext]_caseVars \/ UNCHANGED calls
    BY <1>1, BackendSteps, OthersLeaveCommands DEF DeliveryNext, deliveryVars, caseVars
  <2>2. UNCHANGED calls => CallsEnded'
    BY DEF WorkflowInv, CallsEnded, CallEnded, Answers
  <2> QED BY <2>1, <2>2, Tables, CaseNextCallsEnded DEF WorkflowInv
<1>4. AllStand' /\ DOMAIN runs' = Runs
  BY <1>2, StepLeavesAllStanding
<1>5. RowsStand(attempts', history')
  BY <1>2, StepLeavesRowsStanding
<1>6. AckedWasDelivered'
  BY <1>1, <1>2, StepLeavesAckedDelivered
<1>7. faults' \in 0..MaxFaults
  <2>1. faults \in 0..MaxFaults /\ MaxFaults \in Nat
    BY RunsAssumption DEF WorkflowInv
  <2>2. CASE UNCHANGED faults
    BY <2>1, <2>2
  <2>3. ASSUME NEW w \in Runs, FailCall(w) \/ StopRun(w) PROVE faults' \in 0..MaxFaults
    BY <2>1, <2>3 DEF FailCall, StopRun, Fault
  <2>4. ASSUME NEW w \in Runs,
               \/ Poll(w) \/ Advance(w)
               \/ \E c \in Cases : RequestWebhook(w, c)
               \/ \E r \in Requests : ReplyWebhook(w, r)
        PROVE  UNCHANGED faults
    BY <2>4 DEF Poll, Advance, SendStart, TakeStart, Transport, SendReport, TakeReport, SendAck,
                TakeAck, Serve, Drop, RequestWebhook, ReplyWebhook
  <2> QED BY <2>2, <2>3, <2>4 DEF WorkflowNext, workflowVars
<1> QED BY <1>2, <1>3, <1>4, <1>5, <1>6, <1>7 DEF WorkflowInv

\* The workflows keep it.
LEMMA WorkflowsKeepInv == WorkflowSpec => []WorkflowInv
<1> QED BY WorkflowInitInv, WorkflowNextInv, PTL DEF WorkflowSpec

-----------------------------------------------------------------------------
(* What follows from it. *)

(***************************************************************************)
(* The workflows are clients of the backend as it promises to serve any:   *)
(* whatever runs overlap, stop or are told, each of their steps is a step  *)
(* of the backend with arguments its routes take, or no step of it.        *)
(***************************************************************************)
THEOREM WorkflowsUseBackend == WorkflowSpec => BackendSpec
<1>1. WorkflowInit => BackendInit
  BY DEF WorkflowInit
<1>2. WorkflowInv /\ [WorkflowNext]_workflowVars => [BackendNext]_backendVars
  BY WorkflowSteps
<1> QED BY <1>1, <1>2, WorkflowsKeepInv, PTL DEF WorkflowSpec, BackendSpec

(***************************************************************************)
(* Type correctness of the runs: a call is under way for the item served,  *)
(* or for a run that has stopped, and an item past its start names an      *)
(* attempt there is.                                                       *)
(***************************************************************************)
THEOREM WorkflowTypesHold == WorkflowSpec => []WorkflowTypeOK
<1>1. WorkflowInv => WorkflowTypeOK
  <2> SUFFICES ASSUME WorkflowInv PROVE WorkflowTypeOK
    OBVIOUS
  <2>1. DeliveryTypeOK /\ acks \in [Watchers -> Ack] /\ \A a \in Watchers : AckOK(acks[a])
    BY Tables DEF SlaTypeOK
  <2>2. ASSUME NEW w \in Runs, NEW item \in runs[w].items PROVE item \in Item /\ ItemOK(item)
    BY ItemsOfRun DEF ItemStands, ItemOK
  <2>3. ASSUME NEW w \in Runs PROVE RunOK(w)
    <3>1. RunStands(runs[w], attempts, history) /\ Serves(runs[w], jobs[w], acks[w])
      BY DEF WorkflowInv, AllStand, PlaceStands
    <3>2. runs[w].serving # None => runs[w].serving \in AtNode(w)
      BY <3>1 DEF RunStands, AtNode
    <3>3. runs[w].items = {} => runs[w] = NoRun
      BY <3>1 DEF RunStands
    <3> QED BY <2>2, <3>1, <3>2, <3>3 DEF Serves, RunOK
  <2>4. DOMAIN runs = Runs /\ faults \in 0..MaxFaults
    BY DEF WorkflowInv
  <2> QED BY <2>1, <2>3, <2>4 DEF WorkflowTypeOK
<1> QED BY <1>1, WorkflowsKeepInv, PTL

(***************************************************************************)
(* An SLA action is on record as done only if an attempt to deliver it     *)
(* succeeded: by whatever run, recovered or not, and although its item     *)
(* passes through a start, a transport and a report that may each be the   *)
(* work of another run, and the acknowledgement outlives the run.          *)
(***************************************************************************)
THEOREM WorkflowsAcknowledgeDelivered == WorkflowSpec => []AckedWasDelivered
<1>1. WorkflowInv => AckedWasDelivered
  BY DEF WorkflowInv
<1> QED BY <1>1, WorkflowsKeepInv, PTL

(***************************************************************************)
(* Runs that transport one attempt twice do not contradict each other, for *)
(* the message id is computed from the attempt: a report is in conflict    *)
(* only with a result that was another one.                                *)
(***************************************************************************)
THEOREM WorkflowsReportAlike == WorkflowSpec => []ReportsAgree
<1>1. WorkflowInv => ReportsAgree
  <2> SUFFICES ASSUME WorkflowInv, NEW w \in Runs, jobs[w].op = "result",
                      jobs[w].answer = "conflict"
               PROVE  attempts[jobs[w].key][jobs[w].number].status # jobs[w].outcome
    BY DEF ReportsAgree
  <2>1. JobStands(jobs[w], attempts, history)
    BY DEF WorkflowInv, AllStand, PlaceStands
  <2>2. jobs[w].phase # "idle"
    <3>1. NoJob.answer = None /\ None # "conflict"
      BY NoJobAnswerAssumption DEF NoJob, JobAnswers
    <3> QED BY <2>1, <3>1 DEF JobStands
  <2> QED BY <2>1, <2>2, Zenon DEF JobStands
<1> QED BY <1>1, WorkflowsKeepInv, PTL

\* A delivery that succeeded has been started.
LEMMA SucceededHasRows ==
  ASSUME NEW k, Succeeded(k)
  PROVE  attempts[k] # << >>
  BY DEF Succeeded

(***************************************************************************)
(* A moderator is notified only of a reply the case has: the workflow goes *)
(* on from an accepted reply, which is stored for good, and no other list  *)
(* but the recovery of such a notification has its key.                    *)
(***************************************************************************)
THEOREM WorkflowsNotifyOfStored == WorkflowSpec => []NotifiedOfStoredReply
<1>1. WorkflowInv => NotifiedOfStoredReply
  <2> SUFFICES ASSUME WorkflowInv, NEW c \in Cases, NEW m \in Messages,
                      Succeeded(NotificationKey[c, m])
               PROVE  Replied(c, m, history)
    BY DEF NotifiedOfStoredReply, Replied, Reply
  <2> DEFINE k == NotificationKey[c, m]
  <2>1. k \in Keys
    BY NotificationKeys
  <2>2. attempts[k] # << >>
    BY SucceededHasRows
  <2>3. Earned(k, history)
    BY <2>1, <2>2 DEF WorkflowInv, RowsStand
  <2> QED BY <2>3 DEF Earned
<1> QED BY <1>1, WorkflowsKeepInv, PTL

(***************************************************************************)
(* All that is proved of the backend for any clients holds beside the      *)
(* workflows: the audit, the deadlines and the moderators, the one live    *)
(* attempt of a key, its final result and the events it has, the recovery  *)
(* list, and the one acknowledgement of an action, after the beginning of  *)
(* its wait and as the list of actions offered it.                         *)
(***************************************************************************)
THEOREM BackendHoldsBesideWorkflows ==
  WorkflowSpec =>
    [](/\ AuditMatchesStatus /\ WaitHasDeadline /\ ModeratorMatchesHistory
       /\ AnswersAreDurable /\ RepliesMatchHistory
       /\ OneLiveAttempt /\ RetriesAreLimited /\ OneIdentityPerKey /\ ResultsAreDurable
       /\ StartsStayJustified /\ ListAgreesWithStart /\ HistoryMatchesAttempts
       /\ AcknowledgedOnce /\ AcksFollowTheirWait /\ ListAgreesWithAck)
<1> QED
  BY WorkflowsUseBackend, BackendStatusIsAudited, BackendWaitsAreWatched,
     BackendModeratorIsAudited, BackendAnswersHold, BackendAttemptsLast,
     BackendStartsAreJustified, BackendTellsAttempts, BackendAcknowledgesOnce,
     BackendAcksHaveTheirWait, BackendQueryAgrees, PTL

(***************************************************************************)
(* So do its promises about steps: results are final, a key is one logical *)
(* delivery, and a delivery moves a case as the state machine allows.      *)
(***************************************************************************)
THEOREM WorkflowsDeliverAsPromised ==
  WorkflowSpec => ResultsAreFinal /\ ImplementsLogicalDelivery /\ EffectsRespectLifecycle
<1> QED
  BY WorkflowsUseBackend, BackendRowsAreFinal, BackendImplementsLogical, BackendEffectsAreLegal,
     PTL

(***************************************************************************)
(* And while no command is overlapped on its case, workflows and commands  *)
(* together take every case through the lifecycle, with no acknowledgement *)
(* behind a later one and no action lost: faults, retries and recovery do  *)
(* not put it at risk, only commands that overlap do.                      *)
(***************************************************************************)
THEOREM WorkflowsFollowLifecycle ==
  WorkflowSpec /\ []NoOverlap
    => /\ [](TransitionsAllowed /\ FinishedHasNoDeadline /\ NoCatchUp)
       /\ ImplementsLifecycle /\ DueUntilHandled
<1> QED
  BY WorkflowsUseBackend, BackendStoriesAreLegal, BackendImplementsLifecycle,
     BackendDueUntilHandled, PTL
=============================================================================
