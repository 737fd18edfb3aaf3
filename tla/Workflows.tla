----------------------------- MODULE Workflows -----------------------------
(***************************************************************************)
(* The n8n workflows that deliver: SLA watchdog, recovery watchdog, send   *)
(* client request, client reply intake.  They are clients of the backend   *)
(* and keep nothing of their own beyond a run.                             *)
(*                                                                         *)
(* A run takes a list of items through the nodes of its workflow: start an *)
(* attempt, transport, report the result, acknowledge the SLA action.  n8n *)
(* takes all items through a node before the next node; when one of them   *)
(* is refused the node's output is lost and the run ends (retryOnFail is   *)
(* false and no node continues on error).  A run may also just stop: n8n   *)
(* was restarted, or the connection was lost.                              *)
(*                                                                         *)
(* Each run calls the backend through a thread of its own, one call at a   *)
(* time; it passes no time of its own, so the call carries the present.    *)
(***************************************************************************)
EXTENDS Backend

CONSTANTS
  Runs,               \* the runs there may be at a time, and their threads
  Flow,               \* the workflows that may run in each of these places
  SlaKey,             \* idempotency key of each case's SLA actions,
  RequestKey,         \*   of its client request,
  NotificationKey,    \*   and of the notification about each reply
  ClientContact,      \* client_contact_id of the cases
  ModeratorRole,      \* recipient of a reminder when no moderator is assigned
  OperationsRole,     \* recipient of escalations
  TransportId,        \* external_message_id of each key's attempts
  MaxFaults           \* bound: runs stopped and calls failed

Workflow == {"sla", "recovery", "request", "reply"}

\* What an SLA action can be: the levels that _requested_due_at accepts.
DueAction == {action \in SlaAction : LevelValid(action)}

ASSUME RunsAssumption ==
  Workers = Runs /\ Watchers = Runs /\ Flow \in [Runs -> SUBSET Workflow] /\ MaxFaults \in Nat
ASSUME KeysAssumption ==
  /\ SlaKey \in [Cases \X DueAction -> Keys]
  /\ RequestKey \in [Cases -> Keys]
  /\ NotificationKey \in [Cases \X Messages -> Keys]
ASSUME RecipientsAssumption ==
  Moderators \cup {ClientContact, ModeratorRole, OperationsRole} \subseteq Recipients
ASSUME TransportAssumption == TransportId \in [Keys \X (1..MaxAttempts) -> ExternalIds]
\* The route takes a start of whatever delivery it is sent.
ASSUME AnyDeliveryAssumption == Identity \subseteq Deliveries

(***************************************************************************)
(* A key begins with what it is for, then has the id of the case, which    *)
(* the backend makes without a colon; a message id is all that is left.    *)
(***************************************************************************)
ASSUME NotificationKeysAssumption ==
  \A c, d \in Cases : \A m \in Messages :
    /\ \A n \in Messages : c # d \/ m # n => NotificationKey[c, m] # NotificationKey[d, n]
    /\ NotificationKey[c, m] # RequestKey[d]
    /\ \A action \in DueAction : NotificationKey[c, m] # SlaKey[d, action]

VARIABLES
  runs,               \* the run in each place: its items and how it stands
  faults              \* faults so far

workflowVars ==
  <<clock, cases, history, replies, calls, attempts, jobs, acks, runs, faults>>

(***************************************************************************)
(* Where an item stands, in the order of the nodes: to be started; known   *)
(* to be delivered, to be acknowledged; to be transported; to be reported; *)
(* delivered by this run, to be acknowledged.  n8n takes the upper branch  *)
(* of a condition, the acknowledgement, before the lower one.              *)
(***************************************************************************)
NodeOrder ==
  [listed |-> 1, complete |-> 2, pending |-> 3, transported |-> 4, delivered |-> 5]

Item ==
  [key : Keys, delivery : Identity, action : DueAction \cup {None},
   allowRetry : BOOLEAN, stage : DOMAIN NodeOrder, number : Nat,
   outcome : {"SUCCEEDED", "FAILED", None}]

ASSUME NoItemAssumption == None \notin Item /\ None \notin {"SUCCEEDED", "FAILED"}

NoRun == [items |-> {}, serving |-> None, failed |-> FALSE]

\* The items the current node of a run has still to serve.
AtNode(w) ==
  {item \in runs[w].items :
     \A other \in runs[w].items : NodeOrder[item.stage] <= NodeOrder[other.stage]}

-----------------------------------------------------------------------------
(* What the lists offer. *)

NewItem(k, d, action, allowRetry) ==
  [key |-> k, delivery |-> d, action |-> action, allowRetry |-> allowRetry,
   stage |-> "listed", number |-> 0, outcome |-> None]

SlaDeliveryType ==
  [REMIND_CLIENT |-> "CLIENT_REMINDER", REMIND_MODERATOR |-> "MODERATOR_REMINDER",
   ESCALATE_CLIENT_WAIT |-> "ESCALATION", ESCALATE_MODERATOR_WAIT |-> "ESCALATION"]

SlaRecipient(c, action) ==
  CASE action[1] = "REMIND_CLIENT" -> ClientContact
    [] action[1] = "REMIND_MODERATOR" ->
         IF cases[c].moderator = None THEN ModeratorRole ELSE cases[c].moderator
    [] OTHER -> OperationsRole

\* A due action with the delivery that carries it out (_with_delivery_identity).
SlaItem(c, action) ==
  NewItem(SlaKey[c, action],
          [case |-> c, type |-> SlaDeliveryType[action[1]],
           recipient |-> SlaRecipient(c, action)],
          action, FALSE)

SlaItems == UNION {{SlaItem(c, action) : action \in Due(c, clock)} : c \in Cases}

\* The SLA actions that a delivery under this key carries out: one or none.
ActionsOf(k, d) ==
  {action \in DueAction :
     SlaKey[d.case, action] = k /\ SlaDeliveryType[action[1]] = d.type}

\* The action a recovered delivery is to acknowledge (_sla_recovery_identity).
Hint(k, d) ==
  IF ActionsOf(k, d) = {} THEN None ELSE CHOOSE action \in ActionsOf(k, d) : TRUE

RecoveryItems ==
  {NewItem(k, Last(k).delivery, Hint(k, Last(k).delivery), TRUE) :
     k \in {key \in Keys : Retryable(key, clock)}}

RequestItem(c) ==
  NewItem(RequestKey[c],
          [case |-> c, type |-> "CLIENT_REQUEST", recipient |-> ClientContact],
          None, TRUE)

NotificationItem(c, m, moderator) ==
  NewItem(NotificationKey[c, m],
          [case |-> c, type |-> "MODERATOR_NOTIFICATION", recipient |-> moderator],
          None, TRUE)

-----------------------------------------------------------------------------
(* A run begins. *)

\* An empty list ends a run at once.
Begin(w, items) ==
  /\ items # {}
  /\ runs' = [runs EXCEPT ![w] = [NoRun EXCEPT !.items = items]]

Vacant(w) ==
  runs[w].items = {} /\ jobs[w].phase = "idle" /\ acks[w].phase = "idle"

\* The schedule, or somebody by hand, starts a watchdog.
Poll(w) ==
  /\ Vacant(w)
  /\ \/ "sla" \in Flow[w] /\ Begin(w, SlaItems)
     \/ "recovery" \in Flow[w] /\ Begin(w, RecoveryItems)
  /\ UNCHANGED <<storeVars, calls, attempts, jobs, acks, faults>>

\* The webhook asks for a client request of a case that exists.
RequestWebhook(w, c) ==
  /\ Vacant(w) /\ "request" \in Flow[w]
  /\ cases[c] # None
  /\ Begin(w, {RequestItem(c)})
  /\ UNCHANGED <<storeVars, calls, attempts, jobs, acks, faults>>

\* Moderators the case has or has had, overlapping reassignments included: the answer
\* to a reply names the one that was loaded.
ModeratorsOf(c) ==
  {row.moderator : row \in {cases[c]} \ {None}} \cup
    UNION {{history[c][i].ref[1], history[c][i].ref[2]} :
       i \in {j \in DOMAIN history[c] : history[c][j].type = "MODERATOR_CHANGED"}}

(***************************************************************************)
(* The webhook's client reply is answered, and the workflow goes on to     *)
(* notify the moderator, for a repeated reply too.  Without a moderator    *)
(* the start is refused for its empty recipient and the run ends.          *)
(***************************************************************************)
ReplyWebhook(w, r) ==
  /\ Vacant(w) /\ "reply" \in Flow[w]
  /\ calls[r].phase = "answered" /\ calls[r].op = "reply" /\ Accepted(calls[r].answer)
  /\ \E moderator \in ModeratorsOf(calls[r].case) \ {None} :
       Begin(w, {NotificationItem(calls[r].case, calls[r].arg, moderator)})
  /\ Return(r)
  /\ UNCHANGED <<attempts, jobs, acks, faults>>

-----------------------------------------------------------------------------
(* The nodes. *)

\* An item is sent to the backend.  A run sends one at a time; n8n may send a node's
\* items together, so calls overlap here only between runs.
Send(w, item) == runs' = [runs EXCEPT ![w].serving = item]

\* The run goes on with these items; a run without items is over.
Continue(w, items, failed) ==
  runs' = [runs EXCEPT ![w] =
    IF items = {} THEN NoRun
    ELSE [items |-> items, serving |-> None, failed |-> failed]]

\* The item that was served leaves its node, to go on as "next" unless that is empty.
Leave(w, next) ==
  LET others == runs[w].items \ {runs[w].serving}
  IN Continue(w, IF runs[w].failed THEN others ELSE others \cup next, runs[w].failed)

\* A refused item: nothing goes on from this node, which still serves the rest of its items.
Fail(w) == Continue(w, AtNode(w) \ {runs[w].serving}, TRUE)

SendStart(w) ==
  /\ runs[w].serving = None
  /\ \E item \in AtNode(w) :
       /\ item.stage = "listed"
       /\ ReceiveStart(w, item.key, item.delivery, item.allowRetry, clock)
       /\ Send(w, item)
  /\ UNCHANGED <<acks, faults>>

\* A fault: a failed attempt, which the start returns too, is taken for a completed one.
CompletedByAnyAttempt(answer) == answer \in {"completed", "failed_before"}
\* delivery_completed of the answer.
Completed(answer) == answer = "completed"

\* A fault: nothing asks whether there is an SLA action to acknowledge.
NeedsAckAlways(item) == TRUE
\* A complete delivery is acknowledged if it carries out an SLA action.
NeedsAck(item) == item.action # None

\* A fault: what is complete already is left alone.
AfterStartUnlessComplete(item, job) ==
  IF job.answer \in {"applied", "pending"}
  THEN {[item EXCEPT !.stage = "pending", !.number = job.number]} ELSE {}
AfterStart(item, job) ==
  CASE Completed(job.answer) /\ NeedsAck(item) -> {[item EXCEPT !.stage = "complete"]}
    [] ~Completed(job.answer) /\ job.answer \in {"applied", "pending"} ->
         {[item EXCEPT !.stage = "pending", !.number = job.number]}
    [] OTHER -> {}

TakeStart(w) ==
  /\ runs[w].serving # None /\ jobs[w].op = "start"
  /\ ReturnJob(w)
  /\ IF Accepted(jobs[w].answer)
     THEN Leave(w, AfterStart(runs[w].serving, jobs[w]))
     ELSE Fail(w)
  /\ UNCHANGED <<acks, faults>>

\* deliver_locally: the outcome is chosen by a flag, which runs may have set differently.
Transport(w) ==
  /\ runs[w].serving = None
  /\ \E item \in AtNode(w), outcome \in {"SUCCEEDED", "FAILED"} :
       /\ item.stage = "pending"
       /\ runs' = [runs EXCEPT ![w].items =
            (@ \ {item}) \cup {[item EXCEPT !.stage = "transported", !.outcome = outcome]}]
  /\ UNCHANGED <<storeVars, calls, attempts, jobs, acks, faults>>

\* A fault: each run's transport gives the attempt another message id.
MessageIdOfRun(w, item) ==
  IF item.outcome = "SUCCEEDED"
  THEN IF w = CHOOSE first \in Runs : TRUE THEN TransportId[item.key, item.number]
       ELSE CHOOSE id \in ExternalIds : id # TransportId[item.key, item.number]
  ELSE None
\* The message id is computed from the attempt: transporting it again gives the same one.
MessageId(w, item) ==
  IF item.outcome = "SUCCEEDED" THEN TransportId[item.key, item.number] ELSE None

SendReport(w) ==
  /\ runs[w].serving = None
  /\ \E item \in AtNode(w) :
       /\ item.stage = "transported"
       /\ ReceiveResult(w, item.key, item.number, item.outcome, MessageId(w, item), clock)
       /\ Send(w, item)
  /\ UNCHANGED <<acks, faults>>

AfterReport(item) ==
  IF item.outcome = "SUCCEEDED" /\ NeedsAck(item)
  THEN {[item EXCEPT !.stage = "delivered"]} ELSE {}

TakeReport(w) ==
  /\ runs[w].serving # None /\ jobs[w].op = "result"
  /\ ReturnJob(w)
  /\ IF Accepted(jobs[w].answer)
     THEN Leave(w, AfterReport(runs[w].serving))
     ELSE Fail(w)
  /\ UNCHANGED <<acks, faults>>

SendAck(w) ==
  /\ runs[w].serving = None
  /\ \E item \in AtNode(w) :
       /\ item.stage \in {"complete", "delivered"}
       /\ ReceiveAck(w, item.delivery.case, item.action, clock)
       /\ Send(w, item)
  /\ UNCHANGED <<attempts, jobs, faults>>

TakeAck(w) ==
  /\ runs[w].serving # None
  /\ ReturnAck(w)
  /\ IF Accepted(acks[w].answer) THEN Leave(w, {}) ELSE Fail(w)
  /\ UNCHANGED <<attempts, jobs, faults>>

-----------------------------------------------------------------------------
(* The backend serves, and things fail. *)

Serve(w) ==
  /\ \/ (CommitStart(w) \/ CommitResult(w)) /\ UNCHANGED acks
     \/ (LookUpAck(w) \/ CommitAck(w)) /\ UNCHANGED <<attempts, jobs>>
  /\ UNCHANGED <<runs, faults>>

\* The answer to a run that has stopped reaches nobody.
Drop(w) ==
  /\ runs[w].serving = None
  /\ \/ ReturnJob(w) /\ UNCHANGED acks
     \/ ReturnAck(w) /\ UNCHANGED <<attempts, jobs>>
  /\ UNCHANGED <<runs, faults>>

Fault == faults < MaxFaults /\ faults' = faults + 1

\* A call fails in the backend; its run is told, or finds the connection closed.
FailCall(w) ==
  /\ Fault
  /\ \/ AbortJob(w) /\ UNCHANGED acks
     \/ AbortAck(w) /\ UNCHANGED <<attempts, jobs>>
  /\ UNCHANGED runs

\* The run ends between two of its steps; a call it has made is served all the same.
StopRun(w) ==
  /\ Fault
  /\ runs[w].items # {}
  /\ runs' = [runs EXCEPT ![w] = NoRun]
  /\ UNCHANGED <<storeVars, calls, attempts, jobs, acks>>

WorkflowInit ==
  /\ BackendInit
  /\ runs = [w \in Runs |-> NoRun]
  /\ faults = 0

\* A run and the calls it has made go on.
Advance(w) ==
  \/ SendStart(w) \/ TakeStart(w) \/ Transport(w) \/ SendReport(w) \/ TakeReport(w)
  \/ SendAck(w) \/ TakeAck(w) \/ Serve(w) \/ Drop(w)

WorkflowNext ==
  \/ CaseNext /\ UNCHANGED <<attempts, jobs, acks, runs, faults>>
  \/ \E w \in Runs :
       \/ Poll(w) \/ Advance(w) \/ FailCall(w) \/ StopRun(w)
       \/ \E c \in Cases : RequestWebhook(w, c)
       \/ \E r \in Requests : ReplyWebhook(w, r)

WorkflowSpec == WorkflowInit /\ [][WorkflowNext]_workflowVars

(***************************************************************************)
(* The schedule triggers the watchdogs again and again, and what has begun *)
(* goes on unless it fails.  (Poll and Advance exclude each other.)        *)
(* Nobody has to ask for anything, time need not pass, and faults are not  *)
(* fair: there may be up to MaxFaults of them.                             *)
(***************************************************************************)
Fairness == \A w \in Runs : WF_workflowVars(Poll(w) \/ Advance(w))

FairWorkflowSpec == WorkflowSpec /\ Fairness

-----------------------------------------------------------------------------
(***************************************************************************)
(* Type correctness.  A call is under way for the item being served, or    *)
(* for a run that has stopped; an item past its start names an attempt.    *)
(***************************************************************************)
ItemOK(item) ==
  /\ item.stage \in {"complete", "delivered"} => item.action # None
  /\ item.stage \in {"pending", "transported", "delivered"} =>
       item.number \in DOMAIN attempts[item.key]
  /\ item.stage \in {"transported", "delivered"} <=> item.outcome # None

RunOK(w) ==
  LET run == runs[w]
  IN /\ \A item \in run.items : item \in Item /\ ItemOK(item)
     /\ run.serving # None =>
          /\ run.serving \in AtNode(w)
          /\ jobs[w].phase # "idle" \/ acks[w].phase # "idle"
     /\ run.items = {} => run = NoRun
     /\ jobs[w].phase = "idle" \/ acks[w].phase = "idle"

WorkflowTypeOK ==
  /\ DeliveryTypeOK
  /\ acks \in [Watchers -> Ack] /\ \A a \in Watchers : AckOK(acks[a])
  /\ DOMAIN runs = Runs /\ \A w \in Runs : RunOK(w)
  /\ faults \in 0..MaxFaults

-----------------------------------------------------------------------------
(* Safety, whatever runs overlap and wherever they stop. *)

(***************************************************************************)
(* What is acknowledged has been delivered: an acknowledgement suppresses  *)
(* its action for good, so it needs an attempt that succeeded, by whatever *)
(* run and under whatever number.                                          *)
(***************************************************************************)
AckedWasDelivered ==
  \A c \in Cases, action \in DueAction :
    Acknowledged(c, action) => Succeeded(SlaKey[c, action])

(***************************************************************************)
(* Two runs that transport one attempt both find it delivered: a report is *)
(* in conflict with another only if their transports ended differently.    *)
(***************************************************************************)
ReportsAgree ==
  \A w \in Runs :
    (jobs[w].op = "result" /\ jobs[w].answer = "conflict") =>
      attempts[jobs[w].key][jobs[w].number].status # jobs[w].outcome

(***************************************************************************)
(* A moderator is notified of a reply only if the case has it: a webhook   *)
(* whose reply was rejected does not get as far.                           *)
(***************************************************************************)
NotifiedOfStoredReply ==
  \A c \in Cases, m \in Messages :
    Succeeded(NotificationKey[c, m]) =>
      \E i \in DOMAIN history[c] : history[c][i] = Event("CLIENT_REPLY_RECEIVED", m)

-----------------------------------------------------------------------------
(* Liveness. *)

\* The delivery has failed as often as it may.
GivenUp(k) == Broken(k) /\ Exhausted(k)

\* Something is due and has not failed for good.
Neglected(c) == \E action \in Due(c, clock) : ~GivenUp(SlaKey[c, action])

\* The recipient that is listed is one to whom the delivery of that key can be started.
Routed(c, action) == SameDelivery(SlaKey[c, action], SlaItem(c, action).delivery)

(***************************************************************************)
(* "Due actions expose backend-owned delivery identity and routing"        *)
(* (test_sla): what is listed, for the current moderator, can be started.  *)
(***************************************************************************)
RoutingMatchesDelivery == \A c \in Cases : \A action \in Due(c, clock) : Routed(c, action)

(***************************************************************************)
(* What is due is handled: no case has an action due for ever, unless all  *)
(* attempts to deliver it have failed.  A run that stops, a lost answer, a *)
(* failed call, a higher threshold, an item of the list whose call fails   *)
(* once or another run with the same item only delay it.  That is so while *)
(* every listed item can be started: one whose start is refused at every   *)
(* poll takes the others with it, see OthersAreHandled.                    *)
(***************************************************************************)
DueIsHandled ==
  []RoutingMatchesDelivery =>
    ((\E c \in Cases : Neglected(c)) ~> (\A c \in Cases : ~Neglected(c)))

\* A delivery that is to be tried again, or is being tried again.
Retrying(k) ==
  \/ Broken(k) /\ ~Exhausted(k)
  \/ Open(k) /\ Len(attempts[k]) > 1

(***************************************************************************)
(* What has failed once is delivered or given up in the end, although runs *)
(* stop with a retry pending: unless the case no longer takes its effect,  *)
(* "recovery reuses an existing pending retry after a crash" (README).     *)
(***************************************************************************)
Wanted(k) == Retrying(k) /\ EffectAllowed(Last(k).delivery)
RetriesConclude == (\E k \in Keys : Wanted(k)) ~> (\A k \in Keys : ~Wanted(k))

-----------------------------------------------------------------------------
(* What the documentation and the tests say. *)

(***************************************************************************)
(* "A maximum-attempt limit" (README): trying again comes to an end, even  *)
(* when the case has been cancelled meanwhile.                             *)
(***************************************************************************)
RetriesEnd == \A k \in Keys : Retrying(k) ~> ~Retrying(k)

(***************************************************************************)
(* "Restart recovery works because ... business state is stored in SQLite" *)
(* (README): an attempt that was started is concluded although the run     *)
(* that started it has stopped, unless the case no longer takes its effect.*)
(***************************************************************************)
Awaited(k) == Open(k) /\ EffectAllowed(Last(k).delivery)
AttemptsConclude == \A k \in Keys : Awaited(k) ~> ~Awaited(k)

(***************************************************************************)
(* A case "must retain its ... SLA obligations" (README): an action that   *)
(* is due and can be started is handled, however many polls of the list it *)
(* takes and whatever becomes of the other items of the list.              *)
(***************************************************************************)
Deliverable(c) ==
  \E action \in Due(c, clock) : ~GivenUp(SlaKey[c, action]) /\ Routed(c, action)
OthersAreHandled == \A c \in Cases : Deliverable(c) ~> ~Deliverable(c)
=============================================================================
