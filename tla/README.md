# Open Loop Tracker: TLA+ models and proofs

Open Loop Tracker moves a support case between a moderator and a client. n8n
workflows call a FastAPI backend; the backend decides what may happen and keeps
everything in one SQLite database. This directory models the backend's
services as they run: several request threads, each with a session that keeps
the rows it loaded, on one database; and the workflows that deliver, as
processes that call them, overlap and stop.

## Inventory

| Part | State | Operations | How it meets the others | What is hard | What makes it correct |
|---|---|---|---|---|---|
| Database (`db/`) | tables `cases`, `case_events`, `client_replies`, `delivery_attempts`; unique indexes on message id, (key, attempt number), event deduplication key | SELECT, INSERT, UPDATE, commit | shared by all services | a read is not in the transaction that writes | rows that belong together are written together |
| State machine (`domain/state_machine.py`) | none | `transition_case` | called on a loaded row | the row may be stale | final statuses are final |
| `CaseService` | none of its own | create, mark sent, client reply, confirm, cancel, reassign | HTTP routes; `DeliveryService` uses its staging helper | read, decide, write later without a version check | status, events, deadlines and replies agree; a repetition has no effect |
| `DeliveryService` | none of its own | start, complete, list retryable | HTTP routes; writes cases and events as effect of a success | check-then-insert; compare-and-set on PENDING; retry time and limit | one live attempt per key; results final; one effect per success |
| `SlaService`, `domain/sla.py` | none of its own | due actions, acknowledge | HTTP routes; reads cases and events; names delivery keys | thresholds at one instant; a wait that ends meanwhile | each action acknowledged once; lower thresholds stay suppressed |
| n8n workflows (`n8n/workflows/`) | the items of a run, nothing durable | intake, send request, reply intake, confirmation, SLA watchdog, recovery watchdog | HTTP clients of all of the above, started by webhooks or every minute | a run may stop between two nodes; runs overlap; one refused item ends a run | what is due is delivered and acknowledged; what is acknowledged was delivered |
| Demo transport (`demo_transport.py`) | none | deliver | called by workflows | two runs may transport one attempt | the same message id for the same attempt |
| Schemas and errors (`api/`) | none | validation, status code of each answer | between the services and the workflows | a workflow sees only the code | an error ends the run |
| Configuration, start-up | none | settings and their validation; one application | the constants of every module | none | thresholds rise |

## Modules

| Module | Content |
|---|---|
| `Store` | the tables, the events and the clock |
| `CaseService` | the case commands; a definition marked as a fault is a mistake the next one could contain, and is used by none |
| `CaseLifecycle` | abstract: the stage a case is in, how often it has entered each, the deadlines that run |
| `CaseRefinement` | reads them off the status, the events of the history and the deadline columns |
| `DeliveryService` | extends `CaseService`: deliveries beside the case commands, on the same tables |
| `LogicalDelivery` | abstract: what a client is promised about an idempotency key |
| `DeliveryRefinement` | reads the promise off the attempt rows |
| `SlaService` | extends `CaseService`: due actions and their acknowledgements beside the case commands |
| `Backend` | extends both: the whole backend called by anybody, the accepted settings, the status code of an answer |
| `Workflows` | extends `Backend`: runs of four workflows as its clients, the commands of users beside them |
| `MCCaseService`, `MCDeliveryService`, `MCSlaService`, `MCWorkflows` | small instances for TLC |
| `CaseService_proofs` | types, audit and deadlines of the cases |
| `CaseHistory_proofs` | histories only grow; replies, moderators and answers agree with them; the story of a case whose commands do not overlap, the refinement of `CaseLifecycle` |
| `SlaService_proofs` | acknowledgements, and the due query beside them; no catch-up |
| `DeliveryService_proofs` | types and the discipline of the attempts |
| `DeliveryResults_proofs` | what a step does to the rows; results, recovery list, the refinement of `LogicalDelivery` |
| `DeliveryEffects_proofs` | events and effects of attempts |
| `Backend_proofs` | what holds when all parts of the backend write to one database |
| `Workflows_proofs` | what overlapping runs of the workflows acknowledge, report and notify of; that they are clients of the backend |

### How a call is modelled

The routes are synchronous functions, so FastAPI runs each in a thread of its
pool, with a session of its own (`api/dependencies.py`). The session has
`autoflush=False, expire_on_commit=False`. Under SQLAlchemy's default SQLite
driver a SELECT runs outside a transaction; the first INSERT or UPDATE opens
one, and SQLite then lets nobody else write until it ends. So a call has

1. a reading step: it loads its rows, checks them, and answers or holds on
   (phase `staged`; a client reply first holds as `loaded`, because it reads
   the message id in a second statement);
2. a writing step: flush and commit, atomic for all others; or `RollBack` /
   `AbortJob`: lock timeout, another exception, or the end of the process,
   which leave nothing behind;
3. `Return` / `ReturnJob`: the answer is out, the thread is free.

Anything else may run between 1 and 2. An ORM update writes only the columns
whose value differs from the loaded row and has no version check: `SentRow`,
`RepliedRow`, ... build the row that is left from the *stored* row and the
*loaded* one, and `Cleared` says when assigning `None` is written at all.

`complete_delivery_attempt` differs: its conditional UPDATE opens the
transaction, `session.refresh(attempt)` then drops the case the attempt had
loaded, and the case is read again inside the transaction. Its effect is
therefore computed from the stored row (`ApplyEffect`).

An acknowledgement has one step more: it reads the case (`ReceiveAck`), looks
its deduplication key up and only then checks the loaded case (`LookUpAck`),
and inserts its event later (`CommitAck`), where the unique index decides. It
writes no case. The due query writes nothing at all; it is the operator `Due`,
evaluated on one state (the code reads the cases and then the events of each:
what it returns may be as old as its first read).

The delivery and action routes take the time (`get_current_time`) before the handler
reads, so such a call may carry any instant up to the present
(`RequestTimes`). Case commands read the clock themselves, after loading.

### How a run of a workflow is modelled

A run is the set of items it takes through the nodes of its workflow, each with
the stage it has come to (`NodeOrder`): start, transport, report, acknowledge.
n8n finishes a node for all items before the next (`AtNode`), in any order
among the items. The nodes neither retry nor continue on error, so an item that
is refused with an error status ends the run: nothing goes on from that node
(`Fail`), not even what the other items have been answered with, although its
remaining items are still sent. Each run has a thread of
its own in the backend, and one call at a time; the call's steps are those of
`DeliveryService` and `SlaService` (`Serve`). n8n may send the items of a node
together; calls that overlap come from two runs here, and nothing checked
depends on their coming from one.

- `Poll` is the trigger, once a minute or by hand, with the list it then gets.
  A run that is still under way does not keep another one from starting, in
  another place of `Runs`; a run may take longer than a minute, and several may
  begin in one.
- `RequestWebhook` and `ReplyWebhook` are started by anybody, the second after a
  reply command that was answered with success. The answer names the moderator
  of the row the command had loaded; the model admits any the case has had, those
  of overlapping reassignments included.
- Case intake and moderator answer confirmation make one backend call each;
  they are among the commands anybody may give, as are reassignment and cancel.
- `StopRun` ends a run between two of its steps: n8n restarted, or the
  connection was lost. `FailCall` is an error in the backend. `MaxFaults` bounds
  both together.
- A run that has stopped leaves its call behind, which is served and then
  dropped (`Drop`).

### Correspondence of state

| Variable | Code |
|---|---|
| `clock` | `utc_now()`, minutes |
| `cases` | `cases`: status, moderator, both deadlines; `closed_at` and `cancelled_at` as "has been set" |
| `history` | `case_events` of a case in id order: the type, and from metadata and deduplication key what a property reads |
| `replies` | `client_replies`: which case owns a message id |
| `attempts` | `delivery_attempts` of a key; `attempt_number` is the place in the sequence |
| `calls`, `jobs`, `acks` | the local state of the threads serving case commands, delivery calls and acknowledgements |
| `runs` | executions of the workflows: the items at each node, the one being served, whether the node has failed |
| `faults` | how many runs were stopped and calls failed so far |

Every operation of the code is an action named in the map of `PROJECT.json`.
Branches no state reaches are left out: a `FAILED` row without `completed_at`,
a duplicate event on completion (the conditional UPDATE comes first), a result
for an attempt that vanished (nothing deletes rows).
When a start finds the key succeeded, the code answers with the latest
succeeded attempt; that is the last one, as `OneLiveAttempt` proves.

## Runs

| Run | Question | Bounds |
|---|---|---|
| `case_overlap` | do overlapping commands leave row, history, deadlines, replies and answers consistent? | 2 cases, 2 threads, 1 message, 1 moderator, 2 instants, history < 4 events when a command goes on |
| `delivery_retries` | do attempts implement `LogicalDelivery` and the retry policy? | 1 key, 2 workers, 2 competing identities, 2 attempts, delay 1, 3 instants |
| `sla_schedule` | do list and check agree, does what is due stay due, and what is suppressed stay away? | 1 case, 1 acknowledging thread, 1 command thread, thresholds at 1, 2 and 3 minutes in both waits, 4 instants |
| `workflow_due` | is everything due delivered and acknowledged in the end, once, whatever fails? | both watchdogs; 2 cases with their first reminder and 1 fault, or 1 case with two thresholds; 2 attempts |
| `workflow_request` | does a client request have its one effect, and is a retry concluded? | request workflow and recovery beside one command thread, 1 case, 2 attempts, 1 fault |
| `workflow_reply` | is a moderator notified of stored replies only; do commands one at a time implement `CaseLifecycle`? | reply workflow and recovery beside one command thread, 1 case, 2 messages, 1 moderator, history < 6 events |
| `case_reopened`, `case_deadline_left`, `delivery_lost_race`, `workflow_stopped`, `workflow_refused`, `workflow_starved` | counterexamples, below | as above, or smaller |

Two threads suffice for the case commands because each hazard is one call's
stale read against one commit; both calls may be any command, and up to five
commits can follow one another on one case. The bound `MaxHistory` stops a
command from going on when the history is full and lets it be rejected,
repeated or refused; four events reach `CLOSED` and `CANCELLED` by every route
and leave room for a reassignment. In `case_overlap` the second case is either
waiting for its client or cancelled when the run begins: it is there to receive
the same message id. Two attempts with a limit of two reach the
limit, the delay and the state past both. `RequestTimes` is what makes the delay
interesting: a retry may carry a time before the failure it follows. Threads,
cases, messages and moderators are interchangeable, so the runs without
liveness or fixed roles use symmetry.

Some runs begin with cases that are waiting already (`BesideSpec`,
`WaitingSpec`, `AnsweredSpec`): the rows and histories are those that creation,
the mark command and, in the last, a reply leave, with threads and attempts as
they were before anything was delivered; the bounds are spent on what follows.

An SLA action is any type with level 1, 2 or none, so invalid levels and
actions of the other wait are asked for too. Four instants take a wait from
its beginning through all its thresholds, and four events let a client be
reminded before the reply begins the other wait. `NoCatchUp` and
`DueUntilHandled` are stated for commands served one at a time: a second
`CLIENT_REQUEST_SENT` (disagreement 1) moves the deadline and with it every
threshold.

In the runs of the workflows there is one place for each workflow, so a run of
one overlaps a run of the other. They report to the same keys: the recovery
watchdog takes over what the first has failed at. The clock stops at `MaxClock`
and then nothing could become due for a retry, so the retry delay is 0 there;
`delivery_retries` has the delay. A key that does not come up in a run is
shared by all actions that do not. `workflow_due` has no moderators, because a
reassignment makes a reminder impossible to deliver and the others with it
(disagreement 6), and no command thread: the wait goes on. Its two scenarios
are separate because together they are too large to check; a fault there is at
any point of a run or call of two items. `workflow_starved` has both
moderators and a command thread, and begins when both reminders are due. The runs of the request and reply workflows are separate
for the same reason.

The runs check for deadlock, except those with the watchdogs (`workflow_due`)
which come to rest when nothing is due, no fault is left and the clock has
stopped; in the other runs of workflows somebody can always ask again.

### Disagreements with the documentation

1. `TransitionsAllowed` (run `case_reopened`): a transition is validated on
   the loaded row and written over whatever is stored. Two overlapping
   commands can record `CLIENT_REQUEST_SENT` twice, replace `CLOSED` by
   `CANCELLED`, or reopen a cancelled case.
   Status and history still agree (`AuditMatchesStatus`, proved): the history
   then shows the forbidden step. It takes two commands that overlap on one
   case, or a command and the report of a client request: without these the
   lifecycle is refined (`workflow_reply`, `WorkflowsFollowLifecycle`).
2. `FinishedHasNoDeadline` (`case_deadline_left`): a cancel that had loaded a
   case without deadlines leaves the one an overlapping command stored. The SLA
   query looks at the status too, so no reminder follows. It takes the same
   overlap (`SerialFinishedHasNoDeadline`).
3. `LostRaceIsAnswered` (`delivery_lost_race`): a start whose attempt another
   call has started *and completed* meanwhile re-raises the `IntegrityError`,
   which is answered as a persistence error (500).
4. `AttemptsConclude` (`workflow_stopped`): a request run that stops after
   starting a first attempt leaves it `PENDING`; no list offers it, and only the
   same webhook asked for again goes on with it. The first attempts of the SLA
   watchdog do not share this as long as every item of its list can be started:
   their action stays due, so the next poll asks for them again
   (`DueIsHandled`, and disagreement 6 where one cannot).
5. `RetriesEnd` (`workflow_refused`): the success of a client request is refused
   when the case has been cancelled meanwhile; a retry is then listed,
   transported and refused at every poll, without delay or end.
   `RetriesConclude` says what is left: it ends as long as the case can take
   the effect.
6. `OthersAreHandled` (`workflow_starved`): a reminder to a moderator that has
   been started is listed, after a reassignment, for the new moderator under the
   old key, and every start is refused for its identity
   (`RoutingMatchesDelivery` is false, although `test_sla.py` expects the list
   to name the current moderator and the key). The node that starts the
   attempts of the list fails with that one start, at every poll, and the
   answers for all other items are lost with it, in whatever order they were
   served. An attempt of theirs that was started stays `PENDING`, its number 1
   keeps it out of the recovery list, and none of them is transported or
   acknowledged while the reassigned reminder is due. That lasts until its next
   threshold (90 or 120 minutes later by the default settings, after which its
   key is another one), until its wait ends, until it is assigned to the former
   moderator again, or until the recovery watchdog, which sends to the recipient
   of the row, has delivered it, if its attempt has failed and not for good; the
   run stops the clock there, with as many polls as one likes. In the
   counterexample a run stops when it has started the reminders of two cases,
   and the moderator of one case is changed; without the change the polls after
   it deliver both.

## Fairness

The safety properties assume none. `DueIsHandled`, `RetriesConclude` and the
liveness of disagreements 4, 5 and 6 assume, for each place of a run, weak fairness
of "a watchdog is started, or the run and its calls go on". The schedule
triggers both watchdogs every minute, FastAPI serves each call on its own
thread and every statement ends, n8n executes the next node. Starting and going
on exclude each other, so one weakly fair action gives both. Nothing is assumed
of users and webhooks, of time (which need not pass), of the transport (either
outcome, at every attempt) or of faults, and of the order in which a node serves
its items.

`DueIsHandled` excepts what has failed `MaxAttempts` times: the recovery
watchdog lists it no longer, the start of the SLA watchdog (`allow_retry` false)
answers with the failed attempt (`failed_before`), and the action stays due. It
supposes that what is listed can be started (`RoutingMatchesDelivery`): a start
that fails once, or a stopped run, only delays the other items, one that is
refused at every poll starves them (disagreement 6).

## Proofs

| Theorem | States |
|---|---|
| `CaseTypeCorrect` | `CaseSpec => []TypeOK` |
| `StatusIsAudited` | `CaseSpec => []AuditMatchesStatus` |
| `WaitsAreWatched` | `CaseSpec => []WaitHasDeadline` |
| `DeliveryTypeCorrect` | `DeliverySpec => []DeliveryTypeOK` |
| `OneAttemptIsLive` | `DeliverySpec => []OneLiveAttempt` |
| `RetryLimitsHold` | `DeliverySpec => []RetriesAreLimited` |
| `KeysAreIdentities` | `DeliverySpec => []OneIdentityPerKey` |
| `DecisionsStayValid` | `DeliverySpec => []StartsStayJustified` |
| `RepliesAreRecordedOnce` | `CaseSpec => []RepliesMatchHistory` |
| `ModeratorIsAudited` | `CaseSpec => []ModeratorMatchesHistory` |
| `AnswersHold` | `CaseSpec => []AnswersAreDurable` |
| `SerialTransitionsAllowed` | `CaseSpec /\ []OneCommandPerCase => []TransitionsAllowed` |
| `SerialFinishedHasNoDeadline` | `CaseSpec /\ []OneCommandPerCase => []FinishedHasNoDeadline` |
| `SerialImplementsLifecycle` | `CaseSpec /\ []OneCommandPerCase => ImplementsLifecycle` |
| `SlaTypeCorrect` | `SlaSpec => []SlaTypeOK` |
| `ActionsAreAcknowledgedOnce` | `SlaSpec => []AcknowledgedOnce` |
| `AcksHaveTheirWait` | `SlaSpec => []AcksFollowTheirWait` |
| `QueryAgreesWithCheck` | `SlaSpec => []ListAgreesWithAck` |
| `SerialNoCatchUp` | `SlaSpec /\ []OneCommandPerCase => []NoCatchUp` |
| `SerialDueUntilHandled` | `SlaSpec /\ []OneCommandPerCase => DueUntilHandled` |
| `RowsAreFinal` | `DeliverySpec => ResultsAreFinal` |
| `RecoveryListIsRight` | `DeliverySpec => []ListAgreesWithStart` |
| `DeliveryImplementsLogical` | `DeliverySpec => ImplementsLogicalDelivery` |
| `AnswersLast` | `DeliverySpec => []ResultsAreDurable` |
| `HistoryTellsAttempts` | `DeliverySpec => []HistoryMatchesAttempts` |
| `EffectsAreLegal` | `DeliverySpec => EffectsRespectLifecycle` |
| `BackendStatusIsAudited` | `BackendSpec => []AuditMatchesStatus` |
| `BackendWaitsAreWatched` | `BackendSpec => []WaitHasDeadline` |
| `BackendAcknowledgesOnce` | `BackendSpec => []AcknowledgedOnce` |
| `BackendAcksHaveTheirWait` | `BackendSpec => []AcksFollowTheirWait` |
| `BackendTellsAttempts` | `BackendSpec => []HistoryMatchesAttempts` |
| `BackendAnswersHold` | `BackendSpec => [](AnswersAreDurable /\ RepliesMatchHistory)` |
| `BackendAttemptsLast` | `BackendSpec => [](ResultsAreDurable /\ OneLiveAttempt /\ RetriesAreLimited /\ OneIdentityPerKey)` |
| `BackendModeratorIsAudited` | `BackendSpec => []ModeratorMatchesHistory` |
| `BackendRowsAreFinal` | `BackendSpec => ResultsAreFinal` |
| `BackendImplementsLogical` | `BackendSpec => ImplementsLogicalDelivery` |
| `BackendStartsAreJustified` | `BackendSpec => [](StartsStayJustified /\ ListAgreesWithStart)` |
| `BackendEffectsAreLegal` | `BackendSpec => EffectsRespectLifecycle` |
| `BackendQueryAgrees` | `BackendSpec => []ListAgreesWithAck` |
| `BackendStoriesAreLegal` | `BackendSpec /\ []NoOverlap => [](TransitionsAllowed /\ FinishedHasNoDeadline /\ NoCatchUp)` |
| `BackendImplementsLifecycle` | `BackendSpec /\ []NoOverlap => ImplementsLifecycle` |
| `BackendDueUntilHandled` | `BackendSpec /\ []NoOverlap => DueUntilHandled` |
| `WorkflowsUseBackend` | `WorkflowSpec => BackendSpec` |
| `WorkflowTypesHold` | `WorkflowSpec => []WorkflowTypeOK` |
| `WorkflowsAcknowledgeDelivered` | `WorkflowSpec => []AckedWasDelivered` |
| `WorkflowsReportAlike` | `WorkflowSpec => []ReportsAgree` |
| `WorkflowsNotifyOfStored` | `WorkflowSpec => []NotifiedOfStoredReply` |
| `BackendHoldsBesideWorkflows` | `WorkflowSpec =>` the fifteen state properties proved of `BackendSpec` |
| `WorkflowsDeliverAsPromised` | `WorkflowSpec => ResultsAreFinal /\ ImplementsLogicalDelivery /\ EffectsRespectLifecycle` |
| `WorkflowsFollowLifecycle` | `WorkflowSpec /\ []NoOverlap =>` the five properties proved under that hypothesis |

They hold for all sets of cases, keys, threads, messages, moderators and
recipients and for all settings that `Settings.__post_init__` accepts. The
assumptions are: SLA minutes positive, attempt limit positive, retry delay and
bounds natural, what is asked for is a delivery, and `None` is none of the values
it is told apart from: a number, a case, a row, a status, an answer, the key and
number of an attempt, or an item of a run. For the workflows they add that the
backend takes a start of any delivery (`AnyDeliveryAssumption`), that the tables
of keys, recipients and message ids have a value for everything they are looked
up for, and that no other key is that of a notification
(`NotificationKeysAssumption`): a key is built from what it is for, the case id
and the message id, and case ids have no separator in them. That the key of a
reminder and of a client request differ is not assumed. TLC evaluates the
assumptions in the runs.

**Cases.** `StatusIsAudited`: a transaction stores a status and its event
together and appends, and an event that reports no status does not come with a
change of status; so the invariant is inductive with the types.
`WaitsAreWatched` is inductive because each row is built over the stored one:
whatever row was loaded, the write that enters a wait also sets its deadline,
and a deadline is only cleared by a write that leaves that wait.

The lemmas of `CaseHistory_proofs` sort the steps by what they add to a history:
nothing, or one event of a type that the command has (`Added`). A property of
one type of event then needs only the step that adds it.
`RepliesAreRecordedOnce` counts places: the unique index lets a reply be
stored only for an id that has no event yet, and other events leave the count.
`ModeratorIsAudited` needs `ModeratorOK`: a case that is not stored has no
history, and the last `MODERATOR_CHANGED` names the moderator of the row. Its
hard case is a reassignment that had loaded an older row: it writes its own
moderator whenever it records an event. `AnswersHold` needs `AnswersOK`, which
gives the trace of every promise a call has made; "already" has it from
`AuditMatchesStatus` (the status the command leads to is reported by some event)
or, for a repeated reply, from `RepliesMatchHistory`; and histories only grow.

**Acknowledgements.** `ActionsAreAcknowledgedOnce` counts like the replies: the
deduplication index is looked at when the event is stored. `AcksHaveTheirWait`
needs `WaitOK`: the row an acknowledgement has loaded may be an old one, but the
event with which its wait began (`Begun`, from `AuditMatchesStatus` at the
time of loading) is still in the history when the acknowledgement comes behind
it. `QueryAgreesWithCheck` is not about steps: it follows from the types and
from the arithmetic of the thresholds, whichever the minutes are.

**Commands that do not overlap on a case.** `TransitionsAllowed` and
`FinishedHasNoDeadline` are false of the code (disagreements 1 and 2), and
with them `ImplementsLifecycle`, `NoCatchUp` and `DueUntilHandled`, which
count on one beginning of each wait. The theorems say when they are true: as
long as no two commands are *under way*, from their first read to their commit
or rollback, on the same case (`OneCommandPerCase`), and, in the whole backend,
no command while a worker is about to commit a report on a request to the client
of that case (`NoReportBesideCommand`; together `NoOverlap`). Commands on
different cases, reports with each other, other deliveries and acknowledgements
overlap as they like, and calls may still fail, stop and be repeated. Nothing in
the code enforces the hypothesis, a lock per case would; the counterexamples of
`case_reopened` and `case_deadline_left` show that its part on commands cannot
be left out. It is met in every state of `sla_schedule` and `workflow_reply`, which have one
command thread and no client requests, so these runs check the properties
without assuming it.

`SerialInv` is the inductive invariant. `LoadsFresh`: what a command under way has
loaded is what is stored, so its decision is about the stored row. A commit is then a step of
the story (`StoryStep`): at most one case appears or moves, by an allowed
transition, with exactly one event that reports it and the deadlines of its
new status; every other case stays. `StoryOK` adds what each step keeps:
successive status events are allowed transitions (`Legal`), everything reported
lies behind the present status (`Behind`), so that no status is entered twice, and
the deadlines are those of the status (`Timed`). `ImplementsLifecycle` is
`StoryStep` read through the mapping: `Behind` gives the count of zero with
which `Enter` begins.

For the SLA, `SerialSlaInv` adds `AcksTimely`, that what is acknowledged of the
wait a case is in had been reached, and `AcksCurrent`, that an acknowledgement
under way has loaded the deadline of the present wait, or its wait is over. The first
is not inductive without the second, since it is the loaded deadline that is
compared. `NoCatchUp` and `DueUntilHandled` follow with `ListedIsAcceptable`.
In the whole backend a worker's step, too, is a step of the story
(`WorkerStory`), since a report rereads the case in its transaction;
`NoReportBesideCommand` is needed only so that it does not make a command's load
stale.

**Attempts.** The four properties of `DeliveryService_proofs` are proved
together (`AttemptsOK`), since none is inductive alone: a start that is staged
carries a decision about rows, and inserting its attempt keeps `OneLiveAttempt`
and `RetriesAreLimited` only if that decision still holds
(`StartsStayJustified`), which in turn needs that the failed attempt before it
stays as it is. The case commands do not touch the attempts, so their steps
leave the invariant alone.

From `AttemptsOK`, `StepOnRows` shows that a step does one of three things to
the rows: it adds a pending one behind a failed one and below the limit
(`Adds`), gives the last, pending one its result (`Completes`), or leaves them.
`RowsAreFinal` and `DeliveryImplementsLogical` are this, read as an action
property and as steps of `LogicalDelivery`. `RecoveryListIsRight` needs
`ResultsAreDated` (a row that is not pending has the time of its result) to
compare the subtraction of the query with the addition of the command.
`AnswersLast` needs `AnswersStand`, which adds what else an answer relies on, and
that rows go on. `HistoryTellsAttempts` needs `HistoryOK`: of every key, number
and type the history has the event as often as the row calls for, which for a
row that does not exist is never; only then does a new row begin with a count of
zero. `EffectsAreLegal` is a property of steps: the effect of a result is
computed from the stored row.

**The backend.** A step of `Backend` is that of a command, a worker or a watcher
(`BackendSteps`). `Backend_proofs` takes the lemmas above for the steps each was
made for, and asks only what the others leave alone: a worker writes one event
of an attempt, and moves a case only to `WAITING_CLIENT` and with the event that
says so (`Writes`); it adds no acknowledgement, a watcher adds nothing else, and
no command adds either. So the audit also holds where deliveries and commands
move the same case, and the wait an acknowledgement needs may have been
begun by a delivery. `BackendInv` joins the invariants: `CommandsOK` (what
commands were answered), `AttemptsOK` and `AnswersStand` (what delivery calls were),
with audit, deadlines and types. `BackendAnswersHold` and `BackendAttemptsLast` are read
off it. Results, the refinement of `LogicalDelivery`, the recovery list and the
effects carry over because an acknowledgement touches neither attempts nor jobs
(`StepsOnAttempts`); `ModeratorOK` because a delivery that writes the row
leaves its moderator.

**The workflows.** `WorkflowsUseBackend` says that the workflows are clients of
the backend: `WorkflowSteps` takes each of their steps for a step of `Backend`
with arguments its routes accept, or for none. This is not free: a report is such
a call only if the item names an attempt within the limit, an acknowledgement only
if the item still has its action. So `WorkflowInv` adds to `BackendInv` what every
run, call and acknowledgement has in hand:

- `ItemStands`: an item past its start names an attempt there is; one at its
  acknowledgement has a succeeded attempt under the key of its action;
- `Serves`: the call under way is that of the item served, or of a run that has
  stopped and left it behind;
- `JobStands`: a report has the message id that the transport computes for the
  attempt, and was in conflict only with the other outcome;
- `AckStands`: an acknowledgement that goes on was asked for after an attempt had
  succeeded, also when its run is gone;
- `RowsStand`: a success has the transport's message id; a key with attempts was
  `Earned`, which for the key of a notification means that its reply is stored.

None of this is inductive alone. `AckedWasDelivered` needs that what a run was
told by `start` or `result` stays true until another thread stores the
acknowledgement; rows go on (`RowsGoOn`) and results are final, so it does.
`NotifiedOfStoredReply` looks backwards through the recovery watchdog, which takes
keys from the rows alone: only because every row was earned when it was started is
a retry of a notification earned too. `ReportsAgree` needs that two
runs compute the id from the attempt, and that nobody else reports.
`BackendHoldsBesideWorkflows` then carries what is proved of the backend over.

Only model-checked: liveness (`DueIsHandled`, `RetriesConclude`), because the
proof system does not handle fairness. Every other property of the passing runs is
proved for all values of the constants: `NoCatchUp`, `DueUntilHandled` and
`ImplementsLifecycle` under the hypothesis above, the others without one. The
six counterexamples stay with TLC.

## Plan

1. Done: `Store`, `CaseService`, `CaseLifecycle`, `DeliveryService`,
   `LogicalDelivery`, their runs, the theorems above.
2. Done: `SlaService` on `Store`; `Backend`; `Workflows`, with liveness.
3. Done: the properties of cases, deliveries and acknowledgements proved, with
   the refinement of `LogicalDelivery`.
4. Done: audit, deadlines, acknowledgements and the events of attempts proved
   for the whole `Backend`.
5. Done: the workflows proved to be clients of the backend, with all that is
   model-checked of their safety.
6. Done: the lifecycle, no catch-up and what is due proved of cases whose commands
   do not overlap, in the whole backend and beside the workflows; the
   delivery properties carried over to both.

## Not modelled

- Message texts, references, actors, reasons and `updated_at`: no decision
  reads them. Idempotency keys and message ids are atomic, so what their text
  does in a URL is not seen.
- Validation of shapes by the schemas: arguments are well formed, but for the
  empty recipient of a notification.
- Reading settings from the environment; start-up, health endpoint, import of
  workflows and containers.
- A list is read at one instant: the code reads the cases, then the events of
  each, so what it returns may be as old as its first read. A start decides
  again on what it finds, so this adds no behaviour of the backend.
