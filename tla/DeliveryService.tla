--------------------------- MODULE DeliveryService --------------------------
(***************************************************************************)
(* DeliveryService: the attempts to deliver a message for a case, beside   *)
(* the case commands, on the same database.                                *)
(*                                                                         *)
(* A transport client asks to start an attempt under an idempotency key,   *)
(* delivers, and reports the result.  Each call reads first, outside a     *)
(* transaction, and writes in one transaction: starting relies on the      *)
(* unique index (idempotency_key, attempt_number), reporting on an UPDATE  *)
(* that only takes a PENDING row.                                          *)
(***************************************************************************)
EXTENDS CaseService

CONSTANTS
  Workers,         \* threads that serve delivery calls
  Recipients,
  Deliveries,      \* what clients ask for: a case, a delivery type, a recipient
  ExternalIds,     \* message ids the transport may report
  MaxAttempts,     \* settings.delivery_max_attempts
  RetryDelay       \* settings.delivery_retry_delay_minutes

DeliveryType ==
  {"CLIENT_REQUEST", "MODERATOR_NOTIFICATION", "CLIENT_REMINDER",
   "MODERATOR_REMINDER", "ESCALATION"}

Identity == [case : Cases, type : DeliveryType, recipient : Recipients]

ASSUME DeliveriesAssumption == Deliveries \subseteq Identity
ASSUME RetryAssumption == MaxAttempts \in Nat \ {0} /\ RetryDelay \in Nat

VARIABLES
  attempts,        \* table delivery_attempts: per key, in attempt_number order
  jobs             \* the call each worker is serving

deliveryVars == <<clock, cases, history, replies, calls, attempts, jobs>>

\* The attempt_number of a row is its place in the sequence.
Attempt ==
  [delivery : Identity, status : {"PENDING", "SUCCEEDED", "FAILED"},
   externalId : ExternalIds \cup {None},
   createdAt : Nat, completedAt : Nat \cup {None}]

NoJob ==
  [phase |-> "idle", op |-> None, key |-> None, delivery |-> None, number |-> 0,
   outcome |-> None, externalId |-> None, now |-> 0, answer |-> None]

JobAnswers ==
  {"applied", "already", "completed", "pending", "failed_before", "exhausted",
   "not_due", "identity_conflict", "conflict", "not_found", "invalid",
   "rejected", "failed", "persistence_error"}

ASSUME NoJobAnswerAssumption == None \notin JobAnswers

Job ==
  [phase : {"idle", "staged", "answered"}, op : {"start", "result", None},
   key : Keys \cup {None}, delivery : Identity \cup {None}, number : Nat,
   outcome : {"PENDING", "SUCCEEDED", "FAILED", None},
   externalId : ExternalIds \cup {None}, now : Nat, answer : JobAnswers \cup {None}]

-----------------------------------------------------------------------------
(* What the rows of a key say. *)

Last(k) == attempts[k][Len(attempts[k])]

\* Some attempt, not only the last, is checked for success.
Succeeded(k) == \E n \in DOMAIN attempts[k] : attempts[k][n].status = "SUCCEEDED"

Open(k) == attempts[k] # << >> /\ ~Succeeded(k) /\ Last(k).status = "PENDING"
Broken(k) == attempts[k] # << >> /\ ~Succeeded(k) /\ Last(k).status = "FAILED"

\* A fault: one attempt too many.
ExhaustedLate(k) == Len(attempts[k]) > MaxAttempts
Exhausted(k) == Len(attempts[k]) >= MaxAttempts

\* A fault: the instant the delay ends is still too early.
RetryDueLate(k, now) == now > Last(k).completedAt + RetryDelay
RetryDue(k, now) == now >= Last(k).completedAt + RetryDelay

\* A fault: the key alone is taken to identify the delivery.
SameDeliveryByKey(k, d) == TRUE

\* _validate_identity, of the first row.
SameDelivery(k, d) == attempts[k] # << >> => attempts[k][1].delivery = d

\* A fault: a retry that was left pending is not found again.
RetryableIfFailed(k, now) ==
  Broken(k) /\ Last(k).completedAt <= now - RetryDelay /\ ~Exhausted(k)

(***************************************************************************)
(* get_retryable_latest_attempts: the query behind the recovery workflow's *)
(* list, which decides for itself what can be tried again.                 *)
(***************************************************************************)
Retryable(k, now) ==
  /\ attempts[k] # << >>
  /\ ~Succeeded(k)
  /\ \/ /\ Last(k).status = "FAILED"
        /\ Last(k).completedAt # None
        /\ Last(k).completedAt <= now - RetryDelay
        /\ Len(attempts[k]) < MaxAttempts
     \/ Last(k).status = "PENDING" /\ Len(attempts[k]) > 1

-----------------------------------------------------------------------------
(* start_delivery_attempt *)

\* The call ends; nothing depends on its time any more.
Answer(w, job, answer) ==
  jobs' = [jobs EXCEPT ![w] =
             [job EXCEPT !.phase = "answered", !.now = 0, !.answer = answer]]

Stage(w, job) == jobs' = [jobs EXCEPT ![w] = [job EXCEPT !.phase = "staged"]]

StartJob(k, d, number, now) ==
  [NoJob EXCEPT !.op = "start", !.key = k, !.delivery = d, !.number = number,
                !.now = now]

\* Refused before the attempts are looked at, or because of their identity.
RefuseStart(w, k, d, now) ==
  \/ cases[d.case] = None /\ Answer(w, StartJob(k, d, 0, now), "not_found")
  \/ /\ cases[d.case] # None /\ ~SameDelivery(k, d)
     /\ Answer(w, StartJob(k, d, 0, now), "identity_conflict")

\* Answered with an attempt there is.
ReuseAttempt(w, k, d, allowRetry, now) ==
  LET job == StartJob(k, d, Len(attempts[k]), now)
  IN \/ Succeeded(k) /\ Answer(w, job, "completed")
     \/ Open(k) /\ Answer(w, job, "pending")
     \/ Broken(k) /\ ~allowRetry /\ Answer(w, job, "failed_before")

\* A failed delivery is tried again at most MaxAttempts - 1 times, RetryDelay apart.
DecideRetry(w, k, d, now) ==
  /\ Broken(k)
  /\ \/ Exhausted(k) /\ Answer(w, StartJob(k, d, 0, now), "exhausted")
     \/ ~Exhausted(k) /\ ~RetryDue(k, now) /\ Answer(w, StartJob(k, d, 0, now), "not_due")
     \/ /\ ~Exhausted(k) /\ RetryDue(k, now)
        /\ Stage(w, StartJob(k, d, Len(attempts[k]) + 1, now))

ReceiveStart(w, k, d, allowRetry, now) ==
  /\ jobs[w].phase = "idle"
  /\ \/ RefuseStart(w, k, d, now)
     \/ /\ cases[d.case] # None /\ SameDelivery(k, d)
        /\ \/ attempts[k] = << >> /\ Stage(w, StartJob(k, d, 1, now))
           \/ ReuseAttempt(w, k, d, allowRetry, now)
           \/ allowRetry /\ DecideRetry(w, k, d, now)
  /\ UNCHANGED <<storeVars, calls, attempts>>

\* A fault: there is no unique index on (idempotency_key, attempt_number).
NumberAlwaysFree(k, number) == TRUE

\* The attempt number the call has chosen is not in use yet.
NumberFree(k, number) == number > Len(attempts[k])

\* The row is inserted; a retry is also an event of the case.
InsertAttempt(w) ==
  LET job == jobs[w]  k == job.key  c == job.delivery.case
  IN /\ NumberFree(k, job.number)
     /\ attempts' = [attempts EXCEPT ![k] =
          Append(@, [delivery |-> job.delivery, status |-> "PENDING",
                     externalId |-> None, createdAt |-> job.now,
                     completedAt |-> None])]
     /\ history' =
          IF job.number > 1
          THEN [history EXCEPT ![c] =
                  Append(@, Event("DELIVERY_RETRIED", <<k, job.number>>))]
          ELSE history
     /\ Answer(w, job, "applied")

\* The unique index refuses the row: another call has started this attempt.
\* If it has been completed as well, the IntegrityError is raised again.
LoseStart(w) ==
  LET job == jobs[w]  winner == attempts[job.key][job.number]
  IN /\ ~NumberFree(job.key, job.number)
     /\ \/ winner.delivery # job.delivery /\ Answer(w, job, "identity_conflict")
        \/ /\ winner.delivery = job.delivery /\ winner.status = "PENDING"
           /\ Answer(w, job, "pending")
        \/ /\ winner.delivery = job.delivery /\ winner.status # "PENDING"
           /\ Answer(w, job, "persistence_error")
     /\ UNCHANGED <<attempts, history>>

CommitStart(w) ==
  /\ jobs[w].phase = "staged" /\ jobs[w].op = "start"
  /\ InsertAttempt(w) \/ LoseStart(w)
  /\ UNCHANGED <<clock, cases, replies, calls>>

-----------------------------------------------------------------------------
(* complete_delivery_attempt *)

ResultJob(k, n, outcome, ext, now) ==
  [NoJob EXCEPT !.op = "result", !.key = k, !.number = n, !.outcome = outcome,
                !.externalId = ext, !.now = now]

\* _completed_result: the same result again, or another one.
SameResult(row, outcome, ext) ==
  /\ row.status = outcome
  /\ outcome = "SUCCEEDED" /\ ext # None => row.externalId = ext

AnswerCompleted(w, job) ==
  LET same == SameResult(attempts[job.key][job.number], job.outcome, job.externalId)
  IN \/ same /\ Answer(w, job, "already")
     \/ ~same /\ Answer(w, job, "conflict")

ReceiveResult(w, k, n, outcome, ext, now) ==
  /\ jobs[w].phase = "idle"
  /\ LET job == ResultJob(k, n, outcome, ext, now)  known == n \in DOMAIN attempts[k]
     IN \/ outcome = "PENDING" /\ Answer(w, job, "invalid")
        \/ outcome # "PENDING" /\ ~known /\ Answer(w, job, "not_found")
        \/ /\ outcome # "PENDING" /\ known
           /\ attempts[k][n].status # "PENDING"
           /\ AnswerCompleted(w, job)
        \/ /\ outcome # "PENDING" /\ known
           /\ attempts[k][n].status = "PENDING"
           /\ Stage(w, job)
  /\ UNCHANGED <<storeVars, calls, attempts>>

\* A fault: the UPDATE takes a completed row too.
PendingUnchecked(k, n) == TRUE

\* The row the UPDATE of transition_pending_attempt finds.
StillPending(k, n) == attempts[k][n].status = "PENDING"

\* A fault: the time stored is the query's completed_by.
CompletedByRow(row, job) ==
  [row EXCEPT !.status = job.outcome, !.completedAt = job.now - RetryDelay]
CompletedRow(row, job) ==
  [row EXCEPT !.status = job.outcome, !.completedAt = job.now,
              !.externalId = IF job.outcome = "SUCCEEDED" THEN job.externalId ELSE None]

CompleteRow(job) ==
  attempts' = [attempts EXCEPT ![job.key][job.number] = CompletedRow(@, job)]

\* A fault: the event is forgotten.
RecordNothing(c, type, job) == UNCHANGED history

Record(c, type, job) ==
  history' = [history EXCEPT ![c] = Append(@, Event(type, <<job.key, job.number>>))]

\* A fault: the effect is applied whatever the case has become.
EffectAlwaysAllowed(delivery) == TRUE

\* The effect needs a case in this status; other deliveries have none.
EffectAllowed(delivery) ==
  /\ delivery.type = "CLIENT_REQUEST" =>
       Allowed(cases[delivery.case].status, "WAITING_CLIENT")
  /\ delivery.type = "MODERATOR_NOTIFICATION" =>
       cases[delivery.case].status = "WAITING_MODERATOR"

(***************************************************************************)
(* _apply_successful_delivery_effect.  Refreshing the attempt drops the    *)
(* case it had loaded, so the case is read again inside the transaction:   *)
(* the row that is written is the stored one.                              *)
(***************************************************************************)
ApplyEffect(delivery, job) ==
  LET c == delivery.case
  IN \/ /\ delivery.type = "CLIENT_REQUEST"
        /\ cases' = [cases EXCEPT ![c] = SentRow(@, @, job.now)]
        /\ Record(c, "CLIENT_REQUEST_SENT", job)
     \/ /\ delivery.type = "MODERATOR_NOTIFICATION"
        /\ Record(c, "MODERATOR_NOTIFIED", job)
        /\ UNCHANGED cases
     \/ /\ delivery.type \notin {"CLIENT_REQUEST", "MODERATOR_NOTIFICATION"}
        /\ UNCHANGED <<cases, history>>

\* Another call has completed the attempt since this one looked.
LoseResult(w) ==
  /\ ~StillPending(jobs[w].key, jobs[w].number)
  /\ AnswerCompleted(w, jobs[w])
  /\ UNCHANGED <<cases, history, attempts>>

RecordFailure(w) ==
  LET job == jobs[w]
  IN /\ StillPending(job.key, job.number) /\ job.outcome = "FAILED"
     /\ CompleteRow(job)
     /\ Record(attempts[job.key][job.number].delivery.case, "DELIVERY_FAILED", job)
     /\ Answer(w, job, "applied")
     /\ UNCHANGED cases

\* An effect the case does not allow undoes the whole transaction: still PENDING.
RecordSuccess(w) ==
  LET job == jobs[w]  delivery == attempts[job.key][job.number].delivery
  IN /\ StillPending(job.key, job.number) /\ job.outcome = "SUCCEEDED"
     /\ \/ /\ EffectAllowed(delivery)
           /\ CompleteRow(job)
           /\ ApplyEffect(delivery, job)
           /\ Answer(w, job, "applied")
        \/ /\ ~EffectAllowed(delivery)
           /\ Answer(w, job, "rejected")
           /\ UNCHANGED <<cases, history, attempts>>

CommitResult(w) ==
  /\ jobs[w].phase = "staged" /\ jobs[w].op = "result"
  /\ LoseResult(w) \/ RecordFailure(w) \/ RecordSuccess(w)
  /\ UNCHANGED <<clock, replies, calls>>

-----------------------------------------------------------------------------
\* Lock timeout, exception or crash before the commit: nothing is stored.
AbortJob(w) ==
  /\ jobs[w].phase = "staged"
  /\ Answer(w, jobs[w], "failed")
  /\ UNCHANGED <<storeVars, calls, attempts>>

ReturnJob(w) ==
  /\ jobs[w].phase = "answered"
  /\ jobs' = [jobs EXCEPT ![w] = NoJob]
  /\ UNCHANGED <<storeVars, calls, attempts>>

DeliveryInit ==
  /\ CaseInit
  /\ attempts = [k \in Keys |-> << >>]
  /\ jobs = [w \in Workers |-> NoJob]

DeliveryStep(w) ==
  \/ \E k \in Keys, d \in Deliveries, allowRetry \in BOOLEAN, now \in RequestTimes :
       ReceiveStart(w, k, d, allowRetry, now)
  \/ \E k \in Keys, n \in 1..MaxAttempts, ext \in ExternalIds \cup {None},
        outcome \in {"PENDING", "SUCCEEDED", "FAILED"}, now \in RequestTimes :
       ReceiveResult(w, k, n, outcome, ext, now)
  \/ CommitStart(w) \/ CommitResult(w) \/ AbortJob(w) \/ ReturnJob(w)

DeliveryNext ==
  \/ CaseNext /\ UNCHANGED <<attempts, jobs>>
  \/ \E w \in Workers : DeliveryStep(w)

DeliverySpec == DeliveryInit /\ [][DeliveryNext]_deliveryVars

-----------------------------------------------------------------------------
(***************************************************************************)
(* Type correctness.  A staged start names a stored case; a staged result  *)
(* names an attempt there is.                                              *)
(***************************************************************************)
JobOK(job) ==
  job.phase = "staged" =>
    /\ job.key \in Keys
    /\ job.op \in {"start", "result"}
    /\ job.op = "start" => /\ job.delivery \in Identity
                          /\ cases[job.delivery.case] # None
                          /\ job.number \in 1..(Len(attempts[job.key]) + 1)
    /\ job.op = "result" => /\ job.number \in DOMAIN attempts[job.key]
                           /\ job.outcome \in {"SUCCEEDED", "FAILED"}

DeliveryTypeOK ==
  /\ TypeOK
  /\ attempts \in [Keys -> Seq(Attempt)]
  /\ jobs \in [Workers -> Job]
  /\ \A k \in Keys : \A n \in DOMAIN attempts[k] : cases[attempts[k][n].delivery.case] # None
  /\ \A w \in Workers : JobOK(jobs[w])

-----------------------------------------------------------------------------
(* Properties of the attempts. *)

(***************************************************************************)
(* A logical delivery has one live attempt: every attempt but the last has *)
(* FAILED, so nothing is started beside a pending or a succeeded attempt   *)
(* however starts and results overlap.                                     *)
(***************************************************************************)
OneLiveAttempt ==
  \A k \in Keys : \A n \in DOMAIN attempts[k] :
    n < Len(attempts[k]) => attempts[k][n].status = "FAILED"

(***************************************************************************)
(* "A fixed retry delay and a maximum-attempt limit": no more attempts     *)
(* than allowed, each at least RetryDelay after the one before it failed.  *)
(***************************************************************************)
RetriesAreLimited ==
  \A k \in Keys :
    /\ Len(attempts[k]) <= MaxAttempts
    /\ \A n \in 2..Len(attempts[k]) :
         attempts[k][n].createdAt >= attempts[k][n-1].completedAt + RetryDelay

\* All attempts under a key are for the same case, type and recipient.
OneIdentityPerKey ==
  \A k \in Keys : \A i, j \in DOMAIN attempts[k] :
    attempts[k][i].delivery = attempts[k][j].delivery

\* The business event of a delivery that succeeded.
EffectEvents == [CLIENT_REQUEST |-> "CLIENT_REQUEST_SENT",
                 MODERATOR_NOTIFICATION |-> "MODERATOR_NOTIFIED"]

\* How often a case's history has the event of an attempt.
Times(c, type, k, n) ==
  Cardinality({i \in DOMAIN history[c] : history[c][i] = Event(type, <<k, n>>)})

(***************************************************************************)
(* The history tells exactly what the attempts say: each failure, each     *)
(* retry and each business effect of a success has one event, and no event *)
(* is there for anything else ("a successful delivery produces its         *)
(* business effect once").                                                 *)
(***************************************************************************)
HistoryMatchesAttempts ==
  \A k \in Keys : \A n \in DOMAIN attempts[k] :
    LET row == attempts[k][n]  c == row.delivery.case
    IN /\ Times(c, "DELIVERY_FAILED", k, n) = IF row.status = "FAILED" THEN 1 ELSE 0
       /\ Times(c, "DELIVERY_RETRIED", k, n) = IF n > 1 THEN 1 ELSE 0
       /\ \A type \in DOMAIN EffectEvents :
            Times(c, EffectEvents[type], k, n) =
              IF row.status = "SUCCEEDED" /\ row.delivery.type = type THEN 1 ELSE 0

(***************************************************************************)
(* The recovery list and the start command agree, at every moment and at   *)
(* the limits of the delay: a listed delivery would be given an attempt,   *)
(* and a failed delivery that would be given one is listed.                *)
(***************************************************************************)
ListAgreesWithStart ==
  \A k \in Keys, now \in RequestTimes :
    Retryable(k, now) <=>
      \/ Broken(k) /\ ~Exhausted(k) /\ RetryDue(k, now)
      \/ Open(k) /\ Len(attempts[k]) > 1

\* A staged start may go on.
Justified(job) ==
  (job.phase = "staged" /\ job.op = "start") =>
    /\ job.number <= MaxAttempts
    /\ job.number > 1 =>
         LET before == attempts[job.key][job.number - 1]
         IN /\ before.status = "FAILED"
            /\ job.now >= before.completedAt + RetryDelay
            /\ before.delivery = job.delivery

(***************************************************************************)
(* What a start has decided on when it read stays true until it commits,   *)
(* whatever others do meanwhile: the number is within the limit, the       *)
(* attempt before it has failed long enough ago, and is the same delivery. *)
(***************************************************************************)
StartsStayJustified == \A w \in Workers : Justified(jobs[w])

(***************************************************************************)
(* What a worker has answered is still so: a start that names an attempt   *)
(* names one of that delivery, a result that is applied, or was already,   *)
(* is the stored one.                                                      *)
(***************************************************************************)
ResultsAreDurable ==
  \A w \in Workers :
    LET job == jobs[w]  row == attempts[job.key][job.number]
    IN job.answer \in {"applied", "already", "pending", "completed", "failed_before"} =>
         /\ job.number \in DOMAIN attempts[job.key]
         /\ job.op = "start" => row.delivery = job.delivery
         /\ job.answer = "completed" => row.status = "SUCCEEDED"
         /\ job.op = "result" => row.status = job.outcome

(***************************************************************************)
(* A start that loses the race for its attempt is answered like a repeated *)
(* one ("idempotent ... delivery start/result commands"), not by an error. *)
(***************************************************************************)
LostRaceIsAnswered == \A w \in Workers : jobs[w].answer # "persistence_error"

(***************************************************************************)
(* Whatever commands overlap with it, a delivery moves a case only as the  *)
(* state machine allows from the status stored at that moment, and         *)
(* notifies a moderator only for a case that waits for one.                *)
(***************************************************************************)
EffectsRespectLifecycle ==
  [][\A c \in Cases :
       (jobs' # jobs /\ Len(history'[c]) > Len(history[c])) =>
         /\ cases'[c].status # cases[c].status =>
              Allowed(cases[c].status, cases'[c].status)
         /\ history'[c][Len(history'[c])].type = "MODERATOR_NOTIFIED" =>
              cases[c].status = "WAITING_MODERATOR"]_deliveryVars

(***************************************************************************)
(* Attempts are never lost and a result is never changed: a step may add a *)
(* row or complete a pending one, and nothing else.                        *)
(***************************************************************************)
ResultsAreFinal ==
  [][\A k \in Keys : \A n \in DOMAIN attempts[k] :
       /\ n \in DOMAIN attempts'[k]
       /\ attempts[k][n].status # "PENDING" => attempts'[k][n] = attempts[k][n]]_deliveryVars
=============================================================================
