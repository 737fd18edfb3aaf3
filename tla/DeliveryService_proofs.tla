----------------------- MODULE DeliveryService_proofs -----------------------
(***************************************************************************)
(* Type correctness of DeliveryService and what its attempts keep, for     *)
(* every number of workers, keys, deliveries, attempts and minutes, with   *)
(* any number of case commands running beside them.                        *)
(***************************************************************************)
EXTENDS DeliveryService, CaseService_proofs

-----------------------------------------------------------------------------
(* What every step leaves: rows and cases are never removed. *)

NothingRemoved ==
  /\ \A c \in Cases : cases[c] # None => cases'[c] # None
  /\ \A k \in Keys : Len(attempts[k]) <= Len(attempts'[k])

\* The conjuncts of DeliveryTypeOK that speak of the tables only.
TablesOK ==
  /\ TypeOK
  /\ attempts \in [Keys -> Seq(Attempt)]
  /\ \A k \in Keys : \A n \in DOMAIN attempts[k] :
       cases[attempts[k][n].delivery.case] # None

\* Type correctness, as that of the tables and that of the delivery calls.
LEMMA TypeParts == DeliveryTypeOK <=> /\ TablesOK
                                      /\ jobs \in [Workers -> Job]
                                      /\ \A w \in Workers : JobOK(jobs[w])
  BY DEF DeliveryTypeOK, TablesOK

\* A free worker holds a call.
LEMMA NoJobType == NoJob \in Job /\ NoJob.phase = "idle"
  BY DEF NoJob, Job

\* A staged call stays well formed when rows and cases are added.
LEMMA JobStaysOK ==
  ASSUME DeliveryTypeOK, attempts' \in [Keys -> Seq(Attempt)], NothingRemoved,
         NEW job \in Job, JobOK(job)
  PROVE  /\ job.phase = "staged" =>
              /\ job.key \in Keys /\ job.op \in {"start", "result"}
              /\ job.op = "start" => /\ job.delivery \in Identity
                                     /\ cases'[job.delivery.case] # None
                                     /\ job.number \in 1..(Len(attempts'[job.key]) + 1)
              /\ job.op = "result" => /\ job.number \in DOMAIN attempts'[job.key]
                                      /\ job.outcome \in {"SUCCEEDED", "FAILED"}
<1> SUFFICES ASSUME job.phase = "staged"
             PROVE  /\ job.key \in Keys /\ job.op \in {"start", "result"}
                    /\ job.op = "start" => /\ job.delivery \in Identity
                                           /\ cases'[job.delivery.case] # None
                                           /\ job.number \in 1..(Len(attempts'[job.key]) + 1)
                    /\ job.op = "result" => /\ job.number \in DOMAIN attempts'[job.key]
                                            /\ job.outcome \in {"SUCCEEDED", "FAILED"}
  OBVIOUS
<1>1. job.key \in Keys /\ job.op \in {"start", "result"}
  BY DEF JobOK
<1>2. /\ attempts[job.key] \in Seq(Attempt) /\ attempts'[job.key] \in Seq(Attempt)
      /\ Len(attempts[job.key]) <= Len(attempts'[job.key])
  BY <1>1 DEF DeliveryTypeOK, NothingRemoved
<1>3. ASSUME job.op = "start"
      PROVE  /\ job.delivery \in Identity
             /\ cases'[job.delivery.case] # None
             /\ job.number \in 1..(Len(attempts'[job.key]) + 1)
  <2>1. job.delivery \in Identity /\ cases[job.delivery.case] # None
    BY <1>3 DEF JobOK
  <2>2. job.number \in 1..(Len(attempts[job.key]) + 1)
    BY <1>3 DEF JobOK
  <2>3. job.number \in 1..(Len(attempts'[job.key]) + 1)
    BY <1>2, <2>2
  <2> QED BY <2>1, <2>3 DEF NothingRemoved, Identity
<1>4. ASSUME job.op = "result"
      PROVE  /\ job.number \in DOMAIN attempts'[job.key]
             /\ job.outcome \in {"SUCCEEDED", "FAILED"}
  <2>1. job.number \in DOMAIN attempts[job.key] /\ job.outcome \in {"SUCCEEDED", "FAILED"}
    BY <1>4 DEF JobOK
  <2> QED BY <1>2, <2>1
<1> QED BY <1>1, <1>3, <1>4

(***************************************************************************)
(* One worker's call goes on as newJob, every other call as it was.        *)
(***************************************************************************)
LEMMA JobStepOK ==
  ASSUME DeliveryTypeOK, TablesOK', NothingRemoved, NEW w \in Workers, NEW newJob \in Job,
         jobs' = [jobs EXCEPT ![w] = newJob],
         newJob.phase # "staged" \/ JobOK(newJob)
  PROVE  DeliveryTypeOK'
<1>1. jobs' \in [Workers -> Job]
  BY DEF DeliveryTypeOK
<1>2. ASSUME NEW q \in Workers PROVE JobOK(jobs[q])'
  <2>1. jobs'[q] \in Job /\ (jobs'[q].phase # "staged" \/ JobOK(jobs'[q]))
    BY <1>1 DEF DeliveryTypeOK
  <2>2. CASE jobs'[q].phase # "staged"
    BY <2>2 DEF JobOK
  <2>3. CASE JobOK(jobs'[q])
    <3>1. attempts' \in [Keys -> Seq(Attempt)]
      BY DEF TablesOK
    <3> QED BY <2>1, <2>3, <3>1, JobStaysOK DEF JobOK
  <2> QED BY <2>1, <2>2, <2>3
<1> QED BY <1>1, <1>2, TypeParts DEF DeliveryTypeOK, TablesOK

\* A step that only changes a delivery call keeps the tables.
LEMMA TablesUnchanged ==
  ASSUME DeliveryTypeOK, UNCHANGED <<storeVars, calls, attempts>>
  PROVE  TablesOK' /\ NothingRemoved
<1>1. TypeOK'
  BY DEF DeliveryTypeOK, TypeOK, StoreTypeOK, CallOK, storeVars
<1>2. \A k \in Keys : attempts[k] \in Seq(Attempt)
  BY DEF DeliveryTypeOK
<1>3. NothingRemoved
  BY <1>2 DEF NothingRemoved, storeVars
<1> QED BY <1>1, <1>3 DEF DeliveryTypeOK, TablesOK, storeVars

\* Ending a delivery call keeps the types.
LEMMA AnswerOK ==
  ASSUME DeliveryTypeOK, TablesOK', NothingRemoved, NEW w \in Workers, NEW job \in Job,
         NEW answer \in JobAnswers, Answer(w, job, answer)
  PROVE  DeliveryTypeOK'
<1> DEFINE newJob == [job EXCEPT !.phase = "answered", !.now = 0, !.answer = answer]
<1>1. newJob \in Job /\ newJob.phase = "answered"
  BY DEF Job
<1>2. jobs' = [jobs EXCEPT ![w] = newJob]
  BY DEF Answer
<1> HIDE DEF newJob
<1> QED BY <1>1, <1>2, JobStepOK

\* Staging a well-formed delivery call keeps the types.
LEMMA StageOK ==
  ASSUME DeliveryTypeOK, TablesOK', NothingRemoved, NEW w \in Workers, NEW job \in Job,
         Stage(w, job), JobOK([job EXCEPT !.phase = "staged"])
  PROVE  DeliveryTypeOK'
<1> DEFINE newJob == [job EXCEPT !.phase = "staged"]
<1>1. newJob \in Job
  BY DEF Job
<1>2. jobs' = [jobs EXCEPT ![w] = newJob]
  BY DEF Stage
<1> HIDE DEF newJob
<1>3. JobOK(newJob)
  BY DEF newJob
<1> QED BY <1>1, <1>2, <1>3, JobStepOK

-----------------------------------------------------------------------------
(* The reading steps: only the worker's call changes. *)

\* A start call is well formed, and may be staged with a number up to the next one.
LEMMA StartJobType ==
  ASSUME DeliveryTypeOK, NEW k \in Keys, NEW d \in Deliveries, NEW number \in Nat,
         NEW now \in RequestTimes
  PROVE  /\ StartJob(k, d, number, now) \in Job
         /\ (cases[d.case] # None /\ number \in 1..(Len(attempts[k]) + 1)) =>
              JobOK([StartJob(k, d, number, now) EXCEPT !.phase = "staged"])
<1>1. now \in Nat /\ d \in Identity
  BY DeliveriesAssumption DEF RequestTimes
<1>2. StartJob(k, d, number, now) \in Job
  BY <1>1 DEF StartJob, NoJob, Job
<1>3. ASSUME cases[d.case] # None, number \in 1..(Len(attempts[k]) + 1)
      PROVE  JobOK([StartJob(k, d, number, now) EXCEPT !.phase = "staged"])
  <2> DEFINE job == [StartJob(k, d, number, now) EXCEPT !.phase = "staged"]
  <2>1. job.key = k /\ job.op = "start" /\ job.delivery = d /\ job.number = number
    BY DEF StartJob, NoJob
  <2> HIDE DEF job
  <2>2. JobOK(job)
    BY <1>1, <1>3, <2>1 DEF JobOK
  <2> QED BY <2>2 DEF job
<1> QED BY <1>2, <1>3

\* The reading step of a start keeps the types.
LEMMA ReceiveStartOK ==
  ASSUME DeliveryTypeOK, NEW w \in Workers, NEW k \in Keys, NEW d \in Deliveries,
         NEW allowRetry \in BOOLEAN, NEW now \in RequestTimes,
         ReceiveStart(w, k, d, allowRetry, now)
  PROVE  DeliveryTypeOK'
<1>1. TablesOK' /\ NothingRemoved
  BY TablesUnchanged DEF ReceiveStart
<1>2. attempts[k] \in Seq(Attempt) /\ Len(attempts[k]) \in Nat
  BY DEF DeliveryTypeOK
<1>3. ASSUME NEW number \in Nat, NEW answer \in JobAnswers,
             Answer(w, StartJob(k, d, number, now), answer)
      PROVE  DeliveryTypeOK'
  BY <1>1, <1>3, StartJobType, AnswerOK
<1>4. ASSUME NEW number \in 1..(Len(attempts[k]) + 1), cases[d.case] # None,
             Stage(w, StartJob(k, d, number, now))
      PROVE  DeliveryTypeOK'
  <2>1. number \in Nat
    BY <1>2
  <2>2. StartJob(k, d, number, now) \in Job
    BY <2>1, StartJobType
  <2>3. JobOK([StartJob(k, d, number, now) EXCEPT !.phase = "staged"])
    BY <1>4, <2>1, StartJobType
  <2> QED BY <1>1, <1>4, <2>2, <2>3, StageOK
<1>5. CASE RefuseStart(w, k, d, now)
  BY <1>3, <1>5 DEF RefuseStart, JobAnswers
<1>6. CASE attempts[k] = << >> /\ cases[d.case] # None /\ Stage(w, StartJob(k, d, 1, now))
  BY <1>2, <1>4, <1>6
<1>7. CASE ReuseAttempt(w, k, d, allowRetry, now)
  BY <1>2, <1>3, <1>7 DEF ReuseAttempt, JobAnswers
<1>8. CASE DecideRetry(w, k, d, now) /\ cases[d.case] # None
  <2>1. Len(attempts[k]) + 1 \in 1..(Len(attempts[k]) + 1)
    BY <1>2
  <2> QED BY <1>3, <1>4, <1>8, <2>1 DEF DecideRetry, JobAnswers
<1> QED BY <1>5, <1>6, <1>7, <1>8 DEF ReceiveStart

\* Answering about a completed attempt keeps the types.
LEMMA AnswerCompletedOK ==
  ASSUME DeliveryTypeOK, TablesOK', NothingRemoved, NEW w \in Workers, NEW job \in Job,
         AnswerCompleted(w, job)
  PROVE  DeliveryTypeOK'
  BY AnswerOK DEF AnswerCompleted, JobAnswers

\* The reading step of a result keeps the types.
LEMMA ReceiveResultOK ==
  ASSUME DeliveryTypeOK, NEW w \in Workers, NEW k \in Keys, NEW n \in 1..MaxAttempts,
         NEW ext \in ExternalIds \cup {None},
         NEW outcome \in {"PENDING", "SUCCEEDED", "FAILED"},
         NEW now \in RequestTimes, ReceiveResult(w, k, n, outcome, ext, now)
  PROVE  DeliveryTypeOK'
<1> DEFINE job == ResultJob(k, n, outcome, ext, now)
<1>1. TablesOK' /\ NothingRemoved
  BY TablesUnchanged DEF ReceiveResult
<1>2. now \in Nat /\ n \in Nat
  BY RetryAssumption DEF RequestTimes
<1>3. job \in Job
  BY <1>2 DEF ResultJob, NoJob, Job
<1>4. ASSUME NEW answer \in JobAnswers, Answer(w, job, answer) PROVE DeliveryTypeOK'
  BY <1>1, <1>3, <1>4, AnswerOK
<1>5. CASE AnswerCompleted(w, job)
  BY <1>1, <1>3, <1>5, AnswerCompletedOK
<1>6. CASE Stage(w, job) /\ n \in DOMAIN attempts[k] /\ outcome # "PENDING"
  <2> DEFINE staged == [job EXCEPT !.phase = "staged"]
  <2>1. staged.key = k /\ staged.op = "result" /\ staged.number = n /\ staged.outcome = outcome
    BY DEF ResultJob, NoJob
  <2> HIDE DEF staged
  <2>2. JobOK(staged)
    BY <1>6, <2>1 DEF JobOK
  <2> QED BY <1>1, <1>3, <1>6, <2>2, StageOK DEF staged
<1> QED BY <1>4, <1>5, <1>6 DEF ReceiveResult, JobAnswers

-----------------------------------------------------------------------------
(* The writing steps. *)

\* A row is added, or one is replaced: the attempts keep their type and length.
LEMMA AddedRow ==
  ASSUME attempts \in [Keys -> Seq(Attempt)], NEW k \in Keys, NEW row \in Attempt,
         attempts' = [attempts EXCEPT ![k] = Append(@, row)]
  PROVE  /\ attempts' \in [Keys -> Seq(Attempt)]
         /\ \A q \in Keys : Len(attempts[q]) <= Len(attempts'[q])
         /\ \A q \in Keys : \A n \in DOMAIN attempts'[q] :
              \/ n \in DOMAIN attempts[q] /\ attempts'[q][n] = attempts[q][n]
              \/ q = k /\ n = Len(attempts[k]) + 1 /\ attempts'[q][n] = row
<1>1. attempts[k] \in Seq(Attempt)
  OBVIOUS
<1>2. /\ Append(attempts[k], row) \in Seq(Attempt)
      /\ Len(Append(attempts[k], row)) = Len(attempts[k]) + 1
      /\ \A n \in DOMAIN Append(attempts[k], row) :
           \/ n \in DOMAIN attempts[k] /\ Append(attempts[k], row)[n] = attempts[k][n]
           \/ n = Len(attempts[k]) + 1 /\ Append(attempts[k], row)[n] = row
  BY <1>1
<1>3. attempts'[k] = Append(attempts[k], row) /\ \A q \in Keys \ {k} : attempts'[q] = attempts[q]
  OBVIOUS
<1>4. attempts' \in [Keys -> Seq(Attempt)]
  BY <1>2
<1>5. \A q \in Keys : Len(attempts[q]) \in Nat
  OBVIOUS
<1> QED BY <1>2, <1>3, <1>4, <1>5

\* Replacing a row by another one leaves a table of attempts.
LEMMA ReplacedRow ==
  ASSUME attempts \in [Keys -> Seq(Attempt)], NEW k \in Keys,
         NEW n \in DOMAIN attempts[k], NEW row \in Attempt,
         attempts' = [attempts EXCEPT ![k][n] = row]
  PROVE  /\ attempts' \in [Keys -> Seq(Attempt)]
         /\ \A q \in Keys : Len(attempts'[q]) = Len(attempts[q])
         /\ \A q \in Keys : DOMAIN attempts'[q] = DOMAIN attempts[q]
         /\ attempts'[k][n] = row
         /\ \A q \in Keys : \A i \in DOMAIN attempts[q] :
              (q # k \/ i # n) => attempts'[q][i] = attempts[q][i]
<1>1. attempts[k] \in Seq(Attempt)
  OBVIOUS
<1> DEFINE replaced == [attempts[k] EXCEPT ![n] = row]
<1>2. /\ replaced \in Seq(Attempt) /\ Len(replaced) = Len(attempts[k])
      /\ DOMAIN replaced = DOMAIN attempts[k]
      /\ replaced[n] = row
      /\ \A i \in DOMAIN attempts[k] : i # n => replaced[i] = attempts[k][i]
  BY <1>1
<1>3. attempts'[k] = replaced /\ \A q \in Keys \ {k} : attempts'[q] = attempts[q]
  OBVIOUS
<1> HIDE DEF replaced
<1>4. attempts' = [attempts EXCEPT ![k] = replaced]
  BY DEF replaced
<1>5. attempts' \in [Keys -> Seq(Attempt)]
  BY <1>2, <1>4
<1> QED BY <1>2, <1>3, <1>5

\* A numbered attempt is a row.
LEMMA StoredAttempt ==
  ASSUME attempts \in [Keys -> Seq(Attempt)], NEW k \in Keys, NEW n \in DOMAIN attempts[k]
  PROVE  /\ attempts[k][n] \in Attempt
         /\ attempts[k][n].delivery \in Identity
         /\ attempts[k][n].delivery.case \in Cases
<1>1. attempts[k][n] \in Attempt
  OBVIOUS
<1>2. attempts[k][n].delivery \in Identity
  BY <1>1 DEF Attempt
<1>3. attempts[k][n].delivery.case \in Cases
  BY <1>2 DEF Identity
<1> QED BY <1>1, <1>2, <1>3

\* Writing to the tables of the cases keeps the types of a case call.
LEMMA StoreWritten ==
  ASSUME TypeOK, StoreTypeOK', UNCHANGED calls,
         \A c \in Cases : cases[c] # None => cases'[c] # None
  PROVE  TypeOK'
<1>1. \A r \in Requests : CallOK(calls[r])'
  BY DEF TypeOK, CallOK
<1> QED BY <1>1 DEF TypeOK

\* The events of a delivery are events.
LEMMA DeliveryEventType ==
  ASSUME NEW events \in Seq(CaseEvent), NEW k \in Keys, NEW n \in Nat,
         NEW type \in CaseEventType
  PROVE  Append(events, Event(type, <<k, n>>)) \in Seq(CaseEvent)
  BY AppendedEvent DEF Reference

\* The transaction of a start keeps the types.
LEMMA CommitStartOK ==
  ASSUME DeliveryTypeOK, NEW w \in Workers, CommitStart(w)
  PROVE  DeliveryTypeOK'
<1> DEFINE job == jobs[w]
<1>1. /\ job \in Job /\ job.key \in Keys /\ job.delivery \in Identity
      /\ cases[job.delivery.case] # None /\ job.number \in Nat /\ job.now \in Nat
      /\ job.delivery.case \in Cases
  BY DEF DeliveryTypeOK, JobOK, CommitStart, Job, Identity
<1>2. CASE InsertAttempt(w)
  <2> DEFINE row == [delivery |-> job.delivery, status |-> "PENDING", externalId |-> None,
                     createdAt |-> job.now, completedAt |-> None]
  <2>1. row \in Attempt
    BY <1>1 DEF Attempt
  <2>2. row.delivery = job.delivery
    OBVIOUS
  <2>3. attempts' = [attempts EXCEPT ![job.key] = Append(@, row)]
    BY <1>2 DEF InsertAttempt
  <2> HIDE DEF row
  <2>4. /\ attempts' \in [Keys -> Seq(Attempt)]
        /\ \A q \in Keys : Len(attempts[q]) <= Len(attempts'[q])
        /\ \A q \in Keys : \A n \in DOMAIN attempts'[q] :
             \/ n \in DOMAIN attempts[q] /\ attempts'[q][n] = attempts[q][n]
             \/ attempts'[q][n] = row
    BY <1>1, <2>1, <2>3, AddedRow DEF DeliveryTypeOK
  <2>5. UNCHANGED <<clock, cases, replies, calls>>
    BY DEF CommitStart
  <2>6. history' \in [Cases -> Seq(CaseEvent)]
    <3>1. history \in [Cases -> Seq(CaseEvent)]
      BY DEF DeliveryTypeOK, TypeOK, StoreTypeOK
    <3>2. Append(history[job.delivery.case], Event("DELIVERY_RETRIED", <<job.key, job.number>>))
            \in Seq(CaseEvent)
      BY <1>1, <3>1, DeliveryEventType DEF CaseEventType
    <3> QED BY <1>1, <1>2, <3>1, <3>2 DEF InsertAttempt
  <2>7. TypeOK'
    BY <2>5, <2>6, StoreWritten DEF DeliveryTypeOK, TypeOK, StoreTypeOK
  <2>8. \A q \in Keys : \A n \in DOMAIN attempts'[q] :
          cases'[attempts'[q][n].delivery.case] # None
    BY <1>1, <2>2, <2>4, <2>5 DEF DeliveryTypeOK
  <2>9. TablesOK' /\ NothingRemoved
    BY <2>4, <2>5, <2>7, <2>8 DEF TablesOK, NothingRemoved
  <2> QED BY <1>1, <1>2, <2>9, AnswerOK DEF InsertAttempt, JobAnswers
<1>3. CASE LoseStart(w)
  <2>1. TablesOK' /\ NothingRemoved
    BY <1>3, TablesUnchanged DEF CommitStart, LoseStart, storeVars
  <2> QED BY <1>1, <1>3, <2>1, AnswerOK DEF LoseStart, JobAnswers
<1> QED BY <1>2, <1>3 DEF CommitStart

\* A completed row is a row.
LEMMA CompletedRowType ==
  ASSUME NEW row \in Attempt, NEW job \in Job, job.outcome \in {"SUCCEEDED", "FAILED"}
  PROVE  /\ CompletedRow(row, job) \in Attempt
         /\ CompletedRow(row, job).delivery = row.delivery
         /\ CompletedRow(row, job).status = job.outcome
         /\ CompletedRow(row, job).completedAt = job.now
         /\ CompletedRow(row, job).createdAt = row.createdAt
  BY DEF CompletedRow, Attempt, Job

\* A result is recorded: the tables keep their types whatever event goes with it.
LEMMA CompletionOK ==
  ASSUME DeliveryTypeOK, NEW job \in Job, job.key \in Keys,
         job.number \in DOMAIN attempts[job.key],
         job.outcome \in {"SUCCEEDED", "FAILED"},
         CompleteRow(job), UNCHANGED <<clock, replies, calls>>,
         history' \in [Cases -> Seq(CaseEvent)],
         cases' \in [Cases -> CaseRow \cup {None}],
         \A c \in Cases : cases[c] # None => cases'[c] # None
  PROVE  TablesOK' /\ NothingRemoved
<1> DEFINE row == CompletedRow(attempts[job.key][job.number], job)
<1>1. attempts[job.key][job.number] \in Attempt
  BY DEF DeliveryTypeOK
<1>2. row \in Attempt /\ row.delivery = attempts[job.key][job.number].delivery
  BY <1>1, CompletedRowType
<1>3. attempts' = [attempts EXCEPT ![job.key][job.number] = row]
  BY DEF CompleteRow
<1> HIDE DEF row
<1>4. /\ attempts' \in [Keys -> Seq(Attempt)]
      /\ \A q \in Keys : Len(attempts'[q]) = Len(attempts[q])
      /\ \A q \in Keys : DOMAIN attempts'[q] = DOMAIN attempts[q]
      /\ attempts'[job.key][job.number] = row
      /\ \A q \in Keys : \A i \in DOMAIN attempts[q] :
           (q # job.key \/ i # job.number) => attempts'[q][i] = attempts[q][i]
  BY <1>2, <1>3, ReplacedRow DEF DeliveryTypeOK
<1>5. TypeOK'
  BY StoreWritten DEF DeliveryTypeOK, TypeOK, StoreTypeOK
<1>6. \A q \in Keys : \A i \in DOMAIN attempts'[q] :
        /\ attempts'[q][i].delivery = attempts[q][i].delivery
        /\ attempts[q][i].delivery.case \in Cases
  <2>1. \A q \in Keys : \A i \in DOMAIN attempts[q] : attempts[q][i].delivery.case \in Cases
    BY StoredAttempt DEF DeliveryTypeOK
  <2> QED BY <1>2, <1>4, <2>1
<1>7. \A q \in Keys : \A i \in DOMAIN attempts'[q] : cases'[attempts'[q][i].delivery.case] # None
  BY <1>4, <1>6 DEF DeliveryTypeOK
<1>8. \A q \in Keys : Len(attempts[q]) <= Len(attempts'[q])
  <2>1. \A q \in Keys : Len(attempts[q]) \in Nat
    BY DEF DeliveryTypeOK
  <2> QED BY <1>4, <2>1
<1> QED BY <1>4, <1>5, <1>7, <1>8 DEF TablesOK, NothingRemoved

\* Recording an event keeps the histories.
LEMMA RecordOK ==
  ASSUME DeliveryTypeOK, NEW job \in Job, job.key \in Keys, NEW c \in Cases,
         NEW type \in CaseEventType, Record(c, type, job)
  PROVE  history' \in [Cases -> Seq(CaseEvent)]
<1>1. history \in [Cases -> Seq(CaseEvent)] /\ job.number \in Nat
  BY DEF DeliveryTypeOK, TypeOK, StoreTypeOK, Job
<1>2. Append(history[c], Event(type, <<job.key, job.number>>)) \in Seq(CaseEvent)
  BY <1>1, DeliveryEventType
<1> QED BY <1>1, <1>2 DEF Record

\* The transaction of a result keeps the types.
LEMMA CommitResultOK ==
  ASSUME DeliveryTypeOK, NEW w \in Workers, CommitResult(w)
  PROVE  DeliveryTypeOK'
<1> DEFINE job == jobs[w]
           delivery == attempts[job.key][job.number].delivery
<1>1. /\ job \in Job /\ job.key \in Keys /\ job.number \in DOMAIN attempts[job.key]
      /\ job.outcome \in {"SUCCEEDED", "FAILED"} /\ job.now \in Nat
  BY DEF DeliveryTypeOK, JobOK, CommitResult, Job
<1>2. delivery \in Identity /\ delivery.case \in Cases /\ cases[delivery.case] # None
  BY <1>1, StoredAttempt DEF DeliveryTypeOK
<1>3. /\ cases \in [Cases -> CaseRow \cup {None}]
      /\ history \in [Cases -> Seq(CaseEvent)]
  BY DEF DeliveryTypeOK, TypeOK, StoreTypeOK
<1>4. CASE LoseResult(w)
  <2>1. TablesOK' /\ NothingRemoved
    BY <1>4, TablesUnchanged DEF CommitResult, LoseResult, storeVars
  <2> QED BY <1>1, <1>4, <2>1, AnswerCompletedOK DEF LoseResult
<1>5. CASE RecordFailure(w)
  <2>1. history' \in [Cases -> Seq(CaseEvent)]
    BY <1>1, <1>2, <1>5, RecordOK DEF RecordFailure, CaseEventType
  <2>2. TablesOK' /\ NothingRemoved
    BY <1>1, <1>3, <1>5, <2>1, CompletionOK DEF RecordFailure, CommitResult
  <2> QED BY <1>1, <1>5, <2>2, AnswerOK DEF RecordFailure, JobAnswers
<1>6. CASE RecordSuccess(w)
  <2>1. CASE ~EffectAllowed(delivery)
    <3>1. UNCHANGED <<cases, history, attempts>> /\ Answer(w, job, "rejected")
      BY <1>6, <2>1 DEF RecordSuccess
    <3>2. TablesOK' /\ NothingRemoved
      BY <3>1, TablesUnchanged DEF CommitResult, storeVars
    <3> QED BY <1>1, <3>1, <3>2, AnswerOK DEF JobAnswers
  <2>2. CASE EffectAllowed(delivery)
    <3>1. /\ CompleteRow(job) /\ ApplyEffect(delivery, job)
          /\ Answer(w, job, "applied")
      BY <1>6, <2>2 DEF RecordSuccess
    <3>2. history' \in [Cases -> Seq(CaseEvent)]
      BY <1>1, <1>2, <1>3, <3>1, RecordOK DEF ApplyEffect, CaseEventType
    <3>3. /\ cases' \in [Cases -> CaseRow \cup {None}]
          /\ \A c \in Cases : cases[c] # None => cases'[c] # None
      <4>1. cases[delivery.case] \in CaseRow /\ None \in Assignees
        BY <1>2, <1>3 DEF Assignees
      <4>2. SentRow(cases[delivery.case], cases[delivery.case], job.now) \in CaseRow
        BY <1>1, <4>1, WrittenRows
      <4> QED BY <1>2, <1>3, <3>1, <4>2, NoRowAssumption DEF ApplyEffect
    <3>4. TablesOK' /\ NothingRemoved
      BY <1>1, <3>1, <3>2, <3>3, CompletionOK DEF CommitResult
    <3> QED BY <1>1, <3>1, <3>4, AnswerOK DEF JobAnswers
  <2> QED BY <2>1, <2>2
<1> QED BY <1>4, <1>5, <1>6 DEF CommitResult

\* Giving a call up, or ending it, keeps the types.
LEMMA AbortAndReturnOK ==
  ASSUME DeliveryTypeOK, NEW w \in Workers, AbortJob(w) \/ ReturnJob(w)
  PROVE  DeliveryTypeOK'
<1>1. TablesOK' /\ NothingRemoved
  BY TablesUnchanged DEF AbortJob, ReturnJob
<1>2. CASE AbortJob(w)
  <2>1. jobs[w] \in Job
    BY DEF DeliveryTypeOK
  <2> QED BY <1>1, <1>2, <2>1, AnswerOK DEF AbortJob, JobAnswers
<1>3. CASE ReturnJob(w)
  BY <1>1, <1>3, NoJobType, JobStepOK DEF ReturnJob
<1> QED BY <1>2, <1>3

\* A step of the case commands keeps the types of the deliveries.
LEMMA CaseStepOK ==
  ASSUME DeliveryTypeOK, [CaseNext]_caseVars, UNCHANGED <<attempts, jobs>>
  PROVE  DeliveryTypeOK'
<1>1. TypeOK'
  BY CaseNextTypeOK DEF DeliveryTypeOK
<1>2. \A c \in Cases : cases[c] # None => cases'[c] # None
  BY CasesStay DEF DeliveryTypeOK
<1>3. \A k \in Keys : attempts[k] \in Seq(Attempt)
  BY DEF DeliveryTypeOK
<1>4. NothingRemoved
  BY <1>2, <1>3 DEF NothingRemoved
<1>5. \A k \in Keys : \A n \in DOMAIN attempts[k] : attempts[k][n].delivery.case \in Cases
  BY StoredAttempt DEF DeliveryTypeOK
<1>6. TablesOK'
  BY <1>1, <1>2, <1>5 DEF DeliveryTypeOK, TablesOK
<1>7. ASSUME NEW q \in Workers PROVE JobOK(jobs[q])'
  <2>1. jobs[q] \in Job /\ JobOK(jobs[q]) /\ jobs'[q] = jobs[q]
    BY DEF DeliveryTypeOK
  <2>2. attempts' \in [Keys -> Seq(Attempt)]
    BY DEF DeliveryTypeOK
  <2> QED BY <1>4, <2>1, <2>2, JobStaysOK DEF JobOK
<1> QED BY <1>6, <1>7 DEF DeliveryTypeOK, TablesOK

\* The empty database is well typed.
LEMMA DeliveryInitOK == DeliveryInit => DeliveryTypeOK
<1> SUFFICES ASSUME DeliveryInit PROVE DeliveryTypeOK
  OBVIOUS
<1>1. TypeOK
  BY CaseInitTypeOK DEF DeliveryInit
<1>2. /\ attempts \in [Keys -> Seq(Attempt)]
      /\ \A k \in Keys : attempts[k] = << >>
  BY DEF DeliveryInit
<1>3. jobs \in [Workers -> Job] /\ \A w \in Workers : JobOK(jobs[w])
  BY NoJobType DEF DeliveryInit, JobOK
<1> QED BY <1>1, <1>2, <1>3 DEF DeliveryTypeOK

\* Every step keeps the types.
LEMMA DeliveryNextOK ==
  ASSUME DeliveryTypeOK, [DeliveryNext]_deliveryVars
  PROVE  DeliveryTypeOK'
<1>1. CASE UNCHANGED deliveryVars
  BY <1>1, CaseStepOK DEF deliveryVars, caseVars
<1>2. CASE CaseNext /\ UNCHANGED <<attempts, jobs>>
  BY <1>2, CaseStepOK
<1>3. ASSUME NEW w \in Workers, DeliveryStep(w) PROVE DeliveryTypeOK'
  BY <1>3, ReceiveStartOK, ReceiveResultOK, CommitStartOK, CommitResultOK,
     AbortAndReturnOK DEF DeliveryStep
<1> QED BY <1>1, <1>2, <1>3 DEF DeliveryNext

(***************************************************************************)
(* The tables, the case calls and the delivery calls keep their types.     *)
(***************************************************************************)
THEOREM DeliveryTypeCorrect == DeliverySpec => []DeliveryTypeOK
<1>1. DeliveryInit => DeliveryTypeOK
  BY DeliveryInitOK
<1>2. DeliveryTypeOK /\ [DeliveryNext]_deliveryVars => DeliveryTypeOK'
  BY DeliveryNextOK
<1> QED BY <1>1, <1>2, PTL DEF DeliverySpec

-----------------------------------------------------------------------------
(***************************************************************************)
(* The discipline of the attempts.  What the rows promise is not inductive *)
(* alone: a start inserts its row long after it has read the others, so    *)
(* the invariant also says that what it decided on is still so.            *)
(***************************************************************************)
AttemptsOK ==
  OneLiveAttempt /\ RetriesAreLimited /\ OneIdentityPerKey /\ StartsStayJustified

\* Only a staged start has something to justify.
LEMMA JustifiedIfNotStaged ==
  ASSUME NEW job, job.phase # "staged" \/ job.op = "result"
  PROVE  Justified(job)
  BY DEF Justified

\* The rows stay and one call goes on: it has to be justified.
LEMMA CallGoesOn ==
  ASSUME DeliveryTypeOK, AttemptsOK, UNCHANGED attempts, NEW w \in Workers, NEW newJob,
         jobs' = [jobs EXCEPT ![w] = newJob], Justified(newJob)
  PROVE  AttemptsOK'
<1>1. OneLiveAttempt' /\ RetriesAreLimited' /\ OneIdentityPerKey'
  BY DEF AttemptsOK, OneLiveAttempt, RetriesAreLimited, OneIdentityPerKey
<1>2. ASSUME NEW q \in Workers PROVE Justified(jobs[q])'
  <2>1. Justified(jobs'[q])
    BY DEF AttemptsOK, StartsStayJustified, DeliveryTypeOK
  <2> QED BY <2>1 DEF Justified
<1> QED BY <1>1, <1>2 DEF AttemptsOK, StartsStayJustified

\* Ending a call keeps the discipline of the attempts.
LEMMA AnswerGoesOn ==
  ASSUME DeliveryTypeOK, AttemptsOK, UNCHANGED attempts, NEW w \in Workers,
         NEW job \in Job, NEW answer, Answer(w, job, answer)
  PROVE  AttemptsOK'
<1> DEFINE newJob == [job EXCEPT !.phase = "answered", !.now = 0, !.answer = answer]
<1>1. jobs' = [jobs EXCEPT ![w] = newJob] /\ newJob.phase # "staged"
  BY DEF Answer, Job
<1> HIDE DEF newJob
<1> QED BY <1>1, CallGoesOn, JustifiedIfNotStaged

\* What a start decides on is justified by the rows it has read.
LEMMA ReceiveStartDiscipline ==
  ASSUME DeliveryTypeOK, AttemptsOK, NEW w \in Workers, NEW k \in Keys,
         NEW d \in Deliveries, NEW allowRetry \in BOOLEAN, NEW now \in RequestTimes,
         ReceiveStart(w, k, d, allowRetry, now)
  PROVE  AttemptsOK'
<1>1. UNCHANGED attempts
  BY DEF ReceiveStart
<1>2. attempts[k] \in Seq(Attempt) /\ Len(attempts[k]) \in Nat
  BY DEF DeliveryTypeOK
<1>3. ASSUME NEW number \in Nat, NEW answer, Answer(w, StartJob(k, d, number, now), answer)
      PROVE  AttemptsOK'
  BY <1>1, <1>3, StartJobType, AnswerGoesOn
<1>4. ASSUME NEW number \in Nat, Stage(w, StartJob(k, d, number, now)), number <= MaxAttempts,
             number > 1 => /\ number - 1 = Len(attempts[k]) /\ Broken(k)
                           /\ RetryDue(k, now) /\ SameDelivery(k, d)
      PROVE  AttemptsOK'
  <2> DEFINE job == [StartJob(k, d, number, now) EXCEPT !.phase = "staged"]
  <2>1. /\ job.key = k /\ job.number = number /\ job.now = now /\ job.delivery = d
    BY DEF StartJob, NoJob
  <2>2. jobs' = [jobs EXCEPT ![w] = job]
    BY <1>4 DEF Stage
  <2> HIDE DEF job
  <2>3. ASSUME number > 1
        PROVE  /\ attempts[k][number - 1].status = "FAILED"
               /\ now >= attempts[k][number - 1].completedAt + RetryDelay
               /\ attempts[k][number - 1].delivery = d
    <3>1. Last(k) = attempts[k][number - 1] /\ Last(k).status = "FAILED"
      BY <1>4, <2>3 DEF Last, Broken
    <3>2. attempts[k] # << >> /\ attempts[k][1].delivery = d
      BY <1>4, <2>3 DEF Broken, SameDelivery
    <3>3. 1 \in DOMAIN attempts[k] /\ number - 1 \in DOMAIN attempts[k]
      BY <1>2, <1>4, <2>3, <3>2
    <3>4. attempts[k][number - 1].delivery = attempts[k][1].delivery
      BY <3>3 DEF AttemptsOK, OneIdentityPerKey
    <3> QED BY <1>4, <2>3, <3>1, <3>2, <3>4 DEF RetryDue
  <2>4. Justified(job)
    BY <1>4, <2>1, <2>3 DEF Justified
  <2> QED BY <1>1, <2>2, <2>4, CallGoesOn
<1>5. CASE RefuseStart(w, k, d, now)
  BY <1>3, <1>5 DEF RefuseStart
<1>6. CASE Stage(w, StartJob(k, d, 1, now))
  BY <1>4, <1>6, RetryAssumption
<1>7. CASE ReuseAttempt(w, k, d, allowRetry, now)
  BY <1>2, <1>3, <1>7 DEF ReuseAttempt
<1>8. CASE DecideRetry(w, k, d, now) /\ SameDelivery(k, d)
  <2>1. CASE Broken(k) /\ ~Exhausted(k) /\ RetryDue(k, now)
             /\ Stage(w, StartJob(k, d, Len(attempts[k]) + 1, now))
    <3>1. Len(attempts[k]) + 1 \in Nat /\ Len(attempts[k]) + 1 <= MaxAttempts
      BY <1>2, <2>1, RetryAssumption DEF Exhausted
    <3>2. (Len(attempts[k]) + 1) - 1 = Len(attempts[k])
      BY <1>2
    <3> QED BY <1>4, <1>8, <2>1, <3>1, <3>2
  <2> QED BY <1>3, <1>8, <2>1 DEF DecideRetry
<1> QED BY <1>5, <1>6, <1>7, <1>8 DEF ReceiveStart

\* Inserting a justified attempt under a free number keeps the discipline.
LEMMA InsertDiscipline ==
  ASSUME DeliveryTypeOK, AttemptsOK, NEW w \in Workers,
         jobs[w].phase = "staged", jobs[w].op = "start", InsertAttempt(w)
  PROVE  AttemptsOK'
<1> DEFINE job == jobs[w]
           k == job.key
           row == [delivery |-> job.delivery, status |-> "PENDING", externalId |-> None,
                   createdAt |-> job.now, completedAt |-> None]
<1>1. /\ job \in Job /\ k \in Keys /\ job.delivery \in Identity /\ job.now \in Nat
      /\ job.number \in 1..(Len(attempts[k]) + 1)
  BY DEF DeliveryTypeOK, JobOK, Job
<1>2. attempts[k] \in Seq(Attempt) /\ Len(attempts[k]) \in Nat
  BY <1>1 DEF DeliveryTypeOK
<1>3. job.number = Len(attempts[k]) + 1
  BY <1>1, <1>2 DEF InsertAttempt, NumberFree
<1>4. row \in Attempt
  BY <1>1 DEF Attempt
<1>5. row.createdAt = job.now /\ row.delivery = job.delivery
  OBVIOUS
<1>6. attempts' = [attempts EXCEPT ![k] = Append(@, row)]
  BY DEF InsertAttempt
<1> HIDE DEF row
<1>7. /\ attempts' \in [Keys -> Seq(Attempt)]
      /\ attempts'[k] = Append(attempts[k], row)
      /\ \A q \in Keys \ {k} : attempts'[q] = attempts[q]
  BY <1>1, <1>4, <1>6, AddedRow DEF DeliveryTypeOK
<1>8. /\ Len(attempts'[k]) = Len(attempts[k]) + 1
      /\ DOMAIN attempts'[k] = 1..(Len(attempts[k]) + 1)
      /\ attempts'[k][Len(attempts[k]) + 1] = row
      /\ \A i \in 1..Len(attempts[k]) : attempts'[k][i] = attempts[k][i]
  BY <1>2, <1>4, <1>7
<1>9. /\ job.number <= MaxAttempts
      /\ Len(attempts[k]) >= 1 =>
           /\ attempts[k][Len(attempts[k])].status = "FAILED"
           /\ job.now >= attempts[k][Len(attempts[k])].completedAt + RetryDelay
           /\ attempts[k][Len(attempts[k])].delivery = job.delivery
  <2>1. Justified(job)
    BY DEF AttemptsOK, StartsStayJustified
  <2>2. job.number - 1 = Len(attempts[k])
    BY <1>2, <1>3
  <2> QED BY <1>2, <1>3, <2>1, <2>2 DEF Justified
<1>10. OneLiveAttempt'
  <2>1. \A i \in 1..(Len(attempts[k]) + 1) :
          i < Len(attempts'[k]) => attempts'[k][i].status = "FAILED"
    <3> SUFFICES ASSUME NEW i \in 1..Len(attempts[k]) PROVE attempts[k][i].status = "FAILED"
      BY <1>2, <1>8
    <3>1. CASE i < Len(attempts[k])
      BY <1>1, <1>2, <3>1 DEF AttemptsOK, OneLiveAttempt
    <3>2. CASE i = Len(attempts[k])
      BY <1>2, <1>9, <3>2
    <3> QED BY <1>2, <3>1, <3>2
  <2> QED BY <1>7, <1>8, <2>1 DEF AttemptsOK, OneLiveAttempt
<1>11. RetriesAreLimited'
  <2>1. Len(attempts'[k]) <= MaxAttempts
    BY <1>3, <1>8, <1>9
  <2>2. ASSUME NEW i \in 2..Len(attempts'[k])
        PROVE  attempts'[k][i].createdAt >= attempts'[k][i-1].completedAt + RetryDelay
    <3>1. CASE i <= Len(attempts[k])
      <4>1. /\ i \in 2..Len(attempts[k]) /\ i \in 1..Len(attempts[k])
            /\ i - 1 \in 1..Len(attempts[k])
        BY <1>2, <2>2, <3>1
      <4> QED BY <1>1, <1>8, <4>1 DEF AttemptsOK, RetriesAreLimited
    <3>2. CASE i = Len(attempts[k]) + 1
      <4>1. i - 1 = Len(attempts[k]) /\ Len(attempts[k]) >= 1
            /\ Len(attempts[k]) \in 1..Len(attempts[k])
        BY <1>2, <2>2, <3>2
      <4> QED BY <1>5, <1>8, <1>9, <3>2, <4>1
    <3>3. i <= Len(attempts[k]) \/ i = Len(attempts[k]) + 1
      <4>1. Len(attempts'[k]) = Len(attempts[k]) + 1
        BY <1>8
      <4> QED BY <1>2, <2>2, <4>1
    <3> QED BY <3>1, <3>2, <3>3
  <2> QED BY <1>7, <2>1, <2>2 DEF AttemptsOK, RetriesAreLimited
<1>12. OneIdentityPerKey'
  <2>1. \A i \in 1..Len(attempts[k]) : attempts[k][i].delivery = job.delivery
    <3> TAKE i \in 1..Len(attempts[k])
    <3>1. Len(attempts[k]) >= 1 /\ Len(attempts[k]) \in DOMAIN attempts[k] /\ i \in DOMAIN attempts[k]
      BY <1>2
    <3> QED BY <1>1, <1>9, <3>1 DEF AttemptsOK, OneIdentityPerKey
  <2>2. ASSUME NEW i \in DOMAIN attempts'[k] PROVE attempts'[k][i].delivery = job.delivery
    <3>1. i \in 1..(Len(attempts[k]) + 1)
      BY <1>8, <2>2
    <3>2. CASE i \in 1..Len(attempts[k])
      BY <1>8, <2>1, <3>2
    <3>3. CASE i = Len(attempts[k]) + 1
      BY <1>5, <1>8, <3>3
    <3> QED BY <1>2, <3>1, <3>2, <3>3
  <2>3. ASSUME NEW q \in Keys, NEW i \in DOMAIN attempts'[q], NEW j \in DOMAIN attempts'[q]
        PROVE  attempts'[q][i].delivery = attempts'[q][j].delivery
    <3>1. CASE q = k
      BY <2>2, <3>1
    <3>2. CASE q # k
      BY <1>7, <3>2 DEF AttemptsOK, OneIdentityPerKey
    <3> QED BY <3>1, <3>2
  <2> QED BY <2>3 DEF OneIdentityPerKey
<1>13. ASSUME NEW q \in Workers PROVE Justified(jobs[q])'
  <2> DEFINE other == jobs[q]
  <2>1. CASE q = w
    BY <1>1, <2>1 DEF InsertAttempt, Answer, Justified, DeliveryTypeOK, Job
  <2>2. CASE q # w /\ other.phase = "staged" /\ other.op = "start"
    <3>1. jobs'[q] = other
      BY <2>2 DEF InsertAttempt, Answer, DeliveryTypeOK
    <3>2. /\ other.key \in Keys /\ other.number \in 1..(Len(attempts[other.key]) + 1)
          /\ Len(attempts[other.key]) \in Nat
      BY <2>2 DEF DeliveryTypeOK, JobOK
    <3>3. Justified(other)
      BY DEF AttemptsOK, StartsStayJustified
    <3>4. other.number > 1 =>
            attempts'[other.key][other.number - 1] = attempts[other.key][other.number - 1]
      <4>1. CASE other.key # k
        BY <1>7, <3>2, <4>1
      <4>2. CASE other.key = k /\ other.number > 1
        <5>1. other.number - 1 \in 1..Len(attempts[k])
          BY <3>2, <4>2
        <5> QED BY <1>8, <4>2, <5>1
      <4> QED BY <4>1, <4>2
    <3> QED BY <3>1, <3>3, <3>4 DEF Justified
  <2>3. CASE q # w /\ ~(other.phase = "staged" /\ other.op = "start")
    <3>1. jobs'[q] = other
      BY <2>3 DEF InsertAttempt, Answer, DeliveryTypeOK
    <3> QED BY <2>3, <3>1 DEF Justified
  <2> QED BY <2>1, <2>2, <2>3
<1> QED BY <1>10, <1>11, <1>12, <1>13 DEF AttemptsOK, StartsStayJustified

\* A pending row is completed: it is the last, and no justification rests on it.
LEMMA CompleteDiscipline ==
  ASSUME DeliveryTypeOK, AttemptsOK, NEW w \in Workers, NEW answer,
         jobs[w].phase = "staged", jobs[w].op = "result",
         StillPending(jobs[w].key, jobs[w].number),
         CompleteRow(jobs[w]), Answer(w, jobs[w], answer)
  PROVE  AttemptsOK'
<1> DEFINE job == jobs[w]
           k == job.key
           n == job.number
           row == CompletedRow(attempts[k][n], job)
<1>1. /\ job \in Job /\ k \in Keys /\ n \in DOMAIN attempts[k]
      /\ job.outcome \in {"SUCCEEDED", "FAILED"}
  BY DEF DeliveryTypeOK, JobOK
<1>2. attempts[k] \in Seq(Attempt) /\ Len(attempts[k]) \in Nat /\ n \in 1..Len(attempts[k])
  BY <1>1 DEF DeliveryTypeOK
<1>3. /\ row \in Attempt /\ row.delivery = attempts[k][n].delivery
      /\ row.createdAt = attempts[k][n].createdAt
  BY <1>1, StoredAttempt, CompletedRowType DEF DeliveryTypeOK
<1>4. attempts[k][n].status = "PENDING"
  BY DEF StillPending
<1>5. n = Len(attempts[k])
  BY <1>1, <1>2, <1>4 DEF AttemptsOK, OneLiveAttempt
<1>6. attempts' = [attempts EXCEPT ![k][n] = row]
  BY DEF CompleteRow
<1> HIDE DEF row
<1>7. /\ attempts' \in [Keys -> Seq(Attempt)]
      /\ \A q \in Keys : Len(attempts'[q]) = Len(attempts[q])
      /\ \A q \in Keys : DOMAIN attempts'[q] = DOMAIN attempts[q]
      /\ attempts'[k][n] = row
      /\ \A q \in Keys : \A i \in DOMAIN attempts[q] :
           (q # k \/ i # n) => attempts'[q][i] = attempts[q][i]
  BY <1>1, <1>3, <1>6, ReplacedRow DEF DeliveryTypeOK
<1>8. \A q \in Keys : \A i \in DOMAIN attempts[q] :
        /\ attempts'[q][i].delivery = attempts[q][i].delivery
        /\ attempts'[q][i].createdAt = attempts[q][i].createdAt
        /\ (i < Len(attempts[q]) \/ attempts[q][i].status # "PENDING") =>
             attempts'[q][i] = attempts[q][i]
  BY <1>2, <1>3, <1>4, <1>5, <1>7
<1>9. \A q \in Keys : Len(attempts[q]) \in Nat /\ DOMAIN attempts[q] = 1..Len(attempts[q])
  BY DEF DeliveryTypeOK
<1>10. OneLiveAttempt'
  BY <1>7, <1>8 DEF AttemptsOK, OneLiveAttempt
<1>11. RetriesAreLimited'
  <2>1. ASSUME NEW q \in Keys, NEW i \in 2..Len(attempts[q])
        PROVE  attempts'[q][i].createdAt >= attempts'[q][i-1].completedAt + RetryDelay
    <3>1. i \in DOMAIN attempts[q] /\ i - 1 \in DOMAIN attempts[q] /\ i - 1 < Len(attempts[q])
      BY <1>9, <2>1
    <3>2. attempts[q][i].createdAt >= attempts[q][i-1].completedAt + RetryDelay
      BY DEF AttemptsOK, RetriesAreLimited
    <3> QED BY <1>8, <3>1, <3>2
  <2> QED BY <1>7, <2>1 DEF AttemptsOK, RetriesAreLimited
<1>12. OneIdentityPerKey'
  BY <1>7, <1>8 DEF AttemptsOK, OneIdentityPerKey
<1>13. ASSUME NEW q \in Workers PROVE Justified(jobs[q])'
  <2> DEFINE other == jobs[q]
  <2>1. CASE q = w
    BY <1>1, <2>1 DEF Answer, Justified, DeliveryTypeOK, Job
  <2>2. CASE q # w
    <3>1. jobs'[q] = other /\ Justified(other)
      BY <2>2 DEF Answer, DeliveryTypeOK, AttemptsOK, StartsStayJustified
    <3>2. CASE other.phase = "staged" /\ other.op = "start" /\ other.number > 1
      <4>1. /\ other.key \in Keys /\ other.number \in 1..(Len(attempts[other.key]) + 1)
        BY <3>2 DEF DeliveryTypeOK, JobOK
      <4>2. other.number - 1 \in DOMAIN attempts[other.key]
        BY <1>9, <3>2, <4>1
      <4>3. attempts[other.key][other.number - 1].status = "FAILED"
        BY <3>1, <3>2 DEF Justified
      <4>4. attempts'[other.key][other.number - 1] = attempts[other.key][other.number - 1]
        BY <1>8, <4>1, <4>2, <4>3
      <4> QED BY <3>1, <3>2, <4>4 DEF Justified
    <3> QED BY <3>1, <3>2 DEF Justified
  <2> QED BY <2>1, <2>2
<1> QED BY <1>10, <1>11, <1>12, <1>13 DEF AttemptsOK, StartsStayJustified

\* Answering about a completed attempt keeps the discipline.
LEMMA CompletedGoesOn ==
  ASSUME DeliveryTypeOK, AttemptsOK, UNCHANGED attempts, NEW w \in Workers,
         NEW job \in Job, AnswerCompleted(w, job)
  PROVE  AttemptsOK'
  BY AnswerGoesOn DEF AnswerCompleted

\* The reading step of a result keeps the discipline.
LEMMA ReceiveResultDiscipline ==
  ASSUME DeliveryTypeOK, AttemptsOK, NEW w \in Workers, NEW k \in Keys,
         NEW n \in 1..MaxAttempts, NEW ext \in ExternalIds \cup {None},
         NEW outcome \in {"PENDING", "SUCCEEDED", "FAILED"},
         NEW now \in RequestTimes, ReceiveResult(w, k, n, outcome, ext, now)
  PROVE  AttemptsOK'
<1> DEFINE job == ResultJob(k, n, outcome, ext, now)
           staged == [job EXCEPT !.phase = "staged"]
<1>1. UNCHANGED attempts
  BY DEF ReceiveResult
<1>2. now \in Nat /\ n \in Nat
  BY RetryAssumption DEF RequestTimes
<1>3. job \in Job
  BY <1>2 DEF ResultJob, NoJob, Job
<1>4. staged.op = "result"
  BY DEF ResultJob, NoJob
<1> HIDE DEF job
<1>5. ASSUME NEW answer, Answer(w, job, answer) PROVE AttemptsOK'
  BY <1>1, <1>3, <1>5, AnswerGoesOn
<1>6. CASE AnswerCompleted(w, job)
  BY <1>1, <1>3, <1>6, CompletedGoesOn
<1>7. CASE Stage(w, job)
  <2>1. jobs' = [jobs EXCEPT ![w] = staged]
    BY <1>7 DEF Stage
  <2> HIDE DEF staged
  <2> QED BY <1>1, <1>4, <2>1, CallGoesOn, JustifiedIfNotStaged
<1> QED BY <1>5, <1>6, <1>7 DEF ReceiveResult, job

\* The writing transactions keep the discipline.
LEMMA CommitDiscipline ==
  ASSUME DeliveryTypeOK, AttemptsOK, NEW w \in Workers, CommitStart(w) \/ CommitResult(w)
  PROVE  AttemptsOK'
<1>1. jobs[w] \in Job
  BY DEF DeliveryTypeOK
<1>2. CASE CommitStart(w)
  <2>1. CASE InsertAttempt(w)
    BY <1>2, <2>1, InsertDiscipline DEF CommitStart
  <2>2. CASE LoseStart(w)
    BY <1>1, <2>2, AnswerGoesOn DEF LoseStart
  <2> QED BY <1>2, <2>1, <2>2 DEF CommitStart
<1>3. CASE CommitResult(w)
  <2>1. CASE LoseResult(w)
    BY <1>1, <2>1, CompletedGoesOn DEF LoseResult
  <2>2. CASE RecordFailure(w)
    BY <1>3, <2>2, CompleteDiscipline DEF RecordFailure, CommitResult
  <2>3. CASE RecordSuccess(w)
    <3>1. CASE UNCHANGED attempts /\ Answer(w, jobs[w], "rejected")
      BY <1>1, <3>1, AnswerGoesOn
    <3>2. CASE CompleteRow(jobs[w]) /\ Answer(w, jobs[w], "applied")
      BY <1>3, <2>3, <3>2, CompleteDiscipline DEF RecordSuccess, CommitResult
    <3> QED BY <2>3, <3>1, <3>2 DEF RecordSuccess
  <2> QED BY <1>3, <2>1, <2>2, <2>3 DEF CommitResult
<1> QED BY <1>2, <1>3

\* Every step keeps the discipline.
LEMMA DeliveryNextDiscipline ==
  ASSUME DeliveryTypeOK, AttemptsOK, [DeliveryNext]_deliveryVars
  PROVE  AttemptsOK'
<1>1. CASE UNCHANGED <<attempts, jobs>>
  BY <1>1 DEF AttemptsOK, OneLiveAttempt, RetriesAreLimited, OneIdentityPerKey,
              StartsStayJustified, Justified
<1>2. ASSUME NEW w \in Workers, AbortJob(w) PROVE AttemptsOK'
  <2>1. jobs[w] \in Job
    BY DEF DeliveryTypeOK
  <2> QED BY <1>2, <2>1, AnswerGoesOn DEF AbortJob
<1>3. ASSUME NEW w \in Workers, ReturnJob(w) PROVE AttemptsOK'
  <2>1. NoJob.phase # "staged"
    BY NoJobType
  <2> QED BY <1>3, <2>1, CallGoesOn, JustifiedIfNotStaged DEF ReturnJob
<1> QED
  BY <1>1, <1>2, <1>3, ReceiveStartDiscipline, ReceiveResultDiscipline, CommitDiscipline
  DEF DeliveryNext, DeliveryStep, deliveryVars

\* The inductive invariant holds always.
LEMMA AttemptsAreDisciplined == DeliverySpec => []AttemptsOK
<1>1. DeliveryInit => AttemptsOK
  <2> SUFFICES ASSUME DeliveryInit PROVE AttemptsOK
    OBVIOUS
  <2>1. /\ \A k \in Keys : attempts[k] = << >>
        /\ \A w \in Workers : jobs[w].phase # "staged"
    BY NoJobType DEF DeliveryInit
  <2> QED BY <2>1, RetryAssumption
          DEF AttemptsOK, OneLiveAttempt, RetriesAreLimited, OneIdentityPerKey,
              StartsStayJustified, Justified
<1>2. DeliveryTypeOK /\ AttemptsOK /\ [DeliveryNext]_deliveryVars => AttemptsOK'
  BY DeliveryNextDiscipline
<1> QED BY <1>1, <1>2, DeliveryTypeCorrect, PTL DEF DeliverySpec

(***************************************************************************)
(* However starts and results overlap, only the last attempt under a key   *)
(* can be pending or succeeded.                                            *)
(***************************************************************************)
THEOREM OneAttemptIsLive == DeliverySpec => []OneLiveAttempt
<1>1. AttemptsOK => OneLiveAttempt
  BY DEF AttemptsOK
<1> QED BY <1>1, AttemptsAreDisciplined, PTL

(***************************************************************************)
(* The attempt limit and the delay hold under every overlap.               *)
(***************************************************************************)
THEOREM RetryLimitsHold == DeliverySpec => []RetriesAreLimited
<1>1. AttemptsOK => RetriesAreLimited
  BY DEF AttemptsOK
<1> QED BY <1>1, AttemptsAreDisciplined, PTL

(***************************************************************************)
(* A key never comes to mean two deliveries.                               *)
(***************************************************************************)
THEOREM KeysAreIdentities == DeliverySpec => []OneIdentityPerKey
<1>1. AttemptsOK => OneIdentityPerKey
  BY DEF AttemptsOK
<1> QED BY <1>1, AttemptsAreDisciplined, PTL

(***************************************************************************)
(* What a start read before it decided is still so when it commits.        *)
(***************************************************************************)
THEOREM DecisionsStayValid == DeliverySpec => []StartsStayJustified
<1>1. AttemptsOK => StartsStayJustified
  BY DEF AttemptsOK
<1> QED BY <1>1, AttemptsAreDisciplined, PTL
=============================================================================
