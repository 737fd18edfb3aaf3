----------------------- MODULE DeliveryResults_proofs -----------------------
(***************************************************************************)
(* What a step may do to the attempts, and what follows: results are       *)
(* final, effects respect the state machine, and DeliveryService does what *)
(* LogicalDelivery promises, for every set of workers, keys and settings.  *)
(***************************************************************************)
EXTENDS DeliveryRefinement, DeliveryService_proofs, CaseHistory_proofs

-----------------------------------------------------------------------------
(* What a step does to the rows. *)

\* A pending row is added under a key that has none or whose last has failed.
Adds ==
  \E k \in Keys : \E row \in Attempt :
    /\ attempts[k] = << >> \/ (attempts[k] # << >> /\ Last(k).status = "FAILED")
    /\ Len(attempts[k]) < MaxAttempts
    /\ row.status = "PENDING"
    /\ attempts' = [attempts EXCEPT ![k] = Append(@, row)]

\* The last row of a key, pending, gets its result.
Completes ==
  \E k \in Keys : \E n \in DOMAIN attempts[k] : \E row \in Attempt :
    /\ n = Len(attempts[k])
    /\ attempts[k][n].status = "PENDING"
    /\ row.status \in {"SUCCEEDED", "FAILED"} /\ row.completedAt \in Nat
    /\ row.delivery = attempts[k][n].delivery
    /\ attempts' = [attempts EXCEPT ![k][n] = row]

\* The transaction of a start adds a row.
LEMMA InsertAdds ==
  ASSUME DeliveryTypeOK, AttemptsOK, NEW w \in Workers,
         jobs[w].phase = "staged", jobs[w].op = "start", InsertAttempt(w)
  PROVE  Adds
<1> DEFINE job == jobs[w]
           k == job.key
           row == [delivery |-> job.delivery, status |-> "PENDING", externalId |-> None,
                   createdAt |-> job.now, completedAt |-> None]
<1>1. /\ k \in Keys /\ job.delivery \in Identity /\ job.now \in Nat
      /\ job.number \in 1..(Len(attempts[k]) + 1)
  BY DEF DeliveryTypeOK, JobOK, Job
<1>2. attempts[k] \in Seq(Attempt) /\ Len(attempts[k]) \in Nat
  BY <1>1 DEF DeliveryTypeOK
<1>3. job.number = Len(attempts[k]) + 1
  BY <1>1, <1>2 DEF InsertAttempt, NumberFree
<1>4. row \in Attempt /\ row.status = "PENDING"
  BY <1>1 DEF Attempt
<1>5. attempts' = [attempts EXCEPT ![k] = Append(@, row)]
  BY DEF InsertAttempt
<1> HIDE DEF row
<1>6. Justified(job)
  BY DEF AttemptsOK, StartsStayJustified
<1>7. Len(attempts[k]) < MaxAttempts
  BY <1>2, <1>3, <1>6, RetryAssumption DEF Justified
<1>8. attempts[k] # << >> => Last(k).status = "FAILED"
  <2>1. job.number - 1 = Len(attempts[k])
    BY <1>2, <1>3
  <2>2. attempts[k] # << >> => job.number > 1
    BY <1>2, <1>3
  <2> QED BY <1>6, <2>1, <2>2 DEF Justified, Last
<1> QED BY <1>1, <1>4, <1>5, <1>7, <1>8 DEF Adds

\* A result that is recorded is that of the last row.
LEMMA RecordCompletes ==
  ASSUME DeliveryTypeOK, AttemptsOK, NEW w \in Workers,
         jobs[w].phase = "staged", jobs[w].op = "result",
         StillPending(jobs[w].key, jobs[w].number), CompleteRow(jobs[w])
  PROVE  Completes
<1> DEFINE job == jobs[w]
           k == job.key
           n == job.number
           row == CompletedRow(attempts[k][n], job)
<1>1. /\ job \in Job /\ k \in Keys /\ n \in DOMAIN attempts[k]
      /\ job.outcome \in {"SUCCEEDED", "FAILED"}
  BY DEF DeliveryTypeOK, JobOK
<1>2. attempts[k] \in Seq(Attempt) /\ Len(attempts[k]) \in Nat /\ n \in 1..Len(attempts[k])
  BY <1>1 DEF DeliveryTypeOK
<1>3. /\ row \in Attempt /\ row.status \in {"SUCCEEDED", "FAILED"} /\ row.completedAt \in Nat
      /\ row.delivery = attempts[k][n].delivery
  BY <1>1, StoredAttempt, CompletedRowType DEF DeliveryTypeOK, Job
<1>4. attempts[k][n].status = "PENDING"
  BY DEF StillPending
<1>5. n = Len(attempts[k])
  BY <1>1, <1>2, <1>4 DEF AttemptsOK, OneLiveAttempt
<1>6. attempts' = [attempts EXCEPT ![k][n] = row]
  BY DEF CompleteRow
<1> HIDE DEF row
<1> QED BY <1>1, <1>3, <1>4, <1>5, <1>6 DEF Completes

\* A step adds a row, completes one, or leaves them all.
LEMMA StepOnRows ==
  ASSUME DeliveryTypeOK, AttemptsOK, [DeliveryNext]_deliveryVars
  PROVE  UNCHANGED attempts \/ Adds \/ Completes
<1>1. ASSUME NEW w \in Workers, CommitStart(w) PROVE UNCHANGED attempts \/ Adds
  BY <1>1, InsertAdds DEF CommitStart, LoseStart
<1>2. ASSUME NEW w \in Workers, CommitResult(w) PROVE UNCHANGED attempts \/ Completes
  BY <1>2, RecordCompletes DEF CommitResult, LoseResult, RecordFailure, RecordSuccess
<1> QED
  BY <1>1, <1>2
  DEF DeliveryNext, DeliveryStep, ReceiveStart, ReceiveResult, AbortJob, ReturnJob, deliveryVars

-----------------------------------------------------------------------------
(* Results are final. *)

\* Every row stays, for its delivery, and with its result if it has one.
RowsGoOn ==
  \A k \in Keys : \A n \in DOMAIN attempts[k] :
    /\ n \in DOMAIN attempts'[k]
    /\ attempts'[k][n].delivery = attempts[k][n].delivery
    /\ attempts[k][n].status # "PENDING" => attempts'[k][n] = attempts[k][n]

\* Rows are added at the end, and only a pending one is replaced.
LEMMA StepKeepsRows ==
  ASSUME DeliveryTypeOK, AttemptsOK, [DeliveryNext]_deliveryVars
  PROVE  RowsGoOn
<1> SUFFICES ASSUME NEW k \in Keys, NEW n \in DOMAIN attempts[k]
             PROVE  /\ n \in DOMAIN attempts'[k]
                    /\ attempts'[k][n].delivery = attempts[k][n].delivery
                    /\ attempts[k][n].status # "PENDING" => attempts'[k][n] = attempts[k][n]
  BY DEF RowsGoOn
<1>1. attempts \in [Keys -> Seq(Attempt)] /\ attempts[k] \in Seq(Attempt)
  BY DEF DeliveryTypeOK
<1>2. CASE Adds
  <2>1. PICK q \in Keys, row \in Attempt : attempts' = [attempts EXCEPT ![q] = Append(@, row)]
    BY <1>2 DEF Adds
  <2>2. CASE q = k
    BY <1>1, <2>1, <2>2
  <2>3. CASE q # k
    BY <1>1, <2>1, <2>3
  <2> QED BY <2>2, <2>3
<1>3. CASE Completes
  <2>1. PICK q \in Keys : \E i \in DOMAIN attempts[q] : \E row \in Attempt :
          /\ attempts[q][i].status = "PENDING" /\ row.delivery = attempts[q][i].delivery
          /\ attempts' = [attempts EXCEPT ![q][i] = row]
    BY <1>3 DEF Completes
  <2>2. PICK i \in DOMAIN attempts[q], row \in Attempt :
          /\ attempts[q][i].status = "PENDING" /\ row.delivery = attempts[q][i].delivery
          /\ attempts' = [attempts EXCEPT ![q][i] = row]
    BY <2>1
  <2>3. /\ \A p \in Keys : DOMAIN attempts'[p] = DOMAIN attempts[p]
        /\ attempts'[q][i] = row
        /\ \A p \in Keys : \A j \in DOMAIN attempts[p] :
             (p # q \/ j # i) => attempts'[p][j] = attempts[p][j]
    BY <1>1, <2>2, ReplacedRow
  <2> QED BY <2>2, <2>3
<1> QED BY <1>2, <1>3, StepOnRows

(***************************************************************************)
(* No row is lost and no result is changed by any step.                    *)
(***************************************************************************)
THEOREM RowsAreFinal == DeliverySpec => ResultsAreFinal
<1>1. DeliveryTypeOK /\ AttemptsOK /\ [DeliveryNext]_deliveryVars =>
        \A k \in Keys : \A n \in DOMAIN attempts[k] :
          /\ n \in DOMAIN attempts'[k]
          /\ attempts[k][n].status # "PENDING" => attempts'[k][n] = attempts[k][n]
  BY StepKeepsRows DEF RowsGoOn
<1> QED BY <1>1, DeliveryTypeCorrect, AttemptsAreDisciplined, PTL DEF DeliverySpec, ResultsAreFinal

-----------------------------------------------------------------------------
(* The recovery list. *)

\* A completed row has the instant of its completion.
ResultsAreDated ==
  \A k \in Keys : \A n \in DOMAIN attempts[k] :
    attempts[k][n].status # "PENDING" => attempts[k][n].completedAt \in Nat

\* Rows are completed with an instant.
LEMMA StepDatesResults ==
  ASSUME DeliveryTypeOK, AttemptsOK, ResultsAreDated, [DeliveryNext]_deliveryVars
  PROVE  ResultsAreDated'
<1>1. attempts \in [Keys -> Seq(Attempt)]
  BY DEF DeliveryTypeOK
<1>2. CASE UNCHANGED attempts
  BY <1>2 DEF ResultsAreDated
<1>3. CASE Adds
  <2>1. PICK q \in Keys, row \in Attempt :
          row.status = "PENDING" /\ attempts' = [attempts EXCEPT ![q] = Append(@, row)]
    BY <1>3 DEF Adds
  <2>2. \A k \in Keys : \A n \in DOMAIN attempts'[k] :
          \/ n \in DOMAIN attempts[k] /\ attempts'[k][n] = attempts[k][n]
          \/ attempts'[k][n] = row
    BY <1>1, <2>1, AddedRow
  <2> QED BY <2>1, <2>2 DEF ResultsAreDated
<1>4. CASE Completes
  <2>1. PICK q \in Keys : \E i \in DOMAIN attempts[q] : \E row \in Attempt :
          row.completedAt \in Nat /\ attempts' = [attempts EXCEPT ![q][i] = row]
    BY <1>4 DEF Completes
  <2>2. PICK i \in DOMAIN attempts[q], row \in Attempt :
          row.completedAt \in Nat /\ attempts' = [attempts EXCEPT ![q][i] = row]
    BY <2>1
  <2>3. /\ \A k \in Keys : DOMAIN attempts'[k] = DOMAIN attempts[k]
        /\ attempts'[q][i] = row
        /\ \A k \in Keys : \A j \in DOMAIN attempts[k] :
             (k # q \/ j # i) => attempts'[k][j] = attempts[k][j]
    BY <1>1, <2>2, ReplacedRow
  <2> QED BY <2>2, <2>3 DEF ResultsAreDated
<1> QED BY <1>2, <1>3, <1>4, StepOnRows

\* Then the query asks what a start asks.
LEMMA DatedListAgrees ==
  ASSUME DeliveryTypeOK, ResultsAreDated
  PROVE  ListAgreesWithStart
<1> SUFFICES ASSUME NEW k \in Keys, NEW now \in RequestTimes
             PROVE  Retryable(k, now) <=>
                      \/ Broken(k) /\ ~Exhausted(k) /\ RetryDue(k, now)
                      \/ Open(k) /\ Len(attempts[k]) > 1
  BY DEF ListAgreesWithStart
<1>1. attempts[k] \in Seq(Attempt) /\ Len(attempts[k]) \in Nat /\ now \in Nat
  BY DEF DeliveryTypeOK, RequestTimes
<1>2. CASE attempts[k] = << >>
  BY <1>2 DEF Retryable, Broken, Open
<1>3. CASE attempts[k] # << >>
  <2>1. Last(k).status = "FAILED" => Last(k).completedAt \in Nat /\ Last(k).completedAt # None
    BY <1>1, <1>3, NoneAssumption DEF ResultsAreDated, Last
  <2>2. Last(k).status = "FAILED" =>
          (Last(k).completedAt <= now - RetryDelay <=> RetryDue(k, now))
    BY <1>1, <2>1, RetryAssumption DEF RetryDue
  <2>3. Len(attempts[k]) < MaxAttempts <=> ~Exhausted(k)
    BY <1>1, RetryAssumption DEF Exhausted
  <2> QED BY <1>3, <2>1, <2>2, <2>3 DEF Retryable, Broken, Open
<1> QED BY <1>2, <1>3

(***************************************************************************)
(* For every delay and limit, the recovery workflow is given the deliveries*)
(* a start would give an attempt.                                          *)
(***************************************************************************)
THEOREM RecoveryListIsRight == DeliverySpec => []ListAgreesWithStart
<1>1. DeliveryInit => ResultsAreDated
  BY DEF DeliveryInit, ResultsAreDated
<1>2. DeliveryTypeOK /\ AttemptsOK /\ ResultsAreDated /\ [DeliveryNext]_deliveryVars
        => ResultsAreDated'
  BY StepDatesResults
<1>3. DeliveryTypeOK /\ ResultsAreDated => ListAgreesWithStart
  BY DatedListAgrees
<1> QED BY <1>1, <1>2, <1>3, DeliveryTypeCorrect, AttemptsAreDisciplined, PTL DEF DeliverySpec

-----------------------------------------------------------------------------
(* The promise about a key. *)

\* The last row of a key has one of three statuses.
LEMMA LastStatus ==
  ASSUME DeliveryTypeOK, NEW k \in Keys, attempts[k] # << >>
  PROVE  Last(k).status \in {"PENDING", "SUCCEEDED", "FAILED"}
<1>1. attempts[k] \in Seq(Attempt) /\ Len(attempts[k]) \in DOMAIN attempts[k]
  BY DEF DeliveryTypeOK
<1>2. attempts[k][Len(attempts[k])] \in Attempt
  BY <1>1
<1> QED BY <1>2 DEF Last, Attempt

\* A key whose rows stay the same means the same.
LEMMA SameState ==
  ASSUME DeliveryTypeOK, NEW k \in Keys, attempts'[k] = attempts[k]
  PROVE  LogicalState(k)' = LogicalState(k)
<1>1. CASE attempts[k] = << >>
  BY <1>1 DEF LogicalState
<1>2. CASE attempts[k] # << >>
  <2>1. Last(k).status \in {"PENDING", "SUCCEEDED", "FAILED"} /\ Last(k)' = Last(k)
    BY <1>2, LastStatus DEF Last
  <2> QED BY <1>2, <2>1 DEF LogicalState
<1> QED BY <1>1, <1>2

\* What a row that is added does to the logical delivery.
LEMMA AddsIsBegin ==
  ASSUME DeliveryTypeOK, Adds
  PROVE  Logical!LogicalNext
<1>1. PICK k \in Keys, row \in Attempt :
        /\ attempts[k] = << >> \/ (attempts[k] # << >> /\ Last(k).status = "FAILED")
        /\ Len(attempts[k]) < MaxAttempts
        /\ row.status = "PENDING"
        /\ attempts' = [attempts EXCEPT ![k] = Append(@, row)]
  BY DEF Adds
<1>2. attempts \in [Keys -> Seq(Attempt)] /\ attempts[k] \in Seq(Attempt)
  BY DEF DeliveryTypeOK
<1>3. /\ attempts'[k] = Append(attempts[k], row)
      /\ \A q \in Keys \ {k} : attempts'[q] = attempts[q]
  BY <1>1, <1>2
<1>4. /\ Len(attempts'[k]) = Len(attempts[k]) + 1 /\ attempts'[k] # << >>
      /\ attempts'[k][Len(attempts'[k])] = row
  BY <1>2, <1>3
<1>5. LogicalState(k) \in {"none", "failed"}
  BY <1>1 DEF LogicalState
<1>6. LogicalState(k)' = "pending" /\ \A q \in Keys \ {k} : LogicalState(q)' = LogicalState(q)
  <2>1. Last(k)' = row
    BY <1>4 DEF Last
  <2>2. LogicalState(k)' = "pending"
    BY <1>1, <1>4, <2>1 DEF LogicalState
  <2> QED BY <1>3, <2>2, SameState
<1>7. [q \in Keys |-> LogicalState(q)]' = [[q \in Keys |-> LogicalState(q)] EXCEPT ![k] = "pending"]
  BY <1>6
<1>8. [q \in Keys |-> Len(attempts[q])]'
        = [[q \in Keys |-> Len(attempts[q])] EXCEPT ![k] = @ + 1]
  BY <1>3, <1>4
<1> QED BY <1>1, <1>5, <1>7, <1>8 DEF Logical!LogicalNext, Logical!Begin

\* What a result does to it.
LEMMA CompletesIsConclude ==
  ASSUME DeliveryTypeOK, Completes
  PROVE  Logical!LogicalNext
<1>1. PICK k \in Keys : \E n \in DOMAIN attempts[k] : \E row \in Attempt :
        /\ n = Len(attempts[k]) /\ attempts[k][n].status = "PENDING"
        /\ row.status \in {"SUCCEEDED", "FAILED"}
        /\ attempts' = [attempts EXCEPT ![k][n] = row]
  BY DEF Completes
<1>2. PICK n \in DOMAIN attempts[k], row \in Attempt :
        /\ n = Len(attempts[k]) /\ attempts[k][n].status = "PENDING"
        /\ row.status \in {"SUCCEEDED", "FAILED"}
        /\ attempts' = [attempts EXCEPT ![k][n] = row]
  BY <1>1
<1>3. attempts \in [Keys -> Seq(Attempt)] /\ attempts[k] \in Seq(Attempt) /\ attempts[k] # << >>
  BY <1>2 DEF DeliveryTypeOK
<1>4. /\ \A q \in Keys : Len(attempts'[q]) = Len(attempts[q])
      /\ attempts'[k][n] = row
      /\ attempts'[k] # << >>
      /\ \A q \in Keys \ {k} : attempts'[q] = attempts[q]
  <2>1. /\ \A q \in Keys : Len(attempts'[q]) = Len(attempts[q]) /\ attempts'[k][n] = row
        /\ \A q \in Keys : attempts'[q] \in Seq(Attempt)
    BY <1>2, <1>3, ReplacedRow
  <2>2. \A q \in Keys \ {k} : attempts'[q] = attempts[q]
    BY <1>2, <1>3
  <2> QED BY <1>2, <1>3, <2>1, <2>2
<1>5. LogicalState(k) = "pending"
  BY <1>2, <1>3 DEF LogicalState, Last
<1>6. /\ LogicalState(k)' \in {"failed", "succeeded"}
      /\ \A q \in Keys \ {k} : LogicalState(q)' = LogicalState(q)
  <2>1. Last(k)' = row
    BY <1>2, <1>4 DEF Last
  <2>2. LogicalState(k)' \in {"failed", "succeeded"}
    BY <1>2, <1>4, <2>1 DEF LogicalState
  <2> QED BY <1>4, <2>2, SameState
<1>7. \E outcome \in {"failed", "succeeded"} :
        [q \in Keys |-> LogicalState(q)]'
          = [[q \in Keys |-> LogicalState(q)] EXCEPT ![k] = outcome]
  BY <1>6
<1>8. [q \in Keys |-> Len(attempts[q])]' = [q \in Keys |-> Len(attempts[q])]
  BY <1>4
<1> QED BY <1>2, <1>5, <1>7, <1>8 DEF Logical!LogicalNext, Logical!Conclude

\* Steps that leave the attempts leave what they stand for.
LEMMA LogicalUndisturbed ==
  ASSUME UNCHANGED attempts
  PROVE  UNCHANGED Logical!logicalVars
  BY DEF Logical!logicalVars, LogicalState, Last

\* Every step is one of the logical delivery, or none.
LEMMA StepIsLogical ==
  ASSUME DeliveryTypeOK, AttemptsOK, [DeliveryNext]_deliveryVars
  PROVE  [Logical!LogicalNext]_(Logical!logicalVars)
  BY LogicalUndisturbed, StepOnRows, AddsIsBegin, CompletesIsConclude

(***************************************************************************)
(* Whatever is called, in whatever order and however often, a key lives    *)
(* the life LogicalDelivery describes.                                     *)
(***************************************************************************)
THEOREM DeliveryImplementsLogical == DeliverySpec => ImplementsLogicalDelivery
<1>1. DeliveryInit => Logical!LogicalInit
  BY DEF DeliveryInit, Logical!LogicalInit, LogicalState
<1>2. DeliveryTypeOK /\ AttemptsOK /\ [DeliveryNext]_deliveryVars
        => [Logical!LogicalNext]_(Logical!logicalVars)
  BY StepIsLogical
<1> QED BY <1>1, <1>2, DeliveryTypeCorrect, AttemptsAreDisciplined, PTL
        DEF DeliverySpec, ImplementsLogicalDelivery, Logical!LogicalSpec

-----------------------------------------------------------------------------
(* Answers. *)

\* The answers a client relies on.
ReliedOn == {"applied", "already", "pending", "completed", "failed_before"}

\* What such an answer has said is so, in these rows.
Stands(job, rows) ==
  job.answer \in ReliedOn =>
    /\ job.key \in Keys /\ job.number \in DOMAIN rows[job.key]
    /\ job.op = "start" => rows[job.key][job.number].delivery = job.delivery
    /\ job.answer = "completed" => rows[job.key][job.number].status = "SUCCEEDED"
    /\ job.op = "result" => /\ rows[job.key][job.number].status = job.outcome
                           /\ job.outcome # "PENDING"

\* The inductive invariant: such an answer is about a key, and a result is one.
AnswersStand == \A w \in Workers : Stands(jobs[w], attempts)

\* A call without such an answer has said nothing.
LEMMA NothingSaid ==
  ASSUME NEW job, job.answer \notin ReliedOn, NEW rows
  PROVE  Stands(job, rows)
  BY DEF Stands

\* What is so stays so, because rows stay and results are final.
LEMMA StandsOn ==
  ASSUME RowsGoOn, NEW job, Stands(job, attempts)
  PROVE  Stands(job, attempts')
  BY DEF RowsGoOn, Stands

\* One call goes on as newJob, every other one as it was.
LEMMA CallStands ==
  ASSUME DeliveryTypeOK, AnswersStand, RowsGoOn, NEW w \in Workers, NEW newJob,
         jobs' = [jobs EXCEPT ![w] = newJob], Stands(newJob, attempts')
  PROVE  AnswersStand'
<1>1. ASSUME NEW q \in Workers PROVE Stands(jobs[q], attempts)'
  <2>1. CASE q = w
    BY <2>1 DEF DeliveryTypeOK, Stands, ReliedOn
  <2>2. CASE q # w
    <3>1. jobs'[q] = jobs[q] /\ Stands(jobs[q], attempts)
      BY <2>2 DEF DeliveryTypeOK, AnswersStand
    <3> QED BY <3>1, StandsOn DEF Stands, ReliedOn
  <2> QED BY <2>1, <2>2
<1> QED BY <1>1 DEF AnswersStand

\* A call ends with an answer that is so.
LEMMA AnswerStands ==
  ASSUME DeliveryTypeOK, AnswersStand, RowsGoOn, NEW w \in Workers, NEW job \in Job, NEW answer,
         Answer(w, job, answer),
         answer \in ReliedOn =>
           /\ job.key \in Keys /\ job.number \in DOMAIN attempts'[job.key]
           /\ job.op = "start" => attempts'[job.key][job.number].delivery = job.delivery
           /\ answer = "completed" => attempts'[job.key][job.number].status = "SUCCEEDED"
           /\ job.op = "result" => /\ attempts'[job.key][job.number].status = job.outcome
                                  /\ job.outcome # "PENDING"
  PROVE  AnswersStand'
<1> DEFINE newJob == [job EXCEPT !.phase = "answered", !.now = 0, !.answer = answer]
<1>1. jobs' = [jobs EXCEPT ![w] = newJob]
  BY DEF Answer
<1>2. /\ newJob.answer = answer /\ newJob.key = job.key /\ newJob.number = job.number
      /\ newJob.op = job.op /\ newJob.delivery = job.delivery /\ newJob.outcome = job.outcome
  BY DEF Job
<1> HIDE DEF newJob
<1>3. Stands(newJob, attempts')
  BY <1>2 DEF Stands
<1> QED BY <1>1, <1>3, CallStands

\* A call that stages its write has answered nothing.
LEMMA StageStands ==
  ASSUME DeliveryTypeOK, AnswersStand, RowsGoOn, NEW w \in Workers, NEW job \in Job,
         job.answer = None, Stage(w, job)
  PROVE  AnswersStand'
<1> DEFINE newJob == [job EXCEPT !.phase = "staged"]
<1>1. jobs' = [jobs EXCEPT ![w] = newJob] /\ newJob.answer = None
  BY DEF Stage, Job
<1> HIDE DEF newJob
<1>2. newJob.answer \notin ReliedOn
  BY <1>1, NoJobAnswerAssumption DEF ReliedOn, JobAnswers
<1> QED BY <1>1, <1>2, NothingSaid, CallStands

\* The reading step of a start answers with what is stored.
LEMMA ReceiveStartStands ==
  ASSUME DeliveryTypeOK, AttemptsOK, AnswersStand, RowsGoOn, NEW w \in Workers, NEW k \in Keys,
         NEW d \in Deliveries, NEW allowRetry \in BOOLEAN, NEW now \in RequestTimes,
         ReceiveStart(w, k, d, allowRetry, now)
  PROVE  AnswersStand'
<1>1. UNCHANGED attempts
  BY DEF ReceiveStart
<1>2. attempts[k] \in Seq(Attempt) /\ Len(attempts[k]) \in Nat
  BY DEF DeliveryTypeOK
<1>3. \A number \in Nat :
        /\ StartJob(k, d, number, now) \in Job
        /\ StartJob(k, d, number, now).key = k /\ StartJob(k, d, number, now).delivery = d
        /\ StartJob(k, d, number, now).number = number
        /\ StartJob(k, d, number, now).op = "start" /\ StartJob(k, d, number, now).answer = None
  BY StartJobType DEF StartJob, NoJob
<1>4. ASSUME NEW number \in Nat, NEW answer, answer \notin ReliedOn,
             Answer(w, StartJob(k, d, number, now), answer)
      PROVE  AnswersStand'
  BY <1>3, <1>4, AnswerStands
<1>5. CASE RefuseStart(w, k, d, now)
  BY <1>4, <1>5 DEF RefuseStart, ReliedOn
<1>6. CASE SameDelivery(k, d) /\ attempts[k] # << >> /\ ReuseAttempt(w, k, d, allowRetry, now)
  <2> DEFINE n == Len(attempts[k])
             job == StartJob(k, d, n, now)
  <2>1. n \in DOMAIN attempts[k] /\ 1 \in DOMAIN attempts[k]
    BY <1>2, <1>6
  <2>2. attempts[k][n].delivery = d
    BY <1>6, <2>1 DEF SameDelivery, AttemptsOK, OneIdentityPerKey
  <2>3. Succeeded(k) => attempts[k][n].status = "SUCCEEDED"
    BY <1>2, <2>1 DEF Succeeded, AttemptsOK, OneLiveAttempt
  <2>4. /\ job \in Job /\ job.key = k /\ job.delivery = d /\ job.number = n
        /\ job.op = "start"
    BY <1>2, <1>3
  <2> HIDE DEF job
  <2>5. ASSUME NEW answer, Answer(w, job, answer), answer = "completed" => Succeeded(k)
        PROVE  AnswersStand'
    BY <1>1, <2>1, <2>2, <2>3, <2>4, <2>5, AnswerStands
  <2>6. \/ Succeeded(k) /\ Answer(w, job, "completed")
        \/ Answer(w, job, "pending") \/ Answer(w, job, "failed_before")
    BY <1>6 DEF ReuseAttempt, job
  <2> QED BY <2>5, <2>6
<1>7. CASE DecideRetry(w, k, d, now)
  BY <1>2, <1>3, <1>4, <1>7, StageStands DEF DecideRetry, ReliedOn
<1>8. CASE Stage(w, StartJob(k, d, 1, now))
  BY <1>3, <1>8, StageStands
<1>9. ReuseAttempt(w, k, d, allowRetry, now) => attempts[k] # << >>
  BY <1>2 DEF ReuseAttempt, Succeeded, Open, Broken
<1> QED BY <1>5, <1>6, <1>7, <1>8, <1>9 DEF ReceiveStart

\* A repeated result is answered with the stored one.
LEMMA CompletedStands ==
  ASSUME DeliveryTypeOK, AnswersStand, RowsGoOn, UNCHANGED attempts, NEW w \in Workers,
         NEW job \in Job, job.key \in Keys, job.number \in DOMAIN attempts[job.key],
         job.op = "result", job.outcome # "PENDING", AnswerCompleted(w, job)
  PROVE  AnswersStand'
<1>1. CASE /\ SameResult(attempts[job.key][job.number], job.outcome, job.externalId)
           /\ Answer(w, job, "already")
  BY <1>1, AnswerStands DEF SameResult, ReliedOn
<1>2. CASE Answer(w, job, "conflict")
  BY <1>2, AnswerStands DEF ReliedOn
<1> QED BY <1>1, <1>2 DEF AnswerCompleted

\* The reading step of a result.
LEMMA ReceiveResultStands ==
  ASSUME DeliveryTypeOK, AnswersStand, RowsGoOn, NEW w \in Workers, NEW k \in Keys,
         NEW n \in 1..MaxAttempts, NEW ext \in ExternalIds \cup {None},
         NEW outcome \in {"PENDING", "SUCCEEDED", "FAILED"}, NEW now \in RequestTimes,
         ReceiveResult(w, k, n, outcome, ext, now)
  PROVE  AnswersStand'
<1> DEFINE job == ResultJob(k, n, outcome, ext, now)
<1>1. UNCHANGED attempts
  BY DEF ReceiveResult
<1>2. now \in Nat /\ n \in Nat
  BY RetryAssumption DEF RequestTimes
<1>3. /\ job \in Job /\ job.key = k /\ job.number = n /\ job.outcome = outcome
      /\ job.op = "result" /\ job.answer = None
  BY <1>2 DEF ResultJob, NoJob, Job
<1>4. \/ Answer(w, job, "invalid") \/ Answer(w, job, "not_found")
      \/ outcome # "PENDING" /\ n \in DOMAIN attempts[k] /\ AnswerCompleted(w, job)
      \/ Stage(w, job)
  BY DEF ReceiveResult
<1> HIDE DEF job
<1>5. CASE Answer(w, job, "invalid") \/ Answer(w, job, "not_found")
  BY <1>3, <1>5, AnswerStands DEF ReliedOn
<1>6. CASE outcome # "PENDING" /\ n \in DOMAIN attempts[k] /\ AnswerCompleted(w, job)
  BY <1>1, <1>3, <1>6, CompletedStands
<1>7. CASE Stage(w, job)
  BY <1>3, <1>7, StageStands
<1> QED BY <1>4, <1>5, <1>6, <1>7

\* The transaction of a start answers with the row it adds, or the one that was first.
LEMMA CommitStartStands ==
  ASSUME DeliveryTypeOK, AnswersStand, RowsGoOn, NEW w \in Workers, CommitStart(w)
  PROVE  AnswersStand'
<1> DEFINE job == jobs[w]
           k == job.key
           n == job.number
<1>1. /\ job \in Job /\ k \in Keys /\ job.op = "start" /\ n \in 1..(Len(attempts[k]) + 1)
  BY DEF DeliveryTypeOK, JobOK, CommitStart
<1>2. attempts \in [Keys -> Seq(Attempt)] /\ attempts[k] \in Seq(Attempt)
  BY <1>1 DEF DeliveryTypeOK
<1>3. CASE InsertAttempt(w)
  <2> DEFINE row == [delivery |-> job.delivery, status |-> "PENDING", externalId |-> None,
                     createdAt |-> job.now, completedAt |-> None]
  <2>1. /\ attempts' = [attempts EXCEPT ![k] = Append(@, row)]
        /\ Answer(w, job, "applied") /\ n = Len(attempts[k]) + 1
    BY <1>1, <1>2, <1>3 DEF InsertAttempt, NumberFree
  <2>2. row.delivery = job.delivery
    OBVIOUS
  <2> HIDE DEF row
  <2>3. n \in DOMAIN attempts'[k] /\ attempts'[k][n] = row
    BY <1>1, <1>2, <2>1
  <2> QED BY <1>1, <2>1, <2>2, <2>3, AnswerStands DEF ReliedOn
<1>4. CASE LoseStart(w)
  <2>1. n \in DOMAIN attempts[k] /\ UNCHANGED attempts
    BY <1>1, <1>2, <1>4 DEF LoseStart, NumberFree
  <2> QED BY <1>1, <1>4, <2>1, AnswerStands DEF LoseStart, ReliedOn
<1> QED BY <1>3, <1>4 DEF CommitStart

\* The transaction of a result answers with what it stores, or with what is stored.
LEMMA CommitResultStands ==
  ASSUME DeliveryTypeOK, AnswersStand, RowsGoOn, NEW w \in Workers, CommitResult(w)
  PROVE  AnswersStand'
<1> DEFINE job == jobs[w]
           k == job.key
           n == job.number
<1>1. /\ job \in Job /\ k \in Keys /\ job.op = "result" /\ n \in DOMAIN attempts[k]
      /\ job.outcome \in {"SUCCEEDED", "FAILED"}
  BY DEF DeliveryTypeOK, JobOK, CommitResult
<1>2. attempts \in [Keys -> Seq(Attempt)] /\ attempts[k] \in Seq(Attempt)
  BY <1>1 DEF DeliveryTypeOK
<1>3. CASE LoseResult(w)
  BY <1>1, <1>3, CompletedStands DEF LoseResult
<1>4. CASE CompleteRow(job) /\ Answer(w, job, "applied")
  <2> DEFINE row == CompletedRow(attempts[k][n], job)
  <2>1. row \in Attempt /\ row.status = job.outcome
    BY <1>1, <1>2, StoredAttempt, CompletedRowType
  <2>2. attempts' = [attempts EXCEPT ![k][n] = row]
    BY <1>4 DEF CompleteRow
  <2> HIDE DEF row
  <2>3. n \in DOMAIN attempts'[k] /\ attempts'[k][n] = row
    BY <1>1, <1>2, <2>1, <2>2, ReplacedRow
  <2> QED BY <1>1, <1>4, <2>1, <2>3, AnswerStands
<1>5. CASE Answer(w, job, "rejected")
  BY <1>1, <1>5, AnswerStands DEF ReliedOn
<1> QED BY <1>3, <1>4, <1>5 DEF CommitResult, RecordFailure, RecordSuccess

\* Every step keeps what has been answered.
LEMMA StepStands ==
  ASSUME DeliveryTypeOK, AttemptsOK, AnswersStand, [DeliveryNext]_deliveryVars
  PROVE  AnswersStand'
<1>1. RowsGoOn
  BY StepKeepsRows
<1>2. CASE UNCHANGED <<attempts, jobs>>
  BY <1>2 DEF AnswersStand, Stands, ReliedOn
<1>3. ASSUME NEW w \in Workers, AbortJob(w) PROVE AnswersStand'
  <2>1. jobs[w] \in Job
    BY DEF DeliveryTypeOK
  <2> QED BY <1>1, <1>3, <2>1, AnswerStands DEF AbortJob, ReliedOn
<1>4. ASSUME NEW w \in Workers, ReturnJob(w) PROVE AnswersStand'
  <2>1. NoJob.answer = None
    BY DEF NoJob
  <2>2. NoJob.answer \notin ReliedOn
    BY <2>1, NoJobAnswerAssumption DEF ReliedOn, JobAnswers
  <2> QED BY <1>1, <1>4, <2>2, NothingSaid, CallStands DEF ReturnJob
<1>5. ASSUME NEW w \in Workers, DeliveryStep(w) PROVE AnswersStand'
  BY <1>1, <1>3, <1>4, <1>5, ReceiveStartStands, ReceiveResultStands, CommitStartStands,
     CommitResultStands DEF DeliveryStep
<1> QED BY <1>2, <1>5 DEF DeliveryNext, deliveryVars

(***************************************************************************)
(* A client can rely on what it was answered about an attempt: neither a   *)
(* late call nor a retry makes it untrue.                                  *)
(***************************************************************************)
THEOREM AnswersLast == DeliverySpec => []ResultsAreDurable
<1>1. DeliveryInit => AnswersStand
  <2>1. NoJob.answer = None
    BY DEF NoJob
  <2>2. NoJob.answer \notin ReliedOn
    BY <2>1, NoJobAnswerAssumption DEF ReliedOn, JobAnswers
  <2> QED BY <2>2, NothingSaid DEF DeliveryInit, AnswersStand
<1>2. DeliveryTypeOK /\ AttemptsOK /\ AnswersStand /\ [DeliveryNext]_deliveryVars => AnswersStand'
  BY StepStands
<1>3. AnswersStand => ResultsAreDurable
  BY DEF AnswersStand, Stands, ReliedOn, ResultsAreDurable
<1> QED BY <1>1, <1>2, <1>3, DeliveryTypeCorrect, AttemptsAreDisciplined, PTL DEF DeliverySpec
=============================================================================
