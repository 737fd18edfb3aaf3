----------------------- MODULE DeliveryEffects_proofs -----------------------
(***************************************************************************)
(* What attempts do to their case, for every set of workers, keys and      *)
(* settings: the history tells what the attempts say, each thing once, and *)
(* an effect finds the case in a status that allows it.                    *)
(***************************************************************************)
EXTENDS DeliveryResults_proofs

-----------------------------------------------------------------------------
(* What the rows say that the history has to tell. *)

\* The types of the events that name an attempt.
AttemptEvents ==
  {"DELIVERY_FAILED", "DELIVERY_RETRIED", "CLIENT_REQUEST_SENT", "MODERATOR_NOTIFIED"}

\* The event of an attempt.
Told(type, k, n) == Event(type, <<k, n>>)

\* A row with this number has such an event.
RowTells(row, n, type) ==
  \/ type = "DELIVERY_FAILED" /\ row.status = "FAILED"
  \/ type = "DELIVERY_RETRIED" /\ n > 1
  \/ /\ type = "CLIENT_REQUEST_SENT" /\ row.status = "SUCCEEDED"
     /\ row.delivery.type = "CLIENT_REQUEST"
  \/ /\ type = "MODERATOR_NOTIFIED" /\ row.status = "SUCCEEDED"
     /\ row.delivery.type = "MODERATOR_NOTIFICATION"

Tells(rows, type, k, n) == n \in DOMAIN rows[k] /\ RowTells(rows[k][n], n, type)

\* The number n of the key is of this case, or not in use.
OfCase(rows, c, k, n) == n \in DOMAIN rows[k] => rows[k][n].delivery.case = c

(***************************************************************************)
(* The inductive invariant: numbers that are not in use have no event in   *)
(* any case yet.                                                           *)
(***************************************************************************)
HistoryOK ==
  \A c \in Cases, k \in Keys, n \in Nat, type \in AttemptEvents :
    OfCase(attempts, c, k, n) =>
      Cardinality(Places(Told(type, k, n), history[c]))
        = IF Tells(attempts, type, k, n) THEN 1 ELSE 0

\* The property is what the invariant says of the rows there are.
LEMMA HistoryTold ==
  ASSUME DeliveryTypeOK, HistoryOK
  PROVE  HistoryMatchesAttempts
<1> SUFFICES ASSUME NEW k \in Keys, NEW n \in DOMAIN attempts[k]
             PROVE  LET row == attempts[k][n]  c == row.delivery.case
                    IN /\ Times(c, "DELIVERY_FAILED", k, n) = IF row.status = "FAILED" THEN 1 ELSE 0
                       /\ Times(c, "DELIVERY_RETRIED", k, n) = IF n > 1 THEN 1 ELSE 0
                       /\ \A type \in DOMAIN EffectEvents :
                            Times(c, EffectEvents[type], k, n) =
                              IF row.status = "SUCCEEDED" /\ row.delivery.type = type THEN 1 ELSE 0
  BY DEF HistoryMatchesAttempts
<1> DEFINE row == attempts[k][n]
           c == row.delivery.case
<1>1. c \in Cases /\ n \in Nat /\ OfCase(attempts, c, k, n)
  <2>1. attempts \in [Keys -> Seq(Attempt)] /\ attempts[k] \in Seq(Attempt)
    BY DEF DeliveryTypeOK
  <2> QED BY <2>1, StoredAttempt DEF OfCase
<1>2. \A type \in AttemptEvents :
        Times(c, type, k, n) = IF RowTells(row, n, type) THEN 1 ELSE 0
  BY <1>1 DEF HistoryOK, Times, Places, Told, Tells
<1> HIDE DEF c
<1>3. Times(c, "DELIVERY_FAILED", k, n) = IF row.status = "FAILED" THEN 1 ELSE 0
  BY <1>2 DEF AttemptEvents, RowTells
<1>4. Times(c, "DELIVERY_RETRIED", k, n) = IF n > 1 THEN 1 ELSE 0
  BY <1>2 DEF AttemptEvents, RowTells
<1>5. Times(c, "CLIENT_REQUEST_SENT", k, n)
        = IF row.status = "SUCCEEDED" /\ row.delivery.type = "CLIENT_REQUEST" THEN 1 ELSE 0
  BY <1>2 DEF AttemptEvents, RowTells
<1>6. Times(c, "MODERATOR_NOTIFIED", k, n)
        = IF row.status = "SUCCEEDED" /\ row.delivery.type = "MODERATOR_NOTIFICATION"
          THEN 1 ELSE 0
  BY <1>2 DEF AttemptEvents, RowTells
<1> QED BY <1>3, <1>4, <1>5, <1>6 DEF EffectEvents, c

\* The events of two attempts are two events, and none is that of a command.
LEMMA ToldApart ==
  ASSUME NEW k \in Keys, NEW n \in Nat, NEW type \in AttemptEvents
  PROVE  /\ \A q, i, other : (type # other \/ k # q \/ n # i) => Told(type, k, n) # Told(other, q, i)
         /\ Told(type, k, n) # RequestSent
         /\ Told(type, k, n).type = type
  BY NoReferenceAssumption DEF Told, RequestSent, Event

\* A number that is of the case after a step was so before it.
LEMMA OfCaseBefore ==
  ASSUME RowsGoOn, NEW c, NEW k \in Keys, NEW n, OfCase(attempts', c, k, n)
  PROVE  OfCase(attempts, c, k, n)
  BY DEF RowsGoOn, OfCase

\* The invariant after a step, in terms of the new tables.
LEMMA HistoryAfter ==
  ASSUME \A c \in Cases, k \in Keys, n \in Nat, type \in AttemptEvents :
           OfCase(attempts', c, k, n) =>
             Cardinality(Places(Told(type, k, n), history'[c]))
               = IF Tells(attempts', type, k, n) THEN 1 ELSE 0
  PROVE  HistoryOK'
  BY DEF HistoryOK, OfCase, Tells, RowTells, Told, Event, Places, AttemptEvents

\* Nothing is said and nothing is told.
LEMMA NothingTold ==
  ASSUME HistoryOK, RowsGoOn,
         \A k \in Keys, n \in Nat, type \in AttemptEvents :
           /\ Tells(attempts', type, k, n) <=> Tells(attempts, type, k, n)
           /\ \A c \in Cases :
                Places(Told(type, k, n), history'[c]) = Places(Told(type, k, n), history[c])
  PROVE  HistoryOK'
<1> SUFFICES ASSUME NEW c \in Cases, NEW k \in Keys, NEW n \in Nat, NEW type \in AttemptEvents,
                    OfCase(attempts', c, k, n)
             PROVE  Cardinality(Places(Told(type, k, n), history'[c]))
                      = IF Tells(attempts', type, k, n) THEN 1 ELSE 0
  BY HistoryAfter
<1>1. OfCase(attempts, c, k, n)
  BY OfCaseBefore
<1> QED BY <1>1 DEF HistoryOK

\* Nothing else has become of what the rows say.
NothingElseSaid(type, k, n) ==
  \A q \in Keys, i \in Nat, other \in AttemptEvents :
    (other # type \/ q # k \/ i # n) =>
      (Tells(attempts', other, q, i) <=> Tells(attempts, other, q, i))

\* One thing is said of an attempt, and it is told in its case.
LEMMA OneTold ==
  ASSUME DeliveryTypeOK, HistoryOK, RowsGoOn, NEW c \in Cases, NEW k \in Keys, NEW n \in Nat,
         NEW type \in AttemptEvents,
         history' = [history EXCEPT ![c] = Append(@, Told(type, k, n))],
         ~Tells(attempts, type, k, n), Tells(attempts', type, k, n),
         OfCase(attempts', c, k, n), NothingElseSaid(type, k, n)
  PROVE  HistoryOK'
<1> SUFFICES ASSUME NEW d \in Cases, NEW q \in Keys, NEW i \in Nat, NEW other \in AttemptEvents,
                    OfCase(attempts', d, q, i)
             PROVE  Cardinality(Places(Told(other, q, i), history'[d]))
                      = IF Tells(attempts', other, q, i) THEN 1 ELSE 0
  BY HistoryAfter
<1>1. /\ history \in [Cases -> Seq(CaseEvent)] /\ history[c] \in Seq(CaseEvent)
      /\ history'[c] = Append(history[c], Told(type, k, n))
      /\ \A e \in Cases \ {c} : history'[e] = history[e]
  BY DEF DeliveryTypeOK, TypeOK, StoreTypeOK
<1>2. CASE other = type /\ q = k /\ i = n
  <2>1. d = c
    BY <1>2 DEF Tells, OfCase
  <2>2. Cardinality(Places(Told(type, k, n), history[c])) = 0
    BY OfCaseBefore DEF HistoryOK
  <2>3. Cardinality(Places(Told(type, k, n), Append(history[c], Told(type, k, n)))) = 0 + 1
    BY <1>1, <2>2, SameEvent
  <2> QED BY <1>1, <1>2, <2>1, <2>3
<1>3. CASE other # type \/ q # k \/ i # n
  <2>1. Told(other, q, i) # Told(type, k, n)
    BY <1>3, ToldApart
  <2>2. Places(Told(other, q, i), Append(history[c], Told(type, k, n)))
          = Places(Told(other, q, i), history[c])
    BY <1>1, <2>1, OtherEvent
  <2>3. Places(Told(other, q, i), history'[d]) = Places(Told(other, q, i), history[d])
    BY <1>1, <2>2
  <2>4. Cardinality(Places(Told(other, q, i), history[d]))
          = IF Tells(attempts, other, q, i) THEN 1 ELSE 0
    BY OfCaseBefore DEF HistoryOK
  <2> QED BY <1>3, <2>3, <2>4 DEF NothingElseSaid
<1> QED BY <1>2, <1>3

-----------------------------------------------------------------------------
(* The steps that tell something. *)

\* Nothing has become of the attempt with this number.
SameRow(q, i) ==
  /\ i \in DOMAIN attempts'[q] <=> i \in DOMAIN attempts[q]
  /\ i \in DOMAIN attempts[q] => attempts'[q][i] = attempts[q][i]

\* A row that stays tells what it told.
LEMMA SameRowTells ==
  ASSUME NEW q, NEW i, SameRow(q, i), NEW type
  PROVE  Tells(attempts', type, q, i) <=> Tells(attempts, type, q, i)
  BY DEF SameRow, Tells

\* An attempt that is begun tells of a retry, unless it is the first one.
LEMMA InsertTold ==
  ASSUME DeliveryTypeOK, HistoryOK, RowsGoOn, NEW w \in Workers,
         jobs[w].phase = "staged", jobs[w].op = "start", InsertAttempt(w)
  PROVE  HistoryOK'
<1> DEFINE job == jobs[w]
           k == job.key
           n == job.number
           c == job.delivery.case
           row == [delivery |-> job.delivery, status |-> "PENDING", externalId |-> None,
                   createdAt |-> job.now, completedAt |-> None]
<1>1. /\ k \in Keys /\ job.delivery \in Identity /\ c \in Cases
      /\ n \in 1..(Len(attempts[k]) + 1)
  BY DEF DeliveryTypeOK, JobOK, Identity
<1>2. attempts \in [Keys -> Seq(Attempt)] /\ attempts[k] \in Seq(Attempt)
  BY <1>1 DEF DeliveryTypeOK
<1>3. n = Len(attempts[k]) + 1 /\ n \in Nat
  BY <1>1, <1>2 DEF InsertAttempt, NumberFree
<1>4. row.status = "PENDING" /\ row.delivery = job.delivery
  OBVIOUS
<1>5. attempts' = [attempts EXCEPT ![k] = Append(@, row)]
  BY DEF InsertAttempt
<1> HIDE DEF row
<1>6. attempts'[k] = Append(attempts[k], row) /\ \A q \in Keys \ {k} : attempts'[q] = attempts[q]
  BY <1>1, <1>2, <1>5
<1>7. n \in DOMAIN attempts'[k] /\ attempts'[k][n] = row /\ n \notin DOMAIN attempts[k]
  BY <1>2, <1>3, <1>6
<1>8. \A q \in Keys, i \in Nat : (q # k \/ i # n) => SameRow(q, i)
  <2> SUFFICES ASSUME NEW q \in Keys, NEW i \in Nat, q # k \/ i # n PROVE SameRow(q, i)
    OBVIOUS
  <2>1. CASE q # k
    BY <1>6, <2>1 DEF SameRow
  <2>2. CASE q = k
    <3>1. /\ DOMAIN attempts'[k] = 1..(Len(attempts[k]) + 1)
          /\ DOMAIN attempts[k] = 1..Len(attempts[k]) /\ Len(attempts[k]) \in Nat
          /\ \A j \in DOMAIN attempts[k] : attempts'[k][j] = attempts[k][j]
      BY <1>2, <1>6
    <3>2. i # n
      BY <2>2
    <3> QED BY <1>3, <2>2, <3>1, <3>2 DEF SameRow
  <2> QED BY <2>1, <2>2
<1>9. \A type : /\ ~Tells(attempts, type, k, n)
                /\ Tells(attempts', type, k, n) <=> type = "DELIVERY_RETRIED" /\ n > 1
  BY <1>4, <1>7 DEF Tells, RowTells
<1>10. OfCase(attempts', c, k, n)
  BY <1>4, <1>7 DEF OfCase
<1>11. history' = IF n > 1 THEN [history EXCEPT ![c] = Append(@, Told("DELIVERY_RETRIED", k, n))]
                           ELSE history
  BY DEF InsertAttempt, Told
<1> HIDE DEF c, n, k, job
<1>12. CASE n > 1
  <2>1. "DELIVERY_RETRIED" \in AttemptEvents
    BY DEF AttemptEvents
  <2>2. NothingElseSaid("DELIVERY_RETRIED", k, n)
    BY <1>8, <1>9, SameRowTells DEF NothingElseSaid
  <2> QED BY <1>1, <1>3, <1>9, <1>10, <1>11, <1>12, <2>1, <2>2, OneTold
<1>13. CASE ~(n > 1)
  <2>1. \A q \in Keys, i \in Nat, type \in AttemptEvents :
          Tells(attempts', type, q, i) <=> Tells(attempts, type, q, i)
    BY <1>8, <1>9, <1>13, SameRowTells
  <2> QED BY <1>11, <1>13, <2>1, NothingTold
<1> QED BY <1>12, <1>13

\* What is said of an attempt when its result is recorded: the failure, or the effect.
LEMMA CompletionTells ==
  ASSUME DeliveryTypeOK, NEW job \in Job, job.key \in Keys,
         job.number \in DOMAIN attempts[job.key], job.outcome \in {"SUCCEEDED", "FAILED"},
         StillPending(job.key, job.number), CompleteRow(job)
  PROVE  LET k == job.key  n == job.number  delivery == attempts[k][n].delivery
         IN /\ OfCase(attempts', delivery.case, k, n)
            /\ \A q \in Keys, i \in Nat : (q # k \/ i # n) => SameRow(q, i)
            /\ \A type : Tells(attempts, type, k, n) <=> type = "DELIVERY_RETRIED" /\ n > 1
            /\ \A type : Tells(attempts', type, k, n) <=>
                 \/ type = "DELIVERY_RETRIED" /\ n > 1
                 \/ type = "DELIVERY_FAILED" /\ job.outcome = "FAILED"
                 \/ /\ type = "CLIENT_REQUEST_SENT" /\ job.outcome = "SUCCEEDED"
                    /\ delivery.type = "CLIENT_REQUEST"
                 \/ /\ type = "MODERATOR_NOTIFIED" /\ job.outcome = "SUCCEEDED"
                    /\ delivery.type = "MODERATOR_NOTIFICATION"
<1> DEFINE k == job.key
           n == job.number
           old == attempts[k][n]
           row == CompletedRow(old, job)
<1>1. attempts \in [Keys -> Seq(Attempt)] /\ old.status = "PENDING"
  BY DEF DeliveryTypeOK, StillPending
<1>2. row \in Attempt /\ row.status = job.outcome /\ row.delivery = old.delivery
  BY <1>1, StoredAttempt, CompletedRowType
<1>3. attempts' = [attempts EXCEPT ![k][n] = row]
  BY DEF CompleteRow
<1> HIDE DEF row
<1>4. /\ \A q \in Keys : DOMAIN attempts'[q] = DOMAIN attempts[q]
      /\ attempts'[k][n] = row
      /\ \A q \in Keys : \A i \in DOMAIN attempts[q] :
           (q # k \/ i # n) => attempts'[q][i] = attempts[q][i]
  BY <1>1, <1>2, <1>3, ReplacedRow
<1>5. \A q \in Keys, i \in Nat : (q # k \/ i # n) => SameRow(q, i)
  BY <1>4 DEF SameRow
<1>6. OfCase(attempts', old.delivery.case, k, n)
  BY <1>2, <1>4 DEF OfCase
<1>7. \A type : Tells(attempts, type, k, n) <=> type = "DELIVERY_RETRIED" /\ n > 1
  BY <1>1 DEF Tells, RowTells
<1>8. n \in DOMAIN attempts'[k] /\ attempts'[k][n] = row
  BY <1>4
<1> HIDE DEF k, n, old
<1>9. \A type : Tells(attempts', type, k, n) <=>
        \/ type = "DELIVERY_RETRIED" /\ n > 1
        \/ type = "DELIVERY_FAILED" /\ job.outcome = "FAILED"
        \/ /\ type = "CLIENT_REQUEST_SENT" /\ job.outcome = "SUCCEEDED"
           /\ old.delivery.type = "CLIENT_REQUEST"
        \/ /\ type = "MODERATOR_NOTIFIED" /\ job.outcome = "SUCCEEDED"
           /\ old.delivery.type = "MODERATOR_NOTIFICATION"
  BY <1>2, <1>8 DEF Tells, RowTells
<1> QED BY <1>5, <1>6, <1>7, <1>9 DEF k, n, old

\* A result that is recorded tells what it is.
LEMMA ResultTold ==
  ASSUME DeliveryTypeOK, HistoryOK, RowsGoOn, NEW w \in Workers,
         jobs[w].phase = "staged", jobs[w].op = "result", RecordFailure(w) \/ RecordSuccess(w)
  PROVE  HistoryOK'
<1> DEFINE job == jobs[w]
           k == job.key
           n == job.number
           delivery == attempts[k][n].delivery
           c == delivery.case
<1>1. /\ job \in Job /\ k \in Keys /\ n \in DOMAIN attempts[k] /\ n \in Nat
      /\ job.outcome \in {"SUCCEEDED", "FAILED"}
  BY DEF DeliveryTypeOK, JobOK, Job
<1>2. c \in Cases
  BY <1>1, StoredAttempt DEF DeliveryTypeOK
<1>3. CASE UNCHANGED <<history, attempts>>
  BY <1>3, NothingTold
<1>4. CASE CompleteRow(job) /\ StillPending(k, n)
  <2>1. /\ OfCase(attempts', c, k, n)
        /\ \A q \in Keys, i \in Nat : (q # k \/ i # n) => SameRow(q, i)
        /\ \A type : Tells(attempts, type, k, n) <=> type = "DELIVERY_RETRIED" /\ n > 1
        /\ \A type : Tells(attempts', type, k, n) <=>
             \/ type = "DELIVERY_RETRIED" /\ n > 1
             \/ type = "DELIVERY_FAILED" /\ job.outcome = "FAILED"
             \/ /\ type = "CLIENT_REQUEST_SENT" /\ job.outcome = "SUCCEEDED"
                /\ delivery.type = "CLIENT_REQUEST"
             \/ /\ type = "MODERATOR_NOTIFIED" /\ job.outcome = "SUCCEEDED"
                /\ delivery.type = "MODERATOR_NOTIFICATION"
    BY <1>1, <1>4, CompletionTells
  <2>2. \/ /\ job.outcome = "FAILED"
           /\ history' = [history EXCEPT ![c] = Append(@, Told("DELIVERY_FAILED", k, n))]
        \/ /\ job.outcome = "SUCCEEDED" /\ delivery.type = "CLIENT_REQUEST"
           /\ history' = [history EXCEPT ![c] = Append(@, Told("CLIENT_REQUEST_SENT", k, n))]
        \/ /\ job.outcome = "SUCCEEDED" /\ delivery.type = "MODERATOR_NOTIFICATION"
           /\ history' = [history EXCEPT ![c] = Append(@, Told("MODERATOR_NOTIFIED", k, n))]
        \/ /\ job.outcome = "SUCCEEDED" /\ UNCHANGED history
           /\ delivery.type \notin {"CLIENT_REQUEST", "MODERATOR_NOTIFICATION"}
    <3>1. CASE RecordFailure(w)
      BY <3>1 DEF RecordFailure, Record, Told
    <3>2. CASE EffectAllowed(delivery) /\ ApplyEffect(delivery, job) /\ job.outcome = "SUCCEEDED"
      BY <3>2 DEF ApplyEffect, Record, Told
    <3>3. CASE UNCHANGED attempts
      <4>1. \A type : Tells(attempts', type, k, n) <=> Tells(attempts, type, k, n)
        BY <3>3 DEF Tells, RowTells
      <4>2. attempts[k][n].status = "PENDING" /\ attempts'[k][n].status = job.outcome
        <5>1. attempts \in [Keys -> Seq(Attempt)]
          BY DEF DeliveryTypeOK
        <5>2. /\ CompletedRow(attempts[k][n], job) \in Attempt
              /\ CompletedRow(attempts[k][n], job).status = job.outcome
          BY <1>1, <5>1, StoredAttempt, CompletedRowType
        <5>3. attempts'[k][n] = CompletedRow(attempts[k][n], job)
          BY <1>1, <1>4, <5>1, <5>2, ReplacedRow DEF CompleteRow
        <5> QED BY <1>4, <5>2, <5>3 DEF StillPending
      <4> QED BY <1>1, <3>3, <4>2
    <3> QED BY <3>1, <3>2, <3>3 DEF RecordSuccess
  <2> HIDE DEF c, delivery, n, k, job
  <2>3. ASSUME NEW type \in AttemptEvents \ {"DELIVERY_RETRIED"},
               history' = [history EXCEPT ![c] = Append(@, Told(type, k, n))],
               Tells(attempts', type, k, n),
               \A other \in AttemptEvents \ {type} :
                 Tells(attempts', other, k, n) <=> Tells(attempts, other, k, n)
        PROVE  HistoryOK'
    <3>1. ~Tells(attempts, type, k, n)
      BY <2>1
    <3>2. NothingElseSaid(type, k, n)
      <4>1. \A q \in Keys, i \in Nat, other \in AttemptEvents : (q # k \/ i # n) =>
              (Tells(attempts', other, q, i) <=> Tells(attempts, other, q, i))
        BY <2>1, SameRowTells
      <4> QED BY <2>3, <4>1 DEF NothingElseSaid
    <3>3. /\ c \in Cases /\ k \in Keys /\ n \in Nat /\ type \in AttemptEvents
          /\ OfCase(attempts', c, k, n)
      BY <1>1, <1>2, <2>1, <2>3
    <3>4. /\ history' = [history EXCEPT ![c] = Append(@, Told(type, k, n))]
          /\ Tells(attempts', type, k, n)
      BY <2>3
    <3> QED BY <3>1, <3>2, <3>3, <3>4, OneTold
  <2>4. CASE job.outcome = "FAILED"
    BY <2>1, <2>2, <2>3, <2>4 DEF AttemptEvents
  <2>5. CASE job.outcome = "SUCCEEDED" /\ delivery.type = "CLIENT_REQUEST"
    BY <2>1, <2>2, <2>3, <2>5 DEF AttemptEvents
  <2>6. CASE job.outcome = "SUCCEEDED" /\ delivery.type = "MODERATOR_NOTIFICATION"
    BY <2>1, <2>2, <2>3, <2>6 DEF AttemptEvents
  <2>7. CASE /\ job.outcome = "SUCCEEDED" /\ UNCHANGED history
             /\ delivery.type \notin {"CLIENT_REQUEST", "MODERATOR_NOTIFICATION"}
    <3>1. \A q \in Keys, i \in Nat, type \in AttemptEvents :
            Tells(attempts', type, q, i) <=> Tells(attempts, type, q, i)
      BY <2>1, <2>7, SameRowTells
    <3> QED BY <2>7, <3>1, NothingTold
  <2> QED BY <2>2, <2>4, <2>5, <2>6, <2>7
<1> QED BY <1>3, <1>4 DEF RecordFailure, RecordSuccess

\* Commands tell nothing of attempts.
LEMMA CommandsTellNothing ==
  ASSUME DeliveryTypeOK, HistoryOK, [CaseNext]_caseVars, UNCHANGED attempts
  PROVE  HistoryOK'
<1>1. HistoriesGrow /\ HistoriesAdd(CommandEvents)
  BY CaseNextGrows, CaseNextAdds DEF DeliveryTypeOK
<1>2. AttemptEvents \cap CommandEvents = {}
  BY DEF AttemptEvents, CommandEvents
<1>3. ASSUME NEW k \in Keys, NEW n \in Nat, NEW type \in AttemptEvents, NEW c \in Cases
      PROVE  Places(Told(type, k, n), history'[c]) = Places(Told(type, k, n), history[c])
  <2>1. Told(type, k, n).type \notin CommandEvents /\ Told(type, k, n) # RequestSent
    BY <1>2, ToldApart
  <2> QED BY <1>1, <2>1, OtherTypesAdded DEF HistoriesGrow, HistoriesAdd
<1>4. RowsGoOn
  BY DEF RowsGoOn
<1>5. \A k \in Keys, n \in Nat, type \in AttemptEvents :
        Tells(attempts', type, k, n) <=> Tells(attempts, type, k, n)
  OBVIOUS
<1> QED BY <1>3, <1>4, <1>5, NothingTold

\* Every step keeps the invariant.
LEMMA StepTold ==
  ASSUME DeliveryTypeOK, AttemptsOK, HistoryOK, [DeliveryNext]_deliveryVars
  PROVE  HistoryOK'
<1>1. RowsGoOn
  BY StepKeepsRows
<1>2. CASE UNCHANGED <<history, attempts>>
  BY <1>1, <1>2, NothingTold
<1>3. CASE CaseNext /\ UNCHANGED <<attempts, jobs>>
  BY <1>3, CommandsTellNothing
<1>4. ASSUME NEW w \in Workers, CommitStart(w) PROVE HistoryOK'
  BY <1>1, <1>2, <1>4, InsertTold DEF CommitStart, LoseStart
<1>5. ASSUME NEW w \in Workers, CommitResult(w) PROVE HistoryOK'
  BY <1>1, <1>2, <1>5, ResultTold DEF CommitResult, LoseResult
<1> QED
  BY <1>2, <1>3, <1>4, <1>5
  DEF DeliveryNext, DeliveryStep, ReceiveStart, ReceiveResult, AbortJob, ReturnJob, storeVars,
      deliveryVars

(***************************************************************************)
(* Each failure, retry and business effect of an attempt has one event in  *)
(* the history of its case, and nothing else does, however starts, results *)
(* and commands overlap.                                                   *)
(***************************************************************************)
THEOREM HistoryTellsAttempts == DeliverySpec => []HistoryMatchesAttempts
<1>1. DeliveryInit => HistoryOK
  <2> SUFFICES ASSUME DeliveryInit, NEW c \in Cases, NEW k \in Keys, NEW n \in Nat,
                      NEW type \in AttemptEvents
               PROVE  Cardinality(Places(Told(type, k, n), history[c]))
                        = IF Tells(attempts, type, k, n) THEN 1 ELSE 0
    BY DEF HistoryOK
  <2>1. Places(Told(type, k, n), history[c]) = {}
    BY DEF DeliveryInit, CaseInit, StoreInit, Places
  <2>2. ~Tells(attempts, type, k, n)
    BY DEF DeliveryInit, Tells
  <2> QED BY <2>1, <2>2, FS_EmptySet
<1>2. DeliveryTypeOK /\ AttemptsOK /\ HistoryOK /\ [DeliveryNext]_deliveryVars => HistoryOK'
  BY StepTold
<1>3. DeliveryTypeOK /\ HistoryOK => HistoryMatchesAttempts
  BY HistoryTold
<1> QED BY <1>1, <1>2, <1>3, DeliveryTypeCorrect, AttemptsAreDisciplined, PTL DEF DeliverySpec

-----------------------------------------------------------------------------
(* Effects. *)

\* The step does to this case what a delivery may.
Respects(c) ==
  (jobs' # jobs /\ Len(history'[c]) > Len(history[c])) =>
    /\ cases'[c].status # cases[c].status => Allowed(cases[c].status, cases'[c].status)
    /\ history'[c][Len(history'[c])].type = "MODERATOR_NOTIFIED" =>
         cases[c].status = "WAITING_MODERATOR"

\* A step that tells something of one case only, with this last event.
LEMMA OneCaseRespects ==
  ASSUME DeliveryTypeOK, NEW c \in Cases, NEW d \in Cases, NEW event,
         history' = [history EXCEPT ![d] = Append(@, event)],
         c = d => /\ cases'[c].status # cases[c].status =>
                       Allowed(cases[c].status, cases'[c].status)
                  /\ event.type = "MODERATOR_NOTIFIED" =>
                       cases[c].status = "WAITING_MODERATOR"
  PROVE  Respects(c)
<1>1. /\ history \in [Cases -> Seq(CaseEvent)] /\ history[c] \in Seq(CaseEvent)
      /\ history[d] \in Seq(CaseEvent)
  BY DEF DeliveryTypeOK, TypeOK, StoreTypeOK
<1>2. CASE c = d
  <2>1. history'[c] = Append(history[c], event)
    BY <1>1, <1>2
  <2>2. history'[c][Len(history'[c])] = event
    BY <1>1, <2>1
  <2> QED BY <1>2, <2>2 DEF Respects
<1>3. CASE c # d
  <2>1. history'[c] = history[c] /\ Len(history[c]) \in Nat
    BY <1>1, <1>3
  <2>2. Len(history'[c]) = Len(history[c])
    BY <2>1, Zenon
  <2>3. ~(Len(history'[c]) > Len(history[c]))
    BY <2>1, <2>2
  <2> QED BY <2>3 DEF Respects
<1> QED BY <1>2, <1>3

\* A result that is recorded finds the case as its effect needs it.
LEMMA ResultRespects ==
  ASSUME DeliveryTypeOK, NEW w \in Workers, jobs[w].phase = "staged", jobs[w].op = "result",
         RecordFailure(w) \/ RecordSuccess(w), NEW c \in Cases
  PROVE  Respects(c)
<1> DEFINE job == jobs[w]
           delivery == attempts[job.key][job.number].delivery
           d == delivery.case
<1>1. /\ job.key \in Keys /\ job.number \in DOMAIN attempts[job.key] /\ d \in Cases
      /\ cases[d] # None /\ job.now \in Nat
  <2>1. job \in Job /\ job.key \in Keys /\ job.number \in DOMAIN attempts[job.key]
    BY DEF DeliveryTypeOK, JobOK
  <2>2. cases[d] # None /\ d \in Cases
    BY <2>1, StoredAttempt DEF DeliveryTypeOK
  <2> QED BY <2>1, <2>2 DEF Job
<1>2. cases \in [Cases -> CaseRow \cup {None}] /\ cases[d] \in CaseRow
  BY <1>1 DEF DeliveryTypeOK, TypeOK, StoreTypeOK
<1>3. CASE UNCHANGED history
  <2>1. ~(Len(history'[c]) > Len(history[c]))
    <3>1. Len(history[c]) \in Nat
      BY DEF DeliveryTypeOK, TypeOK, StoreTypeOK
    <3> QED BY <1>3, <3>1
  <2> QED BY <2>1 DEF Respects
<1>4. CASE RecordFailure(w)
  <2>1. /\ history' = [history EXCEPT ![d] =
                         Append(@, Event("DELIVERY_FAILED", <<job.key, job.number>>))]
        /\ UNCHANGED cases
    BY <1>4 DEF RecordFailure, Record
  <2>2. Event("DELIVERY_FAILED", <<job.key, job.number>>).type = "DELIVERY_FAILED"
    BY DEF Event
  <2> HIDE DEF d
  <2> QED BY <1>1, <2>1, <2>2, OneCaseRespects
<1>5. CASE /\ EffectAllowed(delivery) /\ delivery.type = "CLIENT_REQUEST"
           /\ cases' = [cases EXCEPT ![d] = SentRow(@, @, job.now)]
           /\ Record(d, "CLIENT_REQUEST_SENT", job)
  <2>1. history' = [history EXCEPT ![d] =
                      Append(@, Event("CLIENT_REQUEST_SENT", <<job.key, job.number>>))]
    BY <1>5 DEF Record
  <2>2. Event("CLIENT_REQUEST_SENT", <<job.key, job.number>>).type = "CLIENT_REQUEST_SENT"
    BY DEF Event
  <2>3. Allowed(cases[d].status, "WAITING_CLIENT")
    BY <1>5 DEF EffectAllowed
  <2>4. cases'[d].status = "WAITING_CLIENT"
    <3>1. SentRow(cases[d], cases[d], job.now).status = "WAITING_CLIENT"
      BY <1>2 DEF SentRow, CaseRow
    <3>2. cases'[d] = SentRow(cases[d], cases[d], job.now)
      BY <1>1, <1>2, <1>5
    <3> QED BY <3>1, <3>2
  <2> HIDE DEF d
  <2> QED BY <1>1, <2>1, <2>2, <2>3, <2>4, OneCaseRespects
<1>6. CASE /\ EffectAllowed(delivery) /\ delivery.type = "MODERATOR_NOTIFICATION"
           /\ Record(d, "MODERATOR_NOTIFIED", job) /\ UNCHANGED cases
  <2>1. history' = [history EXCEPT ![d] =
                      Append(@, Event("MODERATOR_NOTIFIED", <<job.key, job.number>>))]
    BY <1>6 DEF Record
  <2>2. cases[d].status = "WAITING_MODERATOR" /\ UNCHANGED cases
    BY <1>6 DEF EffectAllowed
  <2> HIDE DEF d
  <2> QED BY <1>1, <2>1, <2>2, OneCaseRespects
<1> QED BY <1>3, <1>4, <1>5, <1>6 DEF RecordSuccess, ApplyEffect

\* Every step does.
LEMMA StepRespects ==
  ASSUME DeliveryTypeOK, [DeliveryNext]_deliveryVars, NEW c \in Cases
  PROVE  Respects(c)
<1>1. Len(history[c]) \in Nat
  BY DEF DeliveryTypeOK, TypeOK, StoreTypeOK
<1>2. CASE UNCHANGED jobs
  BY <1>2 DEF Respects
<1>3. CASE UNCHANGED history
  BY <1>1, <1>3 DEF Respects
<1>4. ASSUME NEW w \in Workers, jobs[w].phase = "staged", jobs[w].op = "start",
             InsertAttempt(w), UNCHANGED cases
      PROVE  Respects(c)
  <2> DEFINE job == jobs[w]
             event == Event("DELIVERY_RETRIED", <<job.key, job.number>>)
  <2>1. job.delivery.case \in Cases
    BY <1>4 DEF DeliveryTypeOK, JobOK, Identity
  <2>2. event.type = "DELIVERY_RETRIED"
    BY DEF Event
  <2>3. \/ UNCHANGED history
        \/ history' = [history EXCEPT ![job.delivery.case] = Append(@, event)]
    BY <1>4 DEF InsertAttempt
  <2> HIDE DEF event, job
  <2> QED BY <1>3, <1>4, <2>1, <2>2, <2>3, OneCaseRespects
<1>5. ASSUME NEW w \in Workers, CommitStart(w) PROVE Respects(c)
  BY <1>3, <1>4, <1>5 DEF CommitStart, LoseStart
<1>6. ASSUME NEW w \in Workers, CommitResult(w) PROVE Respects(c)
  BY <1>3, <1>6, ResultRespects DEF CommitResult, LoseResult
<1> QED
  BY <1>2, <1>3, <1>5, <1>6
  DEF DeliveryNext, DeliveryStep, ReceiveStart, ReceiveResult, AbortJob, ReturnJob, storeVars,
      deliveryVars

(***************************************************************************)
(* A delivery moves a case only as the state machine allows, and notifies  *)
(* a moderator only of a case that waits for one, whatever overlaps.       *)
(***************************************************************************)
THEOREM EffectsAreLegal == DeliverySpec => EffectsRespectLifecycle
<1>1. DeliveryTypeOK /\ [DeliveryNext]_deliveryVars => \A c \in Cases : Respects(c)
  BY StepRespects
<1> QED BY <1>1, DeliveryTypeCorrect, PTL DEF DeliverySpec, EffectsRespectLifecycle, Respects
=============================================================================
