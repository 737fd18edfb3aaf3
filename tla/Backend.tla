------------------------------ MODULE Backend ------------------------------
(***************************************************************************)
(* The whole backend: case commands, delivery calls and acknowledgements   *)
(* on one database, called by anybody, in any order, with any argument.    *)
(***************************************************************************)
EXTENDS DeliveryService, SlaService

(***************************************************************************)
(* The settings the backend starts with (Settings.__post_init__): both     *)
(* waits have thresholds one after the other.                              *)
(***************************************************************************)
Rising(first, second, third) == 0 < first /\ first < second /\ second < third
SettingsAccepted ==
  /\ Rising(ClientMinutes, ClientReminder2, ClientEscalation)
  /\ Rising(ModeratorMinutes, ModeratorReminder2, ModeratorEscalation)
  /\ MaxAttempts >= 1 /\ RetryDelay >= 0

ASSUME SettingsAssumption == SettingsAccepted

backendVars == <<clock, cases, history, replies, calls, attempts, jobs, acks>>

BackendInit == DeliveryInit /\ acks = [a \in Watchers |-> NoAck]

BackendNext ==
  \/ DeliveryNext /\ UNCHANGED acks
  \/ \E a \in Watchers : AckStep(a) /\ UNCHANGED <<attempts, jobs>>

BackendSpec == BackendInit /\ [][BackendNext]_backendVars

-----------------------------------------------------------------------------
(***************************************************************************)
(* HTTP status of an answer: the exception handlers of api/errors.py, and  *)
(* 200 for what a service returns.  A lock timeout or another database     *)
(* error is a persistence error; a call that was cut off has no answer at  *)
(* all, which a client takes for an error as well.                         *)
(***************************************************************************)
HttpStatus(answer) ==
  CASE answer \in {"applied", "already", "completed", "pending", "failed_before"} -> 200
    [] answer = "not_found" -> 404
    [] answer \in {"rejected", "conflict", "identity_conflict", "not_due",
                   "exhausted", "invalid"} -> 409
    [] answer \in {"failed", "persistence_error"} -> 500

\* A fault: a client goes on unless the backend breaks down ("never error").
AcceptedUnlessBroken(answer) == HttpStatus(answer) < 500
Accepted(answer) == HttpStatus(answer) = 200
=============================================================================
