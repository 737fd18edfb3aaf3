-------------------------- MODULE LogicalDelivery --------------------------
(***************************************************************************)
(* What a client is promised about an idempotency key: one attempt at a    *)
(* time, a bounded number of them, another one only after a failure, and   *)
(* success is final.                                                       *)
(***************************************************************************)
EXTENDS Integers

CONSTANTS Keys, MaxTries

VARIABLES
  state,     \* "none", "pending", "failed" or "succeeded", per key
  tries      \* attempts begun, per key

logicalVars == <<state, tries>>

LogicalInit ==
  /\ state = [k \in Keys |-> "none"]
  /\ tries = [k \in Keys |-> 0]

Begin(k) ==
  /\ state[k] \in {"none", "failed"}
  /\ tries[k] < MaxTries
  /\ state' = [state EXCEPT ![k] = "pending"]
  /\ tries' = [tries EXCEPT ![k] = @ + 1]

Conclude(k) ==
  /\ state[k] = "pending"
  /\ \E outcome \in {"failed", "succeeded"} :
       state' = [state EXCEPT ![k] = outcome]
  /\ UNCHANGED tries

LogicalNext == \E k \in Keys : Begin(k) \/ Conclude(k)

LogicalSpec == LogicalInit /\ [][LogicalNext]_logicalVars
=============================================================================
