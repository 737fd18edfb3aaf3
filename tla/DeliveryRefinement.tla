------------------------- MODULE DeliveryRefinement -------------------------
(***************************************************************************)
(* The promise about a key, read off its attempt rows.                     *)
(***************************************************************************)
EXTENDS DeliveryService

LogicalState(k) ==
  IF attempts[k] = << >> THEN "none"
  ELSE CASE Last(k).status = "PENDING" -> "pending"
         [] Last(k).status = "FAILED" -> "failed"
         [] Last(k).status = "SUCCEEDED" -> "succeeded"

Logical ==
  INSTANCE LogicalDelivery
    WITH MaxTries <- MaxAttempts,
         state <- [k \in Keys |-> LogicalState(k)],
         tries <- [k \in Keys |-> Len(attempts[k])]

(***************************************************************************)
(* However calls overlap, are repeated, fail or are reported late, the     *)
(* attempts under a key do no more than LogicalDelivery allows.            *)
(***************************************************************************)
ImplementsLogicalDelivery == Logical!LogicalSpec
=============================================================================
