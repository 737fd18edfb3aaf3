-------------------------- MODULE MCDeliveryService --------------------------
(***************************************************************************)
(* Small instances of DeliveryService for TLC.                             *)
(***************************************************************************)
EXTENDS DeliveryRefinement, TLC

CONSTANTS c1, u1, u2

\* One message, and a request to send it to somebody else.
TwoRecipients ==
  {[case |-> c1, type |-> "CLIENT_REMINDER", recipient |-> u] : u \in {u1, u2}}

\* Workers are interchangeable.
Symmetry == Permutations(Workers)
=============================================================================
