---------------------------- MODULE MCSlaService ----------------------------
(***************************************************************************)
(* A small instance of SlaService for TLC.                                 *)
(***************************************************************************)
EXTENDS SlaService

\* A run that begins with every case, as its commands left it, in the client's wait.
Waiting ==
  /\ clock = 0
  /\ cases = [c \in Cases |->
       [status |-> "WAITING_CLIENT", moderator |-> None, clientDeadline |-> ClientMinutes,
        moderatorDeadline |-> None, closed |-> FALSE, cancelled |-> FALSE]]
  /\ history = [c \in Cases |->
       <<Event("CASE_CREATED", None), Event("CLIENT_REQUEST_SENT", None)>>]
  /\ replies = [m \in Messages |-> None]
  /\ calls = [r \in Requests |-> Idle]
  /\ acks = [a \in Watchers |-> NoAck]

WaitingSpec == Waiting /\ [][SlaNext]_slaVars
=============================================================================
