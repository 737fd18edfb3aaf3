--------------------------- MODULE MCCaseService ---------------------------
(***************************************************************************)
(* Small instances of CaseService for TLC.                                 *)
(***************************************************************************)
EXTENDS CaseService, TLC

CONSTANTS c1, c2, p1

-----------------------------------------------------------------------------
\* Runs that begin with a second case, in states that commands reach one after the
\* other: it waits, with room for one more command, and may be sent the first one's
\* replies, when no time is left to pass; or it is cancelled, and time passes.

Row(status, deadline) ==
  [status |-> status, moderator |-> p1, clientDeadline |-> deadline,
   moderatorDeadline |-> None, closed |-> FALSE, cancelled |-> status = "CANCELLED"]
AssignedHistory ==
  <<Event("CASE_CREATED", None), Event("CLIENT_REQUEST_SENT", None),
    Event("MODERATOR_CHANGED", <<None, p1>>)>>

Beside(row, events) ==
  /\ cases = (c1 :> None) @@ (c2 :> row)
  /\ history = (c1 :> << >>) @@ (c2 :> events)
  /\ replies = [m \in Messages |-> None]
  /\ calls = [r \in Requests |-> Idle]

BesideSpec ==
  /\ \/ clock = MaxClock /\ Beside(Row("WAITING_CLIENT", MaxClock), AssignedHistory)
     \/ /\ clock = 0
        /\ Beside(Row("CANCELLED", None),
                  Append(AssignedHistory, Event("CASE_CANCELLED", None)))
  /\ [][CaseNext]_caseVars

\* Threads are interchangeable.
Symmetry == Permutations(Requests)
=============================================================================
