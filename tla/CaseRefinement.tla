--------------------------- MODULE CaseRefinement ---------------------------
(***************************************************************************)
(* The lifecycle as the database shows it: the stage is the status column, *)
(* what has been entered is read off the history, and the timers off the   *)
(* deadline columns.                                                       *)
(***************************************************************************)
EXTENDS CaseService

StageOf(c) == IF cases[c] = None THEN None ELSE cases[c].status

\* How many events of the case report each status.
Entries(c) ==
  [status \in CaseStatus |->
     Cardinality({i \in DOMAIN history[c] : Reports(history[c][i]) = status})]

RunningDeadlines(c) ==
  [client |-> cases[c] # None /\ cases[c].clientDeadline # None,
   moderator |-> cases[c] # None /\ cases[c].moderatorDeadline # None]

Lifecycle ==
  INSTANCE CaseLifecycle
    WITH Absent <- None,
         stage <- [c \in Cases |-> StageOf(c)],
         entered <- [c \in Cases |-> Entries(c)],
         timers <- [c \in Cases |-> RunningDeadlines(c)]

(***************************************************************************)
(* Commands served one at a time take every case through the lifecycle:    *)
(* each stage is entered once, in order, with its one event, and has its   *)
(* own deadline and no other.                                              *)
(***************************************************************************)
ImplementsLifecycle == Lifecycle!LifecycleSpec
=============================================================================
