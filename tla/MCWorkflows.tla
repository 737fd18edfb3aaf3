----------------------------- MODULE MCWorkflows -----------------------------
(***************************************************************************)
(* Small instances of Workflows for TLC.                                   *)
(***************************************************************************)
EXTENDS Workflows, CaseRefinement, TLC

CONSTANTS c1, c2, p1, m1, m2, k1, k2, k3, k4, x1, x2, user, chief, crew, w1, w2

AllDeliveries == Identity
SameId == [x \in Keys \X (1..MaxAttempts) |-> x1]

-----------------------------------------------------------------------------
\* Keys.  Those that do not come up in a run share one; those of notifications are their own.

\* Both first reminders and, for c1, the second.
DueKeys ==
  [x \in Cases \X DueAction |->
     CASE x = <<c1, <<"REMIND_CLIENT", 1>>>> -> k1
       [] x = <<c1, <<"REMIND_CLIENT", 2>>>> -> k2
       [] x = <<c2, <<"REMIND_CLIENT", 1>>>> -> k3
       [] OTHER -> k4]
NoSlaKeys == [x \in Cases \X DueAction |-> k3]
RequestKeys == [c \in Cases |-> k4]
\* One key for the only action of each case that comes up, and one for its notification.
SlaKeyOfCase == [x \in Cases \X DueAction |-> IF x[1] = c1 THEN k3 ELSE k4]
NotificationKeyOfCase == [x \in Cases \X Messages |-> IF x[1] = c1 THEN k1 ELSE k2]
NotificationKeys == [x \in Cases \X Messages |-> IF x[2] = m1 THEN k1 ELSE k2]

-----------------------------------------------------------------------------
\* Runs.

WatchdogsFlow == (w1 :> {"sla"}) @@ (w2 :> {"recovery"})
RequestFlow == (w1 :> {"request"}) @@ (w2 :> {"recovery"})
ReplyFlow == (w1 :> {"reply"}) @@ (w2 :> {"recovery"})

-----------------------------------------------------------------------------
\* Runs of the workflows that begin with some cases, as their commands left them,
\* in the client's wait: states the commands reach one after the other.

\* The row of a case whose client was asked "now".
WaitingRow(moderator, now) ==
  [status |-> "WAITING_CLIENT", moderator |-> moderator,
   clientDeadline |-> now + ClientMinutes, moderatorDeadline |-> None,
   closed |-> FALSE, cancelled |-> FALSE]
SentHistory == <<Event("CASE_CREATED", None), Event("CLIENT_REQUEST_SENT", None)>>

\* The row and the history of a case that was answered "now", and waits for this moderator.
AnsweredRow(moderator, now) ==
  [WaitingRow(moderator, now) EXCEPT
     !.status = "WAITING_MODERATOR",
     !.clientDeadline = None, !.moderatorDeadline = now + ModeratorMinutes]
AnsweredHistory(m) == Append(SentHistory, Event("CLIENT_REPLY_RECEIVED", m))

\* Nobody has called yet and nothing has been sent; there were so many faults.
Untouched(now, failed) ==
  /\ clock = now
  /\ calls = [r \in Requests |-> Idle]
  /\ attempts = [k \in Keys |-> << >>]
  /\ jobs = [w \in Workers |-> NoJob]
  /\ acks = [a \in Watchers |-> NoAck]
  /\ runs = [w \in Runs |-> NoRun]
  /\ faults = failed

\* The wait of these cases begins now, after so many faults; there are no other cases yet.
Waiting(waiting, now, failed) ==
  /\ Untouched(now, failed)
  /\ cases = [c \in Cases |->
       IF c \in waiting THEN WaitingRow(None, now) ELSE None]
  /\ history = [c \in Cases |-> IF c \in waiting THEN SentHistory ELSE << >>]
  /\ replies = [m \in Messages |-> None]

\* One case was answered and waits for its moderator, the other waits for its client, and
\* the reminders of both are due now.
OneAnswered(answered, waiting, m, moderator) ==
  /\ Untouched(ModeratorMinutes, 0)
  /\ cases = (answered :> AnsweredRow(moderator, 0)) @@ (waiting :> WaitingRow(moderator, 0))
  /\ history = (answered :> AnsweredHistory(m)) @@ (waiting :> SentHistory)
  /\ replies = (m :> answered)

\* Two cases that come to their first threshold, or, when no faults are left, one that
\* comes to its second.
WaitingSpec ==
  /\ Waiting({c1, c2}, 1, 0) \/ Waiting({c1}, 0, MaxFaults)
  /\ [][WorkflowNext]_workflowVars /\ Fairness
AnsweredSpec ==
  OneAnswered(c1, c2, m1, p1) /\ [][WorkflowNext]_workflowVars /\ Fairness
=============================================================================
