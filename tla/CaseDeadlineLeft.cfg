\* Two overlapping commands: the code lets FinishedHasNoDeadline fail.
SPECIFICATION CaseSpec
CONSTANTS
  None = None
  c1 = c1
  c2 = c2
  p1 = p1
  m1 = m1
  r1 = r1
  r2 = r2
  Cases = {c1}
  Messages = {m1}
  Moderators = {}
  Keys = {}
  Requests = {r1, r2}
  ClientMinutes = 1
  ModeratorMinutes = 1
  MaxClock = 0
  MaxHistory = 4
SYMMETRY Symmetry
INVARIANTS
  FinishedHasNoDeadline
