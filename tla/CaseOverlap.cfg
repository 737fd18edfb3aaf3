\* Two overlapping commands, on one case or on two.
SPECIFICATION BesideSpec
CONSTANTS
  None = None
  c1 = c1
  c2 = c2
  m1 = m1
  p1 = p1
  r1 = r1
  r2 = r2
  Cases = {c1, c2}
  Messages = {m1}
  Moderators = {p1}
  Keys = {}
  Requests = {r1, r2}
  ClientMinutes = 1
  ModeratorMinutes = 1
  MaxClock = 1
  MaxHistory = 4
SYMMETRY Symmetry
INVARIANTS
  TypeOK
  AuditMatchesStatus
  ModeratorMatchesHistory
  WaitHasDeadline
  AnswersAreDurable
  RepliesMatchHistory
