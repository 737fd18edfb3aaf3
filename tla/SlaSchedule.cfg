\* One watcher and one command at a time, through all thresholds of both waits.
SPECIFICATION WaitingSpec
CONSTANTS
  None = None
  c1 = c1
  m1 = m1
  r1 = r1
  a1 = a1
  Cases = {c1}
  Messages = {m1}
  Moderators = {}
  Keys = {}
  Requests = {r1}
  Watchers = {a1}
  ClientMinutes = 1
  ClientReminder2 = 2
  ClientEscalation = 3
  ModeratorMinutes = 1
  ModeratorReminder2 = 2
  ModeratorEscalation = 3
  MaxClock = 3
  MaxHistory = 4
INVARIANTS
  SlaTypeOK
  AcksFollowTheirWait
  ListAgreesWithAck
  NoCatchUp
PROPERTIES
  DueUntilHandled
