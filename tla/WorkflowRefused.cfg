\* A client request of a cancelled case: the code lets RetriesEnd fail.
SPECIFICATION FairWorkflowSpec
CONSTANTS
  None = None
  r1 = r1
  c1 = c1
  c2 = c2
  p1 = p1
  m1 = m1
  m2 = m2
  k1 = k1
  k2 = k2
  k3 = k3
  k4 = k4
  x1 = x1
  x2 = x2
  user = user
  chief = chief
  crew = crew
  w1 = w1
  w2 = w2
  Cases = {c1}
  Messages = {}
  Moderators = {}
  Keys = {k3, k4}
  Requests = {r1}
  Workers = {w1, w2}
  Watchers = {w1, w2}
  Runs = {w1, w2}
  Flow <- RequestFlow
  SlaKey <- NoSlaKeys
  RequestKey <- RequestKeys
  NotificationKey <- NotificationKeys
  Recipients = {user, chief, crew}
  ClientContact = user
  ModeratorRole = chief
  OperationsRole = crew
  Deliveries <- AllDeliveries
  ExternalIds = {x1}
  TransportId <- SameId
  MaxAttempts = 2
  RetryDelay = 0
  ClientMinutes = 1
  ClientReminder2 = 2
  ClientEscalation = 3
  ModeratorMinutes = 1
  ModeratorReminder2 = 2
  ModeratorEscalation = 3
  MaxClock = 0
  MaxHistory = 2
  MaxFaults = 0
PROPERTIES
  RetriesEnd
