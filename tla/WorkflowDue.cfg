\* Both watchdogs and cases in the client's wait; it may come to rest.
SPECIFICATION WaitingSpec
CONSTANTS
  None = None
  c1 = c1
  c2 = c2
  p1 = p1
  m1 = m1
  m2 = m2
  k1 = k1
  k2 = k2
  k3 = k3
  k4 = k4
  x1 = x1
  x2 = x2
  user = user
  chief = chief
  crew = crew
  w1 = w1
  w2 = w2
  Cases = {c1, c2}
  Messages = {}
  Moderators = {}
  Keys = {k1, k2, k3, k4}
  Requests = {}
  Workers = {w1, w2}
  Watchers = {w1, w2}
  Runs = {w1, w2}
  Flow <- WatchdogsFlow
  SlaKey <- DueKeys
  RequestKey <- RequestKeys
  NotificationKey <- NotificationKeys
  Recipients = {user, chief, crew}
  ClientContact = user
  ModeratorRole = chief
  OperationsRole = crew
  Deliveries <- AllDeliveries
  ExternalIds = {x1, x2}
  TransportId <- SameId
  MaxAttempts = 2
  RetryDelay = 0
  ClientMinutes = 1
  ClientReminder2 = 2
  ClientEscalation = 3
  ModeratorMinutes = 1
  ModeratorReminder2 = 2
  ModeratorEscalation = 3
  MaxClock = 2
  MaxHistory = 0
  MaxFaults = 1
CHECK_DEADLOCK FALSE
INVARIANTS
  AcknowledgedOnce
  AckedWasDelivered
  ReportsAgree
  HistoryMatchesAttempts
PROPERTIES
  DueIsHandled
