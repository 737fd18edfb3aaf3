\* Two workers on one idempotency key; time passes between attempts.
SPECIFICATION DeliverySpec
CONSTANTS
  None = None
  c1 = c1
  u1 = u1
  u2 = u2
  k1 = k1
  w1 = w1
  w2 = w2
  x1 = x1
  Cases = {c1}
  Messages = {}
  Moderators = {}
  Keys = {k1}
  Requests = {}
  Workers = {w1, w2}
  Recipients = {u1, u2}
  Deliveries <- TwoRecipients
  ExternalIds = {x1}
  MaxAttempts = 2
  RetryDelay = 1
  ClientMinutes = 1
  ModeratorMinutes = 1
  MaxClock = 2
  MaxHistory = 0
SYMMETRY Symmetry
INVARIANTS
  DeliveryTypeOK
  OneLiveAttempt
  RetriesAreLimited
  OneIdentityPerKey
  ListAgreesWithStart
  HistoryMatchesAttempts
  StartsStayJustified
  ResultsAreDurable
PROPERTIES
  ResultsAreFinal
  ImplementsLogicalDelivery
