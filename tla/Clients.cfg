SPECIFICATION FairSpec
CONSTANTS
  ApiClients = {c1}
  Orders = {o1, o2}
  Admins = {a1, a2}
  Requests = {r1}
  Workers = {w1, w2}
  MaxAttempts = 2
  MaxDeaths = 1
  NoClient = NoClient
  NoOrder = NoOrder
INVARIANTS
  TypeOK
  NoStrayRows
PROPERTIES
  DeactivationSticks
  DeletionStopsSpending
  AcceptedOrdersEnd
CHECK_DEADLOCK FALSE
