SPECIFICATION Spec
CONSTANTS
  ApiClients = {c1}
  Orders = {o1}
  Admins = {a1}
  Requests = {r1}
  Workers = {w1}
  MaxAttempts = 2
  MaxDeaths = 1
  NoClient = NoClient
  NoOrder = NoOrder
INVARIANT
  DeleteOnlyDeactivates
CHECK_DEADLOCK FALSE
