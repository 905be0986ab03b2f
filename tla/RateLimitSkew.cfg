SPECIFICATION Spec
CONSTANTS
  Requests = {r1, r2, r3}
  Window = 4
  Limits = {1}
  DefaultLimit = 2
  MaxAhead = 1
  MaxBehind = 1
  MaxTime = 7
INVARIANT
  ExactWindow
