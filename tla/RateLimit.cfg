SPECIFICATION Spec
CONSTANTS
  Requests = {r1, r2, r3, r4}
  Window = 4
  Limits = {1}
  DefaultLimit = 2
  MaxAhead = 1
  MaxBehind = 1
  MaxTime = 7
SYMMETRY MCSymmetry
INVARIANTS
  TypeOK
  WindowRespected
PROPERTY
  RefusalEarned
