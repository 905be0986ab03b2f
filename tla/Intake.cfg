SPECIFICATION FairSpec
CONSTANTS
  u1 = u1
  u2 = u2
  k1 = k1
  Calls = {c1, c2, c3}
  Clients = {u1, u2}
  EmptyKey = EmptyKey
  Keys = {k1, EmptyKey}
  NoKey = NoKey
  Asks <- MCAsks
  MinStars = 1
  MaxStars = 2
  PremiumMonths = {3}
  DefaultProvider = "fragment"
  MayDie = TRUE
  NoOrder = NoOrder
INVARIANTS
  TypeOK
  OneOrderPerKey
  RepliesAgree
  DispatchedOnce
  RoutedOrders
  CatalogIsHonest
PROPERTY
  EveryCallEnds
CHECK_DEADLOCK FALSE
