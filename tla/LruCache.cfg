SPECIFICATION Spec
CONSTANTS
  k1 = k1
  k2 = k2
  k3 = k3
  Key = {k1, k2, k3}
  MaxMemory = 4
  Size = {0, 1, 3, 5}
  Ttl <- MCTtl
  MaxTtl = 2
  MaxDelay = 3
  MaxCalls = 5
  MaxTime = 3
SYMMETRY KeySymmetry
INVARIANTS TypeOK Capacity ExpiresOnTime RecencyOrder
PROPERTIES RemoveEventsExact MinimalEviction LivesItsTtl
CHECK_DEADLOCK FALSE
