SPECIFICATION Spec
CONSTANTS
  a = a
  b = b
  l1 = l1
  l2 = l2
  u = u
  Login = {l1, l2}
  Uid = {u}
  Server = {a, b}
  None = None
  UidOf <- MCUidOf
  MayStop = {a}
  MaxBoots = 1
  MaxSearches = 1
  MaxFails = 1
INVARIANTS LeastLoaded CountIsIncrements
PROPERTIES LoneLoginAccepted ServerStops
CHECK_DEADLOCK FALSE
