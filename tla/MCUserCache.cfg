SPECIFICATION CacheSpec
CONSTANTS
  w = w
  g = g
  s1 = s1
  s2 = s2
  LogicWorker = {w}
  Reader = {w, g}
  Server = {s1, s2}
  ServerOf <- MCServerOf
  Uid = {1, 2}
  Text <- MCText
  None = None
  NoInt = NoInt
  NumberOf <- MCNumberOf
  NameOf <- MCNameOf
  TextOf <- MCTextOf
  MaxRequests = 5
  MaxFails = 2
  MaxResets = 1
INVARIANTS CacheIsCurrent SearchFinds
CHECK_DEADLOCK FALSE
