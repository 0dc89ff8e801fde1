SPECIFICATION Spec
CONSTANTS
  u1 = u1
  u2 = u2
  u3 = u3
  a = a
  b = b
  x1 = x1
  x2 = x2
  x3 = x3
  User = {u1, u2, u3}
  Server = {a, b}
  Session = {x1, x2, x3}
  None = None
  UserOf <- MCUserOf
  Home <- MCHome
  Stored <- MCStored
  MayApply <- MCMayApply
  Limit = 1
  Asks <- MCAsks
  MaxEnds = 1
  MaxFails = 1
INVARIANTS FriendsAreMutual NoApplicationMissed
PROPERTIES AcceptedBecomesFriends RequestsEnd
CHECK_DEADLOCK FALSE
