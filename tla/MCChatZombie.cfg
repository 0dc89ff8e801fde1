CONSTANTS
  A = A
  B = B
  s1 = s1
  s2 = s2
  s3 = s3
  u1 = u1
  u2 = u2
  None = None
  Server = {A, B}
  Session = {s1}
  Uid = {u1, u2}
  Home <- MCHome
  MayLogin <- LoginOwn
  MayText <- NoText
  MayFail = {s1}
  MaxTexts = 0
  MaxLogins = 1
SPECIFICATION SafeSpec
INVARIANT
  ClearedLeavesUserMgr
CHECK_DEADLOCK FALSE
