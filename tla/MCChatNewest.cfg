CONSTANTS
  A = A
  B = B
  s1 = s1
  s2 = s2
  s3 = s3
  u1 = u1
  u2 = u2
  None = None
  Server = {A, B}
  Session = {s1, s2}
  Uid = {u1, u2}
  Home <- MCHome
  MayLogin <- LoginShared
  MayText <- NoText
  MayFail = {s1, s2}
  MaxTexts = 0
  MaxLogins = 2
SPECIFICATION SafeSpec
INVARIANT
  NewestLoginFindable
CHECK_DEADLOCK FALSE
