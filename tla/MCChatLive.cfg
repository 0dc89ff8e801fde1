CONSTANTS
  A = A
  B = B
  s1 = s1
  s2 = s2
  s3 = s3
  u1 = u1
  u2 = u2
  None = None
  Server = {A, B}
  Session = {s1, s3}
  Uid = {u1, u2}
  Home <- MCHome
  MayLogin <- LoginOwn
  MayText <- TextOther
  MayFail = {}
  MaxTexts = 2
  MaxLogins = 2
SPECIFICATION Spec
PROPERTIES
  RequestsAnswered
CHECK_DEADLOCK FALSE
