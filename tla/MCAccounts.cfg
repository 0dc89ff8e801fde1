SPECIFICATION Spec
CONSTANTS
  r1 = r1
  r2 = r2
  s1 = s1
  s2 = s2
  l1 = l1
  e1 = e1
  e2 = e2
  n1 = n1
  n2 = n2
  p1 = p1
  p2 = p2
  p3 = p3
  Request = {r1, r2, s1, s2, l1}
  Kind <- MCKind
  MayAsk <- MCMayAsk
  Email = {e1, e2}
  Name = {n1, n2}
  Pwd = {p1, p2, p3}
  None = None
INVARIANTS SuccessIsStored SameOnlyIfConcurrent OldPwdRefused
PROPERTIES ImplementsUserTable RequestsAreAnswered
CHECK_DEADLOCK FALSE
