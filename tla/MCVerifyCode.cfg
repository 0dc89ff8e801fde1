SPECIFICATION Spec
CONSTANTS
  c1 = c1
  c2 = c2
  c3 = c3
  u1 = u1
  e1 = e1
  e2 = e2
  Request = {c1, c2, c3, u1}
  Kind <- MCKind
  MayAsk <- MCMayAsk
  Email = {e1, e2}
  None = None
  Wrong = Wrong
INVARIANTS TimeToLiveFollows MailedCodeIsCurrent OnlyMailedCodePasses
PROPERTIES CodesExpire
CHECK_DEADLOCK FALSE
