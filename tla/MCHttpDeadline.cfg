SPECIFICATION HttpSpec
CONSTANTS
  a = a
  b = b
  c = c
  t = t
  u = u
  Conn = {a, b, c}
  Thread = {t, u}
  IoThread <- MCIoThread
  Asks <- MCAsks
  Stubs = 1
  Misread = {c}
  Nil = Nil
  Sent <- MCSent
PROPERTIES DeadlineCoversRequest
CHECK_DEADLOCK FALSE
