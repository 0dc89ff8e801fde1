SPECIFICATION HttpSpec
CONSTANTS
  a = a
  b = b
  c = c
  t = t
  u = u
  Conn = {a, b, c}
  Thread = {t, u}
  IoThread <- MCIoThread
  Asks <- MCAsks
  Stubs = 1
  Misread = {c}
  Nil = Nil
  Sent <- MCSent
INVARIANTS KeepsListening ParamsAsSent
PROPERTIES ReadRequestEnds GateStops
CHECK_DEADLOCK FALSE
