CONSTANTS
  c1 = c1
  c2 = c2
  w1 = w1
  w2 = w2
  w3 = w3
  Worker = {w1}
  Conn = {c1}
  Created <- MCOne
  Redis = TRUE
  MayBreak = {}
  Nesting = {}
  Leaking = {}
SPECIFICATION Spec
PROPERTY BlocksUntilIdle
CHECK_DEADLOCK FALSE
