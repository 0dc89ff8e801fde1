CONSTANTS
  c1 = c1
  c2 = c2
  w1 = w1
  w2 = w2
  w3 = w3
  Worker = {w1}
  Conn = {c1}
  Created <- MCOne
  Redis = FALSE
  MayBreak = {}
  Nesting = {}
  Leaking = {w1}
SPECIFICATION SafeSpec
INVARIANT KeepsItsSize
CHECK_DEADLOCK FALSE
