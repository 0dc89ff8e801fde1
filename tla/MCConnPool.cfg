CONSTANTS
  c1 = c1
  c2 = c2
  w1 = w1
  w2 = w2
  w3 = w3
  Worker = {w1, w2, w3}
  Conn = {c1, c2}
  Created <- MCTwo
  Redis = FALSE
  MayBreak = {c1}
  Nesting = {w1}
  Leaking = {w3}
SPECIFICATION Spec
INVARIANTS OneOwner NoHoldAndWait
PROPERTIES CloseEnds
CHECK_DEADLOCK FALSE
