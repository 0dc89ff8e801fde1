CONSTANTS
  Posters = {t1, t2}
  MaxPosts = 4
SPECIFICATION Spec
INVARIANTS HandledInOrder NoSleepOnWork DrainedBeforeExit
PROPERTIES PostedIsHandled
CHECK_DEADLOCK FALSE
