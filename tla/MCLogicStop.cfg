CONSTANTS
  Posters = {t1, t2}
  MaxPosts = 4
SPECIFICATION Spec
PROPERTY StopEndsWorker
CHECK_DEADLOCK FALSE
