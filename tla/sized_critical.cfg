SPECIFICATION Spec
CONSTANTS
  t1 = t1
  t2 = t2
  t3 = t3
  None = None
  Threads = {t1, t2, t3}
  Killable = {}
  Sized = TRUE
  Clears = FALSE
  Maxes = {1}
  MaxLength = 2
  MaxWaiting = 3
INVARIANTS
  CriticalReleased
CHECK_DEADLOCK FALSE
