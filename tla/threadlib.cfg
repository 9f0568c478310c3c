SPECIFICATION MCSpec
CONSTANTS
  t1 = t1
  t2 = t2
  t3 = t3
  m1 = m1
  m2 = m2
  m3 = m3
  None = None
  NoThread = NoThread
  Unused = Unused
  Threads = {t1, t2, t3}
  Killable = {t1, t2, t3}
  CVUsers = {m1, m2}
  Victims = {m3}
  Sized = TRUE
  Clears = TRUE
  Maxes = {1, 2}
  MaxLength = 2
  MaxWaiting = 3
  KillPoints = {"out", "in", "wait"}
  MaxDepth = 2
  MaxNest = 3
SYMMETRY Symmetry
INVARIANTS
  Exclusion
  MutexWakes
  QueueWakes
  MonitorOwned
  MonitorWakes
  SyncSound
PROPERTIES
  BoundKept
CHECK_DEADLOCK FALSE
