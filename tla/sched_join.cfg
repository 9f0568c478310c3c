SPECIFICATION Spec
CONSTANTS
  main = main
  t1 = t1
  t2 = t2
  Threads = {main, t1, t2}
  Main = main
  Fds = {}
  Priorities = {}
  Limits = {1}
  MaxTime = 1
  INFTY = 10
  Ops = {"new", "stop", "join", "error", "sleep_forever", "sleep"}
SYMMETRY Symmetry
INVARIANTS
  NoMutualJoin
PROPERTIES
  DeadlockHonest
CHECK_DEADLOCK FALSE
