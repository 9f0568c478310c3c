SPECIFICATION FiniteSpec
CONSTANTS
  main = main
  t1 = t1
  t2 = t2
  Threads = {main, t1, t2}
  Main = main
  Fds = {}
  Priorities = {}
  Limits = {}
  MaxTime = 0
  INFTY = 10
  Ops = {"new", "stop", "kill", "wakeup"}
PROPERTIES
  ExitEnds
CHECK_DEADLOCK FALSE
