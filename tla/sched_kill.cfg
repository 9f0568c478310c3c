SPECIFICATION Spec
CONSTANTS
  main = main
  t1 = t1
  t2 = t2
  Threads = {main, t1, t2}
  Main = main
  Fds = {}
  Priorities = {1}
  Limits = {}
  MaxTime = 0
  INFTY = 10
  Ops = {"new", "stop", "kill", "run", "wakeup", "pass", "priority"}
SYMMETRY Symmetry
INVARIANTS
  RingWhole
  ContextFresh
  KillSticks
  RunnerSound
CHECK_DEADLOCK FALSE
