SPECIFICATION Spec
CONSTANTS
  main = main
  t1 = t1
  Threads = {main, t1}
  Main = main
  Fds = {f1}
  f1 = f1
  Priorities = {}
  Limits = {1}
  MaxTime = 1
  INFTY = 10
  Ops = {"new", "join", "critical", "raise", "kill", "exit", "abort", "select", "wait_fd", "polling"}
INVARIANTS
  TypeOK
PROPERTIES
  OnePerFd
CHECK_DEADLOCK FALSE
