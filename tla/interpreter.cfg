SPECIFICATION MCSpec
CONSTANTS
  cObject = cObject
  c1 = c1
  m1 = m1
  m2 = m2
  i1 = i1
  i2 = i2
  i3 = i3
  i4 = i4
  u1 = u1
  u2 = u2
  u3 = u3
  w1 = w1
  w2 = w2
  Nil = Nil
  None = None
  NoEntry = NoEntry
  Unused = Unused
  Classes = {cObject, c1}
  Root = cObject
  Modules = {m1, m2}
  Iclasses = {i1, i2, i3, i4}
  Mids = {u1, u2}
  Bodies = {w1, w2}
  MaxSteps = 4
  Loaders = {u1, u2}
  Files = {"a", "b", "c"}
  MaxCalls = 2
  Slot <- OneSlot
  Requires <- MCRequires
  NSIG = 3
  Interrupts = {1}
  Main = "main"
  Other = "other"
  MaxSignals = 2
  MaxDepth = 3
  Names = {u1, u2, u3}
  Cmds = {w1, w2}
  Variables = {1, 2, 3}
  Traces = {11, 12, 13}
  Procs = {1, 2, 3, 4, 5}
  BITSPERDIG = 3
  Shifts = {0, 1, 2, 3, 4, 7, 9, 13}
  Powers = {0, 1, 2, 3, 4, 5}
  Exceptional = FALSE
  MaxDigits = 3
SYMMETRY Symmetry
INVARIANTS
  MethodsCurrent
  RequireSound
  NotedSignalSeen
  ImmediateInSystemCall
  GvarSound
  EndProcsRunOnce
  ArithmeticExact
  RoundTrip
PROPERTIES
  IncludeLocal
CHECK_DEADLOCK FALSE
