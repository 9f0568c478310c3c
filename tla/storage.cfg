SPECIFICATION MCSpec
CONSTANTS
  ary1 = ary1
  ary2 = ary2
  p1 = p1
  p2 = p2
  p3 = p3
  Nil = Nil
  Junk = Junk
  None = None
  NoTable = NoTable
  Broken = Broken
  PageSize = 2
  MaxPages = 3
  FREE_MIN = 2
  MaxHeapSteps = 11
  Arrays = {ary1, ary2}
  Elems = {1, 2}
  Item = 2
  Literals <- MCLiterals
  ARY_DEFAULT_SIZE = 1
  BlockShares = FALSE
  MaxLen = 3
  MaxBufs = 5
  MaxSteps = 4
  Procs = {p1, p2, p3}
  Entries = {1, 2}
  Inodes = {1, 2, 3, 4}
  SharedFaults = FALSE
  CopyFaults = FALSE
SYMMETRY Symmetry
INVARIANTS
  HeapSound
  FinalizersSound
  ArraySound
  SnapshotCurrent
PROPERTIES
  StoreAtomic
CHECK_DEADLOCK FALSE
