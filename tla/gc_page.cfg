SPECIFICATION HeapSpec
CONSTANTS
  PageSize = 2
  MaxPages = 3
  FREE_MIN = 2
  MaxHeapSteps = 9
INVARIANTS
  NoSlotOfFreedPage
CHECK_DEADLOCK FALSE
