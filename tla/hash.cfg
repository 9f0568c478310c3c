SPECIFICATION Spec
CONSTANTS
  it1 = it1
  it2 = it2
  Nil = Nil
  Keys = {"a", "b", "c"}
  Vals = {1}
  HashOf <- MCHashOf
  Sizes <- MCSizes
  MaxDensity = 1
  Iterators = {it1, it2}
  BlockOps = {"aset", "delete", "rehash", "each"}
  MaxEntries = 3
  AddressesReused = FALSE
SYMMETRY Symmetry
INVARIANTS
  TableSound
  EachVisitsAll
PROPERTIES
  MapSpec
CHECK_DEADLOCK FALSE
