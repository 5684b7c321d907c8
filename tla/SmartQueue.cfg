SPECIFICATION MCSpec
CONSTANTS
  Nodes = {n1, n2, n3, n4, n5, n6, n7, n8, n9, n10, n11, n12, n13, n14}
  Nil = Nil
  Times = {1, 2}
  Tasks = {k1, k2}
  MaxRq = 8
  WordBits = 4
  NsSlot = 2
  Loops = 20
  CallTimes = {0, 1, 4, 7, 9, 17}
  MaxBase = 9
  Null = Null
VIEW UpToNames
SYMMETRY TaskSymmetry
INVARIANTS
  Balanced
  NullOnlyBehindBase
PROPERTIES
  
  EarliestFirst
  TakenInItsSlot
CHECK_DEADLOCK FALSE
