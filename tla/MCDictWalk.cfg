SPECIFICATION WSpec
VIEW WView
CONSTANTS
  k1 = k1
  k2 = k2
  k3 = k3
  Key <- MCKey
  Val = {v1}
  NoVal = NoVal
  NoKey = NoKey
  Hash <- MCHash
  Sizes <- MCSizes
  MaxSize = 8
  DICT_HT_INITIAL_SIZE = 1
  ForceRatio = 1
  EmptyVisits = 2
  RehashBatch = 2
  MaxIterators = 1
  Width = 3
INVARIANTS
  WalkComplete
  IteratesOnce
PROPERTIES
  ScanAdvances
