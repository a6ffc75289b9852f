SPECIFICATION Spec
CONSTANTS
  k1 = k1
  k2 = k2
  Key <- MCKey
  Val = {v1, v2}
  NoVal = NoVal
  Hash <- MCHash
  Sizes <- MCSizes
  MaxSize = 8
  DICT_HT_INITIAL_SIZE = 1
  ForceRatio = 1
  EmptyVisits = 2
  RehashBatch = 2
  MaxIterators = 1
INVARIANTS
  TypeOK
  UsedExact
  NothingLost
  EveryEntryDrawn
PROPERTIES
  MapSpec
