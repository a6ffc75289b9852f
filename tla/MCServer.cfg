SPECIFICATION ServerSpec
CONSTANTS
  RESERVED = 4
  DECR_STEP = 2
  MAXCLIENTS = 7
  UNKNOWN = 8
  BindAddrs = {0, 1, 3}
  Limits = {0, 1, 2, 3, 4, 5, 8, 11, 13}
  dbnum = 2
  UINT = 12
  UInt = 3
  DBS_PER_CALL = 1
  CHECK_EVERY = 1
  REHASH_STEPS = 1
  MaxAsked = 1
  Clients = {c1, c2, c3}
  cluster_enabled = TRUE
  PER_TICK = 2
  MIN_ITER = 1
INVARIANTS
  FilesFit
  NoDbStarves
  OneChild
PROPERTIES
  SparseRecovers
  EveryClientsTurn
CHECK_DEADLOCK FALSE
