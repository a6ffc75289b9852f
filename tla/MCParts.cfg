SPECIFICATION PartsSpec
CONSTANTS
  SizeT = 64
  UInt = 32
  SDS_MAX_PRE_ALLOC = 8
  STATIC_BUF = 4
  MaxLen = 8
  MaxDigits = 2
  MaxLine = 4
  MaxWord = 8
  MaxContent = 3
  MaxText = 6
  SepLens = {1, 2}
  FirstSlots = 2
  Texts <- MCTexts
  Lines <- MCLines
  Contents <- MCContents
  Nodes = {n1, n2, n3, n4}
  NULL = NULL
  ULong = 8
  INT16_MAX = 8
  INT32_MAX = 16
  MaxSet = 5
  Values <- MCValues
  MaxTrouble = 2
  MaxOps = 2
  MaxCalls = 2
INVARIANTS
  BufferSafe
  BlocksAccounted
  RoundTrip
  NothingLeaks
  TokensFit
  Mirrored
  CountDrift
  IterComplete
  SearchExact
  WritesHeld
  FedOnce
CHECK_DEADLOCK FALSE
