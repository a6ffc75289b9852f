SPECIFICATION Spec
CHECK_DEADLOCK FALSE
CONSTANTS
  MaxSize = 2
  MaxEdits = 1
  MaxTrouble = 1
  Storages <- BothOrOne
  NotYet = NotYet
  Unset = Unset
INVARIANTS
  InvalidCreatesNothing
  MissingIsReported
  CreatedMeansWhole
  SizeAppliedCleanly
PROPERTIES
  StsAppears
  StatusTracksPods
  ScaledCleanly
  GoneLeavesNothing
