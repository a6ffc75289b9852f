SPECIFICATION Spec
CHECK_DEADLOCK FALSE
CONSTANTS
  MaxSize = 2
  MaxEdits = 0
  MaxTrouble = 1
  Storages <- BothOrOne
  NotYet = NotYet
  Unset = Unset
INVARIANT SizeApplied
