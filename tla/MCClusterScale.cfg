SPECIFICATION Spec
CHECK_DEADLOCK FALSE
CONSTANTS
  MaxSize = 1
  MaxEdits = 2
  MaxTrouble = 1
  Storages <- BothOrOne
  NotYet = NotYet
  Unset = Unset
PROPERTY SizedDespiteRestarts
