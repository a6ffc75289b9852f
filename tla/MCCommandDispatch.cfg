SPECIFICATION Spec
CONSTANTS
  Pod = {p1, p2}
  Command = {c1, c2}
  NoCommand = NoCommand
  Unset = "unset"
  NoCopy = NoCopy
  MaxEdits = 2
  MaxTicks = 1
  MaxFaults = 1
INVARIANTS
  MutexTracksDispatch
  MarkedBeforeRun
  NoStrays
  AllListedMarked
PROPERTIES
  MarksKept
  CommandSettles
