SPECIFICATION Spec
CONSTANTS
  Writer = {"command", "instances", "timer"}
  Field <- MCField
  Value <- MCValue
  Unset = "unset"
  Update <- MCUpdate
  NoCopy = NoCopy
PROPERTIES
  AtomicMerge
