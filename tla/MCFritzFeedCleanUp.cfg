SPECIFICATION Spec
CONSTANTS
  Cid = {1}
  MayDrop = FALSE
  MaxMessages = 1
INVARIANT UnregisteredInCleanUp
CHECK_DEADLOCK FALSE
