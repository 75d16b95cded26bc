SPECIFICATION Spec
CONSTANTS
  Cid = {1, 2}
  MayDrop = TRUE
  MaxMessages = 4
INVARIANTS LinesIntact NoGap OneCallPerId
CHECK_DEADLOCK FALSE
