CONSTANTS
  Node = {1, 2, 3, 4, 5, 6}
  NoNode = NoNode
  NotScanned = NotScanned
  NoTask = NoTask
  Worker = {w1, w2}
  Projects <- UsedEffect
  OptionSets <- Parallel
SPECIFICATION Spec
INVARIANTS
  PutBackWhenFinished
