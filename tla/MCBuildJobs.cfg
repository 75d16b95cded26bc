CONSTANTS
  Node = {1, 2, 3, 4, 5, 6}
  NoNode = NoNode
  NotScanned = NotScanned
  NoTask = NoTask
  Worker = {w1, w2}
  Projects <- AllProjects
  OptionSets <- BuildOptions
SPECIFICATION Spec
INVARIANTS
  TypeOK
  JobsCounted
  AtMostOnce
  EffectsExclusive
  NobodyForgotten
  NothingLeftOut
  KeepsGoing
  CyclesReported
  StatusTellsTruth
PROPERTIES
  DependenciesFirst
  StopMeansStop
