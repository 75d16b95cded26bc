CONSTANTS
  Node = {1, 2, 3, 4, 5, 6}
  NoNode = NoNode
  NotScanned = NotScanned
  NoTask = NoTask
  Worker = {w1, w2}
  Projects <- LiveProjects
  OptionSets <- LiveOptions
SPECIFICATION FairSpec
PROPERTIES
  BuildEnds
