SPECIFICATION FairSpec
CONSTANTS
  RetryLimit = 1
  PromptStart = TRUE
  JoinMayTimeOut = TRUE
  MaxThreads = 3
  MaxRefresh = 2
INVARIANTS OneMonitor PanelCatchesUp
PROPERTIES StopTakesEffect KeepsTrying ButtonComesBack
CHECK_DEADLOCK FALSE
