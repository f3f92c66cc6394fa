CONSTANTS
  p = p
  i = i
  Workers <- MCWorkerSet
  Worker = p
  Process = p
  Input = i
  LinkHead = LinkHead
  NULL = NULL
  MaxCmds = 6
  Rounds = 50
  PauseProcess = 8
  ResumeProcess = 16
  PauseInput = 10
  ResumeInput = 15
  SignalsInPrintf = TRUE
SPECIFICATION MCSpec
CHECK_DEADLOCK FALSE
PROPERTY DemoTerminates
