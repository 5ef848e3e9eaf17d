SPECIFICATION FairServiceSpec
CONSTANTS
  Instances <- OneInstance
  MaxIntents = 2
  StopIntentFails = FALSE
  Starters <- ServiceStarters
  Stoppers <- ServiceStoppers
  Threads = {t1}
  NoThread = NoThread
CHECK_DEADLOCK FALSE
PROPERTY
  TapStopsMining
