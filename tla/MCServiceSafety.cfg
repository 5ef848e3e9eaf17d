SPECIFICATION ServiceSpec
CONSTANTS
  Instances <- OneInstance
  MaxIntents = 2
  StopIntentFails = TRUE
  Starters <- ServiceStarters
  Stoppers <- ServiceStoppers
  Threads = {t1, t2}
  NoThread = NoThread
SYMMETRY ThreadSymmetry
CHECK_DEADLOCK FALSE
INVARIANTS
  OneCoreThread
  JoinedOnce
PROPERTIES
  StopIsNotWithdrawn
