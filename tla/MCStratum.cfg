SPECIFICATION FairSpec
CONSTANTS
  JobIds = {j1}
  Extranonces = {e1, e2}
  Difficulties = {1, 2}
  Nonces = {n1}
  QueueSize = 1
  PendingSlots = 2
  En2Space = 3
  Timed = TRUE
  Suggests = TRUE
  Unset = Unset
  MaxLines = 3
  MaxBuilds = 2
INVARIANTS
  NoDuplicateSubmit
  SubmitsAddUp
  PendingIsOwed
  MinesWhatPoolAsked
PROPERTIES
  ExhaustionIsAnswered
