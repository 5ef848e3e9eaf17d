SPECIFICATION Spec
CONSTANTS
  Cores = 2
  Watchers <- NoWatcher
  Edits <- TypedTexts
  Threads = {0, 1, 2}
  Donations = {0, 1, 5}
  Diffs = {1, 2}
  DefaultDiff = 1
  Absent = Absent
  MaxSaves = 3
INVARIANTS
  SavedStays
  EnsureLeavesPool
  MinesAsShown
