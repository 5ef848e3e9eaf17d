SPECIFICATION WatchedSpec
CONSTANTS
  Cores = 2
  Watchers <- OneWatcher
  Edits <- TypedText
  Threads = {2}
  Donations = {1}
  Diffs = {1}
  DefaultDiff = 1
  Absent = Absent
  MaxSaves = 1
INVARIANTS
  SavedStays
