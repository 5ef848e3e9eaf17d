SPECIFICATION Spec
CONSTANTS
  Configs <- SomeConfigs
  Machines <- SomeMachines
  MaxDevices = 2
  DefaultBatch = 5
  MinBatch = 3
  LegacyMaxBatch = 4
  DefaultResults = 2
  MaxNpi = 4
  LegacyLocal = 2
  TestNonces = 3
  TestResults = 3
  MaxWinners = 2
INVARIANTS
  ScanIsExact
  NothingLeaks
  ProgramIsWhole
