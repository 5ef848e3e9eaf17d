SPECIFICATION FairSpec
CONSTANTS
  c1 = c1
  g1 = g1
  Cpu <- OneCpu
  Gpu <- OneGpu
  NonceLimit = 2
  CpuBatch = 2
  MixedBatch = 1
  GpuBatch = 2
  MaxResults = 1
  QueueSize = 1
  Winners <- SomeWinners
  MaxSeq = 2
  MaxPauses = 1
INVARIANTS
  TypeOK
  DisjointRanges
  NoDuplicateShare
  QueueIsCurrent
  NoLostWakeup
  NonceAccounting
  HashesExact
  ExhaustedIsReal
  DeviceOutlivesThread
PROPERTIES
  OvertakenWorkIsDropped
  ImplementsFeed
  StopEnds
  JobIsMined
