SPECIFICATION FairSpec
CONSTANTS
  Counters = {hashes, submits}
  RetryLimits <- Limits
  MaxSessions = 4
  MaxCount = 2
INVARIANTS
  TotalsAreSums
  DonationIsEarned
PROPERTIES
  StopEndsCore
