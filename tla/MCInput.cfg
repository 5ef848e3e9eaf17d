SPECIFICATION FairSpec
CONSTANTS
  MaxLength = 5
  ReadSize = 2
  MaxBuffered = 3
  LineSize = 3
INVARIANTS
  EndComesLast
PROPERTIES
  LossIsNoticed
  ReaderEnds
  ImplementsLineFeed
