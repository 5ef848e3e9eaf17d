SPECIFICATION Spec
SYMMETRY CountSymmetry
CONSTANTS
  n1 = n1
  n2 = n2
  MaxChildren = 2
  ThreadCounts = {n1, n2}
INVARIANTS
  OneMiner
  StopEndsMining
  CalibrationIsMeasured
