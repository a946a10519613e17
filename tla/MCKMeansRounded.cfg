CONSTANTS
  TOTAL_POINTS   = 4
  CLUSTERS       = 2
  MAX_ITERATIONS = 10
  PRECISION      = 3
  UNIT           = 16
  Value    <- MCValue
  Center   <- MCCenter
  Inputs   <- MCInputs
  CenterAt <- RoundedCenterAt
  MeanOf   <- RoundedMeanOf
  SerialDist   <- RoundedRoot
  ParallelDist <- RoundedSquare
SPECIFICATION Spec
INVARIANT TestPasses
CHECK_DEADLOCK FALSE
