CONSTANTS
  TOTAL_POINTS   = 3
  CLUSTERS       = 4
  MAX_ITERATIONS = 3
  TOTAL_VALUES   = 3
  SCALE          = 6
  Value    <- MCValue
  Center   <- MCCenter
  Inputs   <- MCInputs
  CenterAt <- ExactCenterAt
  MeanOf   <- ExactMeanOf
  SerialDist   <- SerialDistSq
  ParallelDist <- SimdDistSq
SPECIFICATION Spec
PROPERTY TestEnds
CHECK_DEADLOCK FALSE
