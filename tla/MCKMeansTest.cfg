CONSTANTS
  TOTAL_POINTS   = 3
  CLUSTERS       = 2
  MAX_ITERATIONS = 2
  TOTAL_VALUES   = 3
  SCALE          = 6
  Value    <- MCValue
  Center   <- MCCenter
  Inputs   <- MCInputs
  CenterAt <- ExactCenterAt
  MeanOf   <- ExactMeanOf
  SerialDist   <- SerialDistSq
  ParallelDist <- SimdDistSq
SPECIFICATION Spec
INVARIANTS SameResult TestPasses
CHECK_DEADLOCK FALSE
