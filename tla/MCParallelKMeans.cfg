CONSTANTS
  TOTAL_POINTS   = 4
  CLUSTERS       = 3
  MAX_ITERATIONS = 3
  TOTAL_VALUES   = 1
  SCALE          = 12
  MAX_COORDINATE = 4
  Value    <- MCValue
  Center   <- MCCenter
  Inputs   <- ChosenInputs
  CenterAt <- ExactCenterAt
  DistSq   <- SimdDistSq
  MeanOf   <- ExactMeanOf
SPECIFICATION Spec
INVARIANTS IInv PointsMatchClusters DoneIsExact
PROPERTIES MovesToNearest Termination ImplementsLloyd
CHECK_DEADLOCK FALSE
