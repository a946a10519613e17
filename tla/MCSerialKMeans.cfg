CONSTANTS
  TOTAL_POINTS   = 4
  CLUSTERS       = 3
  MAX_ITERATIONS = 5
  TOTAL_VALUES   = 1
  SCALE          = 12
  MAX_COORDINATE = 2
  Value    <- MCValue
  Center   <- MCCenter
  Inputs   <- MCInputs
  CenterAt <- ExactCenterAt
  DistSq   <- SerialDistSq
  MeanOf   <- ExactMeanOf
SPECIFICATION Spec
INVARIANTS IInv StopsAtFixedPoint
PROPERTIES ImplementsLloyd CostNeverIncreases
CHECK_DEADLOCK FALSE
