CONSTANTS
  N                = 6
  PARTITIONER      = "affinity"
  MAX_CONCURRENCY  = 2
  FACTOR           = 2
  INITIAL_CHUNKS   = 1
  INIT_DEPTH       = 2
  DEMAND_DEPTH_ADD = 1
  POOL_CAPACITY    = 3
  CAN_FAIL         = TRUE
SPECIFICATION MCSpec
INVARIANTS CountsAreReferences ReleasedMeansQuiet CastsAreValid IndicesAreHeldOnce
PROPERTIES ImplementsParallelLoop SlotIsNotedOnce
CHECK_DEADLOCK FALSE
