CONSTANTS
  NUM_THREADS = 3
  INT_BITS    = 5
  LONG_BITS   = 5
  Inputs     <- WrappedInputs
SPECIFICATION Spec
INVARIANT ResultIsExact
CHECK_DEADLOCK FALSE
