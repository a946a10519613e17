CONSTANTS
  PUSHES = 6
  pointers_per_embedded_table = 2
  CAN_FAIL = TRUE
SPECIFICATION Spec
INVARIANTS ConstructsInSegment ReturnedIsReadable NoBlockLeaks ReaderStaysInside
PROPERTY ImplementsAppendVector
CHECK_DEADLOCK FALSE
