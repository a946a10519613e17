CONSTANTS
  NUM_THREADS = 3
  INT_BITS    = 3
  LONG_BITS   = 9
  Inputs     <- MCInputs
SPECIFICATION MCSpec
INVARIANTS IInv ResultIsExact EachNumberOnce OvershootIsBounded
INVARIANTS OthersAreExact NumbersAreDealt LastShareIsBounded AnswerIsSound
PROPERTY ImplementsPrimeCount
CHECK_DEADLOCK FALSE
