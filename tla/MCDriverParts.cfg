CONSTANTS
  TOTAL_POINTS  = 4
  CLUSTERS      = 3
  Cluster      <- MCCluster
  POINTS_READ   = 3
  TOTAL_VALUES  = 2
  Number        = {1}
  Word          = Word
  Uninitialized = Uninitialized
  MAX_TOKENS    = 9
  MAIN_POINTS   = 2
  MAIN_CLUSTERS = 2
  WARMUP_RUNS   = 1
  BENCH_RUNS    = 3
  MAX_TIME      = 2
  RAND_LENGTH   = 11
SPECIFICATION MCSpec
INVARIANTS PassesIffCoarser DifferencesAreMisplaced Spoilt Stale
           RunsStartFresh SameFirstMembers MedianIsCentral
CHECK_DEADLOCK FALSE
