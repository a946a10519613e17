----------------------------- MODULE KMeansArith ------------------------------
(***************************************************************************)
(* Exact arithmetic on feature vectors, to give the constants of           *)
(* KMeansBase a value.  A center is kept in units of 1/SCALE, so that the  *)
(* mean of n values is exact for every n that divides SCALE.  What the     *)
(* rounding of doubles adds is not in this module.                         *)
(***************************************************************************)
EXTENDS Integers, Sequences, FiniteSetsExt

CONSTANTS
  TOTAL_VALUES,   \* number of features
  SCALE           \* a center coordinate c stands for c / SCALE

ASSUME ArithAssumption ==
  /\ TOTAL_VALUES \in Nat \ {0}
  /\ SCALE \in Nat \ {0}

Feature == 0 .. TOTAL_VALUES - 1

\* The constructor of Cluster copies the values of its first point.
ExactCenterAt(v) == [j \in Feature |-> SCALE * v[j]]

Square(x) == x * x

-------------------------------------------------------------------------------
\* serial::KMeans::getIDNearestCenter adds up the squares feature by feature.
SerialDistSq(c, v) == MapThenSumSet(LAMBDA j : Square(c[j] - SCALE * v[j]), Feature)

(***************************************************************************)
(* parallel::KMeans::getIDNearestCenter takes two features at a time, one  *)
(* in each lane of an SSE2 register, adds the two lanes at the end, and    *)
(* then the last feature when their number is odd.  Lane 0 of the values   *)
(* loaded at address j is feature j; _mm_set_pd takes lane 1 first.        *)
(***************************************************************************)
LoadValues(v, j)     == [lane \in {0, 1} |-> v[j + lane]]
SetPd(high, low)     == [lane \in {0, 1} |-> IF lane = 0 THEN low ELSE high]
LoadCenter(c, j)     == SetPd(c[j + 1], c[j])

\* A slip: the last feature of an odd number of features is forgotten.
PairsOnlyDistSq(c, v) ==
  LET LaneSum(lane) ==
        MapThenSumSet(LAMBDA i : Square(LoadCenter(c, 2 * i)[lane]
                                        - SCALE * LoadValues(v, 2 * i)[lane]),
                      0 .. (TOTAL_VALUES \div 2) - 1)
  IN  LaneSum(0) + LaneSum(1)

SimdDistSq(c, v) ==
  LET pairs == TOTAL_VALUES \div 2
      LaneSum(lane) ==
        MapThenSumSet(LAMBDA i : Square(LoadCenter(c, 2 * i)[lane]
                                        - SCALE * LoadValues(v, 2 * i)[lane]),
                      0 .. pairs - 1)
      last == 2 * pairs
  IN  LaneSum(0) + LaneSum(1)
      + IF last < TOTAL_VALUES THEN Square(c[last] - SCALE * v[last]) ELSE 0

-------------------------------------------------------------------------------
\* The mean of a cluster's values, one feature after the other.
ExactMeanOf(s) ==
  [j \in Feature |->
     (SCALE * MapThenSumSet(LAMBDA i : s[i][j], DOMAIN s)) \div Len(s)]

===============================================================================
