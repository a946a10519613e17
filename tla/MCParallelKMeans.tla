--------------------------- MODULE MCParallelKMeans ---------------------------
(***************************************************************************)
(* ParallelKMeans with exact arithmetic on chosen data sets of one         *)
(* feature.                                                                *)
(***************************************************************************)
EXTENDS ParallelKMeans, KMeansArith, TLC

CONSTANT MAX_COORDINATE

MCValue  == [Feature -> 0 .. MAX_COORDINATE]
MCCenter == [Feature -> 0 .. SCALE * MAX_COORDINATE]

\* A data set given as the sequence of its points' single coordinates.
DataSet(s) == [p \in Point |-> [j \in Feature |-> s[p + 1]]]

\* Four points that move several at a time and more than once, with a tie; two
\* pairs that agree, so that a cluster can lose all it has; and a data set on which
\* the iteration goes on after MAX_ITERATIONS = 3 if nothing stops it.
ChosenInputs ==
  {DataSet(<<0, 1, 2, 4>>), DataSet(<<0, 0, 4, 4>>), DataSet(<<4, 4, 3, 1>>)}

===============================================================================
