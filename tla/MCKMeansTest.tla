----------------------------- MODULE MCKMeansTest ------------------------------
(***************************************************************************)
(* KMeansTest with exact arithmetic on points with three features, so that *)
(* the parallel program's distance has a pair of features and one left.    *)
(***************************************************************************)
EXTENDS KMeansTest, KMeansArith

MCCenter == [Feature -> 0 .. 4 * SCALE]

\* A data set given as the sequence of its points.
DataSet(s) == [p \in 0 .. TOTAL_POINTS - 1 |-> [j \in Feature |-> s[p + 1][j + 1]]]

\* The points differ in the first feature of a pair, in the second and in the
\* last; two of them agree; and a set on which a center loses all its points.
MCInputs ==
  {DataSet(<< <<0, 0, 0>>, <<1, 0, 0>>, <<4, 0, 0>> >>),
   DataSet(<< <<0, 0, 0>>, <<0, 2, 0>>, <<0, 3, 0>> >>),
   DataSet(<< <<0, 0, 0>>, <<0, 0, 1>>, <<0, 0, 4>> >>),
   DataSet(<< <<1, 2, 3>>, <<1, 2, 3>>, <<0, 4, 2>> >>),
   DataSet(<< <<4, 0, 1>>, <<1, 3, 0>>, <<0, 1, 4>> >>)}

\* The values that occur in these data sets.
MCValue == UNION {Range(d) : d \in MCInputs}

\* The means of this instance are exact.  That the distances agree is what SameResult
\* would notice; MCKMeansTestCrowded, on the same data sets, says it directly.
ASSUME MeansIgnoreOrder

===============================================================================
