---------------------------- MODULE MCKMeansRounded ----------------------------
(***************************************************************************)
(* KMeansTest with floating-point arithmetic.                              *)
(***************************************************************************)
EXTENDS KMeansTest, RoundedArith

MCValue  == 0 .. 12
MCCenter == 0 .. 12 * UNIT

DataSet(s) == [p \in 0 .. TOTAL_POINTS - 1 |-> s[p + 1]]

\* Two of the many data sets on which the order of the additions matters.
MCInputs == {DataSet(<<0, 2, 3, 8>>), DataSet(<<0, 3, 3, 12>>)}

===============================================================================
