-------------------------- MODULE MCKMeansTestCrowded --------------------------
(***************************************************************************)
(* The test on the data sets of MCKMeansTest, with more clusters than      *)
(* points.                                                                 *)
(***************************************************************************)
EXTENDS MCKMeansTest

\* Both programs compute the same distances, of pairs and of a last feature alone.
ASSUME DistancesAgree

===============================================================================
