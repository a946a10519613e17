---------------------------- MODULE MCSerialKMeans ----------------------------
(***************************************************************************)
(* SerialKMeans with exact arithmetic on every data set of TOTAL_POINTS    *)
(* points whose coordinates are at most MAX_COORDINATE.                    *)
(***************************************************************************)
EXTENDS SerialKMeans, KMeansArith

CONSTANT MAX_COORDINATE

MCValue  == [Feature -> 0 .. MAX_COORDINATE]
MCCenter == [Feature -> 0 .. SCALE * MAX_COORDINATE]
MCInputs == [Point -> MCValue]

\* A center is put where its first point is, and no center is better than the mean: the
\* arithmetic is exact in this instance.
ASSUME MeanOfOne /\ MeanIsCentral(Value)

===============================================================================
