----------------------------- MODULE MCParallelFor -----------------------------
(***************************************************************************)
(* ParallelFor with either partitioner, on ranges and partitioner          *)
(* constants small enough that every kind of split happens within a few    *)
(* elements: the affinity partitioner with two threads and a body that may *)
(* throw, or the default one with a single chunk and a smaller pool.       *)
(***************************************************************************)
EXTENDS ParallelFor

VARIABLE partitioner   \* the one this loop is called with

Auto == INSTANCE ParallelFor WITH
          PARTITIONER <- "auto", MAX_CONCURRENCY <- 1, FACTOR <- 1, POOL_CAPACITY <- 2,
          CAN_FAIL <- FALSE

MCInit ==
  \/ partitioner = "auto" /\ Auto!Init
  \/ partitioner = PARTITIONER /\ Init

MCNext ==
  \/ partitioner = "auto"     /\ Auto!Next /\ UNCHANGED partitioner
  \/ partitioner = "affinity" /\ Next      /\ UNCHANGED partitioner

MCSpec == MCInit /\ [][MCNext]_<<vars, partitioner>> /\ WF_<<vars, partitioner>>(MCNext)

\* See ParallelFor; the default partitioner asks about its parent in more cases.
CastsAreValid ==
  IF partitioner = "auto" THEN Auto!CastsAndDepthsAreValid ELSE CastsAndDepthsAreValid

===============================================================================
