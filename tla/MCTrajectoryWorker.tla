---------------------------- MODULE MCTrajectoryWorker ----------------------------
(* Each chunk is named for its kind.                                           *)
EXTENDS TrajectoryWorker

MCKind == [c \in Chunk |-> c]
===============================================================================
