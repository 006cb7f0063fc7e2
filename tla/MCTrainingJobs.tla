--------------------------- MODULE MCTrainingJobs ---------------------------
(* Small instances of TrainingJobs for TLC.                                *)
EXTENDS TrainingJobs, TLC

\* Job objects, worker processes and pool threads are interchangeable.
Interchangeable ==
  UNION {Permutations(S) : S \in {JobIds, Objects, Workers, Requests}}
=============================================================================
