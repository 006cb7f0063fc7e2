------------------------ MODULE MCModelDeployments ------------------------
(* Small instances of ModelDeployments for TLC.                            *)
EXTENDS ModelDeployments, TLC

\* Ids, objects, streams, children, ports, sessions and pool threads are interchangeable.
Interchangeable ==
  UNION {Permutations(S) : S \in {Ids, Objects, Streams, Children, Ports, Sessions, Requests}}
=============================================================================
