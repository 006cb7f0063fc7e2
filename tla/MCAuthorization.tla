-------------------------- MODULE MCAuthorization --------------------------
(* Small instances of Authorization for TLC.                               *)
EXTENDS Authorization, TLC

\* Session ids, grants, assets and pool threads are interchangeable.
Interchangeable ==
  UNION {Permutations(S) : S \in {SessionIds, Grants, Assets, Threads}}
=============================================================================
