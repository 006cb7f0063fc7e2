---------------------------- MODULE ServedModels ----------------------------
(***************************************************************************)
(* What model deployments promise about the weights on the GPU: whose      *)
(* upload is served under an id.  One authorization is good for one load;  *)
(* and a model takes the place of another only after that one is gone.     *)
(***************************************************************************)
CONSTANTS Ids, Sessions, None

VARIABLES
  serving,  \* id -> the session that authorized what is served, or None
  loaded    \* sessions whose upload was ever loaded

vars == <<serving, loaded>>

Init == serving = [id \in Ids |-> None] /\ loaded = {}

Load(id, s) ==
  /\ serving[id] = None
  /\ s \notin loaded
  /\ serving' = [serving EXCEPT ![id] = s]
  /\ loaded'  = loaded \cup {s}

\* stopped, ended by itself, or lost with the agent that knew of it
Drop(gone) ==
  /\ serving' = [id \in Ids |-> IF id \in gone THEN None ELSE serving[id]]
  /\ UNCHANGED loaded

Next ==
  \/ \E id \in Ids, s \in Sessions : Load(id, s)
  \/ \E gone \in SUBSET Ids : Drop(gone)

Spec == Init /\ [][Next]_vars
=============================================================================
