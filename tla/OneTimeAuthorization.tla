------------------------ MODULE OneTimeAuthorization ------------------------
(***************************************************************************)
(* What the agent promises about authorizations, seen from outside: a      *)
(* session authorizes one effect (an execution, a model deployment, a      *)
(* training job), a grant contributes to one effect, and neither is        *)
(* forgotten when the agent restarts.                                      *)
(***************************************************************************)
EXTENDS Sequences

CONSTANTS SessionIds, Grants

VARIABLE log  \* the effects so far, in the order they took place

Calls == {"execute", "stream", "train"}

Effects == [call : Calls, session : SessionIds, grants : SUBSET Grants]

Init == log = <<>>

Authorize(e) ==
  /\ \A i \in DOMAIN log : log[i].session # e.session /\ log[i].grants \cap e.grants = {}
  /\ log' = Append(log, e)

Next == \E e \in Effects : Authorize(e)

Spec == Init /\ [][Next]_log
=============================================================================
