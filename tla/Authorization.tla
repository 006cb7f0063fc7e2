---------------------------- MODULE Authorization ----------------------------
(***************************************************************************)
(* Sessions and one-time grants of ConfidentialExecutionService            *)
(* (ciphergpu/service.py): create_session, _purge, and the three handlers  *)
(* that consume an authorization, execute, prepare_stream_deployment and   *)
(* prepare_training_job.                                                   *)
(*                                                                         *)
(* Each of them looks the session up under the lock, checks the session    *)
(* and the grants without it, opens the DEKs with the session's private    *)
(* key, and takes the lock again to record what was consumed.  The handlers *)
(* run on the threads of a pool, so the steps of several interleave.       *)
(*                                                                         *)
(* Signatures, digests and scopes are what they establish: a grant is bound *)
(* to one session and to some of the assets of its task.  What happens     *)
(* after the effect (activation of a model, the output and its receipt)    *)
(* changes no authorization: a failure there leaves the grant consumed.    *)
(***************************************************************************)
EXTENDS Naturals, Sequences, FiniteSets

CONSTANTS
  SessionIds,   \* each is made once: tees_<uuid4>
  Grants,       \* each has a jti of its own
  Assets,       \* asset versions
  Threads,      \* the pool that runs the handlers
  MaxInFlight,  \* how many requests the clients keep in flight at once
  None

ASSUME ThreadsFinite == IsFiniteSet(Threads)

ASSUME InFlightPositive == MaxInFlight \in Nat \ {0}

VARIABLES
  task,      \* session -> the task its digest stands for; None: not made yet
  table,     \* _sessions
  expired,   \* sessions whose expires_at has passed
  consumed,  \* sessions whose consumed flag is set
  keyed,     \* sessions whose private_key is not None
  attested,  \* sessions whose evidence a client has received
  scope,     \* grant -> the session and the assets it is bound to; None: not issued
  lapsed,    \* grants whose exp has passed
  jtis,      \* _consumed_jti
  log,       \* the effects that were authorized (history, survives a restart)
  frame      \* local state of each thread

sessionVars == <<task, table, expired, attested>>
grantVars   == <<scope, lapsed>>
usedVars    == <<consumed, keyed, jtis, log>>
vars        == <<sessionVars, grantVars, usedVars, frame>>

-----------------------------------------------------------------------------
(* Values.                                                                 *)

\* a model.deploy task has one asset, a training task a model and data
Tasks ==
  {k \in [workload : {"model.deploy", "training", "other"}, assets : SUBSET Assets] :
     /\ k.assets # {}
     /\ k.workload = "model.deploy" => Cardinality(k.assets) = 1
     /\ k.workload = "training" => Cardinality(k.assets) > 1}

Scopes == [session : SessionIds, assets : SUBSET Assets]

ASSUME NoneIsOther == None \notin SessionIds \cup Tasks \cup Scopes

Calls == {"execute", "stream", "train"}

Frame == [pc : {"idle", "sign", "open", "commit"}, call : Calls \cup {"none"},
          session : SessionIds \cup {None}, grants : SUBSET Grants]

Idle == [pc |-> "idle", call |-> "none", session |-> None, grants |-> {}]

-----------------------------------------------------------------------------
Init ==
  /\ task     = [s \in SessionIds |-> None]
  /\ table    = {}
  /\ expired  = {}
  /\ consumed = {}
  /\ keyed    = {}
  /\ attested = {}
  /\ scope    = [g \in Grants |-> None]
  /\ lapsed   = {}
  /\ jtis     = {}
  /\ log      = <<>>
  /\ frame    = [t \in Threads |-> Idle]

-----------------------------------------------------------------------------
At(t, l) == frame[t].pc = l

Leave(t) == frame' = [frame EXCEPT ![t] = Idle]

InFlight == {t \in Threads : frame[t].pc # "idle"}

Admits(t) == At(t, "idle") /\ Cardinality(InFlight) < MaxInFlight

\* _purge, the first statement of every handler below
Live == table \ expired

Purge == table' = Live

\* a request that a check refuses has purged all the same
Refuse(t) ==
  /\ Admits(t)
  /\ Purge
  /\ UNCHANGED <<task, expired, attested, grantVars, usedVars, frame>>

-----------------------------------------------------------------------------
(* create_session.                                                         *)

CreateSession(t, s, k) ==
  /\ Admits(t)
  /\ task[s] = None
  /\ task'  = [task EXCEPT ![s] = k]
  /\ table' = Live \cup {s}
  /\ keyed' = keyed \cup {s}
  /\ frame' = [frame EXCEPT ![t] = [Idle EXCEPT !.pc = "sign", !.session = s]]
  /\ UNCHANGED <<expired, attested, grantVars, consumed, jtis, log>>

\* the session is in the table before the evidence is signed, and stays there
\* when the signer cannot be reached
SignEvidence(t) ==
  /\ At(t, "sign")
  /\ \/ attested' = attested \cup {frame[t].session}
     \/ UNCHANGED attested
  /\ Leave(t)
  /\ UNCHANGED <<task, table, expired, grantVars, usedVars>>

-----------------------------------------------------------------------------
(* Checks of the three handlers.                                           *)

SessionAdmits(s) == s \in Live /\ s \notin consumed

\* a grant for these assets of this session that is valid and not consumed
GrantAdmits(g, s, A) ==
  /\ scope[g] = [session |-> s, assets |-> A]
  /\ g \notin lapsed
  /\ g \notin jtis

Begin(t, c, s, G) ==
  /\ Admits(t)
  /\ Purge
  /\ frame' = [frame EXCEPT ![t] = [pc |-> "open", call |-> c, session |-> s, grants |-> G]]
  /\ UNCHANGED <<task, expired, attested, grantVars, usedVars>>

\* execute takes a task of any workload
ExecuteBegin(t, s, g) ==
  /\ SessionAdmits(s)
  /\ GrantAdmits(g, s, task[s].assets)
  /\ Begin(t, "execute", s, {g})

StreamBegin(t, s, g) ==
  /\ SessionAdmits(s)
  /\ task[s].workload = "model.deploy"
  /\ GrantAdmits(g, s, task[s].assets)
  /\ Begin(t, "stream", s, {g})

\* one grant for each input, several inputs may share a grant; nothing is done
\* for a job that is going on
TrainBegin(t, s, G) ==
  /\ SessionAdmits(s)
  /\ task[s].workload = "training"
  /\ \A g \in G : scope[g] # None /\ GrantAdmits(g, s, scope[g].assets)
  /\ \A g, h \in G : g # h => scope[g].assets \cap scope[h].assets = {}
  /\ UNION {scope[g].assets : g \in G} = task[s].assets
  /\ Begin(t, "train", s, G)

-----------------------------------------------------------------------------
(* The effect.                                                             *)

\* the private key is read from the session when a DEK is opened; the opening,
\* the content and the directory the effect needs may all be refused
OpenDeks(t) ==
  /\ At(t, "open")
  /\ \/ /\ frame[t].session \in keyed
        /\ frame' = [frame EXCEPT ![t].pc = "commit"]
     \/ Leave(t)
  /\ UNCHANGED <<sessionVars, grantVars, usedVars>>

Consume(t) ==
  LET f == frame[t] IN
  /\ consumed' = consumed \cup {f.session}
  /\ jtis'     = jtis \cup f.grants
  /\ log'      = Append(log, [call |-> f.call, session |-> f.session, grants |-> f.grants])
  /\ Leave(t)

\* mutant: the jti is not looked at again under the lock
ExecuteCommitUnchecked(t) ==
  /\ At(t, "commit")
  /\ frame[t].call = "execute"
  /\ Consume(t)
  /\ UNCHANGED <<sessionVars, grantVars, keyed>>

\* the only one of the three that looks the jti up again under the lock
ExecuteCommit(t) ==
  /\ At(t, "commit")
  /\ frame[t].call = "execute"
  /\ \/ /\ frame[t].grants \cap jtis = {}
        /\ Consume(t)
     \/ /\ frame[t].grants \cap jtis # {}
        /\ Leave(t)
        /\ UNCHANGED <<consumed, jtis, log>>
  /\ UNCHANGED <<sessionVars, grantVars, keyed>>

\* mutant: the session is not marked
StreamCommitUnmarked(t) ==
  /\ At(t, "commit")
  /\ frame[t].call = "stream"
  /\ jtis' = jtis \cup frame[t].grants
  /\ log'  = Append(log, [call |-> "stream", session |-> frame[t].session,
                          grants |-> frame[t].grants])
  /\ Leave(t)
  /\ UNCHANGED <<sessionVars, grantVars, consumed, keyed>>

StreamCommit(t) ==
  /\ At(t, "commit")
  /\ frame[t].call = "stream"
  /\ Consume(t)
  /\ UNCHANGED <<sessionVars, grantVars, keyed>>

\* mutant: add() instead of update()
TrainCommitAdding(t) ==
  /\ At(t, "commit")
  /\ frame[t].call = "train"
  /\ consumed' = consumed \cup {frame[t].session}
  /\ jtis'     = jtis \cup {frame[t].grants}
  /\ keyed'    = keyed \ {frame[t].session}
  /\ Leave(t)
  /\ UNCHANGED <<sessionVars, grantVars, log>>

\* mutant: the job's grants are not recorded
TrainCommitUnrecorded(t) ==
  /\ At(t, "commit")
  /\ frame[t].call = "train"
  /\ consumed' = consumed \cup {frame[t].session}
  /\ log'      = Append(log, [call |-> "train", session |-> frame[t].session,
                              grants |-> frame[t].grants])
  /\ keyed'    = keyed \ {frame[t].session}
  /\ Leave(t)
  /\ UNCHANGED <<sessionVars, grantVars, jtis>>

TrainCommit(t) ==
  /\ At(t, "commit")
  /\ frame[t].call = "train"
  /\ Consume(t)
  /\ keyed' = keyed \ {frame[t].session}
  /\ UNCHANGED <<sessionVars, grantVars>>

-----------------------------------------------------------------------------
(* The surroundings.                                                       *)

\* the control plane issues a grant to a client that has received evidence
IssueGrant(g, s, A) ==
  /\ s \in attested
  /\ scope[g] = None
  /\ A # {} /\ A \subseteq task[s].assets
  /\ scope' = [scope EXCEPT ![g] = [session |-> s, assets |-> A]]
  /\ UNCHANGED <<sessionVars, lapsed, usedVars, frame>>

SessionExpires(s) ==
  /\ s \in table \ expired
  /\ expired' = expired \cup {s}
  /\ UNCHANGED <<task, table, attested, grantVars, usedVars, frame>>

GrantExpires(g) ==
  /\ scope[g] # None /\ g \notin lapsed
  /\ lapsed' = lapsed \cup {g}
  /\ UNCHANGED <<sessionVars, scope, usedVars, frame>>

\* everything is in memory only: close() and a new process, or a crash
Restart ==
  /\ table'    = {}
  /\ consumed' = {}
  /\ keyed'    = {}
  /\ jtis'     = {}
  /\ frame'    = [t \in Threads |-> Idle]
  /\ UNCHANGED <<task, expired, attested, grantVars, log>>

-----------------------------------------------------------------------------
Request(t) ==
  \/ Refuse(t)
  \/ \E s \in SessionIds :
       \/ \E k \in Tasks : CreateSession(t, s, k)
       \/ \E g \in Grants : ExecuteBegin(t, s, g) \/ StreamBegin(t, s, g)
       \/ \E G \in SUBSET Grants : TrainBegin(t, s, G)

Step(t) ==
  \/ SignEvidence(t) \/ OpenDeks(t)
  \/ ExecuteCommit(t) \/ StreamCommit(t) \/ TrainCommit(t)

Environment ==
  \/ \E g \in Grants, s \in SessionIds, A \in SUBSET Assets : IssueGrant(g, s, A)
  \/ \E s \in SessionIds : SessionExpires(s)
  \/ \E g \in Grants : GrantExpires(g)
  \/ Restart

Next == (\E t \in Threads : Request(t) \/ Step(t)) \/ Environment

Spec == Init /\ [][Next]_vars

-----------------------------------------------------------------------------
(* Properties.                                                             *)

\* Every variable has its type.
TypeOK ==
  /\ task     \in [SessionIds -> Tasks \cup {None}]
  /\ table    \subseteq SessionIds
  /\ expired  \subseteq SessionIds
  /\ consumed \subseteq SessionIds
  /\ keyed    \subseteq SessionIds
  /\ attested \subseteq SessionIds
  /\ scope    \in [Grants -> Scopes \cup {None}]
  /\ lapsed   \subseteq Grants
  /\ jtis     \subseteq Grants
  /\ log      \in Seq([call : Calls, session : SessionIds, grants : SUBSET Grants])
  /\ frame    \in [Threads -> Frame]

\* An execution is never authorized by a grant that already authorized
\* something, however the requests overlap and across restarts: the check of
\* the jti under the lock in execute.
ExecutionIsFresh ==
  \A i, j \in DOMAIN log :
    j < i /\ log[i].call = "execute" => log[i].grants \cap log[j].grants = {}

\* A grant authorizes one effect: maxUses is 1, and a second use is refused
\* with GRANT_REPLAYED.
GrantUsedOnce ==
  \A i, j \in DOMAIN log : i # j => log[i].grants \cap log[j].grants = {}

\* a session is current while it is in the table or a handler still works with it
Current(s) == s \in table \/ \E t \in Threads : frame[t].pc # "idle" /\ frame[t].session = s

BoundTo(G, s) == \A g \in G : scope[g] # None /\ scope[g].session = s

\* The inductive invariant behind ExecutionIsFresh.  The table of used grants is
\* lost in a restart and the sessions with it: a used grant is bound to the
\* session it was used with, and as long as that session can be used at all the
\* grant is in the table.
UseInv ==
  /\ \A s \in table : task[s] # None
  /\ \A t \in Threads : frame[t].pc # "idle" =>
       frame[t].session \in SessionIds /\ task[frame[t].session] # None
  /\ \A t \in Threads : frame[t].pc \in {"open", "commit"} =>
       BoundTo(frame[t].grants, frame[t].session)
  /\ \A i \in DOMAIN log :
       /\ task[log[i].session] # None
       /\ BoundTo(log[i].grants, log[i].session)
       /\ Current(log[i].session) =>
            log[i].grants \subseteq jtis /\ log[i].session \in consumed

Once == INSTANCE OneTimeAuthorization WITH
  SessionIds <- SessionIds, Grants <- Grants, log <- log

\* The handlers keep the promise of OneTimeAuthorization.
OneTimeUse == Once!Spec
=============================================================================
