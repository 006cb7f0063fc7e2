------------------------ MODULE Authorization_proofs ------------------------
(* What Authorization keeps for every set of sessions, grants, assets and   *)
(* threads: a grant never authorizes an execution after another use, and    *)
(* with one request at a time the handlers implement OneTimeAuthorization.  *)
(*                                                                          *)
(* TypeOK and UseInv are inductive together.  An entry of the log is added  *)
(* by Consume alone, whatever handler takes it.                             *)
EXTENDS Authorization, TLAPS, FiniteSetTheorems

\* What is recorded of one authorized effect.
LogType == [call : Calls, session : SessionIds, grants : SUBSET Grants]

-----------------------------------------------------------------------------
(* Types.                                                                   *)

\* A thread that returns leaves frame well typed.
LEMMA LeaveType ==
  ASSUME TypeOK, NEW t \in Threads, Leave(t) PROVE frame' \in [Threads -> Frame]
<1>1. Idle \in Frame
  BY DEF Idle, Frame
<1> QED BY <1>1 DEF Leave, TypeOK

\* What TypeOK and UseInv say of the local state of a busy thread.
LEMMA Holding ==
  ASSUME TypeOK, UseInv, NEW t \in Threads, frame[t].pc # "idle"
  PROVE  /\ frame[t].session \in SessionIds
         /\ frame[t].grants \in SUBSET Grants
         /\ Current(frame[t].session)
  BY DEF TypeOK, UseInv, Frame, Current

\* Recording an effect keeps the types.
LEMMA ConsumeType ==
  ASSUME TypeOK, UseInv, NEW t \in Threads, frame[t].pc = "commit",
         frame[t].call \in Calls, Consume(t)
  PROVE  /\ consumed' \subseteq SessionIds
         /\ jtis' \subseteq Grants
         /\ log' \in Seq(LogType)
         /\ frame' \in [Threads -> Frame]
<1> DEFINE e == [call |-> frame[t].call, session |-> frame[t].session,
                 grants |-> frame[t].grants]
<1>1. e \in LogType
  BY Holding DEF LogType
<1>2. log \in Seq(LogType)
  BY DEF TypeOK, LogType
<1>3. log' = Append(log, e)
  BY DEF Consume
<1>4. log' \in Seq(LogType)
  BY <1>1, <1>2, <1>3
<1>5. consumed' \subseteq SessionIds /\ jtis' \subseteq Grants
  BY Holding DEF Consume, TypeOK
<1> QED BY <1>4, <1>5, LeaveType DEF Consume

\* A handler that begins takes on a well-typed local state.
LEMMA BeginType ==
  ASSUME TypeOK, NEW t \in Threads, NEW c \in Calls, NEW s \in SessionIds,
         NEW G \in SUBSET Grants, Begin(t, c, s, G)
  PROVE  TypeOK'
<1> DEFINE f == [pc |-> "open", call |-> c, session |-> s, grants |-> G]
<1>1. f \in Frame
  BY DEF Frame
<1>2. frame' \in [Threads -> Frame]
  BY <1>1 DEF Begin, TypeOK
<1>3. table' \subseteq SessionIds
  BY DEF Begin, Purge, Live, TypeOK
<1> QED BY <1>2, <1>3 DEF TypeOK, Begin, grantVars, usedVars

\* Every step of every handler and of the surroundings keeps the types.
LEMMA TypeStep ==
  ASSUME TypeOK, UseInv, [Next]_vars PROVE TypeOK'
<1>1. ASSUME NEW t \in Threads, Refuse(t) PROVE TypeOK'
  BY <1>1 DEF TypeOK, Refuse, Purge, Live, grantVars, usedVars
<1>2. ASSUME NEW t \in Threads, NEW s \in SessionIds, NEW k \in Tasks, CreateSession(t, s, k)
      PROVE  TypeOK'
  <2>1. [Idle EXCEPT !.pc = "sign", !.session = s] \in Frame
    BY DEF Idle, Frame
  <2>2. frame' \in [Threads -> Frame]
    BY <1>2, <2>1 DEF CreateSession, TypeOK
  <2>3. task' \in [SessionIds -> Tasks \cup {None}]
    BY <1>2 DEF CreateSession, TypeOK
  <2> QED BY <1>2, <2>2, <2>3 DEF TypeOK, CreateSession, Live, grantVars
<1>3. ASSUME NEW t \in Threads, NEW s \in SessionIds, NEW g \in Grants,
             ExecuteBegin(t, s, g) \/ StreamBegin(t, s, g)
      PROVE  TypeOK'
  BY <1>3, BeginType DEF ExecuteBegin, StreamBegin, Calls
<1>4. ASSUME NEW t \in Threads, NEW s \in SessionIds, NEW G \in SUBSET Grants,
             TrainBegin(t, s, G)
      PROVE  TypeOK'
  BY <1>4, BeginType DEF TrainBegin, Calls
<1>5. ASSUME NEW t \in Threads, SignEvidence(t) PROVE TypeOK'
  <2>1. attested' \subseteq SessionIds
    BY <1>5, Holding DEF SignEvidence, At, TypeOK
  <2> QED BY <1>5, <2>1, LeaveType DEF TypeOK, SignEvidence, grantVars, usedVars
<1>6. ASSUME NEW t \in Threads, OpenDeks(t) PROVE TypeOK'
  <2>1. [frame[t] EXCEPT !.pc = "commit"] \in Frame
    BY DEF TypeOK, Frame
  <2>2. frame' \in [Threads -> Frame]
    BY <1>6, <2>1, LeaveType DEF OpenDeks, TypeOK
  <2> QED BY <1>6, <2>2 DEF TypeOK, OpenDeks, sessionVars, grantVars, usedVars
<1>7. ASSUME NEW t \in Threads, ExecuteCommit(t) PROVE TypeOK'
  <2>1. /\ consumed' \subseteq SessionIds /\ jtis' \subseteq Grants
        /\ log' \in Seq(LogType) /\ frame' \in [Threads -> Frame]
    <3>1. CASE Consume(t)
      BY <1>7, <3>1, ConsumeType DEF ExecuteCommit, At, Calls
    <3>2. CASE Leave(t) /\ UNCHANGED <<consumed, jtis, log>>
      BY <3>2, LeaveType DEF TypeOK, LogType
    <3> QED BY <1>7, <3>1, <3>2 DEF ExecuteCommit
  <2> QED BY <1>7, <2>1 DEF TypeOK, LogType, ExecuteCommit, sessionVars, grantVars
<1>8. ASSUME NEW t \in Threads, StreamCommit(t) PROVE TypeOK'
  <2>1. /\ consumed' \subseteq SessionIds /\ jtis' \subseteq Grants
        /\ log' \in Seq(LogType) /\ frame' \in [Threads -> Frame]
    BY <1>8, ConsumeType DEF StreamCommit, At, Calls
  <2> QED BY <1>8, <2>1 DEF TypeOK, LogType, StreamCommit, sessionVars, grantVars
<1>9. ASSUME NEW t \in Threads, TrainCommit(t) PROVE TypeOK'
  <2>1. /\ consumed' \subseteq SessionIds /\ jtis' \subseteq Grants
        /\ log' \in Seq(LogType) /\ frame' \in [Threads -> Frame]
    BY <1>9, ConsumeType DEF TrainCommit, At, Calls
  <2> QED BY <1>9, <2>1 DEF TypeOK, LogType, TrainCommit, sessionVars, grantVars
<1>10. ASSUME NEW g \in Grants, NEW s \in SessionIds, NEW A \in SUBSET Assets,
              IssueGrant(g, s, A)
       PROVE  TypeOK'
  <2>1. scope' \in [Grants -> Scopes \cup {None}]
    BY <1>10 DEF IssueGrant, TypeOK, Scopes
  <2> QED BY <1>10, <2>1 DEF TypeOK, IssueGrant, sessionVars, usedVars
<1>11. ASSUME NEW s \in SessionIds, SessionExpires(s) PROVE TypeOK'
  BY <1>11 DEF TypeOK, SessionExpires, grantVars, usedVars
<1>12. ASSUME NEW g \in Grants, GrantExpires(g) PROVE TypeOK'
  BY <1>12 DEF TypeOK, GrantExpires, sessionVars, usedVars
<1>13. CASE Restart
  <2>1. Idle \in Frame
    BY DEF Idle, Frame
  <2> QED BY <1>13, <2>1 DEF TypeOK, Restart, grantVars
<1>14. CASE UNCHANGED vars
  BY <1>14 DEF TypeOK, vars, sessionVars, grantVars, usedVars
<1> QED
  BY <1>1, <1>2, <1>3, <1>4, <1>5, <1>6, <1>7, <1>8, <1>9, <1>10, <1>11, <1>12, <1>13, <1>14
  DEF Next, Request, Step, Environment

\* Each entry of the log is a recorded effect.
LEMMA LogTyped == ASSUME TypeOK PROVE \A i \in DOMAIN log : log[i] \in LogType
<1>1. log \in Seq(LogType)
  BY DEF TypeOK, LogType
<1> QED BY <1>1

-----------------------------------------------------------------------------
(* What is known of used grants.                                            *)

\* A step that records no effect and forgets none keeps UseInv, if a thread that
\* it brings to work takes a session that is current or new, and grants bound to it.
LEMMA QuietStep ==
  ASSUME TypeOK, UseInv, UNCHANGED <<consumed, jtis, log>>,
         \A s \in SessionIds : task[s] # None => task'[s] # None,
         \A g \in Grants : scope[g] # None => scope'[g] = scope[g],
         \A s \in table' : task'[s] # None /\ (s \in table \/ task[s] = None),
         \A t \in Threads :
           \/ frame'[t] = frame[t]
           \/ frame'[t].pc = "idle"
           \/ /\ frame'[t].session \in SessionIds
              /\ task'[frame'[t].session] # None
              /\ Current(frame'[t].session) \/ task[frame'[t].session] = None
              /\ frame'[t].pc \in {"open", "commit"} =>
                   frame'[t].grants \subseteq Grants
                     /\ BoundTo(frame'[t].grants, frame'[t].session)
  PROVE  UseInv'
<1>1. \A t \in Threads : frame'[t].pc # "idle" =>
        frame'[t].session \in SessionIds /\ task'[frame'[t].session] # None
  BY DEF UseInv
<1>2. \A t \in Threads : frame'[t].pc \in {"open", "commit"} =>
        BoundTo(frame[t].grants, frame[t].session)'
  <2> SUFFICES ASSUME NEW t \in Threads, frame'[t].pc \in {"open", "commit"}
               PROVE  BoundTo(frame[t].grants, frame[t].session)'
    OBVIOUS
  <2>1. frame'[t].grants \subseteq Grants /\ BoundTo(frame'[t].grants, frame'[t].session)
    BY DEF TypeOK, Frame, UseInv
  <2> QED BY <2>1 DEF BoundTo
<1>3. \A s : Current(s)' => Current(s) \/ task[s] = None
  BY DEF Current
<1>4. \A i \in DOMAIN log' : log'[i] \in LogType
  BY LogTyped
<1>5. \A i \in DOMAIN log' :
        /\ task'[log'[i].session] # None
        /\ BoundTo(log[i].grants, log[i].session)'
        /\ Current(log[i].session)' =>
             log'[i].grants \subseteq jtis' /\ log'[i].session \in consumed'
  <2> SUFFICES ASSUME NEW i \in DOMAIN log
               PROVE  /\ task'[log[i].session] # None
                      /\ BoundTo(log[i].grants, log[i].session)'
                      /\ Current(log[i].session)' =>
                           log[i].grants \subseteq jtis /\ log[i].session \in consumed
    OBVIOUS
  <2>1. log[i].session \in SessionIds /\ log[i].grants \in SUBSET Grants
    BY <1>4 DEF LogType
  <2>2. /\ task[log[i].session] # None
        /\ BoundTo(log[i].grants, log[i].session)
        /\ Current(log[i].session) =>
             log[i].grants \subseteq jtis /\ log[i].session \in consumed
    BY DEF UseInv
  <2> QED BY <1>3, <2>1, <2>2 DEF BoundTo
<1>6. \A s \in table' : task'[s] # None
  OBVIOUS
<1> QED BY <1>1, <1>2, <1>5, <1>6 DEF UseInv

\* Recording an effect keeps UseInv.
LEMMA ConsumeStep ==
  ASSUME TypeOK, UseInv, NEW t \in Threads, frame[t].pc = "commit",
         frame[t].call \in Calls, Consume(t), UNCHANGED <<sessionVars, grantVars>>
  PROVE  UseInv'
<1> DEFINE e == [call |-> frame[t].call, session |-> frame[t].session,
                 grants |-> frame[t].grants]
<1>1. log \in Seq(LogType) /\ e \in LogType /\ log' = Append(log, e)
  BY Holding DEF TypeOK, LogType, Consume
<1>2. frame' = [frame EXCEPT ![t] = Idle] /\ frame \in [Threads -> Frame]
  BY DEF Consume, Leave, TypeOK
<1>3. \A s : Current(s)' => Current(s)
  BY <1>2 DEF Current, sessionVars, Idle
<1>4. \A i \in DOMAIN log' : log'[i] = e \/ (i \in DOMAIN log /\ log'[i] = log[i])
  BY <1>1
<1>5. task[e.session] # None /\ BoundTo(e.grants, e.session)
  BY DEF UseInv
<1>6. e.grants \subseteq jtis' /\ e.session \in consumed'
  BY DEF Consume
<1>7. jtis \subseteq jtis' /\ consumed \subseteq consumed'
  BY DEF Consume
<1>8. UNCHANGED <<task, table, scope>>
  BY DEF sessionVars, grantVars
<1> HIDE DEF e
<1>9. ASSUME NEW i \in DOMAIN log'
      PROVE  /\ task'[log'[i].session] # None
             /\ BoundTo(log[i].grants, log[i].session)'
             /\ Current(log[i].session)' =>
                  log'[i].grants \subseteq jtis' /\ log'[i].session \in consumed'
  <2>1. CASE log'[i] = e
    BY <1>5, <1>6, <1>8, <2>1 DEF BoundTo
  <2>2. CASE i \in DOMAIN log /\ log'[i] = log[i]
    <3>1. /\ task[log[i].session] # None
          /\ BoundTo(log[i].grants, log[i].session)
          /\ Current(log[i].session) =>
               log[i].grants \subseteq jtis /\ log[i].session \in consumed
      BY <2>2 DEF UseInv
    <3>2. BoundTo(log[i].grants, log[i].session)'
      BY <2>2, <3>1, <1>8 DEF BoundTo
    <3> QED BY <2>2, <3>1, <3>2, <1>3, <1>7, <1>8
  <2> QED BY <1>4, <2>1, <2>2
<1>10. \A u \in Threads : frame'[u].pc # "idle" => frame'[u] = frame[u]
  BY <1>2 DEF Idle
<1>11. \A u \in Threads : frame'[u].pc # "idle" =>
         frame'[u].session \in SessionIds /\ task'[frame'[u].session] # None
  BY <1>8, <1>10 DEF UseInv
<1>12. \A u \in Threads : frame'[u].pc \in {"open", "commit"} =>
         BoundTo(frame[u].grants, frame[u].session)'
  BY <1>8, <1>10 DEF UseInv, BoundTo
<1>13. \A s \in table' : task'[s] # None
  BY <1>8 DEF UseInv
<1> QED BY <1>9, <1>11, <1>12, <1>13 DEF UseInv

\* A grant that is admitted is bound to the session.
LEMMA AdmittedBound ==
  ASSUME NEW g \in Grants, NEW s \in SessionIds, NEW A \in SUBSET Assets, GrantAdmits(g, s, A)
  PROVE  scope[g] # None /\ scope[g].session = s
<1>1. [session |-> s, assets |-> A] \in Scopes
  BY DEF Scopes
<1> QED BY <1>1, NoneIsOther DEF GrantAdmits

\* A handler that begins works with a session of the table and grants bound to it.
LEMMA BeginStep ==
  ASSUME TypeOK, UseInv, NEW t \in Threads, NEW c, NEW s \in SessionIds,
         NEW G \in SUBSET Grants, SessionAdmits(s), BoundTo(G, s), Begin(t, c, s, G)
  PROVE  UseInv'
<1>1. s \in table /\ Current(s) /\ task[s] # None
  BY DEF SessionAdmits, Live, UseInv, Current
<1>2. frame \in [Threads -> Frame]
  BY DEF TypeOK
<1> QED BY <1>1, <1>2, QuietStep DEF Begin, Purge, Live, grantVars, usedVars, UseInv

\* Every step keeps UseInv.
LEMMA UseStep ==
  ASSUME TypeOK, UseInv, [Next]_vars PROVE UseInv'
<1> USE DEF sessionVars, grantVars, usedVars
<1>0. frame \in [Threads -> Frame] /\ task \in [SessionIds -> Tasks \cup {None}]
      /\ scope \in [Grants -> Scopes \cup {None}] /\ table \subseteq SessionIds
  BY DEF TypeOK
<1>1. ASSUME NEW t \in Threads, Refuse(t) PROVE UseInv'
  BY <1>1, QuietStep DEF Refuse, Purge, Live, UseInv
<1>2. ASSUME NEW t \in Threads, NEW s \in SessionIds, NEW k \in Tasks, CreateSession(t, s, k)
      PROVE  UseInv'
  <2>1. frame' = [frame EXCEPT ![t] = [Idle EXCEPT !.pc = "sign", !.session = s]]
    BY <1>2 DEF CreateSession
  <2>2. frame'[t].pc = "sign" /\ frame'[t].session = s
    BY <1>0, <2>1 DEF Idle
  <2>3. \A u \in Threads : u # t => frame'[u] = frame[u]
    BY <1>0, <2>1
  <2>4. k # None
    BY NoneIsOther DEF Tasks
  <2>5. task[s] = None /\ task' = [task EXCEPT ![s] = k] /\ task'[s] = k
    BY <1>0, <1>2 DEF CreateSession
  <2>6. \A u \in SessionIds : task[u] # None => task'[u] # None
    BY <1>0, <2>4, <2>5
  <2>7. \A u \in table' : task'[u] # None /\ (u \in table \/ task[u] = None)
    BY <1>0, <1>2, <2>4, <2>5 DEF CreateSession, Live, UseInv
  <2> QED BY <1>2, <2>2, <2>3, <2>4, <2>5, <2>6, <2>7, QuietStep DEF CreateSession
<1>3. ASSUME NEW t \in Threads, NEW s \in SessionIds, NEW g \in Grants,
             ExecuteBegin(t, s, g) \/ StreamBegin(t, s, g)
      PROVE  UseInv'
  <2>1. BoundTo({g}, s)
    <3>1. SessionAdmits(s) /\ GrantAdmits(g, s, task[s].assets)
      BY <1>3 DEF ExecuteBegin, StreamBegin
    <3>2. task[s] \in Tasks
      BY <1>0, <3>1 DEF SessionAdmits, Live, UseInv
    <3>3. task[s].assets \in SUBSET Assets
      BY <3>2 DEF Tasks
    <3> QED BY <3>1, <3>3, AdmittedBound DEF BoundTo
  <2> QED BY <1>3, <2>1, BeginStep DEF ExecuteBegin, StreamBegin
<1>4. ASSUME NEW t \in Threads, NEW s \in SessionIds, NEW G \in SUBSET Grants,
             TrainBegin(t, s, G)
      PROVE  UseInv'
  <2>1. BoundTo(G, s)
    <3> SUFFICES ASSUME NEW g \in G PROVE scope[g] # None /\ scope[g].session = s
      BY DEF BoundTo
    <3>1. scope[g] # None /\ GrantAdmits(g, s, scope[g].assets)
      BY <1>4 DEF TrainBegin
    <3>2. scope[g].assets \in SUBSET Assets
      BY <1>0, <3>1 DEF Scopes
    <3> QED BY <3>1, <3>2, AdmittedBound
  <2> QED BY <1>4, <2>1, BeginStep DEF TrainBegin
<1>5. ASSUME NEW t \in Threads, SignEvidence(t) PROVE UseInv'
  BY <1>0, <1>5, QuietStep DEF SignEvidence, Leave, Idle, UseInv
<1>6. ASSUME NEW t \in Threads, OpenDeks(t) PROVE UseInv'
  <2>1. CASE frame' = [frame EXCEPT ![t].pc = "commit"]
    <3>1. /\ frame'[t].session = frame[t].session /\ frame'[t].grants = frame[t].grants
          /\ \A u \in Threads : u # t => frame'[u] = frame[u]
      BY <1>0, <2>1 DEF Frame
    <3>2. frame[t].pc = "open"
      BY <1>6 DEF OpenDeks, At
    <3>3. /\ frame[t].session \in SessionIds /\ task[frame[t].session] # None
          /\ Current(frame[t].session) /\ frame[t].grants \subseteq Grants
          /\ BoundTo(frame[t].grants, frame[t].session)
      BY <3>2, Holding DEF UseInv
    <3>4. UNCHANGED <<task, table, scope, consumed, jtis, log>>
      BY <1>6 DEF OpenDeks
    <3> QED BY <3>1, <3>3, <3>4, QuietStep DEF UseInv
  <2>2. CASE Leave(t)
    BY <1>0, <1>6, <2>2, QuietStep DEF OpenDeks, Leave, Idle, UseInv
  <2> QED BY <1>6, <2>1, <2>2 DEF OpenDeks
<1>7. ASSUME NEW t \in Threads, ExecuteCommit(t) PROVE UseInv'
  <2>1. CASE Consume(t)
    BY <1>7, <2>1, ConsumeStep DEF ExecuteCommit, At, Calls
  <2>2. CASE Leave(t) /\ UNCHANGED <<consumed, jtis, log>>
    BY <1>0, <1>7, <2>2, QuietStep DEF ExecuteCommit, Leave, Idle, UseInv
  <2> QED BY <1>7, <2>1, <2>2 DEF ExecuteCommit
<1>8. ASSUME NEW t \in Threads, StreamCommit(t) PROVE UseInv'
  BY <1>8, ConsumeStep DEF StreamCommit, At, Calls
<1>9. ASSUME NEW t \in Threads, TrainCommit(t) PROVE UseInv'
  BY <1>9, ConsumeStep DEF TrainCommit, At, Calls
<1>10. ASSUME NEW g \in Grants, NEW s \in SessionIds, NEW A \in SUBSET Assets,
              IssueGrant(g, s, A)
       PROVE  UseInv'
  BY <1>0, <1>10, QuietStep DEF IssueGrant, UseInv
<1>11. ASSUME NEW s \in SessionIds, SessionExpires(s) PROVE UseInv'
  BY <1>11, QuietStep DEF SessionExpires, UseInv
<1>12. ASSUME NEW g \in Grants, GrantExpires(g) PROVE UseInv'
  BY <1>12, QuietStep DEF GrantExpires, UseInv
<1>13. CASE Restart
  <2>1. \A t \in Threads : frame'[t].pc = "idle"
    BY <1>13 DEF Restart, Idle
  <2>2. \A s : ~Current(s)'
    BY <1>13, <2>1 DEF Restart, Current
  <2> QED BY <1>13, <2>1, <2>2 DEF Restart, UseInv, BoundTo
<1>14. CASE UNCHANGED vars
  BY <1>14, QuietStep DEF vars, UseInv
<1> QED
  BY <1>1, <1>2, <1>3, <1>4, <1>5, <1>6, <1>7, <1>8, <1>9, <1>10, <1>11, <1>12, <1>13, <1>14
  DEF Next, Request, Step, Environment

-----------------------------------------------------------------------------
(* What an effect adds to the log.                                          *)

\* Every step leaves the log alone or records what a thread holds.
LEMMA LogStep ==
  ASSUME TypeOK, [Next]_vars
  PROVE  \/ UNCHANGED log
         \/ \E t \in Threads :
              /\ frame[t].pc = "commit" /\ frame[t].call \in Calls /\ Consume(t)
              /\ frame[t].call = "execute" => frame[t].grants \cap jtis = {}
<1>1. ASSUME NEW t \in Threads, Step(t), ~UNCHANGED log
      PROVE  /\ frame[t].pc = "commit" /\ frame[t].call \in Calls /\ Consume(t)
             /\ frame[t].call = "execute" => frame[t].grants \cap jtis = {}
  BY <1>1 DEF Step, SignEvidence, OpenDeks, ExecuteCommit, StreamCommit, TrainCommit,
     At, Calls, usedVars
<1>2. ASSUME NEW t \in Threads, Request(t) PROVE UNCHANGED log
  BY <1>2 DEF Request, Refuse, CreateSession, ExecuteBegin, StreamBegin, TrainBegin, Begin,
     usedVars
<1>3. CASE Environment
  BY <1>3 DEF Environment, IssueGrant, SessionExpires, GrantExpires, Restart, usedVars
<1>4. CASE UNCHANGED vars
  BY <1>4 DEF vars, usedVars
<1> QED BY <1>1, <1>2, <1>3, <1>4 DEF Next

\* Two recorded effects that share a grant belong to one session; the session a
\* thread is committing is current, so what it used before is in the table.
LEMMA UsedBefore ==
  ASSUME TypeOK, UseInv, NEW t \in Threads, frame[t].pc = "commit", NEW i \in DOMAIN log
  PROVE  /\ log[i].grants \cap frame[t].grants # {} => log[i].session = frame[t].session
         /\ log[i].session = frame[t].session =>
              log[i].grants \subseteq jtis /\ frame[t].session \in consumed
<1>1. BoundTo(frame[t].grants, frame[t].session) /\ BoundTo(log[i].grants, log[i].session)
  BY DEF UseInv
<1>2. Current(frame[t].session)
  BY Holding
<1> QED BY <1>1, <1>2 DEF UseInv, BoundTo

\* ExecutionIsFresh is kept: the jti is looked at under the lock, and the table
\* of used grants is complete for the session at hand.
LEMMA FreshStep ==
  ASSUME TypeOK, UseInv, ExecutionIsFresh, [Next]_vars PROVE ExecutionIsFresh'
<1>1. CASE UNCHANGED log
  BY <1>1 DEF ExecutionIsFresh
<1>2. ASSUME NEW t \in Threads, frame[t].pc = "commit", frame[t].call \in Calls, Consume(t),
             frame[t].call = "execute" => frame[t].grants \cap jtis = {}
      PROVE  ExecutionIsFresh'
  <2> DEFINE e == [call |-> frame[t].call, session |-> frame[t].session,
                   grants |-> frame[t].grants]
  <2>1. log \in Seq(LogType) /\ log' = Append(log, e)
    BY <1>2 DEF TypeOK, LogType, Consume
  <2>2. ASSUME NEW i \in DOMAIN log', NEW j \in DOMAIN log', j < i, log'[i].call = "execute"
        PROVE  log'[i].grants \cap log'[j].grants = {}
    <3>1. j \in DOMAIN log /\ log'[j] = log[j]
      BY <2>1, <2>2
    <3>2. CASE i \in DOMAIN log
      BY <2>1, <2>2, <3>1, <3>2 DEF ExecutionIsFresh
    <3>3. CASE log'[i] = e
      BY <1>2, <2>2, <3>1, <3>3, UsedBefore
    <3> QED BY <2>1, <3>2, <3>3
  <2> QED BY <2>2 DEF ExecutionIsFresh
<1> QED BY <1>1, <1>2, LogStep

\* The initial state has no sessions and no effects.
LEMMA InitHolds ==
  ASSUME Init PROVE TypeOK /\ UseInv /\ ExecutionIsFresh
<1>1. Idle \in Frame
  BY DEF Idle, Frame
<1>2. TypeOK
  BY <1>1 DEF Init, TypeOK
<1>3. UseInv /\ ExecutionIsFresh
  BY DEF Init, UseInv, ExecutionIsFresh, Idle
<1> QED BY <1>2, <1>3

\* Sessions, grants and threads keep their types in every execution of the
\* authorization handlers, with any number of requests in flight and restarts.
THEOREM TypeCorrect == Spec => []TypeOK
<1>1. Init => TypeOK /\ UseInv
  BY InitHolds
<1>2. TypeOK /\ UseInv /\ [Next]_vars => (TypeOK /\ UseInv)'
  BY TypeStep, UseStep
<1> QED BY <1>1, <1>2, PTL DEF Spec

\* What is known of used grants holds throughout.
THEOREM UseKnown == Spec => []UseInv
<1>1. Init => TypeOK /\ UseInv
  BY InitHolds
<1>2. TypeOK /\ UseInv /\ [Next]_vars => (TypeOK /\ UseInv)'
  BY TypeStep, UseStep
<1> QED BY <1>1, <1>2, PTL DEF Spec

\* However requests overlap and however often the agent restarts, execute never
\* runs on a grant that was used before (service.py execute).
THEOREM ExecutionsFresh == Spec => []ExecutionIsFresh
<1>1. Init => TypeOK /\ UseInv /\ ExecutionIsFresh
  BY InitHolds
<1>2. TypeOK /\ UseInv /\ ExecutionIsFresh /\ [Next]_vars
        => (TypeOK /\ UseInv /\ ExecutionIsFresh)'
  BY TypeStep, UseStep, FreshStep
<1> QED BY <1>1, <1>2, PTL DEF Spec

-----------------------------------------------------------------------------
(* One request at a time.                                                   *)

\* With one request in flight what was checked at the beginning of a handler
\* still holds when it commits.
SerialInv ==
  /\ \A t, u \in Threads : frame[t].pc # "idle" /\ frame[u].pc # "idle" => t = u
  /\ \A t \in Threads : frame[t].pc \in {"open", "commit"} =>
       frame[t].session \notin consumed /\ frame[t].grants \cap jtis = {}

\* A request is admitted only when every thread is idle.
LEMMA Alone ==
  ASSUME TypeOK, MaxInFlight = 1, NEW t \in Threads, Admits(t)
  PROVE  \A u \in Threads : frame[u].pc = "idle"
<1>1. InFlight \subseteq Threads
  BY DEF InFlight
<1>2. IsFiniteSet(InFlight)
  BY <1>1, ThreadsFinite, FS_Subset
<1>3. Cardinality(InFlight) \in Nat /\ Cardinality(InFlight) < 1
  BY <1>2, FS_CardinalityType DEF Admits
<1>4. InFlight = {}
  BY <1>2, <1>3, FS_EmptySet
<1> QED BY <1>4 DEF InFlight

\* SerialInv is kept.
LEMMA SerialStep ==
  ASSUME TypeOK, UseInv, SerialInv, MaxInFlight = 1, [Next]_vars PROVE SerialInv'
<1> USE DEF sessionVars, grantVars, usedVars
<1>0. frame \in [Threads -> Frame]
  BY DEF TypeOK
<1>1. ASSUME NEW t \in Threads, Refuse(t) PROVE SerialInv'
  BY <1>1 DEF Refuse, SerialInv
<1>2. ASSUME NEW t \in Threads, NEW s \in SessionIds, NEW k \in Tasks, CreateSession(t, s, k)
      PROVE  SerialInv'
  <2>1. \A u \in Threads : frame[u].pc = "idle"
    BY <1>2, Alone DEF CreateSession
  <2> QED BY <1>0, <1>2, <2>1 DEF CreateSession, SerialInv, Idle
<1>3. ASSUME NEW t \in Threads, NEW c \in Calls, NEW s \in SessionIds, NEW G \in SUBSET Grants,
             s \notin consumed, G \cap jtis = {}, Begin(t, c, s, G)
      PROVE  SerialInv'
  <2>1. \A u \in Threads : frame[u].pc = "idle"
    BY <1>3, Alone DEF Begin
  <2> QED BY <1>0, <1>3, <2>1 DEF Begin, SerialInv
<1>4. ASSUME NEW t \in Threads, NEW s \in SessionIds, NEW g \in Grants,
             ExecuteBegin(t, s, g) \/ StreamBegin(t, s, g)
      PROVE  SerialInv'
  <2>1. s \notin consumed /\ {g} \cap jtis = {}
    BY <1>4 DEF ExecuteBegin, StreamBegin, SessionAdmits, GrantAdmits
  <2> QED BY <1>3, <1>4, <2>1 DEF ExecuteBegin, StreamBegin, Calls
<1>5. ASSUME NEW t \in Threads, NEW s \in SessionIds, NEW G \in SUBSET Grants,
             TrainBegin(t, s, G)
      PROVE  SerialInv'
  <2>1. s \notin consumed /\ G \cap jtis = {}
    BY <1>5 DEF TrainBegin, SessionAdmits, GrantAdmits
  <2> QED BY <1>3, <1>5, <2>1 DEF TrainBegin, Calls
<1>6. ASSUME NEW t \in Threads, Leave(t), frame[t].pc # "idle" PROVE SerialInv'
  <2>1. \A u \in Threads : frame'[u].pc = "idle"
    BY <1>0, <1>6 DEF Leave, Idle, SerialInv
  <2> QED BY <2>1 DEF SerialInv
<1>7. ASSUME NEW t \in Threads, Step(t) PROVE SerialInv'
  <2>1. CASE Leave(t)
    BY <1>6, <1>7, <2>1 DEF Step, SignEvidence, OpenDeks, ExecuteCommit, StreamCommit,
       TrainCommit, At
  <2>2. CASE OpenDeks(t) /\ frame' = [frame EXCEPT ![t].pc = "commit"]
    <3>1. /\ frame[t].pc = "open" /\ UNCHANGED <<consumed, jtis>>
          /\ frame'[t].session = frame[t].session /\ frame'[t].grants = frame[t].grants
          /\ \A u \in Threads : u # t => frame'[u] = frame[u]
      BY <1>0, <2>2 DEF OpenDeks, At, Frame
    <3> QED BY <3>1 DEF SerialInv
  <2> QED
    BY <1>7, <2>1, <2>2 DEF Step, SignEvidence, OpenDeks, ExecuteCommit, StreamCommit,
       TrainCommit, Consume
<1>8. CASE Restart
  BY <1>8 DEF Restart, SerialInv, Idle
<1>9. CASE UNCHANGED <<consumed, jtis, frame>>
  BY <1>9 DEF SerialInv
<1> QED
  BY <1>1, <1>2, <1>4, <1>5, <1>7, <1>8, <1>9
  DEF Next, Request, Environment, IssueGrant, SessionExpires, GrantExpires, vars

\* With one request in flight every step authorizes an effect of a fresh session
\* with fresh grants, or none.
LEMMA AuthorizeStep ==
  ASSUME TypeOK, UseInv, SerialInv, [Next]_vars PROVE [Once!Next]_log
<1>1. ASSUME NEW t \in Threads, frame[t].pc = "commit", frame[t].call \in Calls, Consume(t)
      PROVE  Once!Next
  <2> DEFINE e == [call |-> frame[t].call, session |-> frame[t].session,
                   grants |-> frame[t].grants]
  <2>1. e \in Once!Effects
    BY <1>1, Holding DEF Once!Effects, Once!Calls, Calls
  <2>2. log' = Append(log, e)
    BY <1>1 DEF Consume
  <2>3. frame[t].session \notin consumed /\ frame[t].grants \cap jtis = {}
    BY <1>1 DEF SerialInv
  <2>4. \A i \in DOMAIN log : log[i].session # e.session /\ log[i].grants \cap e.grants = {}
    BY <1>1, <2>3, UsedBefore
  <2> HIDE DEF e
  <2> QED BY <2>1, <2>2, <2>4 DEF Once!Next, Once!Authorize
<1> QED BY <1>1, LogStep

\* As long as clients have one request in flight at a time, the agent keeps the
\* promise of OneTimeAuthorization: every session and every grant is good for one
\* effect, whatever expires and however often the agent restarts.
THEOREM OneTimeWhenSerial == ASSUME MaxInFlight = 1 PROVE Spec => OneTimeUse
<1> DEFINE IInv == TypeOK /\ UseInv /\ SerialInv
<1>1. Init => IInv
  BY InitHolds DEF Init, SerialInv, Idle
<1>2. IInv /\ [Next]_vars => IInv'
  BY TypeStep, UseStep, SerialStep
<1>3. Init => Once!Init
  BY DEF Init, Once!Init
<1>4. IInv /\ [Next]_vars => [Once!Next]_log
  BY AuthorizeStep
<1> QED BY <1>1, <1>2, <1>3, <1>4, PTL DEF Spec, OneTimeUse, Once!Spec
=============================================================================
