------------------------ MODULE ServedModels_proofs ------------------------
(* With one request in flight at a time ModelDeployments implements        *)
(* ServedModels, and every child that runs is registered under its         *)
(* deployment, for every set of ids, streams, children and sessions,       *)
(* whatever expires, fails or ends, and however often the agent restarts.  *)
EXTENDS ModelDeployments_proofs, FiniteSetTheorems

-----------------------------------------------------------------------------
(* The inductive invariant.                                                *)

Stops == {"pop", "kill", "look", "wipe"}

\* A local state at rest is empty, and stop knows where it returns to.
Tidy(f) == (f.pc = "idle" => f = Idle) /\ (f.pc \in Stops => f.then # "idle")

\* One thread is at work at a time.
Serial ==
  /\ \A t \in Threads : Tidy(frame[t])
  /\ \A t, u \in Threads : t = u \/ frame[t] = Idle \/ frame[u] = Idle

Clearing == {"kill", "look", "wipe", "mkdir", "extract", "launch"}

\* A child that runs has left model/ on disk, so that nothing is unpacked over it;
\* and where stop has taken out a child no other is registered meanwhile.
ChildrenOK ==
  /\ OneChild
  /\ \A id \in Ids : registered[id] # None => process[registered[id]] # "none"
  /\ \A id \in Ids : Alive(id) => id \in unpacked
  /\ \A t \in Threads : frame[t].pc \in Clearing => ~Alive(frame[t].id)

-----------------------------------------------------------------------------
(* One thread at a time.                                                   *)

\* Nobody writes into the directory a thread removes.
LEMMA Undisturbed ==
  ASSUME NEW t, \A u \in Threads : u # t => frame[u] = Idle
  PROVE  ~Disturbed(t)
  BY DEF Disturbed, Idle

\* What a thread does to its local state.
LEMMA Landing ==
  ASSUME TypeOK, NEW t \in Threads, NEW f, Become(t, f)
  PROVE  frame'[t] = f /\ \A u \in Threads : u # t => frame'[u] = frame[u]
  BY DEF Become, TypeOK

\* A request is admitted only when every thread is at rest.
LEMMA Alone ==
  ASSUME TypeOK, Serial, MaxInFlight = 1, NEW t, Admits(t)
  PROVE  \A u \in Threads : frame[u] = Idle
<1>1. InFlight \subseteq Requests \cup {EventLoop}
  BY DEF InFlight
<1>2. IsFiniteSet(Requests \cup {EventLoop})
  BY RequestsFinite, FS_AddElement
<1>3. IsFiniteSet(InFlight)
  BY <1>1, <1>2, FS_Subset
<1>4. Cardinality(InFlight) \in Nat /\ Cardinality(InFlight) < 1
  BY <1>3, FS_CardinalityType DEF Admits
<1>5. InFlight = {}
  BY <1>3, <1>4, FS_EmptySet
<1> QED BY <1>5 DEF InFlight, Admits, At, Threads, Serial, Tidy

\* The local states in which steps end.
LEMMA TidyGoto ==
  ASSUME TypeOK, NEW t \in Threads, NEW l, l \notin Stops \cup {"idle"}, Goto(t, l)
  PROVE  \E f : Become(t, f) /\ Tidy(f)
<1>1. [frame[t] EXCEPT !.pc = l].pc = l
  BY ThreadType DEF Frame
<1> QED BY <1>1 DEF Goto, Tidy

LEMMA TidyLeave ==
  ASSUME NEW t, Leave(t) PROVE \E f : Become(t, f) /\ Tidy(f)
  BY DEF Leave, Tidy, Stops, Idle

LEMMA TidyEscape ==
  ASSUME TypeOK, NEW t \in Threads, Escape(t) PROVE \E f : Become(t, f) /\ Tidy(f)
<1>1. CASE frame[t].call = "finalize"
  <2>1. Goto(t, "release")
    BY <1>1 DEF Escape, Goto
  <2> QED BY <2>1, TidyGoto DEF Stops
<1>2. CASE frame[t].call = "close"
  <2>1. Become(t, [Idle EXCEPT !.pc = "aborted"])
    BY <1>2 DEF Escape
  <2>2. [Idle EXCEPT !.pc = "aborted"].pc = "aborted"
    BY DEF Idle
  <2> QED BY <2>1, <2>2 DEF Tidy, Stops
<1>3. CASE frame[t].call \notin {"finalize", "close"}
  BY <1>3, TidyLeave DEF Escape, Leave
<1> QED BY <1>1, <1>2, <1>3

LEMMA TidyFail ==
  ASSUME TypeOK, NEW t \in Threads, Fail(t) PROVE \E f : Become(t, f) /\ Tidy(f)
  BY TidyGoto, TidyEscape DEF Fail, Stops

LEMMA TidyStop ==
  ASSUME NEW t, NEW f \in Frame, NEW l, l # "idle", Stop(t, f, l)
  PROVE  \E g : Become(t, g) /\ Tidy(g) /\ g.pc = "pop"
<1>1. /\ [f EXCEPT !.pc = "pop", !.then = l].pc = "pop"
      /\ [f EXCEPT !.pc = "pop", !.then = l].then = l
  BY DEF Frame
<1> QED BY <1>1 DEF Stop, Tidy

\* A step of a thread is that of a busy thread, and leaves it tidy.
LEMMA StepTidy ==
  ASSUME TypeOK, SecretInv, Serial, NEW t \in Threads, Step(t)
  PROVE  frame[t].pc # "idle" /\ (frame' = frame \/ \E f : Become(t, f) /\ Tidy(f))
<1>0. frame[t] \in Frame /\ Placed(frame[t]) /\ Tidy(frame[t])
  BY ThreadType DEF SecretInv, ThreadsOK, Serial
<1> DEFINE P == frame[t].pc # "idle" /\ (frame' = frame \/ \E f : Become(t, f) /\ Tidy(f))
<1>1. CASE Retire(t) \/ PrepareCommit(t) \/ AppendWrite(t) \/ FinalizeRelease(t) \/ Ask(t)
  BY <1>1, TidyLeave DEF Retire, PrepareCommit, AppendWrite, FinalizeRelease, Ask, At
<1>2. CASE FinalizeMark(t) \/ StopRaises(t) \/ LoadCheck(t)
  BY <1>2, TidyGoto, TidyFail, TidyEscape DEF FinalizeMark, StopRaises, LoadCheck, At, Stops
<1>3. CASE StopPop(t)
  <2> DEFINE f == [frame[t] EXCEPT !.child = registered[frame[t].id], !.pc = "kill"]
  <2>1. Become(t, f) /\ frame[t].pc = "pop" /\ f.pc = "kill" /\ f.then = frame[t].then
    BY <1>0, <1>3 DEF StopPop, At, Frame
  <2> QED BY <1>0, <2>1 DEF Tidy, Stops
<1>4. CASE StopKill(t)
  <2> DEFINE f == [frame[t] EXCEPT !.child = None, !.pc = "look"]
  <2>1. Become(t, f) /\ frame[t].pc = "kill" /\ f.pc = "look" /\ f.then = frame[t].then
    BY <1>0, <1>4 DEF StopKill, At, Frame
  <2> QED BY <1>0, <2>1 DEF Tidy, Stops
<1>5. CASE StopLook(t)
  <2>1. frame[t].pc = "look" /\ frame[t].then \notin Stops \cup {"idle"}
    BY <1>0, <1>5 DEF StopLook, At, Placed, Tidy, Stops
  <2>2. CASE frame[t].id \in directory
    <3> DEFINE f == [frame[t] EXCEPT !.pc = "wipe"]
    <3>1. Become(t, f) /\ f.pc = "wipe" /\ f.then = frame[t].then
      BY <1>0, <1>5, <2>2 DEF StopLook, Goto, Frame
    <3> QED BY <2>1, <3>1 DEF Tidy
  <2>3. CASE frame[t].id \notin directory
    BY <1>5, <2>1, <2>3, TidyGoto DEF StopLook
  <2> QED BY <2>2, <2>3
<1>6. CASE StopWipe(t)
  <2>1. frame[t].pc = "wipe" /\ frame[t].then \notin Stops \cup {"idle"}
    BY <1>0, <1>6 DEF StopWipe, At, Placed, Tidy, Stops
  <2> QED BY <1>6, <2>1, TidyGoto, TidyEscape DEF StopWipe
<1>7. CASE MakeDirectory(t)
  BY <1>7, TidyGoto, TidyEscape DEF MakeDirectory, At, Stops
<1>8. CASE FinalizeFailed(t)
  BY <1>0, <1>8, TidyStop DEF FinalizeFailed, At
<1>9. CASE LoadUnpack(t)
  <2> DEFINE f == [frame[t] EXCEPT !.data = archive[frame[t].id], !.pc = "extract"]
  <2>1. f.pc = "extract"
    BY <1>0 DEF Frame
  <2>2. Tidy(f)
    BY <2>1 DEF Tidy, Stops
  <2>3. frame[t].pc = "unpack" /\ (Become(t, f) \/ Escape(t))
    BY <1>9 DEF LoadUnpack, At
  <2> QED BY <2>2, <2>3, TidyEscape
<1>10. CASE LoadExtract(t)
  <2> DEFINE f == [frame[t] EXCEPT !.data = <<>>, !.pc = "launch"]
  <2>1. f.pc = "launch"
    BY <1>0 DEF Frame
  <2>2. Tidy(f)
    BY <2>1 DEF Tidy, Stops
  <2>3. frame[t].pc = "extract" /\ (Become(t, f) \/ Fail(t))
    BY <1>10 DEF LoadExtract, At
  <2> QED BY <2>2, <2>3, TidyFail
<1>11. ASSUME NEW p \in Children, LoadLaunch(t, p) PROVE P
  <2> DEFINE f == [frame[t] EXCEPT !.child = p, !.pc = "wait"]
  <2>1. f.pc = "wait"
    BY <1>0 DEF Frame
  <2>2. Tidy(f)
    BY <2>1 DEF Tidy, Stops
  <2>3. frame[t].pc = "launch" /\ (Become(t, f) \/ Fail(t) \/ Escape(t))
    BY <1>11 DEF LoadLaunch, At
  <2> QED BY <2>2, <2>3, TidyFail, TidyEscape
<1>12. CASE LoadWait(t)
  <2> DEFINE f == [frame[t] EXCEPT !.child = None]
             l == IF frame[t].call = "finalize" THEN "failed" ELSE "escape"
  <2>1. f \in Frame
    BY <1>0 DEF Frame
  <2>2. frame[t].pc = "wait" /\ (Goto(t, "online") \/ Stop(t, f, l)) /\ l # "idle"
    BY <1>12 DEF LoadWait, At
  <2> HIDE DEF f, l
  <2> QED BY <2>1, <2>2, TidyGoto, TidyStop DEF Stops
<1>13. CASE LoadOnline(t)
  <2> DEFINE f == [frame[t] EXCEPT !.child = None, !.pc = "release"]
  <2>1. f.pc = "release"
    BY <1>0 DEF Frame
  <2>2. Tidy(f)
    BY <2>1 DEF Tidy, Stops
  <2>3. frame[t].pc = "online" /\ (Become(t, f) \/ Leave(t))
    BY <1>13 DEF LoadOnline, At
  <2> QED BY <2>2, <2>3, TidyLeave
<1>14. CASE Consume(t)
  BY <1>14, TidyGoto, TidyLeave DEF Consume, At, Stops
<1>15. CASE Activate(t)
  <2> DEFINE f == [frame[t] EXCEPT !.object = current[frame[t].id]]
  <2>1. frame[t].pc = "activate" /\ frame[t].id \in Ids
    BY <1>0, <1>15 DEF Activate, At, Placed
  <2>2. current[frame[t].id] \in Objects \cup {None}
    BY <2>1 DEF TypeOK
  <2>3. f \in Frame
    BY <1>0, <2>2 DEF Frame
  <2>4. Leave(t) \/ Stop(t, f, "mkdir")
    BY <1>15 DEF Activate
  <2> HIDE DEF f
  <2> QED BY <2>1, <2>3, <2>4, TidyLeave, TidyStop
<1>16. CASE ActivateFill(t)
  BY <1>16, TidyGoto, TidyEscape DEF ActivateFill, At, Stops
<1>17. CASE CloseNext(t)
  <2>1. frame[t].pc = "next"
    BY <1>17 DEF CloseNext, At
  <2>2. ASSUME NEW id \in todo, Stop(t, [frame[t] EXCEPT !.id = id], "next") PROVE P
    <3>1. [frame[t] EXCEPT !.id = id] \in Frame
      BY <1>0, <2>2 DEF Frame, TypeOK
    <3> QED BY <2>1, <2>2, <3>1, TidyStop
  <2>3. ASSUME Become(t, [Idle EXCEPT !.pc = "closed"]) PROVE P
    <3>1. [Idle EXCEPT !.pc = "closed"].pc = "closed"
      BY DEF Idle
    <3> QED BY <2>1, <2>3, <3>1 DEF Tidy, Stops
  <2> QED BY <1>17, <2>2, <2>3 DEF CloseNext
<1> QED BY <1>1, <1>2, <1>3, <1>4, <1>5, <1>6, <1>7, <1>8, <1>9, <1>10, <1>11, <1>12, <1>13,
           <1>14, <1>15, <1>16, <1>17 DEF Step

\* The first step of a request is taken when no thread is at work.
LEMMA RequestBegins ==
  ASSUME TypeOK, Request
  PROVE  \E t \in Threads : Admits(t) /\ (frame' = frame \/ \E f : Become(t, f) /\ Tidy(f) /\ f.pc \notin Clearing)
<1>0. Requests \subseteq Threads /\ EventLoop \in Threads
  BY DEF Threads
<1> DEFINE Begins(t) == Admits(t) /\ (frame' = frame \/ \E f : Become(t, f) /\ Tidy(f) /\ f.pc \notin Clearing)
<1>1. ASSUME NEW t \in Requests, NEW id \in Ids, Offline(t, id) PROVE Begins(t)
  <2> DEFINE f == [Idle EXCEPT !.call = "offline", !.id = id, !.object = current[id]]
  <2>1. Stop(t, f, "retire") /\ Admits(t)
    BY <1>1 DEF Offline
  <2>2. f \in Frame
    BY IdleOK DEF Frame, TypeOK, Calls
  <2> HIDE DEF f
  <2> QED BY <2>1, <2>2, TidyStop DEF Clearing
<1>2. ASSUME NEW t \in Requests, NEW id \in Ids, NEW s \in Sessions, NEW x \in Streams, PrepareOpen(t, id, s, x)
      PROVE  Begins(t)
  <2> DEFINE f == [Idle EXCEPT !.call = "prepare", !.id = id, !.object = current[id],
                               !.stream = x, !.session = s]
  <2>1. Stop(t, f, "mkdir") /\ Admits(t)
    BY <1>2 DEF PrepareOpen
  <2>2. f \in Frame
    BY IdleOK DEF Frame, TypeOK, Calls
  <2> HIDE DEF f
  <2> QED BY <2>1, <2>2, TidyStop DEF Clearing
<1>3. ASSUME NEW id \in Ids, AppendOpen(id) PROVE Begins(EventLoop)
  <2> DEFINE f == [Idle EXCEPT !.call = "append", !.id = id, !.stream = stream[id], !.pc = "write"]
  <2>1. f.pc = "write"
    BY DEF Idle
  <2>2. Tidy(f) /\ f.pc \notin Clearing
    BY <2>1 DEF Tidy, Stops, Clearing
  <2> QED BY <1>3, <2>2 DEF AppendOpen
<1>4. ASSUME NEW t \in Requests, NEW id \in Ids, Finalize(t, id) PROVE Begins(t)
  <2> DEFINE f == [Idle EXCEPT !.call = "finalize", !.id = id, !.object = current[id],
                               !.stream = stream[id], !.pc = "mark"]
  <2>1. f.pc = "mark"
    BY DEF Idle
  <2>2. Tidy(f) /\ f.pc \notin Clearing
    BY <2>1 DEF Tidy, Stops, Clearing
  <2> QED BY <1>4, <2>2 DEF Finalize
<1>5. ASSUME NEW t \in Requests, NEW id \in Ids, NEW s \in Sessions, Execute(t, id, s) PROVE Begins(t)
  <2> DEFINE f == [Idle EXCEPT !.call = "execute", !.id = id, !.session = s, !.pc = "consume"]
  <2>1. f.pc = "consume"
    BY DEF Idle
  <2>2. Tidy(f) /\ f.pc \notin Clearing
    BY <2>1 DEF Tidy, Stops, Clearing
  <2> QED BY <1>5, <2>2 DEF Execute
<1>6. ASSUME NEW t \in Requests, NEW id \in Ids, NEW s \in Sessions, Infer(t, id, s) PROVE Begins(t)
  <2> DEFINE f == [Idle EXCEPT !.call = "ask", !.id = id, !.object = current[id], !.session = s, !.pc = "ask"]
  <2>1. f.pc = "ask"
    BY DEF Idle
  <2>2. Tidy(f) /\ f.pc \notin Clearing
    BY <2>1 DEF Tidy, Stops, Clearing
  <2> QED BY <1>6, <2>2 DEF Infer
<1>7. ASSUME NEW t \in Requests, NEW id \in Ids, RuntimeChat(t, id) PROVE Begins(t)
  <2> DEFINE f == [Idle EXCEPT !.call = "ask", !.id = id, !.object = current[id], !.pc = "ask"]
  <2>1. f.pc = "ask"
    BY DEF Idle
  <2>2. Tidy(f) /\ f.pc \notin Clearing
    BY <2>1 DEF Tidy, Stops, Clearing
  <2> QED BY <1>7, <2>2 DEF RuntimeChat
<1>8. ASSUME NEW t \in Requests, Refuse(t) PROVE Begins(t)
  BY <1>8 DEF Refuse
<1>9. ASSUME NEW t \in Requests, NEW id \in Ids, NEW s \in Sessions, CreateSession(t, s, id) PROVE Begins(t)
  BY <1>9 DEF CreateSession
<1>10. ASSUME NEW t \in Requests, NEW id \in Ids, NEW o \in Objects, NEW src \in Sources, Register(t, id, o, src)
       PROVE Begins(t)
  BY <1>10 DEF Register
<1> HIDE DEF Begins
<1>11. \E t \in Threads : Begins(t)
  BY <1>0, <1>1, <1>2, <1>3, <1>4, <1>5, <1>6, <1>7, <1>8, <1>9, <1>10 DEF Request
<1> QED BY <1>11 DEF Begins

\* A thread that becomes tidy while the others are at rest.
LEMMA SerialMove ==
  ASSUME TypeOK, Serial, NEW t \in Threads, NEW f, Become(t, f), Tidy(f),
         \A u \in Threads : u # t => frame[u] = Idle
  PROVE  Serial'
  BY Landing DEF Serial

\* While a thread takes a step the others are at rest.
LEMMA StepAlone ==
  ASSUME TypeOK, SecretInv, Serial, NEW t \in Threads, Step(t)
  PROVE  \A u \in Threads : u # t => frame[u] = Idle /\ frame'[u] = Idle
<1>1. frame[t] # Idle
  BY StepTidy DEF Idle
<1>2. \A u \in Threads : u # t => frame[u] = Idle
  BY <1>1 DEF Serial
<1> QED BY <1>2, StepTidy, Landing

\* Serial is kept.
LEMMA SerialStep ==
  ASSUME TypeOK, SecretInv, Serial, MaxInFlight = 1, [Next]_vars PROVE Serial'
<1>1. CASE Request
  BY <1>1, RequestBegins, Alone, SerialMove DEF Serial
<1>2. ASSUME NEW t \in Threads, Step(t) PROVE Serial'
  BY <1>2, StepTidy, StepAlone, SerialMove DEF Serial
<1>3. CASE Restart
  BY <1>3 DEF Restart, Serial, Tidy, Stops, Idle
<1>4. CASE CloseBegin
  <2>1. \A u \in Threads : frame[u] = Idle
    BY <1>4 DEF CloseBegin, InFlight, At, Threads, Serial, Tidy
  <2>2. ASSUME NEW l \in {"next", "aborted"}, Become(Closer, [Idle EXCEPT !.call = "close", !.pc = l])
        PROVE  Serial'
    <3>1. [Idle EXCEPT !.call = "close", !.pc = l].pc = l
      BY DEF Idle
    <3>2. Tidy([Idle EXCEPT !.call = "close", !.pc = l])
      BY <2>2, <3>1 DEF Tidy, Stops
    <3> QED BY <2>1, <2>2, <3>2, SerialMove DEF Threads
  <2> QED BY <1>4, <2>2 DEF CloseBegin
<1>5. CASE frame' = frame
  BY <1>5 DEF Serial
<1> QED BY <1>1, <1>2, <1>3, <1>4, <1>5 DEF Next, Environment, SessionExpires, ChildEnds, Stopped, vars

-----------------------------------------------------------------------------
(* Children.                                                               *)

\* The label a step leads to.
LEMMA GotoPc ==
  ASSUME TypeOK, NEW t \in Threads, NEW l, Goto(t, l)
  PROVE  frame'[t].pc = l /\ frame'[t].id = frame[t].id
<1>1. [frame[t] EXCEPT !.pc = l].pc = l /\ [frame[t] EXCEPT !.pc = l].id = frame[t].id
  BY ThreadType DEF Frame
<1> QED BY <1>1, Landing DEF Goto

LEMMA LeavePc ==
  ASSUME TypeOK, NEW t \in Threads, Leave(t) PROVE frame'[t] = Idle
  BY Landing DEF Leave

LEMMA EscapePc ==
  ASSUME TypeOK, NEW t \in Threads, Escape(t) PROVE frame'[t].pc \in {"idle", "release", "aborted"}
<1>1. CASE frame[t].call = "finalize"
  BY <1>1, GotoPc DEF Escape, Goto
<1>2. CASE frame[t].call = "close"
  <2>1. Become(t, [Idle EXCEPT !.pc = "aborted"])
    BY <1>2 DEF Escape
  <2>2. frame'[t] = [Idle EXCEPT !.pc = "aborted"]
    BY <2>1, Landing
  <2> QED BY <2>2 DEF Idle
<1>3. CASE frame[t].call \notin {"finalize", "close"}
  BY <1>3, LeavePc DEF Escape, Leave, Idle
<1> QED BY <1>1, <1>2, <1>3

LEMMA FailPc ==
  ASSUME TypeOK, NEW t \in Threads, Fail(t) PROVE frame'[t].pc \in {"idle", "release", "aborted", "failed"}
  BY GotoPc, EscapePc DEF Fail

LEMMA StopPc ==
  ASSUME TypeOK, NEW t \in Threads, NEW f \in Frame, NEW l, Stop(t, f, l) PROVE frame'[t].pc = "pop"
<1>1. Become(t, [f EXCEPT !.pc = "pop", !.then = l])
  BY DEF Stop
<1>2. frame'[t] = [f EXCEPT !.pc = "pop", !.then = l]
  BY <1>1, Landing
<1> QED BY <1>2 DEF Frame

\* A step that starts, registers and ends no child, and removes model/ of none.
LEMMA ChildrenKept ==
  ASSUME TypeOK, ChildrenOK, NEW t \in Threads,
         \A u \in Threads : u # t => frame[u] = Idle /\ frame'[u] = Idle,
         frame[t].pc # "kill",
         frame'[t].pc \in Clearing => ~Alive(frame'[t].id),
         UNCHANGED <<registered, process, runs>>,
         \A id \in Ids : Alive(id) => id \in unpacked'
  PROVE  ChildrenOK'
<1>1. \A u \in Threads : ~At(u, "kill")
  BY DEF At, Idle
<1>2. OneChild'
  BY <1>1 DEF ChildrenOK, OneChild
<1>3. \A u \in Threads : frame'[u].pc \in Clearing => ~Alive(frame'[u].id)
  BY DEF Idle, Clearing
<1> QED BY <1>2, <1>3 DEF ChildrenOK, Alive

\* A step to a label at which nothing is assumed of the child.
LEMMA ChildrenIdle ==
  ASSUME TypeOK, ChildrenOK, NEW t \in Threads,
         \A u \in Threads : u # t => frame[u] = Idle /\ frame'[u] = Idle,
         frame[t].pc # "kill", frame'[t].pc \notin Clearing,
         UNCHANGED <<registered, process, runs, unpacked>>
  PROVE  ChildrenOK'
  BY ChildrenKept DEF ChildrenOK

\* The steps of a thread keep the children registered.
LEMMA ChildrenStep ==
  ASSUME TypeOK, SecretInv, Serial, ChildrenOK, NEW t \in Threads, Step(t)
  PROVE  ChildrenOK'
<1> USE DEF childVars, diskVars
<1>0. /\ frame[t] \in Frame /\ Placed(frame[t]) /\ Tidy(frame[t])
      /\ \A u \in Threads : u # t => frame[u] = Idle /\ frame'[u] = Idle
  BY ThreadType, StepAlone DEF SecretInv, ThreadsOK, Serial
<1>1. CASE Retire(t) \/ PrepareCommit(t) \/ AppendWrite(t) \/ FinalizeRelease(t) \/ Ask(t)
  <2>1. frame'[t].pc = "idle"
    BY <1>1, LeavePc DEF Retire, PrepareCommit, AppendWrite, FinalizeRelease, Ask, Idle
  <2> QED BY <1>0, <1>1, <2>1, ChildrenIdle
          DEF Retire, PrepareCommit, AppendWrite, FinalizeRelease, Ask, At, Clearing
<1>2. CASE FinalizeMark(t) \/ StopRaises(t) \/ LoadCheck(t) \/ Consume(t) \/ ActivateFill(t)
  <2>1. frame[t].pc # "kill" /\ frame'[t].pc \notin Clearing
    BY <1>2, GotoPc, EscapePc, FailPc, LeavePc
       DEF FinalizeMark, StopRaises, LoadCheck, Consume, ActivateFill, At, Clearing, Idle
  <2> QED BY <1>0, <1>2, <2>1, ChildrenIdle DEF FinalizeMark, StopRaises, LoadCheck, Consume, ActivateFill
<1>3. CASE FinalizeFailed(t)
  BY <1>0, <1>3, StopPc, ChildrenIdle DEF FinalizeFailed, At, Clearing
<1>4. CASE LoadWait(t)
  <2> DEFINE f == [frame[t] EXCEPT !.child = None]
             l == IF frame[t].call = "finalize" THEN "failed" ELSE "escape"
  <2>1. f \in Frame
    BY <1>0 DEF Frame
  <2>2. frame[t].pc = "wait" /\ (Goto(t, "online") \/ Stop(t, f, l))
    BY <1>4 DEF LoadWait, At
  <2>3. frame'[t].pc \notin Clearing
    <3> HIDE DEF f, l
    <3> QED BY <2>1, <2>2, GotoPc, StopPc DEF Clearing
  <2> QED BY <1>0, <1>4, <2>2, <2>3, ChildrenIdle DEF LoadWait
<1>5. CASE LoadOnline(t)
  <2> DEFINE f == [frame[t] EXCEPT !.child = None, !.pc = "release"]
  <2>1. f.pc = "release" /\ frame[t].pc = "online" /\ (Become(t, f) \/ Leave(t))
    BY <1>0, <1>5 DEF LoadOnline, Frame, At
  <2>2. frame'[t].pc \notin Clearing
    <3> HIDE DEF f
    <3> QED BY <2>1, Landing, LeavePc DEF Clearing, Idle
  <2> QED BY <1>0, <1>5, <2>1, <2>2, ChildrenIdle DEF LoadOnline
<1>6. CASE Activate(t)
  <2> DEFINE f == [frame[t] EXCEPT !.object = current[frame[t].id]]
  <2>1. frame[t].pc = "activate" /\ frame[t].id \in Ids
    BY <1>0, <1>6 DEF Activate, At, Placed
  <2>2. current[frame[t].id] \in Objects \cup {None}
    BY <2>1 DEF TypeOK
  <2>3. f \in Frame
    BY <1>0, <2>2 DEF Frame
  <2>4. Leave(t) \/ Stop(t, f, "mkdir")
    BY <1>6 DEF Activate
  <2>5. frame'[t].pc \notin Clearing
    <3> HIDE DEF f
    <3> QED BY <2>3, <2>4, LeavePc, StopPc DEF Clearing, Idle
  <2> QED BY <1>0, <1>6, <2>1, <2>5, ChildrenIdle DEF Activate
<1>7. CASE CloseNext(t)
  <2>1. ASSUME NEW id \in todo, Stop(t, [frame[t] EXCEPT !.id = id], "next")
        PROVE  frame'[t].pc \notin Clearing
    <3>1. [frame[t] EXCEPT !.id = id] \in Frame
      BY <1>0, <2>1 DEF Frame, TypeOK
    <3> QED BY <2>1, <3>1, StopPc DEF Clearing
  <2>2. ASSUME Become(t, [Idle EXCEPT !.pc = "closed"]) PROVE frame'[t].pc \notin Clearing
    <3>1. frame'[t] = [Idle EXCEPT !.pc = "closed"]
      BY <2>2, Landing
    <3> QED BY <3>1 DEF Idle, Clearing
  <2>3. frame[t].pc = "next" /\ frame'[t].pc \notin Clearing
    BY <1>7, <2>1, <2>2 DEF CloseNext, At
  <2> QED BY <1>0, <1>7, <2>3, ChildrenIdle DEF CloseNext
<1>8. CASE StopLook(t)
  <2>1. frame[t].pc = "look" /\ frame'[t].id = frame[t].id
    BY <1>8, GotoPc DEF StopLook, At
  <2>2. ~Alive(frame'[t].id)
    BY <2>1 DEF ChildrenOK, Clearing
  <2> QED BY <1>0, <1>8, <2>1, <2>2, ChildrenKept DEF StopLook, ChildrenOK
<1>9. CASE StopWipe(t) \/ MakeDirectory(t)
  <2>1. frame[t].pc \in {"wipe", "mkdir"} /\ ~Alive(frame[t].id)
    BY <1>9 DEF StopWipe, MakeDirectory, At, ChildrenOK, Clearing
  <2>2. frame'[t].pc \in Clearing => frame'[t].id = frame[t].id
    BY <1>9, GotoPc, EscapePc DEF StopWipe, MakeDirectory, Clearing
  <2>3. \A id \in Ids : Alive(id) => id \in unpacked'
    BY <1>0, <1>9, <2>1, Undisturbed DEF StopWipe, MakeDirectory, Wiped, ChildrenOK
  <2> QED BY <1>0, <1>9, <2>1, <2>2, <2>3, ChildrenKept DEF StopWipe, MakeDirectory
<1>10. CASE LoadUnpack(t)
  <2> DEFINE f == [frame[t] EXCEPT !.data = archive[frame[t].id], !.pc = "extract"]
  <2>1. f.id = frame[t].id
    BY <1>0 DEF Frame
  <2>2. frame[t].pc = "unpack" /\ frame[t].id \in Ids
    BY <1>0, <1>10 DEF LoadUnpack, At, Placed
  <2>3. CASE Become(t, f) /\ frame[t].id \notin unpacked
    <3>1. frame'[t].id = frame[t].id
      BY <2>1, <2>3, Landing
    <3>2. ~Alive(frame'[t].id)
      BY <2>2, <2>3, <3>1 DEF ChildrenOK
    <3> QED BY <1>0, <1>10, <2>2, <3>2, ChildrenKept DEF LoadUnpack, ChildrenOK
  <2>4. CASE Escape(t)
    BY <1>0, <1>10, <2>2, <2>4, EscapePc, ChildrenKept DEF LoadUnpack, ChildrenOK, Clearing
  <2> QED BY <1>10, <2>3, <2>4 DEF LoadUnpack
<1>11. CASE LoadExtract(t)
  <2> DEFINE f == [frame[t] EXCEPT !.data = <<>>, !.pc = "launch"]
  <2>1. f.id = frame[t].id /\ frame[t].pc = "extract" /\ ~Alive(frame[t].id)
    BY <1>0, <1>11 DEF Frame, LoadExtract, At, ChildrenOK, Clearing
  <2>2. Become(t, f) \/ Fail(t)
    BY <1>11 DEF LoadExtract
  <2>3. frame'[t].pc \in Clearing => frame'[t].id = frame[t].id
    <3> HIDE DEF f
    <3> QED BY <2>1, <2>2, Landing, FailPc DEF Clearing
  <2>4. \A id \in Ids : Alive(id) => id \in unpacked'
    BY <1>11 DEF LoadExtract, ChildrenOK
  <2> QED BY <1>0, <1>11, <2>1, <2>3, <2>4, ChildrenKept DEF LoadExtract
<1>12. ASSUME NEW p \in Children, LoadLaunch(t, p) PROVE ChildrenOK'
  <2> DEFINE f == [frame[t] EXCEPT !.child = p, !.pc = "wait"]
  <2>1. frame[t].pc = "launch" /\ frame[t].id \in Ids /\ ~Alive(frame[t].id) /\ f.pc = "wait"
    BY <1>0, <1>12 DEF LoadLaunch, At, Placed, ChildrenOK, Clearing, Frame
  <2>2. CASE (Fail(t) \/ Escape(t)) /\ UNCHANGED <<registered, process, runs, unpacked>>
    BY <1>0, <2>1, <2>2, FailPc, EscapePc, ChildrenIdle DEF Clearing
  <2>3. CASE /\ frame[t].id \in unpacked
             /\ process[p] = "none"
             /\ process'    = [process EXCEPT ![p] = "running"]
             /\ runs'       = [runs EXCEPT ![p] = frame[t].id]
             /\ registered' = [registered EXCEPT ![frame[t].id] = p]
             /\ unpacked' = unpacked
             /\ Become(t, f)
    <3> DEFINE id == frame[t].id
    <3>1. frame'[t].pc = "wait"
      <4> HIDE DEF f
      <4> QED BY <2>1, <2>3, Landing
    <3>2. \A u \in Threads : frame'[u].pc \notin Clearing
      BY <1>0, <3>1 DEF Idle, Clearing
    <3>3. \A u \in Threads : ~At(u, "kill")
      BY <1>0, <2>1 DEF At, Idle
    <3>4. \A i \in Ids : i # id => registered'[i] = registered[i] /\ registered[i] # p
      BY <2>1, <2>3, NoneDistinct DEF ChildrenOK, TypeOK
    <3>5. registered'[id] = p /\ process'[p] = "running" /\ runs'[p] = id
      BY <2>1, <2>3 DEF TypeOK
    <3>6. \A q \in Children : q # p => process'[q] = process[q] /\ runs'[q] = runs[q]
      BY <2>3 DEF TypeOK
    <3>7. \A i \in Ids : i # id => (Alive(i)' <=> Alive(i))
      BY <3>4, <3>6 DEF Alive, TypeOK
    <3>8. ASSUME NEW q \in Children, process'[q] = "running" PROVE registered'[runs'[q]] = q
      <4>1. CASE q = p
        BY <3>5, <4>1
      <4>2. CASE q # p
        <5>1. process[q] = "running" /\ registered[runs[q]] = q
          BY <3>3, <3>6, <3>8, <4>2 DEF ChildrenOK, OneChild
        <5>2. runs[q] # id
          BY <2>1, <5>1, NoneDistinct DEF Alive
        <5> QED BY <2>3, <3>6, <4>2, <5>1, <5>2 DEF TypeOK
      <4> QED BY <4>1, <4>2
    <3>9. \A i \in Ids : Alive(i)' => i \in unpacked'
      BY <2>3, <3>7 DEF ChildrenOK
    <3>10. \A i \in Ids : registered'[i] # None => process'[registered'[i]] # "none"
      BY <3>4, <3>5, <3>6 DEF ChildrenOK, TypeOK
    <3> QED BY <3>2, <3>8, <3>9, <3>10 DEF ChildrenOK, OneChild
  <2> QED BY <1>12, <2>2, <2>3 DEF LoadLaunch
<1>13. CASE StopPop(t)
  <2> DEFINE id == frame[t].id
             f == [frame[t] EXCEPT !.child = registered[id], !.pc = "kill"]
  <2>1. /\ frame[t].pc = "pop" /\ id \in Ids /\ f.pc = "kill" /\ f.child = registered[id]
        /\ f.id = id
    BY <1>0, <1>13 DEF StopPop, At, Placed, Frame
  <2>2. frame'[t] = f
    BY <1>13, Landing DEF StopPop
  <2>3. frame'[t].pc = "kill" /\ frame'[t].child = registered[id] /\ frame'[t].id = id
    BY <2>1, <2>2
  <2>4. registered' = [registered EXCEPT ![id] = None] /\ process' = process /\ runs' = runs /\ unpacked' = unpacked
    BY <1>13 DEF StopPop
  <2>5. \A i \in Ids : Alive(i)' => Alive(i) /\ i # id
    BY <2>4 DEF Alive, TypeOK
  <2>6. ASSUME NEW q \in Children, process'[q] = "running"
        PROVE  registered'[runs'[q]] = q \/ frame'[t].child = q
    <3>1. registered[runs[q]] = q
      BY <1>0, <2>1, <2>4, <2>6 DEF ChildrenOK, OneChild, At, Idle
    <3> QED BY <2>1, <2>3, <2>4, <3>1 DEF TypeOK
  <2>7. \A i \in Ids : registered'[i] # None => process'[registered'[i]] # "none"
    BY <2>4 DEF ChildrenOK, TypeOK
  <2>8. ASSUME NEW u \in Threads, frame'[u].pc \in Clearing PROVE ~Alive(frame[u].id)'
    <3>1. u = t /\ frame'[u].id = id
      BY <1>0, <2>3, <2>8 DEF Idle, Clearing
    <3> QED BY <2>1, <2>4, <3>1 DEF Alive, TypeOK
  <2> QED BY <2>3, <2>4, <2>5, <2>6, <2>7, <2>8 DEF ChildrenOK, OneChild, At
<1>14. CASE StopKill(t)
  <2> DEFINE f == [frame[t] EXCEPT !.child = None, !.pc = "look"]
  <2>1. /\ frame[t].pc = "kill" /\ f.pc = "look" /\ f.id = frame[t].id
        /\ ~Alive(frame[t].id)
    BY <1>0, <1>14 DEF StopKill, At, Frame, ChildrenOK, Clearing
  <2>2. frame'[t].pc = "look" /\ frame'[t].id = frame[t].id
    <3>1. frame'[t] = f
      BY <1>14, Landing DEF StopKill
    <3> QED BY <2>1, <3>1
  <2>3. registered' = registered /\ runs' = runs /\ unpacked' = unpacked
    BY <1>14 DEF StopKill
  <2>4. /\ \A q \in Children : process'[q] = "running" => process[q] = "running" /\ q # frame[t].child
        /\ \A q \in Children : process'[q] = "none" => process[q] = "none"
    BY <1>14, NoneDistinct DEF StopKill, TypeOK
  <2>5. ASSUME NEW i \in Ids, Alive(i)' PROVE Alive(i)
    <3>1. registered[i] \in Children /\ process'[registered[i]] = "running"
      BY <2>3, <2>5 DEF Alive, TypeOK
    <3> QED BY <2>4, <3>1, NoneDistinct DEF Alive
  <2>6. ASSUME NEW q \in Children, process'[q] = "running" PROVE registered'[runs'[q]] = q
    <3>1. process[q] = "running" /\ q # frame[t].child
      BY <2>4, <2>6
    <3>2. \A u \in Threads : u # t => ~At(u, "kill")
      BY <1>0 DEF At, Idle
    <3>3. registered[runs[q]] = q
      BY <3>1, <3>2 DEF ChildrenOK, OneChild
    <3> QED BY <2>3, <3>3
  <2>7. \A i \in Ids : registered'[i] # None => process'[registered'[i]] # "none"
    BY <2>3, <2>4 DEF ChildrenOK, TypeOK
  <2>8. ASSUME NEW u \in Threads, frame'[u].pc \in Clearing PROVE ~Alive(frame[u].id)'
    <3>1. u = t /\ frame'[u].id = frame[t].id
      BY <1>0, <2>1, <2>2, <2>8 DEF Idle, Clearing
    <3>2. frame[t].id \in Ids
      BY <1>0, <2>1 DEF Placed
    <3> QED BY <2>1, <2>5, <3>1, <3>2 DEF Alive
  <2> QED BY <2>3, <2>5, <2>6, <2>7, <2>8 DEF ChildrenOK, OneChild
<1> QED BY <1>1, <1>2, <1>3, <1>4, <1>5, <1>6, <1>7, <1>8, <1>9, <1>10, <1>11, <1>12, <1>13,
           <1>14 DEF Step

\* Requests begin with neither children nor disk.
LEMMA RequestKeeps == ASSUME Request PROVE UNCHANGED <<childVars, diskVars>>
<1>1. ASSUME NEW t \in Requests,
             \/ Refuse(t)
             \/ \E id \in Ids, o \in Objects, src \in Sources : Register(t, id, o, src)
             \/ \E id \in Ids, s \in Sessions : CreateSession(t, s, id) \/ Execute(t, id, s)
      PROVE  UNCHANGED <<childVars, diskVars>>
  BY <1>1 DEF Refuse, Register, CreateSession, Execute
<1>2. ASSUME NEW t \in Requests, NEW id \in Ids,
             \/ Offline(t, id) \/ Finalize(t, id) \/ RuntimeChat(t, id)
             \/ \E s \in Sessions : Infer(t, id, s) \/ \E x \in Streams : PrepareOpen(t, id, s, x)
      PROVE  UNCHANGED <<childVars, diskVars>>
  BY <1>2 DEF Offline, Finalize, RuntimeChat, Infer, PrepareOpen
<1>3. ASSUME NEW id \in Ids, AppendOpen(id) PROVE UNCHANGED <<childVars, diskVars>>
  BY <1>3 DEF AppendOpen
<1> QED BY <1>1, <1>2, <1>3 DEF Request

\* ChildrenOK is kept.
LEMMA ChildrenNext ==
  ASSUME TypeOK, SecretInv, Serial, ChildrenOK, MaxInFlight = 1, [Next]_vars PROVE ChildrenOK'
<1> USE DEF childVars, diskVars
<1>1. CASE Request
  <2>1. PICK t \in Threads :
          Admits(t) /\ (frame' = frame \/ \E f : Become(t, f) /\ Tidy(f) /\ f.pc \notin Clearing)
    BY <1>1, RequestBegins
  <2>2. \A u \in Threads : frame[u] = Idle
    BY <2>1, Alone
  <2>3. /\ \A u \in Threads : u # t => frame'[u] = Idle
        /\ frame[t].pc # "kill" /\ frame'[t].pc \notin Clearing
    BY <2>1, <2>2, Landing DEF Idle, Clearing
  <2>4. UNCHANGED <<registered, process, runs, unpacked>>
    BY <1>1, RequestKeeps
  <2> QED BY <2>2, <2>3, <2>4, ChildrenIdle
<1>2. ASSUME NEW t \in Threads, Step(t) PROVE ChildrenOK'
  BY <1>2, ChildrenStep
<1>3. ASSUME NEW p \in Children, ChildEnds(p) PROVE ChildrenOK'
  <2>1. /\ \A q \in Children : process'[q] = "running" => process[q] = "running"
        /\ \A q \in Children : process'[q] = "none" => process[q] = "none"
        /\ UNCHANGED <<registered, runs, unpacked, frame>>
    BY <1>3 DEF ChildEnds, TypeOK
  <2>2. \A id \in Ids : registered[id] \in Children \cup {None}
    BY DEF TypeOK
  <2>3. \A id : Alive(id)' /\ id \in Ids => Alive(id)
    BY <2>1, <2>2 DEF Alive
  <2>4. \A t \in Threads : frame[t].pc \in Clearing => frame[t].id \in Ids
    BY DEF SecretInv, ThreadsOK, Placed, Clearing
  <2>5. OneChild'
    BY <2>1 DEF ChildrenOK, OneChild, At
  <2>6. \A id \in Ids : registered'[id] # None => process'[registered'[id]] # "none"
    BY <2>1, <2>2 DEF ChildrenOK
  <2> QED BY <2>1, <2>3, <2>4, <2>5, <2>6 DEF ChildrenOK
<1>4. CASE Restart
  <2>1. \A q \in Children : process'[q] # "running"
    BY <1>4 DEF Restart
  <2>2. \A id \in Ids : registered'[id] = None
    BY <1>4 DEF Restart
  <2>3. \A t \in Threads : frame'[t].pc \notin Clearing
    BY <1>4 DEF Restart, Idle, Clearing
  <2> QED BY <2>1, <2>2, <2>3 DEF ChildrenOK, OneChild, Alive
<1>5. CASE CloseBegin
  <2>1. \A u \in Threads : frame[u] = Idle
    BY <1>5 DEF CloseBegin, InFlight, At, Threads, Serial, Tidy
  <2>2. ASSUME NEW l \in {"next", "aborted"}, Become(Closer, [Idle EXCEPT !.call = "close", !.pc = l])
        PROVE  /\ \A u \in Threads : u # Closer => frame'[u] = Idle
               /\ frame'[Closer].pc \notin Clearing
    <3>1. [Idle EXCEPT !.call = "close", !.pc = l].pc = l
      BY DEF Idle
    <3> QED BY <2>1, <2>2, <3>1, Landing DEF Threads, Clearing
  <2>3. /\ \A u \in Threads : u # Closer => frame'[u] = Idle
        /\ frame'[Closer].pc \notin Clearing
    BY <1>5, <2>2 DEF CloseBegin
  <2> QED BY <1>5, <2>1, <2>3, ChildrenIdle DEF CloseBegin, Threads, Idle
<1>6. CASE UNCHANGED <<registered, process, runs, unpacked, frame>>
  BY <1>6 DEF ChildrenOK, OneChild, Alive, At
<1> QED BY <1>1, <1>2, <1>3, <1>4, <1>5, <1>6 DEF Next, Environment, SessionExpires, Stopped, vars

\* The initial state.
LEMMA InitServes == Init => Serial /\ ChildrenOK
  BY DEF Init, Serial, Tidy, Stops, ChildrenOK, OneChild, Alive, Idle, Clearing

\* As long as clients have one request in flight at a time, a child that runs is
\* registered under its deployment or about to be killed, whatever fails, ends,
\* expires or restarts ("one vLLM child per deployment", model_runtime.py).
THEOREM OneChildWhenSerial == ASSUME MaxInFlight = 1 PROVE Spec => []OneChild
<1> DEFINE IInv == TypeOK /\ SecretInv /\ Serial /\ ChildrenOK
<1>1. Init => IInv
  BY InitOK, InitServes
<1>2. IInv /\ [Next]_vars => IInv'
  BY Inductive, SerialStep, ChildrenNext
<1>3. IInv => OneChild
  BY DEF ChildrenOK
<1> QED BY <1>1, <1>2, <1>3, PTL DEF Spec

-----------------------------------------------------------------------------
(* Uploads and the sessions that authorized them.                          *)

\* The sessions whose upload was ever loaded.
Used == {Loaded(p) : p \in {q \in Children : process[q] # "none"}}

\* The session of the first chunk, which ServedModels takes an upload to be from.
First(u) == u[1][1]

\* s was for id and authorizes nothing any more.
Spent(s, id) == task[s] = id /\ s \notin table \ consumed

\* u may be loaded under id.
Ready(u, id) == u # <<>> /\ Spent(First(u), id) /\ First(u) \notin Used

\* An activation that has not loaded its model yet.
Pre(f) ==
  /\ f.call = "execute"
  /\ \/ f.pc \in {"consume", "activate", "mkdir", "fill", "check", "unpack", "extract", "launch"}
     \/ f.pc \in Stops /\ f.then = "mkdir"

Finalizing(id) == \E t \in Threads : frame[t].call = "finalize" /\ frame[t].id = id

UsedOK == \A s \in Used : s \in Sessions /\ task[s] \in Ids /\ s \notin table \ consumed

\* An archive that was loaded already lies beside the model/ it was unpacked to, and
\* that refuses to be unpacked again.
ArchiveOK(id) ==
  archive[id] # <<>> => /\ Spent(First(archive[id]), id)
                        /\ id \in unpacked \/ First(archive[id]) \notin Used

\* A stream stays in the table until finalize, which has loaded it, returns.
OriginOK(id) ==
  stream[id] # None => /\ Spent(origin[stream[id]], id)
                       /\ origin[stream[id]] \notin Used \/ Finalizing(id)

\* What a thread is about to load was authorized, and not loaded before.
Loads(f) ==
  /\ f.call = "prepare" =>
       f.session \notin Used /\ task[f.session] = f.id /\ origin[f.stream] = f.session
  /\ Pre(f) =>
       /\ f.session \notin Used /\ task[f.session] = f.id
       /\ stream[f.id] # None => origin[stream[f.id]] # f.session
       /\ f.pc # "consume" => f.session \notin table \ consumed
       /\ f.pc \in {"check", "unpack"} => First(archive[f.id]) = f.session
       /\ f.pc = "extract" => First(f.data) = f.session
       /\ f.pc = "launch" => First(model[f.id]) = f.session
  /\ f.pc = "write" => Spent(origin[f.stream], f.id) /\ origin[f.stream] \notin Used
  /\ f.pc = "unpack" => archive[f.id] # <<>>
  /\ f.pc = "extract" => Ready(f.data, f.id)
  /\ f.pc = "launch" => Ready(model[f.id], f.id)

UploadsOK ==
  /\ UsedOK
  /\ \A id \in Ids : ArchiveOK(id) /\ OriginOK(id)
  /\ \A t \in Threads : Loads(frame[t])

\* A step that loads nothing and revives no session.
Steady ==
  /\ Used' = Used
  /\ \A s \in Sessions : task[s] # None =>
       task'[s] = task[s] /\ (s \in table' \ consumed' => s \in table \ consumed)

LEMMA SteadyIf ==
  ASSUME UNCHANGED <<serves, task>>, table' \subseteq table, consumed \subseteq consumed',
         \A p \in Children : process'[p] = "none" <=> process[p] = "none"
  PROVE  Steady
<1>1. Used' = Used
  BY DEF Used, Loaded
<1> QED BY <1>1 DEF Steady

\* The first chunk of an upload is from a session.
LEMMA FirstType ==
  ASSUME NEW u \in Seq(Chunk), u # <<>> PROVE First(u) \in Sessions
  BY DEF First, Chunk

\* What was spent stays so, and what was not loaded too.
LEMMA SpentKept ==
  ASSUME Steady, NEW id \in Ids, NEW s \in Sessions, Spent(s, id) PROVE Spent(s, id)'
  BY NoneDistinct DEF Steady, Spent

LEMMA ReadyKept ==
  ASSUME Steady, NEW id \in Ids, NEW u \in Seq(Chunk), Ready(u, id) PROVE Ready(u, id)'
<1>1. Spent(First(u), id)'
  BY FirstType, SpentKept DEF Ready
<1> QED BY <1>1 DEF Ready, Steady, First

LEMMA UsedKept == ASSUME Steady, UsedOK PROVE UsedOK'
  BY NoneDistinct DEF Steady, UsedOK

LEMMA ArchiveKept ==
  ASSUME TypeOK, Steady, NEW id \in Ids, ArchiveOK(id),
         \/ archive'[id] = archive[id] /\ (id \in unpacked => id \in unpacked')
         \/ archive'[id] = <<>>
  PROVE  ArchiveOK(id)'
<1>1. CASE archive'[id] = archive[id] /\ archive[id] # <<>> /\ (id \in unpacked => id \in unpacked')
  <2>1. First(archive[id]) \in Sessions /\ First(archive[id])' = First(archive[id])
    BY <1>1, FirstType DEF TypeOK, First
  <2>2. Spent(First(archive[id]), id)'
    BY <1>1, <2>1, NoneDistinct DEF ArchiveOK, Spent, Steady
  <2> QED BY <1>1, <2>1, <2>2 DEF ArchiveOK, Steady
<1>2. CASE archive'[id] = <<>>
  BY <1>2 DEF ArchiveOK
<1> QED BY <1>1, <1>2

LEMMA OriginKept ==
  ASSUME TypeOK, StreamsOK, Steady, NEW id \in Ids, OriginOK(id),
         \/ /\ stream'[id] = stream[id]
            /\ \A x \in Streams : origin[x] \in Sessions => origin'[x] = origin[x]
            /\ Finalizing(id) => Finalizing(id)'
         \/ stream'[id] = None
  PROVE  OriginOK(id)'
<1>1. CASE /\ stream'[id] = stream[id] /\ stream[id] # None
           /\ \A x \in Streams : origin[x] \in Sessions => origin'[x] = origin[x]
           /\ Finalizing(id) => Finalizing(id)'
  <2>1. origin[stream[id]] \in Sessions /\ origin'[stream'[id]] = origin[stream[id]]
    BY <1>1 DEF StreamsOK, TypeOK
  <2>2. Spent(origin[stream[id]], id)'
    BY <1>1, <2>1, NoneDistinct DEF OriginOK, Spent, Steady
  <2> QED BY <1>1, <2>1, <2>2 DEF OriginOK, Steady
<1>2. CASE stream'[id] = None
  BY <1>2 DEF OriginOK
<1> QED BY <1>1, <1>2

\* A finalize that goes on is still there.
Stays(t) == frame[t].call = "finalize" => frame'[t].call = "finalize" /\ frame'[t].id = frame[t].id

LEMMA FinalizeStays ==
  ASSUME NEW t \in Threads, Stays(t), \A u \in Threads : u # t => frame[u] = Idle, NEW id \in Ids, Finalizing(id)
  PROVE  Finalizing(id)'
<1>1. frame[t].call = "finalize" /\ frame[t].id = id
  BY DEF Finalizing, Idle
<1> QED BY <1>1 DEF Finalizing, Stays

\* A local state that is about to load nothing.
Bare(f) == f.call # "prepare" /\ ~Pre(f) /\ f.pc \notin {"write", "unpack", "extract", "launch"}

LEMMA LoadsBare == ASSUME NEW t, Bare(frame'[t]) PROVE Loads(frame[t])'
  BY DEF Bare, Loads, Pre

LEMMA IdleBare == Bare(Idle) /\ Bare([Idle EXCEPT !.pc = "aborted"]) /\ Bare([Idle EXCEPT !.pc = "closed"])
  BY DEF Bare, Pre, Idle

\* A thread that goes on without touching what it is about to load.
LEMMA LoadsCarried ==
  ASSUME TypeOK, Steady, NEW t \in Threads, Placed(frame[t]), Loads(frame[t]),
         frame[t].pc \notin {"idle", "next", "closed", "aborted"},
         frame'[t].call = frame[t].call, frame'[t].id = frame[t].id,
         frame'[t].session = frame[t].session, frame'[t].stream = frame[t].stream,
         frame'[t].pc \notin {"write", "check", "unpack", "extract", "launch"},
         Pre(frame'[t]) => Pre(frame[t]) /\ frame[t].pc # "consume" /\ frame'[t].pc # "consume",
         stream' = stream, origin' = origin
  PROVE  Loads(frame[t])'
<1>1. ASSUME frame[t].call \in {"prepare", "execute"}, frame[t].session \notin Used,
             task[frame[t].session] = frame[t].id
      PROVE  /\ frame[t].session \notin Used' /\ task'[frame[t].session] = frame[t].id
             /\ frame[t].session \notin table \ consumed => frame[t].session \notin table' \ consumed'
  <2>1. frame[t].session \in Sessions /\ frame[t].id \in Ids
    BY <1>1 DEF Placed
  <2>2. task[frame[t].session] # None
    BY <1>1, <2>1, NoneDistinct
  <2> QED BY <1>1, <2>1, <2>2 DEF Steady
<1>2. ASSUME frame'[t].call = "prepare"
      PROVE  /\ frame'[t].session \notin Used' /\ task'[frame'[t].session] = frame'[t].id
             /\ origin'[frame'[t].stream] = frame'[t].session
  BY <1>1, <1>2 DEF Loads
<1>3. ASSUME Pre(frame'[t])
      PROVE  /\ frame'[t].session \notin Used' /\ task'[frame'[t].session] = frame'[t].id
             /\ stream'[frame'[t].id] # None => origin'[stream'[frame'[t].id]] # frame'[t].session
             /\ frame'[t].session \notin table' \ consumed'
  <2>1. Pre(frame[t]) /\ frame[t].pc # "consume"
    BY <1>3
  <2>2. /\ frame[t].call = "execute" /\ frame[t].session \notin Used
        /\ task[frame[t].session] = frame[t].id /\ frame[t].session \notin table \ consumed
        /\ stream[frame[t].id] # None => origin[stream[frame[t].id]] # frame[t].session
    BY <2>1 DEF Loads, Pre
  <2> QED BY <1>1, <2>2
<1> QED BY <1>2, <1>3 DEF Loads, Pre

\* The local states in which steps end.
LEMMA GotoFields ==
  ASSUME TypeOK, NEW t \in Threads, NEW l, Goto(t, l)
  PROVE  /\ frame'[t].pc = l /\ frame'[t].call = frame[t].call /\ frame'[t].id = frame[t].id
         /\ frame'[t].session = frame[t].session /\ frame'[t].stream = frame[t].stream
         /\ frame'[t].data = frame[t].data /\ frame'[t].then = frame[t].then
<1> DEFINE f == [frame[t] EXCEPT !.pc = l]
<1>1. /\ f.pc = l /\ f.call = frame[t].call /\ f.id = frame[t].id
      /\ f.session = frame[t].session /\ f.stream = frame[t].stream
      /\ f.data = frame[t].data /\ f.then = frame[t].then
  BY ThreadType DEF Frame
<1>2. frame'[t] = f
  BY Landing DEF Goto
<1> HIDE DEF f
<1> QED BY <1>1, <1>2

LEMMA StopFields ==
  ASSUME TypeOK, NEW t \in Threads, NEW f \in Frame, NEW l, Stop(t, f, l)
  PROVE  /\ frame'[t].pc = "pop" /\ frame'[t].then = l /\ frame'[t].call = f.call
         /\ frame'[t].id = f.id /\ frame'[t].session = f.session /\ frame'[t].stream = f.stream
<1> DEFINE g == [f EXCEPT !.pc = "pop", !.then = l]
<1>1. /\ g.pc = "pop" /\ g.then = l /\ g.call = f.call
      /\ g.id = f.id /\ g.session = f.session /\ g.stream = f.stream
  BY DEF Frame
<1>2. frame'[t] = g
  BY Landing DEF Stop
<1> HIDE DEF g
<1> QED BY <1>1, <1>2

LEMMA EscapeLoads ==
  ASSUME TypeOK, NEW t \in Threads, Escape(t) PROVE Bare(frame'[t]) /\ Stays(t)
<1>1. CASE frame[t].call = "finalize"
  <2>1. Goto(t, "release")
    BY <1>1 DEF Escape, Goto
  <2> QED BY <1>1, <2>1, GotoFields DEF Bare, Pre, Stops, Stays
<1>2. CASE frame[t].call = "close"
  <2>1. Become(t, [Idle EXCEPT !.pc = "aborted"])
    BY <1>2 DEF Escape
  <2> QED BY <1>2, <2>1, Landing, IdleBare DEF Stays
<1>3. CASE frame[t].call \notin {"finalize", "close"}
  BY <1>3, LeavePc, IdleBare DEF Escape, Leave, Stays
<1> QED BY <1>1, <1>2, <1>3

LEMMA FailLoads ==
  ASSUME TypeOK, NEW t \in Threads, Fail(t) PROVE Bare(frame'[t]) /\ Stays(t)
<1>1. CASE frame[t].call = "finalize"
  <2>1. Goto(t, "failed")
    BY <1>1 DEF Fail
  <2> QED BY <1>1, <2>1, GotoFields DEF Bare, Pre, Stops, Stays
<1>2. CASE frame[t].call # "finalize"
  BY <1>2, EscapeLoads DEF Fail
<1> QED BY <1>1, <1>2

\* A step that loads, uploads and prepares nothing.
LEMMA UploadsKept ==
  ASSUME TypeOK, StreamsOK, UploadsOK, Steady, NEW t \in Threads,
         \A u \in Threads : u # t => frame[u] = Idle /\ frame'[u] = Idle,
         \A id \in Ids : \/ archive'[id] = archive[id] /\ (id \in unpacked => id \in unpacked')
                         \/ archive'[id] = <<>>,
         \A id \in Ids : stream'[id] = stream[id] \/ stream'[id] = None,
         \A x \in Streams : origin[x] \in Sessions => origin'[x] = origin[x],
         Stays(t), Loads(frame[t])'
  PROVE  UploadsOK'
<1>1. UsedOK'
  BY UsedKept DEF UploadsOK
<1>2. ASSUME NEW id \in Ids PROVE ArchiveOK(id)'
  BY ArchiveKept DEF UploadsOK
<1>3. ASSUME NEW id \in Ids PROVE OriginOK(id)'
  <2>1. Finalizing(id) => Finalizing(id)'
    BY FinalizeStays
  <2> QED BY <2>1, OriginKept DEF UploadsOK
<1>4. ASSUME NEW u \in Threads PROVE Loads(frame[u])'
  BY LoadsBare, IdleBare
<1> QED BY <1>1, <1>2, <1>3, <1>4 DEF UploadsOK

\* What a step of thread t may count on.
LEMMA StepKnows ==
  ASSUME TypeOK, SecretInv, Serial, UploadsOK, NEW t \in Threads, Step(t)
  PROVE  /\ frame[t] \in Frame /\ Placed(frame[t]) /\ Loads(frame[t]) /\ Tidy(frame[t])
         /\ StreamsOK
         /\ \A u \in Threads : u # t => frame[u] = Idle /\ frame'[u] = Idle
  BY ThreadType, StepAlone DEF SecretInv, ThreadsOK, Serial, UploadsOK

\* stop, prepare_archive and the ends of offline, prepare, append and close.
LEMMA StopUploads ==
  ASSUME TypeOK, SecretInv, Serial, UploadsOK, NEW t \in Threads, Step(t),
         \/ Retire(t) \/ StopPop(t) \/ StopKill(t) \/ StopLook(t) \/ StopWipe(t) \/ StopRaises(t)
         \/ MakeDirectory(t) \/ CloseNext(t) \/ Ask(t)
  PROVE  UploadsOK'
<1> USE StepKnows
<1> USE DEF childVars, diskVars, streamVars, sessionVars
<1>1. CASE Retire(t)
  <2>1. frame[t].call # "finalize" /\ Loads(frame[t])' /\ Stays(t)
    BY <1>1, LeavePc, LoadsBare, IdleBare DEF Retire, At, Placed, Stays
  <2>2. Steady
    BY <1>1, SteadyIf DEF Retire
  <2> QED BY <1>1, <2>1, <2>2, UploadsKept DEF Retire, Drop
<1>2. CASE StopPop(t)
  <2> DEFINE f == [frame[t] EXCEPT !.child = registered[frame[t].id], !.pc = "kill"]
  <2>1. /\ f.pc = "kill" /\ f.call = frame[t].call /\ f.id = frame[t].id /\ f.then = frame[t].then
        /\ f.session = frame[t].session /\ f.stream = frame[t].stream
    BY DEF Frame
  <2>2. frame'[t] = f /\ frame[t].pc = "pop"
    BY <1>2, Landing DEF StopPop, At
  <2> HIDE DEF f
  <2>3. Steady
    BY <1>2, SteadyIf DEF StopPop
  <2>4. Stays(t) /\ (Pre(frame'[t]) => Pre(frame[t]))
    BY <2>1, <2>2 DEF Stays, Pre, Stops
  <2>5. Loads(frame[t])'
    BY <1>2, <2>1, <2>2, <2>3, <2>4, LoadsCarried DEF StopPop
  <2> QED BY <1>2, <2>3, <2>4, <2>5, UploadsKept DEF StopPop
<1>3. CASE StopKill(t)
  <2> DEFINE f == [frame[t] EXCEPT !.child = None, !.pc = "look"]
  <2>1. /\ f.pc = "look" /\ f.call = frame[t].call /\ f.id = frame[t].id /\ f.then = frame[t].then
        /\ f.session = frame[t].session /\ f.stream = frame[t].stream
    BY DEF Frame
  <2>2. frame'[t] = f /\ frame[t].pc = "kill"
    BY <1>3, Landing DEF StopKill, At
  <2> HIDE DEF f
  <2>3. Steady
    <3>1. \A p \in Children : process'[p] = "none" <=> process[p] = "none"
      BY <1>3 DEF StopKill, TypeOK
    <3> QED BY <1>3, <3>1, SteadyIf DEF StopKill
  <2>4. Stays(t) /\ (Pre(frame'[t]) => Pre(frame[t]))
    BY <2>1, <2>2 DEF Stays, Pre, Stops
  <2>5. Loads(frame[t])'
    BY <1>3, <2>1, <2>2, <2>3, <2>4, LoadsCarried DEF StopKill
  <2> QED BY <1>3, <2>3, <2>4, <2>5, UploadsKept DEF StopKill
<1>4. ASSUME NEW l, Goto(t, l), l = "wipe" \/ l = frame[t].then, frame[t].pc \in {"look", "wipe"}, Steady,
             stream' = stream, origin' = origin
      PROVE  Stays(t) /\ Loads(frame[t])'
  <2>1. Stays(t) /\ (Pre(frame'[t]) => Pre(frame[t]))
    BY <1>4, GotoFields DEF Stays, Pre, Stops, Placed
  <2>2. frame'[t].pc \notin {"write", "check", "unpack", "extract", "launch", "consume"}
    BY <1>4, GotoFields DEF Placed
  <2> QED BY <1>4, <2>1, <2>2, GotoFields, LoadsCarried
<1>5. CASE StopLook(t)
  <2>1. Steady
    BY <1>5, SteadyIf DEF StopLook
  <2>2. Stays(t) /\ Loads(frame[t])'
    BY <1>4, <1>5, <2>1 DEF StopLook, At
  <2> QED BY <1>5, <2>1, <2>2, UploadsKept DEF StopLook
<1>6. CASE StopWipe(t)
  <2>1. Steady
    BY <1>6, SteadyIf DEF StopWipe
  <2>2. Stays(t) /\ Loads(frame[t])'
    BY <1>4, <1>6, <2>1, EscapeLoads, LoadsBare DEF StopWipe, At
  <2>3. \A id \in Ids : \/ archive'[id] = archive[id] /\ (id \in unpacked => id \in unpacked')
                        \/ archive'[id] = <<>>
    BY <1>6, Undisturbed DEF StopWipe, Wiped, TypeOK
  <2> QED BY <1>6, <2>1, <2>2, <2>3, UploadsKept DEF StopWipe
<1>7. CASE StopRaises(t)
  <2>1. Steady
    BY <1>7, SteadyIf DEF StopRaises
  <2>2. Stays(t) /\ Loads(frame[t])'
    BY <1>7, EscapeLoads, LoadsBare DEF StopRaises
  <2> QED BY <1>7, <2>1, <2>2, UploadsKept DEF StopRaises
<1>8. CASE MakeDirectory(t)
  <2>1. Steady /\ stream' = stream /\ origin' = origin /\ frame[t].pc = "mkdir"
    BY <1>8, SteadyIf DEF MakeDirectory, At
  <2>2. ASSUME Goto(t, IF frame[t].call = "execute" THEN "fill" ELSE "commit")
        PROVE  Stays(t) /\ Loads(frame[t])'
    <3>1. Stays(t) /\ (Pre(frame'[t]) => Pre(frame[t]))
      BY <2>1, <2>2, GotoFields DEF Stays, Pre, Stops
    <3>2. frame'[t].pc \in {"fill", "commit"}
      BY <2>2, GotoFields
    <3>3. Loads(frame[t])'
      BY <2>1, <2>2, <3>1, <3>2, GotoFields, LoadsCarried
    <3> QED BY <3>1, <3>3
  <2>3. ASSUME frame' = frame PROVE Stays(t) /\ Loads(frame[t])'
    BY <2>1, <2>3, LoadsCarried DEF Stays
  <2>4. ASSUME Escape(t) PROVE Stays(t) /\ Loads(frame[t])'
    BY <2>4, EscapeLoads, LoadsBare
  <2>5. Stays(t) /\ Loads(frame[t])'
    BY <1>8, <2>2, <2>3, <2>4 DEF MakeDirectory
  <2>6. \A id \in Ids : \/ archive'[id] = archive[id] /\ (id \in unpacked => id \in unpacked')
                        \/ archive'[id] = <<>>
    BY <1>8, Undisturbed DEF MakeDirectory, Wiped, TypeOK
  <2> QED BY <1>8, <2>1, <2>5, <2>6, UploadsKept DEF MakeDirectory
<1>9. CASE CloseNext(t)
  <2>1. Steady
    BY <1>9, SteadyIf DEF CloseNext
  <2>2. frame[t].call = "close"
    BY <1>9 DEF CloseNext, At, Placed
  <2>3. ASSUME NEW id \in todo, Stop(t, [frame[t] EXCEPT !.id = id], "next") PROVE Bare(frame'[t])
    <3>1. [frame[t] EXCEPT !.id = id] \in Frame /\ [frame[t] EXCEPT !.id = id].call = "close"
      BY <2>2, <2>3 DEF Frame, TypeOK
    <3> QED BY <2>3, <3>1, StopFields DEF Bare, Pre
  <2>4. ASSUME Become(t, [Idle EXCEPT !.pc = "closed"]) PROVE Bare(frame'[t])
    BY <2>4, Landing, IdleBare
  <2>5. Stays(t) /\ Loads(frame[t])'
    BY <1>9, <2>2, <2>3, <2>4, LoadsBare DEF CloseNext, Stays
  <2> QED BY <1>9, <2>1, <2>5, UploadsKept DEF CloseNext
<1>10. CASE Ask(t)
  <2>1. Steady
    BY <1>10, SteadyIf DEF Ask
  <2>2. Stays(t) /\ Loads(frame[t])'
    BY <1>10, LeavePc, LoadsBare, IdleBare DEF Ask, At, Placed, Stays
  <2> QED BY <1>10, <2>1, <2>2, UploadsKept DEF Ask
<1> QED BY <1>1, <1>2, <1>3, <1>5, <1>6, <1>7, <1>8, <1>9, <1>10

\* The commit of prepare, the write of append and the end of finalize.
LEMMA StreamUploads ==
  ASSUME TypeOK, SecretInv, Serial, UploadsOK, NEW t \in Threads, Step(t),
         PrepareCommit(t) \/ AppendWrite(t) \/ FinalizeRelease(t)
  PROVE  UploadsOK'
<1> USE StepKnows
<1> USE DEF childVars, diskVars, sessionVars
<1>1. CASE PrepareCommit(t)
  <2>0. PICK id \in Ids, s \in Sessions : id = frame[t].id /\ s = frame[t].session
    BY <1>1 DEF PrepareCommit, At, Placed
  <2>1. frame[t].pc = "commit" /\ frame[t].call = "prepare"
    BY <1>1 DEF PrepareCommit, At, Placed
  <2>2. s \notin Used /\ task[s] = id /\ origin[frame[t].stream] = s
    BY <2>0, <2>1 DEF Loads
  <2>3. Steady
    BY <1>1, SteadyIf DEF PrepareCommit
  <2>4. frame'[t] = Idle
    BY <1>1, LeavePc DEF PrepareCommit
  <2>5. /\ stream' = [stream EXCEPT ![id] = frame[t].stream] /\ origin' = origin
        /\ consumed' = consumed \cup {s} /\ task' = task /\ archive' = archive /\ unpacked' = unpacked
    BY <1>1, <2>0 DEF PrepareCommit
  <2>6. ASSUME NEW i \in Ids PROVE ArchiveOK(i)'
    BY <2>3, <2>5, ArchiveKept DEF UploadsOK
  <2>7. OriginOK(id)'
    <3>1. stream'[id] = frame[t].stream
      BY <2>1, <2>5 DEF TypeOK
    <3>2. Spent(s, id)' /\ s \notin Used'
      BY <2>2, <2>3, <2>5 DEF Spent, Steady
    <3> QED BY <2>2, <2>5, <3>1, <3>2 DEF OriginOK, Spent
  <2>8. ASSUME NEW i \in Ids, i # id PROVE OriginOK(i)'
    <3>1. stream'[i] = stream[i]
      BY <2>5, <2>8 DEF TypeOK
    <3>2. ~Finalizing(i)
      BY <2>1 DEF Finalizing, Idle
    <3> QED BY <2>3, <2>5, <3>1, <3>2, OriginKept DEF UploadsOK
  <2>9. ASSUME NEW u \in Threads PROVE Loads(frame[u])'
    BY <2>4, LoadsBare, IdleBare
  <2>10. \A i \in Ids : OriginOK(i)'
    BY <2>7, <2>8
  <2> QED BY <2>3, <2>6, <2>9, <2>10, UsedKept DEF UploadsOK
<1>2. CASE AppendWrite(t)
  <2>0. PICK id \in Ids, x \in Streams : id = frame[t].id /\ x = frame[t].stream
    BY <1>2 DEF AppendWrite, At, Placed
  <2>1. frame[t].pc = "write" /\ frame[t].call = "append"
    BY <1>2 DEF AppendWrite, At, Placed
  <2>2. Spent(origin[x], id) /\ origin[x] \notin Used /\ origin[x] \in Sessions
    BY <2>0, <2>1, NoneDistinct DEF Loads, SecretInv, ThreadsOK, Holds
  <2>s. PICK s \in Sessions : s = origin[x]
    BY <2>2
  <2>c. PICK c : c = <<s, received[x] + 1>>
    OBVIOUS
  <2>3. Steady
    BY <1>2, SteadyIf DEF AppendWrite
  <2>4. frame'[t] = Idle
    BY <1>2, LeavePc DEF AppendWrite
  <2>5. /\ stream' = stream /\ origin' = origin /\ unpacked' = unpacked
        /\ archive' = archive \/ archive' = [archive EXCEPT ![id] = Append(archive[id], c)]
    BY <1>2, <2>0, <2>s, <2>c DEF AppendWrite
  <2>6. ASSUME NEW i \in Ids, archive'[i] = archive[i] PROVE ArchiveOK(i)'
    BY <2>3, <2>5, <2>6, ArchiveKept DEF UploadsOK
  <2>7. ASSUME archive' = [archive EXCEPT ![id] = Append(archive[id], c)] PROVE ArchiveOK(id)'
    <3>1. archive'[id] = Append(archive[id], c) /\ archive[id] \in Seq(Chunk)
      BY <2>7 DEF TypeOK
    <3>2. CASE archive[id] = <<>>
      <4>1. First(archive[id])' = s
        BY <2>s, <2>c, <3>1, <3>2 DEF First
      <4>2. Spent(s, id)' /\ s \notin Used'
        BY <2>2, <2>3, <2>s, <2>c, SpentKept DEF Steady
      <4> QED BY <4>1, <4>2 DEF ArchiveOK, Spent
    <3>3. CASE archive[id] # <<>>
      <4>1. PICK v \in Sessions : v = First(archive[id])
        BY <3>1, <3>3, FirstType
      <4>2. First(archive[id])' = v
        <5>1. c \in Chunk
          BY <2>s, <2>c, <2>2 DEF TypeOK, Chunk
        <5>2. Append(archive[id], c)[1] = archive[id][1]
          BY <3>1, <3>3, <5>1
        <5> QED BY <3>1, <4>1, <5>2 DEF First
      <4>3. Spent(v, id) /\ (id \in unpacked \/ v \notin Used)
        BY <3>3, <4>1 DEF UploadsOK, ArchiveOK
      <4>4. Spent(v, id)'
        BY <2>3, <4>3, SpentKept
      <4> QED BY <2>3, <2>5, <4>2, <4>3, <4>4 DEF ArchiveOK, Spent, Steady
    <3> QED BY <3>2, <3>3
  <2>8. ASSUME NEW i \in Ids PROVE ArchiveOK(i)'
    <3>1. archive'[i] = archive[i] \/ (i = id /\ archive' = [archive EXCEPT ![id] = Append(archive[id], c)])
      BY <2>5 DEF TypeOK
    <3> QED BY <2>6, <2>7, <3>1
  <2>9. ASSUME NEW i \in Ids PROVE OriginOK(i)'
    <3>1. ~Finalizing(i)
      BY <2>1 DEF Finalizing, Idle
    <3> QED BY <2>3, <2>5, <3>1, OriginKept DEF UploadsOK
  <2>10. ASSUME NEW u \in Threads PROVE Loads(frame[u])'
    BY <2>4, LoadsBare, IdleBare
  <2> QED BY <2>3, <2>8, <2>9, <2>10, UsedKept DEF UploadsOK
<1>3. CASE FinalizeRelease(t)
  <2>0. PICK id : id = frame[t].id
    OBVIOUS
  <2>1. Steady /\ stream' = [stream EXCEPT ![id] = None] /\ origin' = origin
    BY <1>3, <2>0, SteadyIf DEF FinalizeRelease
  <2>2. frame'[t] = Idle
    BY <1>3, LeavePc DEF FinalizeRelease
  <2>3. ASSUME NEW i \in Ids PROVE ArchiveOK(i)'
    BY <1>3, <2>1, ArchiveKept DEF FinalizeRelease, UploadsOK
  <2>4. ASSUME NEW i \in Ids PROVE OriginOK(i)'
    <3>1. CASE i = id
      BY <2>1, <3>1, OriginKept DEF UploadsOK, TypeOK
    <3>2. CASE i # id
      <4>1. \A u \in Threads : u # t => frame[u].call = "none"
        BY DEF Idle
      <4>2. ~Finalizing(i)
        BY <2>0, <3>2, <4>1 DEF Finalizing
      <4>3. stream'[i] = stream[i]
        BY <2>1, <3>2 DEF TypeOK
      <4> QED BY <2>1, <4>2, <4>3, OriginKept DEF UploadsOK
    <3> QED BY <3>1, <3>2
  <2>5. ASSUME NEW u \in Threads PROVE Loads(frame[u])'
    BY <2>2, LoadsBare, IdleBare
  <2> QED BY <2>1, <2>3, <2>4, <2>5, UsedKept DEF UploadsOK
<1> QED BY <1>1, <1>2, <1>3

\* finalize and start, up to the launch.
LEMMA LoadUploads ==
  ASSUME TypeOK, SecretInv, Serial, UploadsOK, NEW t \in Threads, Step(t),
         \/ FinalizeMark(t) \/ FinalizeFailed(t) \/ LoadCheck(t) \/ LoadUnpack(t) \/ LoadExtract(t)
         \/ LoadWait(t) \/ LoadOnline(t)
  PROVE  UploadsOK'
<1> USE StepKnows
<1> USE DEF childVars, diskVars, streamVars, sessionVars
<1>1. CASE FinalizeMark(t)
  <2>1. Steady
    BY <1>1, SteadyIf DEF FinalizeMark
  <2>2. Stays(t) /\ Bare(frame'[t])
    BY <1>1, GotoFields DEF FinalizeMark, At, Placed, Stays, Bare, Pre
  <2> QED BY <1>1, <2>1, <2>2, LoadsBare, UploadsKept DEF FinalizeMark
<1>2. CASE FinalizeFailed(t)
  <2>1. Steady /\ stream' = stream /\ origin' = origin /\ frame[t].pc = "failed"
    BY <1>2, SteadyIf DEF FinalizeFailed, At
  <2>2. /\ frame'[t].pc = "pop" /\ frame'[t].then = "release" /\ frame'[t].call = frame[t].call
        /\ frame'[t].id = frame[t].id /\ frame'[t].session = frame[t].session
        /\ frame'[t].stream = frame[t].stream
    BY <1>2, StopFields DEF FinalizeFailed
  <2>3. Stays(t) /\ Loads(frame[t])'
    BY <2>1, <2>2, LoadsCarried DEF Stays, Pre
  <2> QED BY <1>2, <2>1, <2>3, UploadsKept DEF FinalizeFailed
<1>3. CASE LoadCheck(t)
  <2>1. Steady /\ stream' = stream /\ origin' = origin /\ archive' = archive /\ frame[t].pc = "check"
    BY <1>3, SteadyIf DEF LoadCheck, At
  <2>2. frame[t].id \in Ids /\ frame[t].call \in {"finalize", "execute"}
    BY <2>1 DEF Placed, Loading
  <2>3. ASSUME archive[frame[t].id] # <<>>, Goto(t, "unpack") PROVE Stays(t) /\ Loads(frame[t])'
    <3>1. /\ frame'[t].pc = "unpack" /\ frame'[t].call = frame[t].call /\ frame'[t].id = frame[t].id
          /\ frame'[t].session = frame[t].session /\ frame'[t].stream = frame[t].stream
      BY <2>3, GotoFields
    <3>2. ASSUME Pre(frame'[t])
          PROVE  /\ frame[t].session \notin Used' /\ task'[frame[t].session] = frame[t].id
                 /\ stream[frame[t].id] # None => origin[stream[frame[t].id]] # frame[t].session
                 /\ frame[t].session \notin table' \ consumed'
                 /\ First(archive[frame[t].id]) = frame[t].session
      <4>1. Pre(frame[t])
        BY <2>1, <3>1, <3>2 DEF Pre
      <4>2. /\ frame[t].session \in Sessions /\ frame[t].session \notin Used
            /\ task[frame[t].session] = frame[t].id
            /\ frame[t].session \notin table \ consumed
            /\ stream[frame[t].id] # None => origin[stream[frame[t].id]] # frame[t].session
            /\ First(archive[frame[t].id]) = frame[t].session
        BY <2>1, <4>1 DEF Loads, Placed, Pre
      <4>3. task[frame[t].session] # None
        BY <2>2, <4>2, NoneDistinct
      <4> QED BY <2>1, <4>2, <4>3 DEF Steady
    <3>3. Stays(t)
      BY <3>1 DEF Stays
    <3>4. First(archive[frame[t].id])' = First(archive[frame[t].id])
      BY <2>1, <3>1 DEF First
    <3> QED BY <2>1, <2>2, <2>3, <3>1, <3>2, <3>3, <3>4 DEF Loads
  <2>4. ASSUME Fail(t) PROVE Stays(t) /\ Loads(frame[t])'
    BY <2>4, FailLoads, LoadsBare
  <2>5. Stays(t) /\ Loads(frame[t])'
    BY <1>3, <2>3, <2>4 DEF LoadCheck
  <2> QED BY <1>3, <2>1, <2>5, UploadsKept DEF LoadCheck
<1>4. CASE LoadWait(t)
  <2> DEFINE f == [frame[t] EXCEPT !.child = None]
             l == IF frame[t].call = "finalize" THEN "failed" ELSE "escape"
  <2>1. Steady /\ frame[t].pc = "wait" /\ frame[t].call \in {"finalize", "execute"}
    BY <1>4, SteadyIf DEF LoadWait, At, Placed, Loading
  <2>2. f \in Frame /\ f.call = frame[t].call /\ f.id = frame[t].id /\ l # "mkdir"
    BY DEF Frame
  <2>3. Goto(t, "online") \/ Stop(t, f, l)
    BY <1>4 DEF LoadWait
  <2> HIDE DEF f, l
  <2>4. Stays(t) /\ Bare(frame'[t])
    BY <2>1, <2>2, <2>3, GotoFields, StopFields DEF Stays, Bare, Pre, Stops
  <2> QED BY <1>4, <2>1, <2>4, LoadsBare, UploadsKept DEF LoadWait
<1>5. CASE LoadOnline(t)
  <2> DEFINE f == [frame[t] EXCEPT !.child = None, !.pc = "release"]
  <2>1. Steady /\ frame[t].pc = "online" /\ frame[t].call \in {"finalize", "execute"}
    BY <1>5, SteadyIf DEF LoadOnline, At, Placed, Loading
  <2>2. f.pc = "release" /\ f.call = frame[t].call /\ f.id = frame[t].id
    BY DEF Frame
  <2>3. IF frame[t].call = "finalize" THEN Become(t, f) ELSE Leave(t)
    BY <1>5 DEF LoadOnline
  <2> HIDE DEF f
  <2>4. Stays(t) /\ Bare(frame'[t])
    BY <2>1, <2>2, <2>3, Landing, LeavePc, IdleBare DEF Stays, Bare, Pre, Stops
  <2> QED BY <1>5, <2>1, <2>4, LoadsBare, UploadsKept DEF LoadOnline
<1>6. CASE LoadUnpack(t)
  <2>0. PICK id \in Ids, s \in Sessions \cup {None} : id = frame[t].id /\ s = frame[t].session
    BY <1>6, ThreadType DEF LoadUnpack, At, Placed
  <2> DEFINE f == [frame[t] EXCEPT !.data = archive[id], !.pc = "extract"]
  <2>1. Steady /\ stream' = stream /\ origin' = origin /\ archive' = archive /\ frame[t].pc = "unpack"
    BY <1>6, SteadyIf DEF LoadUnpack, At
  <2>2. /\ f.pc = "extract" /\ f.call = frame[t].call /\ f.id = id /\ f.data = archive[id]
        /\ f.session = s
    BY <2>0 DEF Frame
  <2>3. (id \notin unpacked /\ Become(t, f)) \/ Escape(t)
    BY <1>6, <2>0 DEF LoadUnpack
  <2> HIDE DEF f
  <2>4. ASSUME id \notin unpacked, Become(t, f) PROVE Stays(t) /\ Loads(frame[t])'
    <3>1. frame'[t] = f
      BY <2>4, Landing
    <3>2. Ready(archive[id], id) /\ archive[id] \in Seq(Chunk)
      BY <2>0, <2>1, <2>4 DEF UploadsOK, ArchiveOK, Ready, Loads, TypeOK
    <3>u. PICK u \in Seq(Chunk) : u = archive[id]
      BY <3>2
    <3>3. Ready(u, id)'
      BY <2>1, <3>2, <3>u, ReadyKept
    <3>4. frame[t].call \in {"finalize", "execute"}
      BY <2>1 DEF Placed, Loading
    <3>5. ASSUME Pre(f)
          PROVE  /\ s \notin Used' /\ task'[s] = id
                 /\ stream[id] # None => origin[stream[id]] # s
                 /\ s \notin table' \ consumed'
                 /\ First(u) = s
      <4>1. Pre(frame[t])
        BY <2>1, <2>2, <3>5 DEF Pre
      <4>2. /\ s \in Sessions /\ s \notin Used /\ task[s] = id /\ s \notin table \ consumed
            /\ stream[id] # None => origin[stream[id]] # s
            /\ First(archive[id]) = s
        BY <2>0, <2>1, <4>1 DEF Loads, Placed, Pre
      <4>3. task[s] # None
        BY <4>2, NoneDistinct
      <4> QED BY <2>1, <3>u, <4>2, <4>3 DEF Steady
    <3>6. Stays(t)
      BY <2>0, <2>2, <3>1 DEF Stays
    <3>7. frame'[t].data = u
      BY <2>2, <3>1, <3>u
    <3> QED BY <2>1, <2>2, <3>1, <3>3, <3>4, <3>5, <3>6, <3>7 DEF Loads, Ready, Spent, First
  <2>5. ASSUME Escape(t) PROVE Stays(t) /\ Loads(frame[t])'
    BY <2>5, EscapeLoads, LoadsBare
  <2>6. Stays(t) /\ Loads(frame[t])'
    BY <2>3, <2>4, <2>5
  <2> QED BY <1>6, <2>1, <2>6, UploadsKept DEF LoadUnpack
<1>7. CASE LoadExtract(t)
  <2>0. PICK id \in Ids, s \in Sessions \cup {None}, u \in Seq(Chunk) :
          id = frame[t].id /\ s = frame[t].session /\ u = frame[t].data
    BY <1>7, ThreadType DEF LoadExtract, At, Placed
  <2> DEFINE f == [frame[t] EXCEPT !.data = <<>>, !.pc = "launch"]
  <2>1. Steady /\ stream' = stream /\ origin' = origin /\ archive' = archive /\ frame[t].pc = "extract"
    BY <1>7, SteadyIf DEF LoadExtract, At
  <2>2. f.pc = "launch" /\ f.call = frame[t].call /\ f.id = id /\ f.session = s
    BY <2>0 DEF Frame
  <2>3. (model' = [model EXCEPT ![id] = u] /\ Become(t, f)) \/ Fail(t)
    BY <1>7, <2>0 DEF LoadExtract
  <2> HIDE DEF f
  <2>4. ASSUME model' = [model EXCEPT ![id] = u], Become(t, f) PROVE Stays(t) /\ Loads(frame[t])'
    <3>1. frame'[t] = f /\ model'[id] = u
      BY <2>4, Landing DEF TypeOK
    <3>2. Ready(u, id)
      BY <2>0, <2>1 DEF Loads
    <3>3. Ready(u, id)'
      BY <2>1, <3>2, ReadyKept
    <3>4. frame[t].call \in {"finalize", "execute"}
      BY <2>1 DEF Placed, Loading
    <3>5. ASSUME Pre(f)
          PROVE  /\ s \notin Used' /\ task'[s] = id
                 /\ stream[id] # None => origin[stream[id]] # s
                 /\ s \notin table' \ consumed'
                 /\ First(u) = s
      <4>1. Pre(frame[t])
        BY <2>1, <2>2, <3>5 DEF Pre
      <4>2. /\ s \in Sessions /\ s \notin Used /\ task[s] = id /\ s \notin table \ consumed
            /\ stream[id] # None => origin[stream[id]] # s
            /\ First(u) = s
        BY <2>0, <2>1, <4>1 DEF Loads, Placed, Pre
      <4>3. task[s] # None
        BY <4>2, NoneDistinct
      <4> QED BY <2>1, <4>2, <4>3 DEF Steady
    <3>6. Stays(t)
      BY <2>0, <2>2, <3>1 DEF Stays
    <3> QED BY <2>1, <2>2, <3>1, <3>3, <3>4, <3>5, <3>6 DEF Loads, Ready, Spent, First
  <2>5. ASSUME Fail(t) PROVE Stays(t) /\ Loads(frame[t])'
    BY <2>5, FailLoads, LoadsBare
  <2>6. Stays(t) /\ Loads(frame[t])'
    BY <2>3, <2>4, <2>5
  <2>7. \A i \in Ids : i \in unpacked => i \in unpacked'
    BY <1>7 DEF LoadExtract
  <2> QED BY <1>7, <2>1, <2>6, <2>7, UploadsKept DEF LoadExtract
<1> QED BY <1>1, <1>2, <1>3, <1>4, <1>5, <1>6, <1>7

\* A launch adds the session of what was unpacked to those that were used.
LEMMA LaunchUses ==
  ASSUME TypeOK, NEW p \in Children, NEW s, process[p] = "none", process' = [process EXCEPT ![p] = "running"],
         serves'[p][1][1] = s, \A q \in Children : q # p => serves'[q] = serves[q]
  PROVE  Used' = Used \cup {s}
<1>1. \A q \in Children : process'[q] # "none" <=> q = p \/ process[q] # "none"
  BY DEF TypeOK
<1>2. \A q \in Children : q # p => Loaded(q)' = Loaded(q)
  BY DEF Loaded
<1>3. Loaded(p)' = s
  BY DEF Loaded
<1>4. ASSUME NEW x \in Used' PROVE x \in Used \cup {s}
  <2>1. PICK q \in Children : process'[q] # "none" /\ x = Loaded(q)'
    BY <1>4 DEF Used
  <2> QED BY <1>1, <1>2, <1>3, <2>1 DEF Used
<1>5. ASSUME NEW x \in Used PROVE x \in Used'
  <2>1. PICK q \in Children : process[q] # "none" /\ x = Loaded(q)
    BY <1>5 DEF Used
  <2>2. q # p
    BY <2>1
  <2> QED BY <1>1, <1>2, <2>1, <2>2 DEF Used
<1>6. s \in Used'
  BY <1>1, <1>3 DEF Used
<1> QED BY <1>4, <1>5, <1>6

\* The launch: what is loaded was authorized for this deployment, and is used now.
LEMMA LaunchUploads ==
  ASSUME TypeOK, SecretInv, Serial, UploadsOK, NEW t \in Threads, Step(t),
         NEW p \in Children, LoadLaunch(t, p)
  PROVE  UploadsOK'
<1> USE StepKnows
<1>0. PICK id \in Ids : id = frame[t].id
  BY DEF LoadLaunch, At, Placed
<1> DEFINE f == [frame[t] EXCEPT !.child = p, !.pc = "wait"]
<1>1. /\ frame[t].pc = "launch" /\ frame[t].call \in {"finalize", "execute"}
      /\ f.pc = "wait" /\ f.call = frame[t].call /\ f.id = id
  BY <1>0 DEF LoadLaunch, At, Placed, Loading, Frame
<1>2. /\ stream' = stream /\ origin' = origin /\ archive' = archive /\ unpacked' = unpacked
      /\ task' = task /\ table' = table /\ consumed' = consumed
  BY DEF LoadLaunch, streamVars, diskVars, sessionVars
<1>3. CASE (Fail(t) \/ Escape(t)) /\ UNCHANGED childVars
  <2>1. Steady
    BY <1>2, <1>3, SteadyIf DEF childVars
  <2> QED BY <1>2, <1>3, <2>1, FailLoads, EscapeLoads, LoadsBare, UploadsKept
<1>4. CASE /\ id \in unpacked /\ process[p] = "none"
           /\ process' = [process EXCEPT ![p] = "running"]
           /\ serves'  = [serves EXCEPT ![p] = model[id]]
           /\ Become(t, f)
  <2>1. frame'[t] = f
    BY <1>4, Landing
  <2> HIDE DEF f
  <2>2. Ready(model[id], id) /\ model[id] \in Seq(Chunk)
    BY <1>0, <1>1 DEF Loads, TypeOK
  <2>3. PICK s \in Sessions : s = First(model[id])
    BY <2>2, FirstType DEF Ready
  <2>4. Spent(s, id) /\ s \notin Used
    BY <2>2, <2>3 DEF Ready
  <2>5. Used' = Used \cup {s}
    <3>1. serves'[p][1][1] = s /\ \A q \in Children : q # p => serves'[q] = serves[q]
      BY <1>4, <2>3 DEF TypeOK, First
    <3> QED BY <1>4, <3>1, LaunchUses
  <2>6. UsedOK'
    BY <1>2, <2>4, <2>5 DEF UploadsOK, UsedOK, Spent
  <2>7. ASSUME NEW i \in Ids PROVE ArchiveOK(i)'
    <3>1. ASSUME archive[i] # <<>> PROVE Spent(First(archive[i]), i) /\ (i \in unpacked \/ First(archive[i]) \notin Used')
      <4>1. Spent(First(archive[i]), i) /\ (i \in unpacked \/ First(archive[i]) \notin Used)
        BY <3>1 DEF UploadsOK, ArchiveOK
      <4>2. i # id => First(archive[i]) # s
        BY <2>4, <4>1 DEF Spent
      <4> QED BY <1>4, <2>5, <4>1, <4>2
    <3> QED BY <1>2, <3>1 DEF ArchiveOK, Spent, First
  <2>8. ASSUME NEW i \in Ids PROVE OriginOK(i)'
    <3>1. ASSUME stream[i] # None
          PROVE  Spent(origin[stream[i]], i) /\ (origin[stream[i]] \notin Used' \/ Finalizing(i)')
      <4>1. Spent(origin[stream[i]], i) /\ (origin[stream[i]] \notin Used \/ Finalizing(i))
        BY <3>1 DEF UploadsOK, OriginOK
      <4>2. Finalizing(i) => Finalizing(i)'
        BY <1>0, <1>1, <2>1, FinalizeStays DEF Stays
      <4>3. CASE i # id
        BY <2>4, <2>5, <4>1, <4>2, <4>3 DEF Spent
      <4>4. CASE i = id /\ frame[t].call = "finalize"
        BY <1>1, <2>1, <4>1, <4>4 DEF Finalizing
      <4>5. CASE i = id /\ frame[t].call = "execute"
        <5>1. origin[stream[id]] # frame[t].session /\ s = frame[t].session
          BY <1>0, <1>1, <2>3, <3>1, <4>5 DEF Loads, Pre
        <5> QED BY <2>5, <4>1, <4>2, <4>5, <5>1
      <4> QED BY <1>1, <4>3, <4>4, <4>5
    <3> QED BY <1>2, <3>1 DEF OriginOK, Spent
  <2>9. ASSUME NEW u \in Threads PROVE Loads(frame[u])'
    <3>1. Bare(f)
      BY <1>1 DEF Bare, Pre, Stops
    <3> QED BY <2>1, <3>1, LoadsBare, IdleBare
  <2> QED BY <2>6, <2>7, <2>8, <2>9 DEF UploadsOK
<1> QED BY <1>0, <1>3, <1>4 DEF LoadLaunch

\* execute up to start.
LEMMA ExecuteUploads ==
  ASSUME TypeOK, SecretInv, Serial, UploadsOK, NEW t \in Threads, Step(t),
         Consume(t) \/ Activate(t) \/ ActivateFill(t)
  PROVE  UploadsOK'
<1> USE StepKnows
<1> USE DEF childVars, diskVars, streamVars, sessionVars
<1>0. PICK id \in Ids, s \in Sessions : id = frame[t].id /\ s = frame[t].session
  BY DEF Consume, Activate, ActivateFill, At, Placed
<1>1. frame[t].call = "execute" /\ Pre(frame[t]) /\ Stays(t)
  BY DEF Consume, Activate, ActivateFill, At, Placed, Pre, Stays
<1>2. /\ s \notin Used /\ task[s] = id /\ task[s] # None
      /\ stream[id] # None => origin[stream[id]] # s
      /\ frame[t].pc # "consume" => s \notin table \ consumed
  BY <1>0, <1>1, NoneDistinct DEF Loads
<1>3. CASE Consume(t)
  <2>1. Steady /\ stream' = stream /\ origin' = origin /\ table' = table
    BY <1>3, SteadyIf DEF Consume
  <2>2. ASSUME consumed' = consumed \cup {s}, Goto(t, "activate") PROVE Loads(frame[t])'
    <3>1. frame'[t].pc = "activate" /\ frame'[t].call = "execute" /\ frame'[t].id = id /\ frame'[t].session = s
      BY <1>0, <1>1, <2>2, GotoFields
    <3>2. s \notin Used' /\ task'[s] = id /\ s \notin table' \ consumed'
      BY <1>2, <2>1, <2>2 DEF Steady
    <3> QED BY <1>2, <2>1, <3>1, <3>2 DEF Loads
  <2>3. Loads(frame[t])'
    BY <1>0, <1>3, <2>2, LeavePc, IdleBare, LoadsBare DEF Consume
  <2> QED BY <1>1, <1>3, <2>1, <2>3, UploadsKept DEF Consume
<1>4. CASE Activate(t)
  <2> DEFINE f == [frame[t] EXCEPT !.object = current[id]]
  <2>1. Steady /\ stream' = stream /\ origin' = origin /\ frame[t].pc = "activate"
    BY <1>4, SteadyIf DEF Activate, At
  <2>2. f \in Frame /\ f.call = frame[t].call /\ f.id = frame[t].id /\ f.session = frame[t].session
        /\ f.stream = frame[t].stream
    <3>1. current[id] \in Objects \cup {None}
      BY DEF TypeOK
    <3> QED BY <3>1 DEF Frame
  <2>3. Leave(t) \/ Stop(t, f, "mkdir")
    BY <1>0, <1>4 DEF Activate
  <2> HIDE DEF f
  <2>4. ASSUME Stop(t, f, "mkdir") PROVE Loads(frame[t])'
    <3>1. /\ frame'[t].pc = "pop" /\ frame'[t].call = frame[t].call
          /\ frame'[t].id = frame[t].id /\ frame'[t].session = frame[t].session
          /\ frame'[t].stream = frame[t].stream
      BY <2>2, <2>4, StopFields
    <3> QED BY <1>1, <2>1, <3>1, LoadsCarried
  <2>5. Loads(frame[t])'
    BY <2>3, <2>4, LeavePc, IdleBare, LoadsBare
  <2> QED BY <1>1, <1>4, <2>1, <2>5, UploadsKept DEF Activate
<1>5. CASE ActivateFill(t)
  <2>1. Steady /\ stream' = stream /\ origin' = origin /\ unpacked' = unpacked /\ frame[t].pc = "fill"
    BY <1>5, SteadyIf DEF ActivateFill, At
  <2>2. CASE Escape(t) /\ archive' = archive
    BY <1>1, <2>1, <2>2, EscapeLoads, LoadsBare, UploadsKept
  <2>3. CASE Goto(t, "check") /\ archive' = [archive EXCEPT ![id] = Upload(s)]
    <3>1. frame'[t].pc = "check" /\ frame'[t].call = "execute" /\ frame'[t].id = id /\ frame'[t].session = s
      BY <1>0, <1>1, <2>3, GotoFields
    <3>2. archive'[id] = Upload(s)
      BY <2>3 DEF TypeOK
    <3>3. First(archive[id])' = s
      BY <3>2, Bounds DEF First, Upload
    <3>4. s \notin Used' /\ Spent(s, id)'
      BY <1>2, <2>1, SpentKept DEF Steady, Spent
    <3>5. ArchiveOK(id)'
      BY <3>3, <3>4 DEF ArchiveOK, Spent
    <3>6. ASSUME NEW i \in Ids PROVE ArchiveOK(i)'
      <4>1. CASE i = id
        BY <3>5, <4>1
      <4>2. CASE i # id
        <5>1. archive'[i] = archive[i]
          BY <2>3, <4>2 DEF TypeOK
        <5> QED BY <2>1, <5>1, ArchiveKept DEF UploadsOK
      <4> QED BY <4>1, <4>2
    <3>7. Loads(frame[t])'
      BY <1>2, <2>1, <3>1, <3>3, <3>4 DEF Loads, Spent, First
    <3>8. ASSUME NEW i \in Ids PROVE OriginOK(i)'
      BY <1>1, <2>1, FinalizeStays, OriginKept DEF UploadsOK
    <3>9. ASSUME NEW u \in Threads PROVE Loads(frame[u])'
      BY <3>7, LoadsBare, IdleBare
    <3> QED BY <2>1, <3>6, <3>8, <3>9, UsedKept DEF UploadsOK
  <2> QED BY <1>0, <1>5, <2>2, <2>3 DEF ActivateFill
<1> QED BY <1>3, <1>4, <1>5

\* A purge revives no session, and a new session is for no earlier authorization.
LEMMA PurgeSteady ==
  ASSUME NEW made, \A s \in made : task[s] = None, Purge(made), UNCHANGED <<childVars, consumed>>,
         \A s \in Sessions : task[s] # None => task'[s] = task[s]
  PROVE  Steady
<1>1. Used' = Used
  BY DEF Used, Loaded, childVars
<1> QED BY <1>1 DEF Steady, Purge, Live

\* The first step of a request, taken when all threads are at rest.
LEMMA RequestKept ==
  ASSUME TypeOK, SecretInv, Serial, UploadsOK, MaxInFlight = 1, Steady, NEW t \in Threads, Admits(t),
         \A u \in Threads : u # t => frame'[u] = frame[u],
         UNCHANGED <<stream, diskVars>>,
         \A x \in Streams : origin[x] \in Sessions => origin'[x] = origin[x],
         Loads(frame[t])'
  PROVE  UploadsOK'
<1>1. \A u \in Threads : frame[u] = Idle
  BY Alone
<1>2. Stays(t)
  BY <1>1 DEF Stays, Idle
<1>3. StreamsOK
  BY DEF SecretInv
<1> QED BY <1>1, <1>2, <1>3, UploadsKept DEF diskVars

\* The requests.
LEMMA RequestUploads ==
  ASSUME TypeOK, SecretInv, Serial, UploadsOK, MaxInFlight = 1, Request
  PROVE  UploadsOK'
<1> USE DEF streamVars, sessionVars
<1>0. Requests \subseteq Threads /\ EventLoop \in Threads
  BY DEF Threads
<1>1. ASSUME NEW t \in Requests, Refuse(t) PROVE UploadsOK'
  <2>1. Steady
    BY <1>1, PurgeSteady DEF Refuse
  <2>2. Loads(frame[t])'
    BY <1>0, <1>1, Alone, LoadsBare, IdleBare DEF Refuse
  <2> QED BY <1>0, <1>1, <2>1, <2>2, RequestKept DEF Refuse
<1>2. ASSUME NEW t \in Requests, NEW id \in Ids, NEW s \in Sessions, CreateSession(t, s, id) PROVE UploadsOK'
  <2>1. \A x \in Sessions : task[x] # None => task'[x] = task[x]
    BY <1>2 DEF CreateSession, TypeOK
  <2>2. Steady
    BY <1>2, <2>1, PurgeSteady DEF CreateSession
  <2>3. Loads(frame[t])'
    BY <1>0, <1>2, Alone, LoadsBare, IdleBare DEF CreateSession
  <2> QED BY <1>0, <1>2, <2>2, <2>3, RequestKept DEF CreateSession
<1>3. ASSUME NEW t \in Requests, NEW id \in Ids, NEW o \in Objects, NEW src \in Sources, Register(t, id, o, src)
      PROVE  UploadsOK'
  <2>1. Steady
    BY <1>3, SteadyIf DEF Register, childVars
  <2>2. Loads(frame[t])'
    BY <1>0, <1>3, Alone, LoadsBare, IdleBare DEF Register
  <2> QED BY <1>0, <1>3, <2>1, <2>2, RequestKept DEF Register
<1>4. ASSUME NEW t \in Requests, NEW id \in Ids, NEW f, Become(t, f), Bare(f),
             \/ Offline(t, id) \/ Finalize(t, id) \/ RuntimeChat(t, id)
             \/ \E s \in Sessions : Infer(t, id, s)
      PROVE  UploadsOK'
  <2>1. frame'[t] = f /\ \A u \in Threads : u # t => frame'[u] = frame[u]
    BY <1>0, <1>4, Landing
  <2>2. Loads(frame[t])'
    BY <1>4, <2>1, LoadsBare
  <2>3. CASE Offline(t, id) \/ Finalize(t, id) \/ RuntimeChat(t, id)
    <3>1. Steady
      BY <2>3, SteadyIf DEF Offline, Finalize, RuntimeChat, childVars
    <3> QED BY <1>0, <2>1, <2>2, <2>3, <3>1, RequestKept DEF Offline, Finalize, RuntimeChat
  <2>4. CASE \E s \in Sessions : Infer(t, id, s)
    <3>1. Steady
      BY <2>4, PurgeSteady DEF Infer
    <3> QED BY <1>0, <2>1, <2>2, <2>4, <3>1, RequestKept DEF Infer
  <2> QED BY <1>4, <2>3, <2>4
<1>5. ASSUME NEW t \in Requests, NEW id \in Ids, Offline(t, id) PROVE UploadsOK'
  <2> DEFINE g == [Idle EXCEPT !.call = "offline", !.id = id, !.object = current[id]]
             f == [g EXCEPT !.pc = "pop", !.then = "retire"]
  <2>1. f.call = "offline" /\ f.pc = "pop"
    BY DEF Idle
  <2>2. Bare(f)
    BY <2>1 DEF Bare, Pre
  <2>3. Become(t, f)
    BY <1>5 DEF Offline, Stop
  <2> HIDE DEF f
  <2> QED BY <1>4, <1>5, <2>2, <2>3
<1>6. ASSUME NEW t \in Requests, NEW id \in Ids, Finalize(t, id) PROVE UploadsOK'
  <2> DEFINE f == [Idle EXCEPT !.call = "finalize", !.id = id, !.object = current[id],
                               !.stream = stream[id], !.pc = "mark"]
  <2>1. f.call = "finalize" /\ f.pc = "mark"
    BY DEF Idle
  <2>2. Bare(f)
    BY <2>1 DEF Bare, Pre
  <2>3. Become(t, f)
    BY <1>6 DEF Finalize
  <2> HIDE DEF f
  <2> QED BY <1>4, <1>6, <2>2, <2>3
<1>7. ASSUME NEW t \in Requests, NEW id \in Ids, RuntimeChat(t, id) PROVE UploadsOK'
  <2> DEFINE f == [Idle EXCEPT !.call = "ask", !.id = id, !.object = current[id], !.pc = "ask"]
  <2>1. f.call = "ask" /\ f.pc = "ask"
    BY DEF Idle
  <2>2. Bare(f)
    BY <2>1 DEF Bare, Pre
  <2>3. Become(t, f)
    BY <1>7 DEF RuntimeChat
  <2> HIDE DEF f
  <2> QED BY <1>4, <1>7, <2>2, <2>3
<1>8. ASSUME NEW t \in Requests, NEW id \in Ids, NEW s \in Sessions, Infer(t, id, s) PROVE UploadsOK'
  <2> DEFINE f == [Idle EXCEPT !.call = "ask", !.id = id, !.object = current[id], !.session = s, !.pc = "ask"]
  <2>1. f.call = "ask" /\ f.pc = "ask"
    BY DEF Idle
  <2>2. Bare(f)
    BY <2>1 DEF Bare, Pre
  <2>3. Become(t, f)
    BY <1>8 DEF Infer
  <2> HIDE DEF f
  <2> QED BY <1>4, <1>8, <2>2, <2>3
<1>9. ASSUME NEW id \in Ids, AppendOpen(id) PROVE UploadsOK'
  <2>0. PICK x \in Streams : x = stream[id]
    BY <1>9 DEF AppendOpen, TypeOK
  <2> DEFINE f == [Idle EXCEPT !.call = "append", !.id = id, !.stream = x, !.pc = "write"]
  <2>1. f.call = "append" /\ f.pc = "write" /\ f.id = id /\ f.stream = x
    BY DEF Idle
  <2>2. Become(EventLoop, f)
    BY <1>9, <2>0 DEF AppendOpen
  <2> HIDE DEF f
  <2>3. frame'[EventLoop] = f /\ \A u \in Threads : u # EventLoop => frame'[u] = frame[u]
    BY <1>0, <2>2, Landing
  <2>4. Steady /\ origin' = origin
    BY <1>9, SteadyIf DEF AppendOpen, childVars
  <2>5. ~Finalizing(id)
    BY <1>9, Alone DEF AppendOpen, Finalizing, Idle
  <2>6. Spent(origin[x], id) /\ origin[x] \notin Used /\ origin[x] \in Sessions
    BY <2>0, <2>5, NoneDistinct DEF UploadsOK, OriginOK, SecretInv, StreamsOK, TypeOK
  <2>7. origin[x] \notin Used' /\ Spent(origin[x], id)'
    BY <2>4, <2>6, NoneDistinct DEF Steady, Spent
  <2>8. Loads(frame[EventLoop])'
    BY <2>1, <2>3, <2>4, <2>7 DEF Loads, Pre, Spent
  <2> QED BY <1>0, <1>9, <2>3, <2>4, <2>8, RequestKept DEF AppendOpen
<1>10. ASSUME NEW s \in Sessions, NEW id \in Ids, Authorizes(s, id), Steady
       PROVE  /\ s \notin Used' /\ task'[s] = id
              /\ stream[id] # None => origin[stream[id]] # s
  BY <1>10, NoneDistinct DEF Authorizes, Live, Steady, UploadsOK, UsedOK, OriginOK, Spent
<1>11. ASSUME NEW t \in Requests, NEW id \in Ids, NEW s \in Sessions, Execute(t, id, s) PROVE UploadsOK'
  <2> DEFINE f == [Idle EXCEPT !.call = "execute", !.id = id, !.session = s, !.pc = "consume"]
  <2>1. f.call = "execute" /\ f.pc = "consume" /\ f.id = id /\ f.session = s
    BY DEF Idle
  <2>2. Become(t, f)
    BY <1>11 DEF Execute
  <2> HIDE DEF f
  <2>3. frame'[t] = f /\ \A u \in Threads : u # t => frame'[u] = frame[u]
    BY <1>0, <2>2, Landing
  <2>4. Steady /\ origin' = origin /\ stream' = stream
    BY <1>11, PurgeSteady DEF Execute
  <2>5. Loads(frame[t])'
    BY <1>10, <1>11, <2>1, <2>3, <2>4 DEF Loads, Execute
  <2> QED BY <1>0, <1>11, <2>3, <2>4, <2>5, RequestKept DEF Execute
<1>12. ASSUME NEW t \in Requests, NEW id \in Ids, NEW s \in Sessions, NEW x \in Streams, PrepareOpen(t, id, s, x)
       PROVE  UploadsOK'
  <2> DEFINE g == [Idle EXCEPT !.call = "prepare", !.id = id, !.object = current[id],
                               !.stream = x, !.session = s]
             f == [g EXCEPT !.pc = "pop", !.then = "mkdir"]
  <2>1. f.call = "prepare" /\ f.pc = "pop" /\ f.id = id /\ f.session = s /\ f.stream = x
    BY DEF Idle
  <2>2. Become(t, f)
    BY <1>12 DEF PrepareOpen, Stop
  <2> HIDE DEF f
  <2>3. frame'[t] = f /\ \A u \in Threads : u # t => frame'[u] = frame[u]
    BY <1>0, <2>2, Landing
  <2>4. Steady
    BY <1>12, PurgeSteady DEF PrepareOpen
  <2>5. origin'[x] = s /\ \A y \in Streams : origin[y] \in Sessions => origin'[y] = origin[y]
    BY <1>12, NoneDistinct DEF PrepareOpen, TypeOK
  <2>6. s \notin Used' /\ task'[s] = id
    BY <1>10, <1>12, <2>4 DEF PrepareOpen
  <2>7. Loads(frame[t])'
    BY <2>1, <2>3, <2>5, <2>6 DEF Loads, Pre
  <2> QED BY <1>0, <1>12, <2>3, <2>4, <2>5, <2>7, RequestKept DEF PrepareOpen
<1> QED BY <1>1, <1>2, <1>3, <1>5, <1>6, <1>7, <1>8, <1>9, <1>11, <1>12 DEF Request

\* A step of the surroundings that touches none of this.
LEMMA UploadsUntouched ==
  ASSUME UploadsOK, Used' = Used,
         UNCHANGED <<frame, stream, origin, archive, unpacked, model, task, table, consumed>>
  PROVE  UploadsOK'
<1>1. UsedOK'
  BY DEF UploadsOK, UsedOK
<1>2. ASSUME NEW id \in Ids PROVE ArchiveOK(id)'
  BY DEF UploadsOK, ArchiveOK, Spent, First
<1>3. ASSUME NEW id \in Ids PROVE OriginOK(id)'
  BY DEF UploadsOK, OriginOK, Spent, Finalizing
<1>4. ASSUME NEW t \in Threads PROVE Loads(frame[t])'
  <2>1. Loads(frame[t])
    BY DEF UploadsOK
  <2> QED BY <2>1 DEF Loads, Pre, Spent, Ready, First
<1> QED BY <1>1, <1>2, <1>3, <1>4 DEF UploadsOK

\* UploadsOK is kept.
LEMMA UploadsNext ==
  ASSUME TypeOK, SecretInv, Serial, UploadsOK, MaxInFlight = 1, [Next]_vars PROVE UploadsOK'
<1> USE DEF childVars, streamVars, diskVars, sessionVars
<1>1. ASSUME NEW t \in Threads, Step(t) PROVE UploadsOK'
  BY <1>1, StopUploads, StreamUploads, LoadUploads, LaunchUploads, ExecuteUploads DEF Step
<1>2. ASSUME NEW s \in Sessions, SessionExpires(s) PROVE UploadsOK'
  <2>1. Used' = Used
    BY <1>2 DEF SessionExpires, Used, Loaded
  <2> QED BY <1>2, <2>1, UploadsUntouched DEF SessionExpires
<1>3. ASSUME NEW p \in Children, ChildEnds(p) PROVE UploadsOK'
  <2>1. \A q \in Children : process'[q] = "none" <=> process[q] = "none"
    BY <1>3 DEF ChildEnds, TypeOK
  <2>2. Used' = Used
    BY <1>3, <2>1 DEF ChildEnds, Used, Loaded
  <2> QED BY <1>3, <2>2, UploadsUntouched DEF ChildEnds
<1>4. CASE Restart
  <2>1. \A q \in Children : process'[q] = "none" <=> process[q] = "none"
    BY <1>4 DEF Restart
  <2>2. Used' = Used
    BY <1>4, <2>1 DEF Restart, Used, Loaded
  <2>3. Steady
    BY <1>4, <2>2 DEF Restart, Steady
  <2>4. ASSUME NEW id \in Ids PROVE ArchiveOK(id)' /\ OriginOK(id)'
    <3>1. stream'[id] = None /\ UNCHANGED <<archive, unpacked>>
      BY <1>4 DEF Restart
    <3> QED BY <2>3, <3>1, ArchiveKept, OriginKept DEF UploadsOK, SecretInv
  <2>5. ASSUME NEW t \in Threads PROVE Loads(frame[t])'
    <3>1. frame'[t] = Idle
      BY <1>4 DEF Restart
    <3> QED BY <3>1, LoadsBare, IdleBare
  <2> QED BY <2>3, <2>4, <2>5, UsedKept DEF UploadsOK
<1>5. CASE CloseBegin
  <2>1. \A u \in Threads : frame[u] = Idle
    BY <1>5 DEF CloseBegin, InFlight, At, Threads, Serial, Tidy
  <2>2. PICK l \in {"next", "aborted"} : Become(Closer, [Idle EXCEPT !.call = "close", !.pc = l])
    BY <1>5 DEF CloseBegin
  <2> DEFINE f == [Idle EXCEPT !.call = "close", !.pc = l]
  <2>3. f.call = "close" /\ f.pc = l
    BY DEF Idle
  <2>4. Closer \in Threads /\ Bare(f)
    BY <2>3 DEF Threads, Bare, Pre
  <2>5. frame'[Closer] = f /\ \A u \in Threads : u # Closer => frame'[u] = frame[u]
    BY <2>2, <2>4, Landing
  <2> HIDE DEF f
  <2>6. Loads(frame[Closer])' /\ Stays(Closer)
    BY <2>1, <2>4, <2>5, LoadsBare DEF Stays, Idle
  <2>7. Steady
    BY <1>5, SteadyIf DEF CloseBegin
  <2> QED BY <1>5, <2>1, <2>4, <2>5, <2>6, <2>7, UploadsKept DEF CloseBegin, SecretInv
<1>6. CASE UNCHANGED vars
  <2>1. Used' = Used
    BY <1>6 DEF vars, Used, Loaded
  <2> QED BY <1>6, <2>1, UploadsUntouched DEF vars
<1>7. CASE Request
  BY <1>7, RequestUploads
<1> QED BY <1>1, <1>2, <1>3, <1>4, <1>5, <1>6, <1>7 DEF Next, Environment, Stopped

\* The initial state.
LEMMA InitUploads == Init => UploadsOK
  BY NoneDistinct DEF Init, UploadsOK, UsedOK, Used, ArchiveOK, OriginOK, Loads, Pre, Idle

-----------------------------------------------------------------------------
(* The refinement.                                                         *)

Serving == [id \in Ids |-> IF Alive(id) THEN Loaded(registered[id]) ELSE None]

\* What changes no child changes nothing there.
LEMMA ServedKept == ASSUME UNCHANGED childVars PROVE UNCHANGED Served!vars
<1>1. Serving' = Serving
  BY DEF Serving, Alive, Loaded, childVars
<1>2. Used' = Used
  BY DEF Used, Loaded, childVars
<1> QED BY <1>1, <1>2 DEF Served!vars, Serving, Used

\* Children that end, or are lost with the agent, take models from the served ones.
LEMMA DropStep ==
  ASSUME Used' = Used, serves' = serves,
         \A id \in Ids : Alive(id)' => Alive(id) /\ registered'[id] = registered[id]
  PROVE  Served!Next
<1> DEFINE gone == {id \in Ids : ~Alive(id)'}
<1>1. Serving' = [id \in Ids |-> IF id \in gone THEN None ELSE Serving[id]]
  BY DEF Serving, Loaded
<1>2. gone \in SUBSET Ids /\ Served!Drop(gone)
  BY <1>1 DEF Served!Drop, Serving, Used
<1> QED BY <1>2 DEF Served!Next

\* A child that is started serves an upload that was not loaded before, under an id
\* that serves nothing.
LEMMA LaunchStep ==
  ASSUME TypeOK, SecretInv, Serial, ChildrenOK, UploadsOK, NEW t \in Threads, Step(t),
         NEW p \in Children, LoadLaunch(t, p)
  PROVE  [Served!Next]_(Served!vars)
<1>0. PICK id \in Ids : id = frame[t].id
  BY DEF LoadLaunch, At, Placed, SecretInv, ThreadsOK
<1>1. frame[t].pc = "launch" /\ ~Alive(id)
  BY <1>0 DEF LoadLaunch, At, ChildrenOK, Clearing
<1>2. CASE UNCHANGED childVars
  BY <1>2, ServedKept
<1>3. CASE /\ process[p] = "none"
           /\ process'    = [process EXCEPT ![p] = "running"]
           /\ serves'     = [serves EXCEPT ![p] = model[id]]
           /\ registered' = [registered EXCEPT ![id] = p]
  <2>1. Ready(model[id], id) /\ model[id] \in Seq(Chunk)
    BY <1>0, <1>1 DEF UploadsOK, Loads, TypeOK
  <2>2. PICK s \in Sessions : s = First(model[id]) /\ s \notin Used
    BY <2>1, FirstType DEF Ready
  <2>3. serves'[p][1][1] = s /\ \A q \in Children : q # p => serves'[q] = serves[q]
    BY <1>3, <2>2 DEF TypeOK, First
  <2>4. Used' = Used \cup {s}
    BY <1>3, <2>3, LaunchUses
  <2>5. registered'[id] = p /\ process'[p] = "running"
    BY <1>3 DEF TypeOK
  <2>6. ASSUME NEW i \in Ids, i # id
        PROVE  registered'[i] = registered[i] /\ (Alive(i)' <=> Alive(i)) /\ (Alive(i) => Loaded(registered[i])' = Loaded(registered[i]))
    <3>1. registered'[i] = registered[i] /\ registered[i] # p
      BY <1>3, <2>6, NoneDistinct DEF ChildrenOK, TypeOK
    <3>2. registered[i] # None => registered[i] \in Children /\ process'[registered[i]] = process[registered[i]]
      BY <1>3, <2>6, <3>1 DEF TypeOK
    <3>3. Alive(i)' <=> Alive(i)
      BY <3>1, <3>2 DEF Alive
    <3> QED BY <2>3, <3>1, <3>2, <3>3 DEF Alive, Loaded
  <2>7. Alive(id)' /\ Loaded(registered[id])' = s
    BY <2>3, <2>5, NoneDistinct DEF Alive, Loaded
  <2>8. Serving' = [Serving EXCEPT ![id] = s] /\ Serving[id] = None
    BY <1>1, <2>6, <2>7 DEF Serving
  <2>9. Served!Load(id, s)
    BY <2>2, <2>4, <2>8 DEF Served!Load, Serving, Used
  <2> QED BY <2>9 DEF Served!Next
<1> QED BY <1>0, <1>2, <1>3 DEF LoadLaunch

\* Every step is a step of ServedModels, or changes nothing there.
LEMMA ServedStep ==
  ASSUME TypeOK, SecretInv, Serial, ChildrenOK, UploadsOK, [Next]_vars
  PROVE  [Served!Next]_(Served!vars)
<1> USE DEF childVars
<1>1. CASE UNCHANGED childVars
  BY <1>1, ServedKept
<1>2. ASSUME NEW t \in Threads, Step(t) PROVE [Served!Next]_(Served!vars)
  <2>1. CASE StopPop(t)
    <3>1. Used' = Used /\ serves' = serves
      BY <2>1 DEF StopPop, Used, Loaded
    <3>2. \A id \in Ids : Alive(id)' => Alive(id) /\ registered'[id] = registered[id]
      BY <2>1 DEF StopPop, Alive, TypeOK
    <3> QED BY <3>1, <3>2, DropStep
  <2>2. CASE StopKill(t)
    <3>1. /\ \A q \in Children : process'[q] = "none" <=> process[q] = "none"
          /\ \A q \in Children : process'[q] = "running" => process[q] = "running"
          /\ serves' = serves /\ registered' = registered
      BY <2>2 DEF StopKill, TypeOK
    <3>2. Used' = Used
      BY <3>1 DEF Used, Loaded
    <3>3. \A id \in Ids : Alive(id)' => Alive(id) /\ registered'[id] = registered[id]
      BY <3>1 DEF Alive, TypeOK
    <3> QED BY <3>1, <3>2, <3>3, DropStep
  <2>3. CASE \E p \in Children : LoadLaunch(t, p)
    BY <1>2, <2>3, LaunchStep
  <2>4. CASE \/ Retire(t) \/ StopLook(t) \/ StopWipe(t) \/ StopRaises(t) \/ MakeDirectory(t)
             \/ PrepareCommit(t) \/ AppendWrite(t) \/ FinalizeMark(t) \/ FinalizeFailed(t)
             \/ FinalizeRelease(t) \/ LoadCheck(t) \/ LoadUnpack(t) \/ LoadExtract(t)
    BY <1>1, <2>4 DEF Retire, StopLook, StopWipe, StopRaises, MakeDirectory, PrepareCommit, AppendWrite,
                      FinalizeMark, FinalizeFailed, FinalizeRelease, LoadCheck, LoadUnpack, LoadExtract
  <2>5. CASE LoadWait(t) \/ LoadOnline(t) \/ Consume(t) \/ Activate(t) \/ ActivateFill(t) \/ Ask(t) \/ CloseNext(t)
    BY <1>1, <2>5 DEF LoadWait, LoadOnline, Consume, Activate, ActivateFill, Ask, CloseNext
  <2> QED BY <1>2, <2>1, <2>2, <2>3, <2>4, <2>5 DEF Step
<1>3. ASSUME NEW p \in Children, ChildEnds(p) PROVE Served!Next
  <2>1. /\ \A q \in Children : process'[q] = "none" <=> process[q] = "none"
        /\ \A q \in Children : process'[q] = "running" => process[q] = "running"
        /\ serves' = serves /\ registered' = registered
    BY <1>3 DEF ChildEnds, TypeOK
  <2>2. Used' = Used
    BY <2>1 DEF Used, Loaded
  <2>3. \A id \in Ids : Alive(id)' => Alive(id) /\ registered'[id] = registered[id]
    BY <2>1 DEF Alive, TypeOK
  <2> QED BY <2>1, <2>2, <2>3, DropStep
<1>4. CASE Restart
  <2>1. \A q \in Children : process'[q] = "none" <=> process[q] = "none"
    BY <1>4 DEF Restart
  <2>2. Used' = Used /\ serves' = serves
    BY <1>4, <2>1 DEF Restart, Used, Loaded
  <2>3. \A id \in Ids : ~Alive(id)'
    BY <1>4 DEF Restart, Alive
  <2> QED BY <2>2, <2>3, DropStep
<1>5. CASE Request
  BY <1>1, <1>5, RequestKeeps
<1>6. ASSUME NEW s \in Sessions, SessionExpires(s) PROVE UNCHANGED childVars
  BY <1>6 DEF SessionExpires
<1>7. CASE CloseBegin
  BY <1>1, <1>7 DEF CloseBegin
<1>8. CASE UNCHANGED vars
  BY <1>1, <1>8 DEF vars
<1> QED BY <1>1, <1>2, <1>3, <1>4, <1>5, <1>6, <1>7, <1>8 DEF Next, Environment, Stopped

LEMMA InitServed == Init => Served!Init
  BY NoneDistinct DEF Init, Served!Init, Alive, Loaded

\* As long as clients have one request in flight at a time, what deployments serve
\* is what ServedModels promises: an authorization is good for one load of its
\* upload, under its own id, whatever fails, ends, expires or restarts.
THEOREM LoadsAuthorizedWhenSerial == ASSUME MaxInFlight = 1 PROVE Spec => LoadsAreAuthorized
<1> DEFINE IInv == TypeOK /\ SecretInv /\ Serial /\ ChildrenOK /\ UploadsOK
<1>1. Init => IInv
  BY InitOK, InitServes, InitUploads
<1>2. IInv /\ [Next]_vars => IInv'
  BY Inductive, SerialStep, ChildrenNext, UploadsNext
<1>3. IInv /\ [Next]_vars => [Served!Next]_(Served!vars)
  BY ServedStep
<1> QED BY <1>1, <1>2, <1>3, InitServed, PTL DEF Spec, LoadsAreAuthorized, Served!Spec
=============================================================================
