------------------------ MODULE ServedUploads_proofs ------------------------
(* What a deployment keeps and serves: with one request in flight at a     *)
(* time a credential has a session, offline and close() leave nothing      *)
(* behind, and what is ONLINE serves the upload its session authorized,    *)
(* for every set of ids, objects, streams, children, ports and sessions,   *)
(* whatever expires, fails or ends, and however often the agent restarts.  *)
EXTENDS ServedModels_proofs

-----------------------------------------------------------------------------
(* Local states.                                                           *)

\* A step that ends the handler of thread t.
Rests(t) ==
  /\ frame'[t].call = "none"
  /\ frame'[t].pc \in {"idle", "aborted"} \/ (At(t, "next") /\ frame'[t].pc = "closed")

\* A step that goes on with the same request.
Carries(t) ==
  /\ frame'[t].call = frame[t].call /\ frame'[t].id = frame[t].id
  /\ frame'[t].object = frame[t].object /\ frame'[t].stream = frame[t].stream
  /\ frame'[t].session = frame[t].session

\* The labels that can follow each label of a handler that goes on.
Path(t) ==
  /\ At(t, "pop") => frame'[t].pc = "kill"
  /\ At(t, "kill") => frame'[t].pc = "look"
  /\ At(t, "look") => frame'[t].pc \in {"wipe", frame[t].then}
  /\ At(t, "wipe") => \/ frame'[t].pc = frame[t].then
                      \/ frame[t].call = "finalize" /\ frame'[t].pc = "release"
  /\ At(t, "mkdir") => frame'[t].pc \in {"mkdir", "fill", "commit"}
  /\ At(t, "mark") => frame'[t].pc = "check"
  /\ At(t, "failed") => frame'[t].pc = "pop" /\ frame'[t].then = "release"
  /\ At(t, "check") => frame'[t].pc \in {"unpack", "failed"}
  /\ At(t, "unpack") => frame'[t].pc \in {"extract", "release"}
  /\ At(t, "extract") => frame'[t].pc \in {"launch", "failed"}
  /\ At(t, "launch") => frame'[t].pc \in {"wait", "failed", "release"}
  /\ At(t, "wait") => \/ frame'[t].pc = "online"
                      \/ frame'[t].pc = "pop" /\ frame'[t].then \in {"failed", "escape"}
  /\ At(t, "online") => frame'[t].pc = "release"
  /\ At(t, "consume") => frame'[t].pc = "activate"
  /\ At(t, "fill") => frame'[t].pc = "check"
  /\ At(t, "escape") => frame'[t].pc = "release"
  /\ frame[t].pc \in {"pop", "kill", "look"} /\ frame'[t].pc \in Stops => frame'[t].then = frame[t].then
  /\ frame[t].pc \notin {"idle", "retire", "commit", "write", "release", "ask", "activate", "next",
                         "closed", "aborted"}
  /\ frame'[t].pc = "release" => frame[t].call = "finalize" \/ frame[t].then = "release"
  /\ frame'[t].pc = "failed" => frame[t].call = "finalize" \/ frame[t].then = "failed"

\* The activation finds its deployment, close() turns to the next one.
Turns(t) ==
  /\ frame'[t].call = frame[t].call /\ frame'[t].stream = frame[t].stream
  /\ frame'[t].session = frame[t].session /\ frame'[t].pc = "pop"
  /\ \/ /\ At(t, "activate") /\ frame'[t].then = "mkdir" /\ frame'[t].id = frame[t].id
        /\ frame'[t].object = current[frame[t].id] /\ Known(frame[t].id)
        /\ source[current[frame[t].id]] = "LOCAL_WEIGHTS"
     \/ /\ At(t, "next") /\ frame'[t].then = "next" /\ frame'[t].id \in todo
        /\ todo' = todo \ {frame'[t].id} /\ secret' = secret \ {current[frame'[t].id]}

\* The local states in which steps end.
LEMMA GotoLands ==
  ASSUME TypeOK, NEW t \in Threads, NEW l, Goto(t, l)
  PROVE  /\ Carries(t) /\ frame'[t].pc = l
         /\ frame'[t].child = frame[t].child /\ frame'[t].data = frame[t].data
         /\ frame'[t].then = frame[t].then
<1> DEFINE f == [frame[t] EXCEPT !.pc = l]
<1>1. /\ f.pc = l /\ f.call = frame[t].call /\ f.id = frame[t].id
      /\ f.object = frame[t].object /\ f.stream = frame[t].stream /\ f.session = frame[t].session
      /\ f.child = frame[t].child /\ f.data = frame[t].data /\ f.then = frame[t].then
  BY ThreadType DEF Frame
<1>2. frame'[t] = f
  BY Landing DEF Goto
<1> HIDE DEF f
<1> QED BY <1>1, <1>2 DEF Carries

LEMMA StopLands ==
  ASSUME TypeOK, NEW t \in Threads, NEW f \in Frame, NEW l, Stop(t, f, l)
  PROVE  /\ frame'[t].pc = "pop" /\ frame'[t].then = l /\ frame'[t].call = f.call
         /\ frame'[t].id = f.id /\ frame'[t].object = f.object
         /\ frame'[t].stream = f.stream /\ frame'[t].session = f.session
<1> DEFINE g == [f EXCEPT !.pc = "pop", !.then = l]
<1>1. /\ g.pc = "pop" /\ g.then = l /\ g.call = f.call /\ g.id = f.id /\ g.object = f.object
      /\ g.stream = f.stream /\ g.session = f.session
  BY DEF Frame
<1>2. frame'[t] = g
  BY Landing DEF Stop
<1> HIDE DEF g
<1> QED BY <1>1, <1>2

LEMMA LeaveLands == ASSUME TypeOK, NEW t \in Threads, Leave(t) PROVE Rests(t) /\ frame'[t] = Idle
  BY LeavePc DEF Rests, Idle

LEMMA EscapeLands ==
  ASSUME TypeOK, NEW t \in Threads, Escape(t)
  PROVE  Rests(t) \/ (Carries(t) /\ frame'[t].pc = "release" /\ frame[t].call = "finalize")
<1>1. CASE frame[t].call = "finalize"
  <2>1. Goto(t, "release")
    BY <1>1 DEF Escape, Goto
  <2> QED BY <1>1, <2>1, GotoLands
<1>2. CASE frame[t].call = "close"
  <2>1. Become(t, [Idle EXCEPT !.pc = "aborted"])
    BY <1>2 DEF Escape
  <2>2. frame'[t] = [Idle EXCEPT !.pc = "aborted"]
    BY <2>1, Landing
  <2> QED BY <2>2 DEF Rests, Idle
<1>3. CASE frame[t].call \notin {"finalize", "close"}
  BY <1>3, LeaveLands DEF Escape, Leave
<1> QED BY <1>1, <1>2, <1>3

LEMMA FailLands ==
  ASSUME TypeOK, NEW t \in Threads, Fail(t)
  PROVE  Rests(t) \/ (Carries(t) /\ frame'[t].pc \in {"release", "failed"} /\ frame[t].call = "finalize")
  BY GotoLands, EscapeLands DEF Fail

\* What a step does to the local state of its thread.
LEMMA StepLands ==
  ASSUME TypeOK, SecretInv, Serial, NEW t \in Threads, Step(t)
  PROVE  Rests(t) \/ (Carries(t) /\ Path(t)) \/ Turns(t)
<1>0. frame[t] \in Frame /\ Placed(frame[t]) /\ Tidy(frame[t])
  BY ThreadType DEF SecretInv, ThreadsOK, Serial
<1> USE DEF At
<1>1. CASE Retire(t) \/ PrepareCommit(t) \/ AppendWrite(t) \/ FinalizeRelease(t) \/ Ask(t)
  BY <1>1, LeaveLands DEF Retire, PrepareCommit, AppendWrite, FinalizeRelease, Ask
<1>2. CASE FinalizeMark(t)
  BY <1>0, <1>2, GotoLands DEF FinalizeMark, Path, Stops
<1>3. CASE StopPop(t)
  <2> DEFINE f == [frame[t] EXCEPT !.child = registered[frame[t].id], !.pc = "kill"]
  <2>1. Become(t, f) /\ frame[t].pc = "pop"
    BY <1>3 DEF StopPop
  <2>2. /\ f.pc = "kill" /\ f.then = frame[t].then /\ f.call = frame[t].call /\ f.id = frame[t].id
        /\ f.object = frame[t].object /\ f.stream = frame[t].stream /\ f.session = frame[t].session
    BY <1>0 DEF Frame
  <2>3. frame'[t] = f
    BY <2>1, Landing
  <2> HIDE DEF f
  <2> QED BY <2>1, <2>2, <2>3 DEF Carries, Path
<1>4. CASE StopKill(t)
  <2> DEFINE f == [frame[t] EXCEPT !.child = None, !.pc = "look"]
  <2>1. Become(t, f) /\ frame[t].pc = "kill"
    BY <1>4 DEF StopKill
  <2>2. /\ f.pc = "look" /\ f.then = frame[t].then /\ f.call = frame[t].call /\ f.id = frame[t].id
        /\ f.object = frame[t].object /\ f.stream = frame[t].stream /\ f.session = frame[t].session
    BY <1>0 DEF Frame
  <2>3. frame'[t] = f
    BY <2>1, Landing
  <2> HIDE DEF f
  <2> QED BY <2>1, <2>2, <2>3 DEF Carries, Path
<1>5. CASE StopLook(t)
  <2>1. frame[t].pc = "look" /\ frame[t].then \notin Stops \cup {"idle"}
    BY <1>0, <1>5 DEF StopLook, Placed, Tidy, Stops
  <2>2. \E l \in {"wipe", frame[t].then} : Goto(t, l)
    BY <1>5 DEF StopLook
  <2>3. /\ Carries(t) /\ frame'[t].pc \in {"wipe", frame[t].then}
        /\ frame'[t].then = frame[t].then
    BY <2>2, GotoLands
  <2> QED BY <2>1, <2>3 DEF Path, Stops
<1>6. CASE StopWipe(t)
  <2>1. frame[t].pc = "wipe" /\ frame[t].then \notin Stops \cup {"idle"}
    BY <1>0, <1>6 DEF StopWipe, Placed, Tidy, Stops
  <2>2. CASE Goto(t, frame[t].then)
    BY <2>1, <2>2, GotoLands DEF Path, Stops
  <2>3. CASE Escape(t)
    BY <2>1, <2>3, EscapeLands DEF Path, Stops
  <2> QED BY <1>6, <2>2, <2>3 DEF StopWipe
<1>7. CASE StopRaises(t)
  BY <1>0, <1>7, EscapeLands DEF StopRaises, Path, Stops
<1>8. CASE MakeDirectory(t)
  <2>1. frame[t].pc = "mkdir" /\ frame[t].call # "finalize"
    BY <1>0, <1>8 DEF MakeDirectory, Placed
  <2>2. CASE Goto(t, IF frame[t].call = "execute" THEN "fill" ELSE "commit")
    BY <2>1, <2>2, GotoLands DEF Path, Stops
  <2>3. CASE frame' = frame
    BY <2>1, <2>3 DEF Path, Carries, Stops
  <2>4. CASE Escape(t)
    BY <2>1, <2>4, EscapeLands
  <2> QED BY <1>8, <2>2, <2>3, <2>4 DEF MakeDirectory
<1>9. CASE FinalizeFailed(t)
  BY <1>0, <1>9, StopLands DEF FinalizeFailed, Carries, Path
<1>10. CASE LoadCheck(t)
  <2>1. frame[t].pc = "check" /\ (Goto(t, "unpack") \/ (Fail(t) /\ archive[frame[t].id] = <<>>))
    BY <1>10 DEF LoadCheck
  <2>2. CASE Goto(t, "unpack")
    BY <2>1, <2>2, GotoLands DEF Path, Stops
  <2>3. CASE Fail(t)
    <3>1. CASE frame[t].call = "finalize"
      BY <2>1, <2>3, <3>1, GotoLands DEF Fail, Path, Stops
    <3>2. CASE frame[t].call # "finalize"
      BY <2>3, <3>2, FailLands
    <3> QED BY <3>1, <3>2
  <2> QED BY <2>1, <2>2, <2>3
<1>11. CASE LoadUnpack(t)
  <2> DEFINE f == [frame[t] EXCEPT !.data = archive[frame[t].id], !.pc = "extract"]
  <2>1. frame[t].pc = "unpack" /\ (Become(t, f) \/ Escape(t))
    BY <1>11 DEF LoadUnpack
  <2>2. /\ f.pc = "extract" /\ f.call = frame[t].call /\ f.id = frame[t].id
        /\ f.object = frame[t].object /\ f.stream = frame[t].stream /\ f.session = frame[t].session
    BY <1>0 DEF Frame
  <2>3. CASE Become(t, f)
    <3>1. frame'[t] = f
      BY <2>3, Landing
    <3> HIDE DEF f
    <3> QED BY <2>1, <2>2, <3>1 DEF Carries, Path
  <2>4. CASE Escape(t)
    BY <2>1, <2>4, EscapeLands DEF Path, Stops
  <2> QED BY <2>1, <2>3, <2>4
<1>12. CASE LoadExtract(t)
  <2> DEFINE f == [frame[t] EXCEPT !.data = <<>>, !.pc = "launch"]
  <2>1. frame[t].pc = "extract" /\ (Become(t, f) \/ Fail(t))
    BY <1>12 DEF LoadExtract
  <2>2. /\ f.pc = "launch" /\ f.call = frame[t].call /\ f.id = frame[t].id
        /\ f.object = frame[t].object /\ f.stream = frame[t].stream /\ f.session = frame[t].session
    BY <1>0 DEF Frame
  <2>3. CASE Become(t, f)
    <3>1. frame'[t] = f
      BY <2>3, Landing
    <3> HIDE DEF f
    <3> QED BY <2>1, <2>2, <3>1 DEF Carries, Path
  <2>4. CASE Fail(t)
    <3>1. CASE frame[t].call = "finalize"
      BY <2>1, <2>4, <3>1, GotoLands DEF Fail, Path, Stops
    <3>2. CASE frame[t].call # "finalize"
      BY <2>4, <3>2, FailLands
    <3> QED BY <3>1, <3>2
  <2> QED BY <2>1, <2>3, <2>4
<1>13. ASSUME NEW p \in Children, LoadLaunch(t, p) PROVE Rests(t) \/ (Carries(t) /\ Path(t))
  <2> DEFINE f == [frame[t] EXCEPT !.child = p, !.pc = "wait"]
  <2>1. frame[t].pc = "launch" /\ (Become(t, f) \/ Fail(t) \/ Escape(t))
    BY <1>13 DEF LoadLaunch
  <2>2. /\ f.pc = "wait" /\ f.call = frame[t].call /\ f.id = frame[t].id
        /\ f.object = frame[t].object /\ f.stream = frame[t].stream /\ f.session = frame[t].session
    BY <1>0 DEF Frame
  <2>3. CASE Become(t, f)
    <3>1. frame'[t] = f
      BY <2>3, Landing
    <3> HIDE DEF f
    <3> QED BY <2>1, <2>2, <3>1 DEF Carries, Path
  <2>4. CASE Fail(t) \/ Escape(t)
    BY <2>1, <2>4, FailLands, EscapeLands DEF Path, Stops
  <2> QED BY <2>1, <2>3, <2>4
<1>14. CASE LoadWait(t)
  <2> DEFINE f == [frame[t] EXCEPT !.child = None]
             l == IF frame[t].call = "finalize" THEN "failed" ELSE "escape"
  <2>1. frame[t].pc = "wait" /\ (Goto(t, "online") \/ Stop(t, f, l)) /\ l \in {"failed", "escape"}
    BY <1>14 DEF LoadWait
  <2>2. /\ f \in Frame /\ f.call = frame[t].call /\ f.id = frame[t].id
        /\ f.object = frame[t].object /\ f.stream = frame[t].stream /\ f.session = frame[t].session
    BY <1>0 DEF Frame
  <2> HIDE DEF f, l
  <2>3. CASE Goto(t, "online")
    BY <2>1, <2>3, GotoLands DEF Path, Stops
  <2>4. CASE Stop(t, f, l)
    BY <2>1, <2>2, <2>4, StopLands DEF Path, Carries
  <2> QED BY <2>1, <2>3, <2>4
<1>15. CASE LoadOnline(t)
  <2> DEFINE f == [frame[t] EXCEPT !.child = None, !.pc = "release"]
  <2>1. frame[t].pc = "online" /\ ((Become(t, f) /\ frame[t].call = "finalize") \/ Leave(t))
    BY <1>15 DEF LoadOnline
  <2>2. /\ f.pc = "release" /\ f.call = frame[t].call /\ f.id = frame[t].id
        /\ f.object = frame[t].object /\ f.stream = frame[t].stream /\ f.session = frame[t].session
    BY <1>0 DEF Frame
  <2>3. CASE Become(t, f) /\ frame[t].call = "finalize"
    <3>1. frame'[t] = f
      BY <2>3, Landing
    <3> HIDE DEF f
    <3> QED BY <2>1, <2>2, <2>3, <3>1 DEF Carries, Path
  <2>4. CASE Leave(t)
    BY <2>4, LeaveLands
  <2> QED BY <2>1, <2>3, <2>4
<1>16. CASE Consume(t)
  BY <1>16, GotoLands, LeaveLands DEF Consume, Path, Stops
<1>17. CASE Activate(t)
  <2> DEFINE f == [frame[t] EXCEPT !.object = current[frame[t].id]]
  <2>1. frame[t].pc = "activate" /\ frame[t].id \in Ids
    BY <1>0, <1>17 DEF Activate, Placed
  <2>2. current[frame[t].id] \in Objects \cup {None}
    BY <2>1 DEF TypeOK
  <2>3. /\ f \in Frame /\ f.call = frame[t].call /\ f.id = frame[t].id
        /\ f.object = current[frame[t].id] /\ f.stream = frame[t].stream
        /\ f.session = frame[t].session
    BY <1>0, <2>2 DEF Frame
  <2>4. \/ Leave(t)
        \/ /\ Stop(t, f, "mkdir") /\ Known(frame[t].id)
           /\ source[current[frame[t].id]] = "LOCAL_WEIGHTS"
    BY <1>17 DEF Activate
  <2> HIDE DEF f
  <2> QED BY <2>1, <2>3, <2>4, LeaveLands, StopLands DEF Turns
<1>18. CASE ActivateFill(t)
  <2>1. frame[t].pc = "fill" /\ frame[t].call = "execute"
    BY <1>0, <1>18 DEF ActivateFill, Placed
  <2> QED BY <1>18, <2>1, GotoLands, EscapeLands DEF ActivateFill, Path, Stops
<1>19. CASE CloseNext(t)
  <2>1. frame[t].pc = "next"
    BY <1>19 DEF CloseNext
  <2>2. ASSUME NEW id \in todo, Stop(t, [frame[t] EXCEPT !.id = id], "next"), todo' = todo \ {id},
               secret' = secret \ {current[id]}
        PROVE  Turns(t)
    <3> DEFINE f == [frame[t] EXCEPT !.id = id]
    <3>1. /\ f \in Frame /\ f.call = frame[t].call /\ f.id = id
          /\ f.stream = frame[t].stream /\ f.session = frame[t].session
      BY <1>0, <2>2 DEF Frame, TypeOK
    <3> HIDE DEF f
    <3>2. Stop(t, f, "next")
      BY <2>2 DEF f
    <3> QED BY <2>1, <2>2, <3>1, <3>2, StopLands DEF Turns
  <2>3. ASSUME Become(t, [Idle EXCEPT !.pc = "closed"]) PROVE Rests(t)
    <3>1. frame'[t] = [Idle EXCEPT !.pc = "closed"]
      BY <2>3, Landing
    <3> QED BY <2>1, <3>1 DEF Rests, Idle
  <2> QED BY <1>19, <2>2, <2>3 DEF CloseNext
<1> QED BY <1>1, <1>2, <1>3, <1>4, <1>5, <1>6, <1>7, <1>8, <1>9, <1>10, <1>11, <1>12, <1>13,
           <1>14, <1>15, <1>16, <1>17, <1>18, <1>19 DEF Step

-----------------------------------------------------------------------------
(* Records.                                                                *)

\* An object is registered under one id, and a child runs for a deployment that is
\* registered.
RecordsOK ==
  /\ \A i, j \in Ids : current[i] # None /\ current[i] = current[j] => i = j
  /\ \A id \in Ids : Known(id) => status[current[id]] # "unused"
  /\ \A id \in Ids : registered[id] # None => Known(id)
  /\ \A p \in Children : process[p] = "running" => runs[p] \in Ids

\* A credential is that of a deployment with a provider, and has a session.
CredsOK == (\A o \in secret : source[o] = "OPENAI_COMPATIBLE") /\ CredentialHasSession

Gone(id) == ~Alive(id) /\ id \notin directory

\* An activation that has found its deployment.
Activated(t) == frame[t].call = "execute" /\ frame[t].pc \notin {"consume", "activate"}

\* What a handler works on is in the table, and what it loads are local weights.
ObjectOK(t) ==
  /\ frame[t].call \in {"offline", "prepare", "finalize"} \/ Activated(t) =>
       Known(frame[t].id) /\ frame[t].object = current[frame[t].id]
  /\ frame[t].call = "prepare" \/ Activated(t) => source[frame[t].object] = "LOCAL_WEIGHTS"
  /\ frame[t].call = "execute" => frame[t].session \in table

\* What close() has visited is cleared.
Cleared(t, id) ==
  /\ current[id] \notin secret
  /\ Gone(id) \/ (frame[t].pc \in Stops /\ frame[t].id = id)

\* After stop neither the child nor the directory is there.
GoneOK(t) ==
  /\ frame[t].pc \in {"retire", "mkdir"} => Gone(frame[t].id)
  /\ frame[t].call = "close" \/ frame[t].pc = "closed" =>
       \A id \in Ids : Known(id) => id \in todo \/ Cleared(t, id)
  /\ frame[t].pc = "closed" => todo = {}
  /\ frame[t].call = "close" =>
       frame[t].pc \in {"next", "aborted"} \/ (frame[t].pc \in Stops /\ frame[t].then = "next")

RecordInv ==
  /\ RecordsOK
  /\ CredsOK
  /\ \A t \in Threads : ObjectOK(t) /\ GoneOK(t)

\* No handler makes or forgets a record.
LEMMA StepKeeps ==
  ASSUME NEW t, Step(t) PROVE UNCHANGED <<current, source, origin, task, expired, restarts>>
<1> USE DEF deployVars, streamVars, childVars, sessionVars
<1>1. CASE \/ Retire(t) \/ StopPop(t) \/ StopKill(t) \/ StopLook(t) \/ StopWipe(t) \/ StopRaises(t)
           \/ MakeDirectory(t) \/ PrepareCommit(t) \/ AppendWrite(t)
           \/ FinalizeMark(t) \/ FinalizeFailed(t) \/ FinalizeRelease(t)
  BY <1>1 DEF Retire, StopPop, StopKill, StopLook, StopWipe, StopRaises, MakeDirectory, PrepareCommit,
              AppendWrite, FinalizeMark, FinalizeFailed, FinalizeRelease
<1>2. CASE \/ LoadCheck(t) \/ LoadUnpack(t) \/ LoadExtract(t)
           \/ (\E p \in Children : LoadLaunch(t, p)) \/ LoadWait(t) \/ LoadOnline(t)
           \/ Consume(t) \/ Activate(t) \/ ActivateFill(t) \/ Ask(t) \/ CloseNext(t)
  BY <1>2 DEF LoadCheck, LoadUnpack, LoadExtract, LoadLaunch, LoadWait, LoadOnline, Consume, Activate,
              ActivateFill, Ask, CloseNext
<1> QED BY <1>1, <1>2 DEF Step

\* The handlers that change the record of a deployment.
LEMMA StepRecords ==
  ASSUME NEW t, Step(t)
  PROVE  \/ UNCHANGED <<status, session, secret, table>>
         \/ Retire(t) \/ PrepareCommit(t) \/ FinalizeMark(t) \/ FinalizeFailed(t) \/ LoadOnline(t)
         \/ Activate(t) \/ CloseNext(t)
<1> USE DEF deployVars, sessionVars
<1>1. CASE \/ StopPop(t) \/ StopKill(t) \/ StopLook(t) \/ StopWipe(t) \/ StopRaises(t)
           \/ MakeDirectory(t) \/ AppendWrite(t) \/ FinalizeRelease(t)
  BY <1>1 DEF StopPop, StopKill, StopLook, StopWipe, StopRaises, MakeDirectory, AppendWrite, FinalizeRelease
<1>2. CASE \/ LoadCheck(t) \/ LoadUnpack(t) \/ LoadExtract(t)
           \/ (\E p \in Children : LoadLaunch(t, p)) \/ LoadWait(t)
           \/ Consume(t) \/ ActivateFill(t) \/ Ask(t)
  BY <1>2 DEF LoadCheck, LoadUnpack, LoadExtract, LoadLaunch, LoadWait, Consume, ActivateFill, Ask
<1> QED BY <1>1, <1>2 DEF Step

\* The handlers that change what is known of the children.
LEMMA StepChildren ==
  ASSUME NEW t, Step(t)
  PROVE  UNCHANGED childVars \/ StopPop(t) \/ StopKill(t) \/ \E p \in Children : LoadLaunch(t, p)
<1>1. CASE \/ Retire(t) \/ StopLook(t) \/ StopWipe(t) \/ StopRaises(t)
           \/ MakeDirectory(t) \/ PrepareCommit(t) \/ AppendWrite(t)
           \/ FinalizeMark(t) \/ FinalizeFailed(t) \/ FinalizeRelease(t)
  BY <1>1 DEF Retire, StopLook, StopWipe, StopRaises, MakeDirectory, PrepareCommit,
              AppendWrite, FinalizeMark, FinalizeFailed, FinalizeRelease
<1>2. CASE \/ LoadCheck(t) \/ LoadUnpack(t) \/ LoadExtract(t) \/ LoadWait(t) \/ LoadOnline(t)
           \/ Consume(t) \/ Activate(t) \/ ActivateFill(t) \/ Ask(t) \/ CloseNext(t)
  BY <1>2 DEF LoadCheck, LoadUnpack, LoadExtract, LoadWait, LoadOnline, Consume, Activate,
              ActivateFill, Ask, CloseNext
<1> QED BY <1>1, <1>2 DEF Step

\* The handlers that write below the directories.
LEMMA StepDisk ==
  ASSUME NEW t, Step(t)
  PROVE  \/ UNCHANGED diskVars
         \/ StopWipe(t) \/ MakeDirectory(t) \/ AppendWrite(t) \/ LoadUnpack(t) \/ LoadExtract(t)
         \/ ActivateFill(t)
<1>1. CASE \/ Retire(t) \/ StopPop(t) \/ StopKill(t) \/ StopLook(t) \/ StopRaises(t)
           \/ PrepareCommit(t) \/ FinalizeMark(t) \/ FinalizeFailed(t) \/ FinalizeRelease(t)
  BY <1>1 DEF Retire, StopPop, StopKill, StopLook, StopRaises, PrepareCommit,
              FinalizeMark, FinalizeFailed, FinalizeRelease
<1>2. CASE \/ LoadCheck(t) \/ (\E p \in Children : LoadLaunch(t, p)) \/ LoadWait(t) \/ LoadOnline(t)
           \/ Consume(t) \/ Activate(t) \/ Ask(t) \/ CloseNext(t)
  BY <1>2 DEF LoadCheck, LoadLaunch, LoadWait, LoadOnline, Consume, Activate, Ask, CloseNext
<1> QED BY <1>1, <1>2 DEF Step

\* What a step of thread t may count on.
LEMMA StepFacts ==
  ASSUME TypeOK, SecretInv, Serial, RecordInv, NEW t \in Threads, Step(t)
  PROVE  /\ frame[t] \in Frame /\ Placed(frame[t]) /\ Holds(t) /\ ObjectOK(t) /\ GoneOK(t)
         /\ \A u \in Threads : u # t => frame[u] = Idle /\ frame'[u] = Idle
  BY ThreadType, StepAlone DEF SecretInv, ThreadsOK, RecordInv

\* A handler keeps every record it finds.
LEMMA StatusKept ==
  ASSUME TypeOK, NEW t \in Threads, Step(t)
  PROVE  \A o \in Objects : status[o] # "unused" => status'[o] # "unused"
BY StepRecords DEF Retire, PrepareCommit, FinalizeMark, FinalizeFailed, LoadOnline, Activate, CloseNext, TypeOK

LEMMA RecordsStep ==
  ASSUME TypeOK, SecretInv, Serial, RecordInv, NEW t \in Threads, Step(t)
  PROVE  RecordsOK'
<1>0. RecordsOK /\ Placed(frame[t]) /\ ObjectOK(t)
  BY StepFacts DEF RecordInv
<1>1. current' = current /\ \A id \in Ids : Known(id) => status'[current[id]] # "unused"
  BY <1>0, StepKeeps, StatusKept DEF RecordsOK, Known, TypeOK
<1>2. /\ \A id \in Ids : registered'[id] # None => Known(id)
      /\ \A p \in Children : process'[p] = "running" => runs'[p] \in Ids
  <2>1. CASE UNCHANGED childVars
    BY <1>0, <2>1 DEF childVars, RecordsOK
  <2>2. CASE StopPop(t) \/ StopKill(t)
    BY <1>0, <2>2 DEF StopPop, StopKill, RecordsOK, TypeOK
  <2>3. ASSUME NEW p \in Children, LoadLaunch(t, p)
        PROVE  /\ \A id \in Ids : registered'[id] # None => Known(id)
               /\ \A q \in Children : process'[q] = "running" => runs'[q] \in Ids
    <3>1. frame[t].id \in Ids /\ Known(frame[t].id)
      BY <1>0, <2>3 DEF LoadLaunch, At, Placed, Loading, ObjectOK, Activated
    <3> QED BY <1>0, <2>3, <3>1 DEF LoadLaunch, RecordsOK, TypeOK, childVars
  <2> QED BY <2>1, <2>2, <2>3, StepChildren
<1> QED BY <1>0, <1>1, <1>2 DEF RecordsOK, Known

\* What holds credentials, and the sessions of what does.
LEMMA CredsStep ==
  ASSUME TypeOK, SecretInv, Serial, RecordInv, NEW t \in Threads, Step(t)
  PROVE  CredsOK'
<1>0. /\ CredsOK /\ RecordsOK /\ Placed(frame[t]) /\ Holds(t) /\ ObjectOK(t) /\ GoneOK(t)
      /\ current' = current /\ source' = source
  BY StepFacts, StepKeeps DEF RecordInv
<1>1. CASE UNCHANGED <<status, session, secret, table>>
  BY <1>0, <1>1 DEF CredsOK, CredentialHasSession
<1>2. CASE Retire(t)
  <2>1. frame[t].object \notin secret
    BY <1>0, <1>2 DEF Retire, At, Placed, Holds
  <2>2. \A o \in secret : session'[o] = session[o]
    BY <1>2, <2>1 DEF Retire, TypeOK
  <2> QED BY <1>0, <1>2, <2>2 DEF Retire, CredsOK, CredentialHasSession, sessionVars
<1>3. CASE PrepareCommit(t)
  <2>1. frame[t].object \notin secret
    BY <1>0, <1>3 DEF PrepareCommit, At, Placed, ObjectOK, CredsOK
  <2>2. \A o \in secret : session'[o] = session[o]
    BY <1>3, <2>1 DEF PrepareCommit, TypeOK
  <2> QED BY <1>0, <1>3, <2>2 DEF PrepareCommit, CredsOK, CredentialHasSession
<1>4. CASE FinalizeMark(t) \/ FinalizeFailed(t)
  BY <1>0, <1>4 DEF FinalizeMark, FinalizeFailed, CredsOK, CredentialHasSession, sessionVars
<1>5. CASE LoadOnline(t)
  <2>1. frame[t].call # "finalize" => frame[t].object \notin secret
    BY <1>0, <1>5 DEF LoadOnline, At, Placed, Loading, ObjectOK, Activated, CredsOK
  <2>2. \A o \in secret : session'[o] = session[o]
    BY <1>5, <2>1 DEF LoadOnline, TypeOK
  <2> QED BY <1>0, <1>5, <2>2 DEF LoadOnline, CredsOK, CredentialHasSession, sessionVars
<1>6. CASE Activate(t)
  <2>1. frame[t].session \in table /\ frame[t].id \in Ids /\ table' = table
    BY <1>0, <1>6 DEF Activate, At, Placed, ObjectOK, sessionVars
  <2>2. CASE secret' \subseteq secret /\ session' = session
    BY <1>0, <2>1, <2>2 DEF CredsOK, CredentialHasSession
  <2>3. ASSUME NEW o \in Objects, source[o] = "OPENAI_COMPATIBLE", secret' = secret \cup {o},
               session' = [session EXCEPT ![o] = frame[t].session]
        PROVE  CredsOK'
    <3>1. \A x \in Objects : session'[x] = IF x = o THEN frame[t].session ELSE session[x]
      BY <2>3 DEF TypeOK
    <3>2. \A id \in Ids : current[id] \in secret' => current[id] = o \/ current[id] \in secret
      BY <2>3
    <3>3. secret' \subseteq Objects
      BY <2>3 DEF TypeOK
    <3> QED BY <1>0, <2>1, <2>3, <3>1, <3>2, <3>3 DEF CredsOK, CredentialHasSession
  <2>4. Known(frame[t].id) => current[frame[t].id] \in Objects
    BY <2>1 DEF TypeOK, Known
  <2> QED BY <1>6, <2>2, <2>3, <2>4 DEF Activate
<1>7. CASE CloseNext(t)
  <2>1. CASE todo = {}
    <3>1. \A id \in Ids : current[id] \notin secret
      BY <1>0, <1>7, <2>1, NoneDistinct DEF CloseNext, At, Placed, GoneOK, Cleared, Known, TypeOK
    <3> QED BY <1>0, <1>7, <2>1, <3>1 DEF CloseNext, CredsOK, CredentialHasSession
  <2>2. CASE todo # {}
    BY <1>0, <1>7, <2>2 DEF CloseNext, CredsOK, CredentialHasSession
  <2> QED BY <2>1, <2>2
<1> QED BY <1>1, <1>2, <1>3, <1>4, <1>5, <1>6, <1>7, StepRecords

\* What a handler works on.
LEMMA ObjectStep ==
  ASSUME TypeOK, SecretInv, Serial, RecordInv, NEW t \in Threads, Step(t)
  PROVE  ObjectOK(t)'
<1>0. /\ Placed(frame[t]) /\ ObjectOK(t)
      /\ current' = current /\ source' = source
  BY StepFacts, StepKeeps
<1>1. CASE Rests(t)
  BY <1>1 DEF Rests, ObjectOK, Activated
<1>2. table' = table \/ Rests(t)
  <2>1. CASE CloseNext(t) /\ todo = {}
    <3>1. frame'[t] = [Idle EXCEPT !.pc = "closed"]
      BY <2>1, Landing DEF CloseNext
    <3> QED BY <2>1, <3>1 DEF Rests, Idle, CloseNext
  <2>2. CASE CloseNext(t) /\ todo # {}
    BY <2>2 DEF CloseNext
  <2>3. CASE \/ Retire(t) \/ PrepareCommit(t) \/ FinalizeMark(t) \/ FinalizeFailed(t) \/ LoadOnline(t)
             \/ Activate(t)
    BY <2>3 DEF Retire, PrepareCommit, FinalizeMark, FinalizeFailed, LoadOnline, Activate, sessionVars
  <2> QED BY <2>1, <2>2, <2>3, StepRecords
<1>3. CASE Carries(t) /\ Path(t) /\ table' = table
  <2>1. Activated(t)' => Activated(t)
    BY <1>3 DEF Carries, Path, Activated, At
  <2> QED BY <1>0, <1>3, <2>1 DEF Carries, ObjectOK, Known
<1>4. CASE Turns(t) /\ table' = table
  BY <1>0, <1>4 DEF Turns, ObjectOK, Known, Activated, At, Placed
<1> QED BY <1>1, <1>2, <1>3, <1>4, StepLands

\* A step revives no child, and brings back no directory of a deployment whose handler
\* is not loading it.
LEMMA GoneKept ==
  ASSUME TypeOK, SecretInv, Serial, ChildrenOK, RecordInv, NEW t \in Threads, Step(t), NEW id \in Ids, Gone(id),
         frame[t].id = id => frame[t].pc \notin {"mkdir", "extract", "launch"}
  PROVE  Gone(id)'
<1>0. Placed(frame[t])
  BY StepFacts
<1>1. ~Alive(id)'
  <2>1. CASE UNCHANGED childVars
    BY <2>1 DEF childVars, Gone, Alive
  <2>2. CASE StopPop(t) \/ StopKill(t)
    BY <2>2 DEF StopPop, StopKill, Gone, Alive, TypeOK
  <2>3. ASSUME NEW p \in Children, LoadLaunch(t, p) PROVE ~Alive(id)'
    <3>1. frame[t].id # id /\ frame[t].id \in Ids
      BY <1>0, <2>3 DEF LoadLaunch, At, Placed
    <3>2. registered'[id] = registered[id]
      BY <2>3, <3>1 DEF LoadLaunch, TypeOK, childVars
    <3>3. process[p] = "none" => registered[id] # p
      BY NoneDistinct DEF ChildrenOK, TypeOK
    <3> QED BY <2>3, <3>2, <3>3 DEF LoadLaunch, Gone, Alive, TypeOK, childVars
  <2> QED BY <2>1, <2>2, <2>3, StepChildren
<1>2. id \notin directory'
  <2>1. CASE UNCHANGED diskVars
    BY <2>1 DEF diskVars, Gone
  <2>2. CASE \/ StopWipe(t) \/ AppendWrite(t) \/ LoadUnpack(t) \/ ActivateFill(t)
    BY <2>2 DEF StopWipe, AppendWrite, LoadUnpack, ActivateFill, Wiped, HalfWiped, Gone, diskVars
  <2>3. CASE MakeDirectory(t) \/ LoadExtract(t)
    BY <2>3 DEF MakeDirectory, LoadExtract, Wiped, HalfWiped, Gone, At, diskVars
  <2> QED BY <2>1, <2>2, <2>3, StepDisk
<1> QED BY <1>1, <1>2 DEF Gone

\* The label of a thread decides what it does.
LEMMA StepOf ==
  ASSUME NEW t, Step(t)
  PROVE  /\ At(t, "pop") => StopPop(t)
         /\ At(t, "kill") => StopKill(t)
         /\ At(t, "look") => StopLook(t)
         /\ At(t, "wipe") => StopWipe(t)
         /\ At(t, "mkdir") => MakeDirectory(t)
         /\ At(t, "next") => CloseNext(t)
         /\ At(t, "mark") => FinalizeMark(t)
         /\ At(t, "check") => LoadCheck(t)
         /\ At(t, "wait") => LoadWait(t)
         /\ At(t, "unpack") => LoadUnpack(t)
         /\ At(t, "extract") => LoadExtract(t)
         /\ At(t, "launch") => \E p \in Children : LoadLaunch(t, p)
         /\ At(t, "fill") => ActivateFill(t)
         /\ At(t, "write") => AppendWrite(t)
BY DEF Step, At, Retire, StopPop, StopKill, StopLook, StopWipe, StopRaises, MakeDirectory, PrepareCommit,
       AppendWrite, FinalizeMark, FinalizeFailed, FinalizeRelease, LoadCheck, LoadUnpack, LoadExtract,
       LoadLaunch, LoadWait, LoadOnline, Consume, Activate, ActivateFill, Ask, CloseNext

\* When stop returns the child and the directory are gone.
LEMMA StopEnds ==
  ASSUME TypeOK, SecretInv, Serial, ChildrenOK, RecordInv, NEW t \in Threads, Step(t),
         NEW id \in Ids, id = frame[t].id, frame[t].pc \in {"look", "wipe"}
  PROVE  ~Alive(id)' /\ (frame'[t].pc # "wipe" => id \notin directory')
<1>1. ~Alive(id)
  BY DEF ChildrenOK, Clearing
<1>2. CASE At(t, "look")
  <2>1. StopLook(t)
    BY <1>2, StepOf
  <2>2. id \in directory => Goto(t, "wipe")
    BY <2>1 DEF StopLook
  <2>3. id \in directory => frame'[t].pc = "wipe"
    BY <2>2, GotoLands
  <2> QED BY <1>1, <2>1, <2>3 DEF StopLook, Alive, childVars, diskVars
<1>3. CASE At(t, "wipe")
  <2>1. StopWipe(t)
    BY <1>3, StepOf
  <2>2. ~Disturbed(t)
    BY StepAlone, Undisturbed
  <2> QED BY <1>1, <2>1, <2>2 DEF StopWipe, Alive, Wiped, childVars, diskVars
<1> QED BY <1>2, <1>3 DEF At

\* Nothing comes back, and close() leaves out nothing.
LEMMA GoneStep ==
  ASSUME TypeOK, SecretInv, Serial, ChildrenOK, RecordInv, NEW t \in Threads, Step(t)
  PROVE  GoneOK(t)'
<1>0. /\ Placed(frame[t]) /\ Tidy(frame[t]) /\ GoneOK(t) /\ current' = current
  BY StepFacts, StepKeeps DEF Serial
<1>1. ASSUME NEW id \in Ids, id = frame'[t].id, frame'[t].pc \in {"retire", "mkdir"} PROVE Gone(id)'
  <2>1. Carries(t) /\ Path(t)
    BY <1>1, StepLands DEF Rests, Turns
  <2>2. id = frame[t].id
    BY <1>1, <2>1 DEF Carries
  <2>3. CASE frame[t].pc \in {"look", "wipe"}
    BY <1>1, <2>2, <2>3, StopEnds DEF Gone
  <2>4. frame[t].pc # "mkdir"
    <3> SUFFICES ASSUME At(t, "mkdir") PROVE FALSE
      BY DEF At
    <3>1. MakeDirectory(t) /\ id \notin directory
      BY <1>0, <2>2, StepOf DEF GoneOK, Gone, At
    <3>2. Escape(t) \/ \E l \in {"fill", "commit"} : Goto(t, l)
      BY <2>2, <3>1 DEF MakeDirectory
    <3> QED BY <1>1, <2>1, <3>2, GotoLands, EscapeLands DEF Rests
  <2>5. frame[t].pc \in {"look", "wipe", "mkdir"}
    BY <1>0, <1>1, <2>1, ThreadType DEF Path, At, Labels, Placed
  <2> QED BY <2>3, <2>4, <2>5
<1>2. frame'[t].pc \in {"retire", "mkdir"} => frame'[t].id \in Ids
  <2>1. frame'[t].pc \in {"retire", "mkdir"} => Carries(t) /\ Path(t)
    BY StepLands DEF Rests, Turns
  <2> QED BY <1>0, <2>1 DEF Carries, Path, Placed
<1>3. CASE At(t, "next")
  <2>1. CloseNext(t) /\ frame[t].call = "close" /\ frame[t].pc \notin Stops
    BY <1>0, <1>3, StepOf DEF Placed, At, Stops
  <2>2. ASSUME NEW id \in Ids, Known(id), id \notin todo PROVE Gone(id)' /\ current[id] \notin secret
    BY <1>0, <2>1, <2>2, GoneKept DEF GoneOK, Cleared, CloseNext, At
  <2>3. CASE todo = {}
    <3>1. frame'[t] = [Idle EXCEPT !.pc = "closed"] /\ todo' = {} /\ secret' = secret
      BY <2>1, <2>3, Landing DEF CloseNext
    <3>2. frame'[t].call = "none" /\ frame'[t].pc = "closed"
      BY <3>1 DEF Idle
    <3> QED BY <1>0, <2>2, <2>3, <3>1, <3>2 DEF GoneOK, Cleared, Known
  <2>4. CASE todo # {}
    <3>1. PICK id \in todo : /\ Stop(t, [frame[t] EXCEPT !.id = id], "next")
                             /\ todo' = todo \ {id} /\ secret' = secret \ {current[id]}
      BY <2>1, <2>4 DEF CloseNext
    <3> DEFINE f == [frame[t] EXCEPT !.id = id]
    <3>2. f \in Frame /\ f.id = id
      BY ThreadType, <3>1 DEF Frame, TypeOK
    <3> HIDE DEF f
    <3>3. Stop(t, f, "next")
      BY <3>1 DEF f
    <3>4. frame'[t].pc = "pop" /\ frame'[t].then = "next" /\ frame'[t].id = id
      BY <3>2, <3>3, StopLands
    <3> QED BY <1>0, <2>2, <3>1, <3>4 DEF GoneOK, Cleared, Known, Stops
  <2> QED BY <2>3, <2>4
<1>4. CASE ~At(t, "next") /\ (Rests(t) \/ frame[t].call # "close")
  <2>1. frame'[t].pc # "closed" /\ frame'[t].call # "close"
    <3>1. CASE Rests(t)
      BY <1>4, <3>1 DEF Rests
    <3>2. CASE ~Rests(t)
      <4>1. (Carries(t) /\ Path(t)) \/ Turns(t)
        BY <3>2, StepLands
      <4>2. frame'[t].call # "close"
        BY <1>4, <3>2, <4>1 DEF Carries, Turns
      <4>3. frame'[t].pc # "closed"
        BY <1>0, <4>1, ThreadType DEF Path, Turns, Placed, At, Labels
      <4> QED BY <4>2, <4>3
    <3> QED BY <3>1, <3>2
  <2> QED BY <1>1, <1>2, <2>1 DEF GoneOK
<1>5. CASE ~At(t, "next") /\ ~Rests(t) /\ frame[t].call = "close"
  <2>1. Carries(t) /\ Path(t)
    BY <1>0, <1>5, StepLands DEF Turns, Placed, At
  <2>2. frame[t].pc \in Stops
    BY <1>0, <2>1, <1>5 DEF Path, GoneOK, At
  <2>3. UNCHANGED <<secret, todo>>
    BY <2>2, StepOf DEF Stops, At, StopPop, StopKill, StopLook, StopWipe, deployVars
  <2>4. ASSUME NEW id \in Ids, Known(id), id \notin todo PROVE Cleared(t, id)'
    <3>1. Cleared(t, id)
      BY <1>0, <1>5, <2>4 DEF GoneOK
    <3>2. CASE Gone(id)
      <4>1. Gone(id)'
        BY <2>2, <3>2, GoneKept DEF Stops
      <4> QED BY <1>0, <2>3, <3>1, <4>1 DEF Cleared
    <3>3. CASE frame[t].id = id
      <4>1. CASE frame'[t].pc \in Stops
        BY <1>0, <2>1, <2>3, <3>1, <3>3, <4>1 DEF Cleared, Carries
      <4>2. CASE frame'[t].pc \notin Stops
        <5>1. frame[t].pc \in {"look", "wipe"}
          BY <2>1, <2>2, <4>2 DEF Path, Stops, At
        <5>2. Gone(id)'
          BY <3>3, <4>2, <5>1, StopEnds DEF Gone, Stops
        <5> QED BY <1>0, <2>3, <3>1, <5>2 DEF Cleared
      <4> QED BY <4>1, <4>2
    <3> QED BY <3>1, <3>2, <3>3 DEF Cleared
  <2>5. frame[t].then = "next"
    BY <1>0, <1>5, <2>2 DEF GoneOK, Stops
  <2>6. frame'[t].pc = "next" \/ (frame'[t].pc \in Stops /\ frame'[t].then = "next")
    BY <1>5, <2>1, <2>2, <2>5 DEF Path, Stops, At
  <2> QED BY <1>0, <1>1, <1>2, <2>3, <2>4, <2>6 DEF GoneOK, Known, Stops
<1> QED BY <1>3, <1>4, <1>5

\* A handler keeps the records.
LEMMA RecordStep ==
  ASSUME TypeOK, SecretInv, Serial, ChildrenOK, RecordInv, NEW t \in Threads, Step(t)
  PROVE  RecordInv'
<1>1. RecordsOK' /\ CredsOK' /\ ObjectOK(t)' /\ GoneOK(t)'
  BY RecordsStep, CredsStep, ObjectStep, GoneStep
<1>2. ASSUME NEW u \in Threads, u # t PROVE ObjectOK(u)' /\ GoneOK(u)'
  <2>1. frame'[u] = Idle
    BY <1>2, StepFacts
  <2> QED BY <2>1 DEF ObjectOK, GoneOK, Activated, Idle
<1> QED BY <1>1, <1>2 DEF RecordInv

\* What is at rest has no duties.
LEMMA RestRecords ==
  ASSUME NEW t, frame'[t] = Idle PROVE ObjectOK(t)' /\ GoneOK(t)'
  BY DEF ObjectOK, GoneOK, Activated, Idle

\* _purge and a new session keep what has a session.
LEMMA PurgeCreds ==
  ASSUME TypeOK, CredsOK, NEW made, Purge(made), UNCHANGED <<current, source>>
  PROVE  CredsOK'
<1>1. ASSUME NEW id \in Ids, current[id] \in secret \ Stale
      PROVE  session'[current[id]] \in table'
  <2>1. current[id] \in {current[i] : i \in Ids} \ {None} /\ current[id] \in Objects
    BY <1>1, NoneDistinct DEF TypeOK
  <2>2. session[current[id]] \in table /\ session[current[id]] \notin table \cap expired
    BY <1>1, <2>1 DEF Stale, CredsOK, CredentialHasSession
  <2> QED BY <1>1, <2>1, <2>2 DEF Purge, Live
<1> QED BY <1>1 DEF Purge, CredsOK, CredentialHasSession

\* A purge makes no record unused.
LEMMA PurgeRecords ==
  ASSUME TypeOK, RecordsOK, NEW made, Purge(made), UNCHANGED <<current, registered, process, runs>>
  PROVE  RecordsOK'
<1>1. \A o \in Objects : status'[o] \in {status[o], "AUTHORIZATION_REQUIRED"}
  BY DEF Purge
<1>2. \A id \in Ids : Known(id) => status'[current[id]] # "unused"
  BY <1>1, NoneDistinct DEF RecordsOK, Known, TypeOK
<1> QED BY <1>2 DEF RecordsOK, Known

\* The requests: nothing is at work before, and the thread that begins works on what
\* is in the table.
LEMMA RequestRecords ==
  ASSUME TypeOK, SecretInv, Serial, ChildrenOK, RecordInv, MaxInFlight = 1, Request
  PROVE  RecordInv'
<1> USE DEF childVars, sessionVars, deployVars
<1>0. /\ Requests \subseteq Threads /\ EventLoop \in Threads /\ RecordsOK /\ CredsOK
  BY DEF Threads, RecordInv
<1>1. ASSUME NEW t \in Threads, Admits(t), NEW f, Become(t, f), RecordsOK', CredsOK',
             f.pc \notin {"retire", "mkdir", "closed"}, f.call # "close", ObjectOK(t)'
      PROVE  RecordInv'
  <2>1. frame'[t] = f /\ \A u \in Threads : u # t => frame'[u] = Idle
    BY <1>1, Alone, Landing
  <2>2. GoneOK(t)'
    BY <1>1, <2>1 DEF GoneOK
  <2> QED BY <1>1, <2>1, <2>2, RestRecords DEF RecordInv
<1>2. ASSUME NEW t \in Threads, Admits(t), frame' = frame, RecordsOK', CredsOK' PROVE RecordInv'
  BY <1>2, Alone, RestRecords DEF RecordInv
<1>3. ASSUME NEW t \in Requests, Refuse(t) PROVE RecordInv'
  BY <1>0, <1>2, <1>3, PurgeCreds, PurgeRecords DEF Refuse
<1>4. ASSUME NEW t \in Requests, NEW s \in Sessions, NEW id \in Ids, CreateSession(t, s, id) PROVE RecordInv'
  BY <1>0, <1>2, <1>4, PurgeCreds, PurgeRecords DEF CreateSession
<1>5. ASSUME NEW t \in Requests, NEW id \in Ids, NEW o \in Objects, NEW src \in Sources, Register(t, id, o, src)
      PROVE  RecordInv'
  <2>1. /\ current' = [current EXCEPT ![id] = o] /\ status[o] = "unused" /\ o \notin secret
        /\ \A x \in Objects : x # o => status'[x] = status[x] /\ source'[x] = source[x]
        /\ status'[o] = "AUTHORIZATION_REQUIRED"
        /\ UNCHANGED <<session, secret, table, registered, process, runs>>
    BY <1>5 DEF Register, SecretInv, SecretsOK, TypeOK
  <2>2. \A i \in Ids : current[i] # o
    BY <1>0, <2>1, NoneDistinct DEF RecordsOK, Known, TypeOK
  <2>3. \A i \in Ids : current'[i] = IF i = id THEN o ELSE current[i]
    BY <2>1 DEF TypeOK
  <2>4. RecordsOK'
    BY <1>0, <2>1, <2>2, <2>3, NoneDistinct DEF RecordsOK, Known, TypeOK
  <2>5. CredsOK'
    BY <1>0, <2>1, <2>3 DEF CredsOK, CredentialHasSession, TypeOK
  <2> QED BY <1>0, <1>2, <1>5, <2>4, <2>5 DEF Register
<1>6. ASSUME NEW t \in Requests, NEW id \in Ids, Offline(t, id) PROVE RecordInv'
  <2> DEFINE g == [Idle EXCEPT !.call = "offline", !.id = id, !.object = current[id]]
             f == [g EXCEPT !.pc = "pop", !.then = "retire"]
  <2>1. f.call = "offline" /\ f.pc = "pop" /\ f.id = id /\ f.object = current[id]
    BY DEF Idle
  <2>2. Become(t, f)
    BY <1>6 DEF Offline, Stop
  <2> HIDE DEF f
  <2>3. frame'[t] = f
    BY <1>0, <2>2, Landing
  <2>4. RecordsOK' /\ CredsOK'
    BY <1>0, <1>6 DEF Offline, RecordsOK, CredsOK, CredentialHasSession, Known
  <2>5. ObjectOK(t)'
    BY <1>6, <2>1, <2>3 DEF ObjectOK, Activated, Offline, Known
  <2> QED BY <1>0, <1>1, <1>6, <2>1, <2>2, <2>4, <2>5 DEF Offline
<1>7. ASSUME NEW t \in Requests, NEW id \in Ids, NEW s \in Sessions, NEW x \in Streams, PrepareOpen(t, id, s, x)
      PROVE  RecordInv'
  <2> DEFINE g == [Idle EXCEPT !.call = "prepare", !.id = id, !.object = current[id],
                               !.stream = x, !.session = s]
             f == [g EXCEPT !.pc = "pop", !.then = "mkdir"]
  <2>1. f.call = "prepare" /\ f.pc = "pop" /\ f.id = id /\ f.object = current[id]
    BY DEF Idle
  <2>2. Become(t, f)
    BY <1>7 DEF PrepareOpen, Stop
  <2> HIDE DEF f
  <2>3. frame'[t] = f
    BY <1>0, <2>2, Landing
  <2>4. RecordsOK' /\ CredsOK'
    BY <1>0, <1>7, PurgeRecords, PurgeCreds DEF PrepareOpen
  <2>5. ObjectOK(t)'
    BY <1>7, <2>1, <2>3 DEF ObjectOK, Activated, PrepareOpen, Known
  <2> QED BY <1>0, <1>1, <1>7, <2>1, <2>2, <2>4, <2>5 DEF PrepareOpen
<1>8. ASSUME NEW id \in Ids, AppendOpen(id) PROVE RecordInv'
  <2> DEFINE f == [Idle EXCEPT !.call = "append", !.id = id, !.stream = stream[id], !.pc = "write"]
  <2>1. f.call = "append" /\ f.pc = "write"
    BY DEF Idle
  <2>2. Become(EventLoop, f)
    BY <1>8 DEF AppendOpen
  <2> HIDE DEF f
  <2>3. frame'[EventLoop] = f
    BY <1>0, <2>2, Landing
  <2>4. RecordsOK' /\ CredsOK'
    BY <1>0, <1>8 DEF AppendOpen, RecordsOK, CredsOK, CredentialHasSession, Known
  <2>5. ObjectOK(EventLoop)'
    BY <2>1, <2>3 DEF ObjectOK, Activated
  <2> QED BY <1>0, <1>1, <1>8, <2>1, <2>2, <2>4, <2>5 DEF AppendOpen
<1>9. ASSUME NEW t \in Requests, NEW id \in Ids, Finalize(t, id) PROVE RecordInv'
  <2> DEFINE f == [Idle EXCEPT !.call = "finalize", !.id = id, !.object = current[id],
                               !.stream = stream[id], !.pc = "mark"]
  <2>1. f.call = "finalize" /\ f.pc = "mark" /\ f.id = id /\ f.object = current[id]
    BY DEF Idle
  <2>2. Become(t, f)
    BY <1>9 DEF Finalize
  <2> HIDE DEF f
  <2>3. frame'[t] = f
    BY <1>0, <2>2, Landing
  <2>4. RecordsOK' /\ CredsOK'
    BY <1>0, <1>9 DEF Finalize, RecordsOK, CredsOK, CredentialHasSession, Known
  <2>5. ObjectOK(t)'
    BY <1>9, <2>1, <2>3 DEF ObjectOK, Activated, Finalize, Known
  <2> QED BY <1>0, <1>1, <1>9, <2>1, <2>2, <2>4, <2>5 DEF Finalize
<1>10. ASSUME NEW t \in Requests, NEW id \in Ids, NEW s \in Sessions, Execute(t, id, s) PROVE RecordInv'
  <2> DEFINE f == [Idle EXCEPT !.call = "execute", !.id = id, !.session = s, !.pc = "consume"]
  <2>1. f.call = "execute" /\ f.pc = "consume" /\ f.session = s
    BY DEF Idle
  <2>2. Become(t, f)
    BY <1>10 DEF Execute
  <2> HIDE DEF f
  <2>3. frame'[t] = f
    BY <1>0, <2>2, Landing
  <2>4. RecordsOK' /\ CredsOK'
    BY <1>0, <1>10, PurgeRecords, PurgeCreds DEF Execute
  <2>5. ObjectOK(t)'
    BY <1>10, <2>1, <2>3 DEF ObjectOK, Activated, Execute, Authorizes, Purge
  <2> QED BY <1>0, <1>1, <1>10, <2>1, <2>2, <2>4, <2>5 DEF Execute
<1>11. ASSUME NEW t \in Requests, NEW id \in Ids, NEW s \in Sessions, Infer(t, id, s) PROVE RecordInv'
  <2> DEFINE f == [Idle EXCEPT !.call = "ask", !.id = id, !.object = current[id], !.session = s, !.pc = "ask"]
  <2>1. f.call = "ask" /\ f.pc = "ask"
    BY DEF Idle
  <2>2. Become(t, f)
    BY <1>11 DEF Infer
  <2> HIDE DEF f
  <2>3. frame'[t] = f
    BY <1>0, <2>2, Landing
  <2>4. RecordsOK' /\ CredsOK'
    BY <1>0, <1>11, PurgeRecords, PurgeCreds DEF Infer
  <2>5. ObjectOK(t)'
    BY <2>1, <2>3 DEF ObjectOK, Activated
  <2> QED BY <1>0, <1>1, <1>11, <2>1, <2>2, <2>4, <2>5 DEF Infer
<1>12. ASSUME NEW t \in Requests, NEW id \in Ids, RuntimeChat(t, id) PROVE RecordInv'
  <2> DEFINE f == [Idle EXCEPT !.call = "ask", !.id = id, !.object = current[id], !.pc = "ask"]
  <2>1. f.call = "ask" /\ f.pc = "ask"
    BY DEF Idle
  <2>2. Become(t, f)
    BY <1>12 DEF RuntimeChat
  <2> HIDE DEF f
  <2>3. frame'[t] = f
    BY <1>0, <2>2, Landing
  <2>4. RecordsOK' /\ CredsOK'
    BY <1>0, <1>12 DEF RuntimeChat, RecordsOK, CredsOK, CredentialHasSession, Known
  <2>5. ObjectOK(t)'
    BY <2>1, <2>3 DEF ObjectOK, Activated
  <2> QED BY <1>0, <1>1, <1>12, <2>1, <2>2, <2>4, <2>5 DEF RuntimeChat
<1> QED BY <1>3, <1>4, <1>5, <1>6, <1>7, <1>8, <1>9, <1>10, <1>11, <1>12 DEF Request

\* RecordInv is kept.
LEMMA RecordNext ==
  ASSUME TypeOK, SecretInv, Serial, ChildrenOK, RecordInv, MaxInFlight = 1, [Next]_vars
  PROVE  RecordInv'
<1> USE DEF childVars, sessionVars, deployVars, diskVars
<1>0. RecordsOK /\ CredsOK /\ \A t \in Threads : ObjectOK(t) /\ GoneOK(t)
  BY DEF RecordInv
<1>1. ASSUME UNCHANGED <<current, source, status, session, secret, table, directory, registered, runs, frame, todo>>,
             \A p \in Children : process'[p] = "running" => process[p] = "running"
      PROVE  RecordInv'
  <2>1. RecordsOK' /\ CredsOK'
    BY <1>0, <1>1 DEF RecordsOK, CredsOK, CredentialHasSession, Known
  <2>2. \A id \in Ids : Alive(id)' => Alive(id)
    BY <1>1 DEF Alive, TypeOK
  <2>3. ASSUME NEW t \in Threads PROVE ObjectOK(t)' /\ GoneOK(t)'
    <3>1. ObjectOK(t)'
      BY <1>0, <1>1 DEF ObjectOK, Activated, Known
    <3>2. frame[t].pc \in {"retire", "mkdir"} => frame[t].id \in Ids
      BY DEF SecretInv, ThreadsOK, Placed
    <3>3. frame[t].pc \in {"retire", "mkdir"} => Gone(frame[t].id)'
      BY <1>0, <1>1, <2>2, <3>2 DEF GoneOK, Gone
    <3>4. ASSUME NEW id \in Ids, Cleared(t, id) PROVE Cleared(t, id)'
      BY <1>1, <2>2, <3>4 DEF Cleared, Gone
    <3> QED BY <1>0, <1>1, <3>1, <3>3, <3>4 DEF GoneOK, Known, Gone, Alive
  <2> QED BY <2>1, <2>3 DEF RecordInv
<1>2. ASSUME NEW s \in Sessions, SessionExpires(s) PROVE RecordInv'
  BY <1>1, <1>2 DEF SessionExpires
<1>3. ASSUME NEW p \in Children, ChildEnds(p) PROVE RecordInv'
  <2>1. \A q \in Children : process'[q] = "running" => process[q] = "running"
    BY <1>3 DEF ChildEnds, TypeOK
  <2> QED BY <1>1, <1>3, <2>1 DEF ChildEnds
<1>4. CASE Restart
  <2>1. \A t \in Threads : frame'[t] = Idle
    BY <1>4 DEF Restart
  <2>2. /\ \A id \in Ids : current'[id] = None /\ registered'[id] = None
        /\ \A p \in Children : process'[p] # "running"
        /\ secret' = {}
    BY <1>4 DEF Restart
  <2>3. RecordsOK'
    BY <2>2 DEF RecordsOK, Known
  <2>4. CredsOK'
    BY <2>2 DEF CredsOK, CredentialHasSession
  <2> QED BY <2>1, <2>3, <2>4, RestRecords DEF RecordInv
<1>5. CASE CloseBegin
  <2>1. \A u \in Threads : frame[u] = Idle
    BY <1>5 DEF CloseBegin, InFlight, At, Threads, Serial, Tidy
  <2>2. PICK l \in {"next", "aborted"} : Become(Closer, [Idle EXCEPT !.call = "close", !.pc = l])
    BY <1>5 DEF CloseBegin
  <2> DEFINE f == [Idle EXCEPT !.call = "close", !.pc = l]
  <2>3. f.call = "close" /\ f.pc = l /\ Closer \in Threads
    BY DEF Idle, Threads
  <2>4. frame'[Closer] = f /\ \A u \in Threads : u # Closer => frame'[u] = Idle
    BY <2>1, <2>2, <2>3, Landing
  <2> HIDE DEF f
  <2>5. RecordsOK' /\ CredsOK'
    BY <1>0, <1>5 DEF CloseBegin, RecordsOK, CredsOK, CredentialHasSession, Known
  <2>6. ObjectOK(Closer)'
    BY <2>3, <2>4 DEF ObjectOK, Activated
  <2>7. GoneOK(Closer)'
    BY <1>5, <2>3, <2>4 DEF GoneOK, CloseBegin, Known
  <2> QED BY <2>4, <2>5, <2>6, <2>7, RestRecords DEF RecordInv
<1>6. CASE UNCHANGED vars
  BY <1>1, <1>6 DEF vars
<1> QED BY <1>2, <1>3, <1>4, <1>5, <1>6, RecordStep, RequestRecords DEF Next, Environment, Stopped

\* The initial state.
LEMMA InitRecords == Init => RecordInv
<1> SUFFICES ASSUME Init PROVE RecordInv
  OBVIOUS
<1>1. RecordsOK /\ CredsOK
  BY DEF Init, RecordsOK, CredsOK, CredentialHasSession, Known
<1>2. ASSUME NEW t \in Threads PROVE ObjectOK(t) /\ GoneOK(t)
  <2>1. frame[t] = Idle
    BY DEF Init
  <2> QED BY <2>1 DEF ObjectOK, GoneOK, Activated, Idle
<1> QED BY <1>1, <1>2 DEF RecordInv

\* What the proofs below rest on.
ServedInv == TypeOK /\ SecretInv /\ Serial /\ ChildrenOK /\ RecordInv

LEMMA ServedInvariant == ASSUME MaxInFlight = 1 PROVE Spec => []ServedInv
<1>1. Init => ServedInv
  BY InitOK, InitServes, InitRecords DEF ServedInv
<1>2. ServedInv /\ [Next]_vars => ServedInv'
  BY Inductive, SerialStep, ChildrenNext, RecordNext DEF ServedInv
<1> QED BY <1>1, <1>2, PTL DEF Spec

\* Whenever clients wait for each answer, a deployment in the table holds a credential
\* only together with a session that was not purged (_purge, offline, close).
THEOREM CredentialsHaveSession == ASSUME MaxInFlight = 1 PROVE Spec => []CredentialHasSession
<1>1. ServedInv => CredentialHasSession
  BY DEF ServedInv, RecordInv, CredsOK
<1> QED BY <1>1, ServedInvariant, PTL

\* Whenever clients wait for each answer, close() that returns leaves no child running
\* and neither plaintext nor a credential of a deployment in the table ("Stop workers",
\* service.py close).
THEOREM ShutdownIsClean == ASSUME MaxInFlight = 1 PROVE Spec => []ShutdownStopsModels
<1>1. ServedInv => ShutdownStopsModels
  <2> SUFFICES ASSUME ServedInv, At(Closer, "closed") 
               PROVE  /\ \A p \in Children : process[p] # "running"
                      /\ \A id \in Ids : Known(id) => id \notin directory /\ current[id] \notin secret
    BY DEF ShutdownStopsModels
  <2>1. /\ TypeOK /\ Serial /\ ChildrenOK /\ RecordsOK /\ GoneOK(Closer) /\ Closer \in Threads
        /\ frame[Closer].pc = "closed"
    BY DEF ServedInv, RecordInv, At, Threads
  <2>2. ASSUME NEW id \in Ids, Known(id) PROVE Gone(id) /\ current[id] \notin secret
    BY <2>1, <2>2 DEF GoneOK, Cleared, Stops
  <2>3. ASSUME NEW p \in Children, process[p] = "running" PROVE FALSE
    <3>1. \A t \in Threads : ~At(t, "kill")
      <4>1. \A t \in Threads : t = Closer \/ frame[t] = Idle
        BY <2>1 DEF Serial, Idle
      <4> QED BY <2>1, <4>1 DEF At, Idle
    <3>2. registered[runs[p]] = p /\ runs[p] \in Ids
      BY <2>1, <2>3, <3>1 DEF ChildrenOK, OneChild, RecordsOK
    <3>3. Known(runs[p]) /\ Alive(runs[p])
      BY <2>1, <2>3, <3>2, NoneDistinct DEF RecordsOK, Alive
    <3> QED BY <2>2, <3>2, <3>3 DEF Gone
  <2> QED BY <2>2, <2>3 DEF Gone
<1> QED BY <1>1, ServedInvariant, PTL

\* Only offline makes a deployment OFFLINE.
LEMMA OfflineOnly ==
  ASSUME TypeOK, [Next]_vars, NEW o \in Objects, status[o] # "OFFLINE", status'[o] = "OFFLINE"
  PROVE  \E t \in Threads : Retire(t) /\ frame[t].object = o
<1> USE DEF deployVars
<1>1. ASSUME NEW made, Purge(made) PROVE FALSE
  BY <1>1 DEF Purge
<1>2. CASE Request
  <2>1. \/ \E made : Purge(made)
        \/ UNCHANGED status
        \/ \E t \in Requests, id \in Ids, x \in Objects, src \in Sources : Register(t, id, x, src)
    <3>1. ASSUME NEW t, NEW id, NEW s, NEW x,
                 \/ Refuse(t) \/ CreateSession(t, s, id) \/ Execute(t, id, s) \/ Infer(t, id, s)
                 \/ PrepareOpen(t, id, s, x)
          PROVE  \E made : Purge(made)
      BY <3>1 DEF Refuse, CreateSession, Execute, Infer, PrepareOpen
    <3>2. ASSUME NEW t, NEW id,
                 Offline(t, id) \/ Finalize(t, id) \/ RuntimeChat(t, id) \/ AppendOpen(id)
          PROVE  UNCHANGED status
      BY <3>2 DEF Offline, Finalize, RuntimeChat, AppendOpen
    <3> QED BY <1>2, <3>1, <3>2 DEF Request
  <2>2. ASSUME NEW t, NEW id, NEW x, NEW src, Register(t, id, x, src) PROVE FALSE
    BY <2>2 DEF Register, TypeOK
  <2> QED BY <1>1, <2>1, <2>2
<1>3. ASSUME NEW t \in Threads, Step(t) PROVE Retire(t) /\ frame[t].object = o
  BY <1>3, StepRecords DEF Retire, PrepareCommit, FinalizeMark, FinalizeFailed, LoadOnline, Activate, CloseNext, TypeOK
<1>4. CASE Environment \/ CloseBegin \/ UNCHANGED vars
  BY <1>4 DEF Environment, SessionExpires, ChildEnds, Restart, CloseBegin, vars
<1> QED BY <1>2, <1>3, <1>4 DEF Next, Stopped

\* Whenever clients wait for each answer, a deployment that goes OFFLINE has no child,
\* no plaintext on disk, no stream with an open DEK and no credential then
\* (offline_model_deployment: "The requested safe state").
THEOREM OfflineIsClean == ASSUME MaxInFlight = 1 PROVE Spec => OfflineCleans
<1>1. ServedInv /\ [Next]_vars =>
        \A id \in Ids : LET o == current[id] IN
          o # None /\ status[o] # "OFFLINE" /\ status'[o] = "OFFLINE"
            => /\ ~Alive(id)' /\ id \notin directory'
               /\ stream'[id] = None /\ stream[id] \notin dek'
               /\ o \notin secret'
  <2> SUFFICES ASSUME ServedInv, [Next]_vars, NEW id \in Ids, current[id] # None,
                      status[current[id]] # "OFFLINE", status'[current[id]] = "OFFLINE"
               PROVE  /\ ~Alive(id)' /\ id \notin directory'
                      /\ stream'[id] = None /\ stream[id] \notin dek'
                      /\ current[id] \notin secret'
    OBVIOUS
  <2>0. TypeOK /\ SecretInv /\ Serial /\ ChildrenOK /\ RecordInv /\ RecordsOK
    BY DEF ServedInv, RecordInv
  <2>1. current[id] \in Objects
    BY <2>0 DEF TypeOK
  <2>2. PICK t \in Threads : Retire(t) /\ frame[t].object = current[id]
    BY <2>0, <2>1, OfflineOnly
  <2>3. /\ frame[t].pc = "retire" /\ frame[t].call = "offline" /\ frame[t].id \in Ids
        /\ Holds(t) /\ ObjectOK(t) /\ GoneOK(t)
    BY <2>0, <2>2, StepFacts DEF Step, Retire, At, Placed
  <2>4. frame[t].id = id
    BY <2>0, <2>2, <2>3 DEF ObjectOK, Known, RecordsOK
  <2>5. Gone(id)
    BY <2>3, <2>4 DEF GoneOK
  <2>6. current[id] \notin secret
    BY <2>2, <2>3 DEF Holds
  <2>7. stream'[id] = None /\ stream[id] \notin dek'
    BY <2>0, <2>2, <2>4 DEF Retire, Drop, TypeOK
  <2> QED BY <2>2, <2>5, <2>6, <2>7 DEF Retire, Gone, Alive, childVars, diskVars
<1> QED BY <1>1, ServedInvariant, PTL DEF Spec, OfflineCleans

-----------------------------------------------------------------------------
(* What is served.                                                         *)

\* Where there is no directory there is nothing in it.
DiskOK == \A id \in Ids : id \notin directory => archive[id] = <<>> /\ id \notin unpacked

\* What was not made yet is empty.
FreshOK ==
  /\ \A x \in Streams : origin[x] = None => received[x] = 0
  /\ \A o \in Objects : status[o] = "unused" => session[o] = None

\* No session but s is bound to the local weights under id.
Owned(id, s) == source[current[id]] = "LOCAL_WEIGHTS" => session[current[id]] \in {None, s}

\* t has made the directory, or lets it be filled, for another upload.
Fills(t, id) ==
  /\ frame[t].id = id
  /\ \/ frame[t].pc \in {"commit", "fill"}
     \/ frame[t].call = "execute" /\ frame[t].pc \in {"check", "unpack"}

\* What the stream in the table has received lies in the directory that was made for it.
StreamOK(id) ==
  stream[id] # None /\ id \in directory \ unpacked /\ (\A t \in Threads : ~Fills(t, id)) =>
    /\ Len(archive[id]) = received[stream[id]]
    /\ \A i \in 1 .. received[stream[id]] : archive[id][i] = <<origin[stream[id]], i>>
    /\ Known(id) => Owned(id, origin[stream[id]])

\* The session whose upload a load is to serve.
Due(t) == IF frame[t].call = "execute" THEN frame[t].session ELSE origin[frame[t].stream]

\* The streams handlers work on.
WorkOK(t) ==
  /\ frame[t].call \in {"append", "finalize"} =>
       frame[t].stream # None /\ frame[t].stream = stream[frame[t].id]
  /\ frame[t].call = "finalize" => received[frame[t].stream] = Chunks
  /\ frame[t].call = "finalize" /\ frame[t].pc \in Loading => status[frame[t].object] = "LOADING"
  /\ frame[t].call = "prepare" => received[frame[t].stream] = 0

\* The directory that was made anew.
RoomOK(t) ==
  /\ frame[t].pc = "commit" => archive[frame[t].id] = <<>> /\ frame[t].id \notin unpacked
  /\ frame[t].pc = "commit" \/ (frame[t].call = "execute" /\ frame[t].pc \in {"fill", "check", "unpack"})
       => ~Alive(frame[t].id) /\ frame[t].id \in directory \ unpacked
  /\ frame[t].call = "execute" /\ frame[t].pc \in {"check", "unpack"} =>
       archive[frame[t].id] = Upload(frame[t].session)

\* What is loaded is the upload that is due, from the archive to the child.
CargoOK(t) ==
  /\ frame[t].pc = "extract" => frame[t].data = Upload(Due(t))
  /\ frame[t].pc = "launch" => model[frame[t].id] = Upload(Due(t))
  /\ frame[t].pc \in {"wait", "online"} =>
       registered[frame[t].id] = frame[t].child /\ serves[frame[t].child] = Upload(Due(t))
  /\ frame[t].pc \in {"extract", "launch", "wait", "online"} =>
       /\ frame[t].id \in unpacked
       /\ frame[t].call = "finalize" => Owned(frame[t].id, Due(t))

\* An activation replaces the child of an id.
Replaces(t, id) == frame[t].id = id /\ frame[t].call = "execute" /\ frame[t].pc \in {"pop", "wait", "online"}

ServesOK(id) ==
  /\ Known(id)
  /\ status[current[id]] = "ONLINE" /\ source[current[id]] = "LOCAL_WEIGHTS" /\ session[current[id]] # None
  /\ Alive(id)
  /\ \A t \in Threads : ~Replaces(t, id)
  => /\ endpoint[current[id]] = port[registered[id]]
     /\ serves[registered[id]] = Upload(session[current[id]])

CargoInv ==
  /\ DiskOK
  /\ FreshOK
  /\ \A id \in Ids : StreamOK(id) /\ ServesOK(id)
  /\ \A t \in Threads : WorkOK(t) /\ RoomOK(t) /\ CargoOK(t)

\* What the steps of a deployment rest on.
ServingInv == ServedInv /\ UploadsOK /\ CargoInv

\* A whole upload is one chunk after the other.
LEMMA WholeUpload ==
  ASSUME NEW u \in Seq(Chunk), NEW s, Len(u) = Chunks, \A i \in 1 .. Chunks : u[i] = <<s, i>>
  PROVE  u = Upload(s)
<1>1. u \in [1 .. Chunks -> Chunk]
  OBVIOUS
<1>2. u = [i \in 1 .. Chunks |-> u[i]]
  BY <1>1
<1> QED BY <1>2, Zenon DEF Upload

\* An upload has at least one chunk.
LEMMA UploadPart == ASSUME NEW s PROVE Upload(s) # <<>> 
<1>1. Chunks >= 1 /\ 1 \in 1 .. Chunks
  BY Bounds
<1>2. DOMAIN Upload(s) = 1 .. Chunks
  BY DEF Upload
<1>3. DOMAIN <<>> = {}
  OBVIOUS
<1> QED BY <1>1, <1>2, <1>3

\* What a step of thread t may count on.
LEMMA ServingFacts ==
  ASSUME ServingInv, NEW t \in Threads, Step(t)
  PROVE  /\ TypeOK /\ SecretInv /\ Serial /\ ChildrenOK /\ RecordInv /\ RecordsOK /\ CargoInv
         /\ Placed(frame[t]) /\ Holds(t) /\ ObjectOK(t) /\ GoneOK(t) /\ Loads(frame[t])
         /\ WorkOK(t) /\ RoomOK(t) /\ CargoOK(t)
         /\ \A u \in Threads : u # t => frame[u] = Idle /\ frame'[u] = Idle
         /\ UNCHANGED <<current, source, origin, task>>
<1>1. TypeOK /\ SecretInv /\ Serial /\ ChildrenOK /\ RecordInv /\ RecordsOK /\ CargoInv
  BY DEF ServingInv, ServedInv, RecordInv
<1>2. Loads(frame[t]) /\ WorkOK(t) /\ RoomOK(t) /\ CargoOK(t)
  BY DEF ServingInv, UploadsOK, CargoInv
<1> QED BY <1>1, <1>2, StepFacts, StepKeeps

\* Nothing is left in a directory that is not there.
LEMMA DiskStep == ASSUME ServingInv, NEW t \in Threads, Step(t) PROVE DiskOK'
<1>0. TypeOK /\ DiskOK /\ Placed(frame[t])
  BY ServingFacts DEF CargoInv
<1>1. CASE UNCHANGED diskVars
  BY <1>0, <1>1 DEF diskVars, DiskOK
<1>2. CASE StopWipe(t) \/ MakeDirectory(t)
  <2>1. ~Disturbed(t)
    BY ServingFacts, Undisturbed
  <2> QED BY <1>0, <1>2, <2>1 DEF StopWipe, MakeDirectory, Wiped, DiskOK, TypeOK, diskVars
<1>3. CASE AppendWrite(t) \/ LoadUnpack(t)
  BY <1>0, <1>3 DEF AppendWrite, LoadUnpack, DiskOK, TypeOK
<1>4. CASE LoadExtract(t) \/ ActivateFill(t)
  BY <1>0, <1>4 DEF LoadExtract, ActivateFill, DiskOK, TypeOK
<1> QED BY <1>1, <1>2, <1>3, <1>4, StepDisk

\* Only append receives anything.
LEMMA StepReceives == ASSUME NEW t, Step(t) PROVE received' = received \/ AppendWrite(t)
<1> USE DEF streamVars
<1>1. CASE \/ Retire(t) \/ StopPop(t) \/ StopKill(t) \/ StopLook(t) \/ StopWipe(t) \/ StopRaises(t)
           \/ MakeDirectory(t) \/ PrepareCommit(t)
           \/ FinalizeMark(t) \/ FinalizeFailed(t) \/ FinalizeRelease(t)
  BY <1>1 DEF Retire, StopPop, StopKill, StopLook, StopWipe, StopRaises, MakeDirectory, PrepareCommit,
              FinalizeMark, FinalizeFailed, FinalizeRelease
<1>2. CASE \/ LoadCheck(t) \/ LoadUnpack(t) \/ LoadExtract(t)
           \/ (\E p \in Children : LoadLaunch(t, p)) \/ LoadWait(t) \/ LoadOnline(t)
           \/ Consume(t) \/ Activate(t) \/ ActivateFill(t) \/ Ask(t) \/ CloseNext(t)
  BY <1>2 DEF LoadCheck, LoadUnpack, LoadExtract, LoadLaunch, LoadWait, LoadOnline, Consume, Activate,
              ActivateFill, Ask, CloseNext
<1> QED BY <1>1, <1>2 DEF Step

\* The handlers that take a stream out or put one in.
LEMMA StepStreams ==
  ASSUME NEW t, Step(t)
  PROVE  stream' = stream \/ Retire(t) \/ PrepareCommit(t) \/ FinalizeRelease(t) \/ CloseNext(t)
<1> USE DEF streamVars
<1>1. CASE \/ StopPop(t) \/ StopKill(t) \/ StopLook(t) \/ StopWipe(t) \/ StopRaises(t)
           \/ MakeDirectory(t) \/ AppendWrite(t) \/ FinalizeMark(t) \/ FinalizeFailed(t)
  BY <1>1 DEF StopPop, StopKill, StopLook, StopWipe, StopRaises, MakeDirectory, AppendWrite,
              FinalizeMark, FinalizeFailed
<1>2. CASE \/ LoadCheck(t) \/ LoadUnpack(t) \/ LoadExtract(t)
           \/ (\E p \in Children : LoadLaunch(t, p)) \/ LoadWait(t) \/ LoadOnline(t)
           \/ Consume(t) \/ Activate(t) \/ ActivateFill(t) \/ Ask(t)
  BY <1>2 DEF LoadCheck, LoadUnpack, LoadExtract, LoadLaunch, LoadWait, LoadOnline, Consume, Activate,
              ActivateFill, Ask
<1> QED BY <1>1, <1>2 DEF Step

\* A session is bound to a record that was made.
LEMMA FreshStep == ASSUME ServingInv, NEW t \in Threads, Step(t) PROVE FreshOK'
<1>0. TypeOK /\ FreshOK /\ Placed(frame[t]) /\ Holds(t) /\ UNCHANGED <<origin, current>>
  BY ServingFacts DEF CargoInv
<1>1. \A x \in Streams : origin'[x] = None => received'[x] = 0
  <2>1. CASE received' = received
    BY <1>0, <2>1 DEF FreshOK
  <2>2. CASE AppendWrite(t)
    <3>1. origin[frame[t].stream] # None
      BY <1>0, <2>2, NoneDistinct DEF AppendWrite, At, Placed, Holds
    <3> QED BY <1>0, <2>2, <3>1 DEF AppendWrite, FreshOK, TypeOK
  <2> QED BY <2>1, <2>2, StepReceives
<1>2. \A o \in Objects : status'[o] = "unused" => session'[o] = None
  <2>1. \A o \in Objects : session'[o] \in {session[o], None} \/ status'[o] # "unused"
    <3>1. CASE LoadOnline(t) \/ PrepareCommit(t) \/ Retire(t)
      BY <1>0, <3>1 DEF LoadOnline, PrepareCommit, Retire, TypeOK
    <3>2. CASE Activate(t) \/ FinalizeMark(t) \/ FinalizeFailed(t) \/ CloseNext(t)
      BY <1>0, <3>2 DEF Activate, FinalizeMark, FinalizeFailed, CloseNext, TypeOK
    <3> QED BY <3>1, <3>2, StepRecords
  <2> QED BY <1>0, <2>1, StatusKept DEF FreshOK
<1> QED BY <1>1, <1>2 DEF FreshOK

\* Streams of two deployments are different ones.
LEMMA StreamsApart ==
  ASSUME ServingInv, NEW i \in Ids, NEW j \in Ids, stream[i] # None, stream[i] = stream[j]
  PROVE  i = j
  BY DEF ServingInv, UploadsOK, OriginOK, Spent

\* A directory that is filled for another upload stays so until it is unpacked, or the
\* stream of that upload is in the table.
LEMMA FillsOn ==
  ASSUME ServingInv, NEW t \in Threads, Step(t), NEW id \in Ids, Fills(t, id), ~PrepareCommit(t)
  PROVE  Fills(t, id)' \/ id \notin directory' \ unpacked'
<1> USE DEF At
<1>0. TypeOK /\ Placed(frame[t]) /\ RoomOK(t)
  BY ServingFacts
<1>1. CASE frame[t].pc = "commit"
  BY <1>1 DEF Step, Retire, StopPop, StopKill, StopLook, StopWipe, StopRaises, MakeDirectory,
       AppendWrite, FinalizeMark, FinalizeFailed, FinalizeRelease, LoadCheck, LoadUnpack, LoadExtract,
       LoadLaunch, LoadWait, LoadOnline, Consume, Activate, ActivateFill, Ask, CloseNext
<1>2. CASE frame[t].pc = "fill"
  <2>1. ActivateFill(t) /\ frame[t].call = "execute" /\ id \in directory
    BY <1>0, <1>2, StepOf DEF Placed, RoomOK, Fills
  <2>2. Goto(t, "check")
    BY <2>1 DEF ActivateFill, Fills
  <2> QED BY <1>0, <2>1, <2>2, GotoLands DEF Carries, Fills
<1>3. CASE frame[t].call = "execute" /\ frame[t].pc = "check"
  <2>1. archive[id] # <<>>
    BY <1>0, <1>3, UploadPart DEF RoomOK, Fills
  <2>2. LoadCheck(t)
    BY <1>3, StepOf
  <2>3. Goto(t, "unpack")
    BY <2>1, <2>2 DEF LoadCheck, Fills
  <2> QED BY <1>0, <1>3, <2>3, GotoLands DEF Carries, Fills
<1>4. CASE frame[t].call = "execute" /\ frame[t].pc = "unpack"
  <2>1. LoadUnpack(t)
    BY <1>4, StepOf
  <2> QED BY <2>1 DEF LoadUnpack, Fills
<1> QED BY <1>0, <1>1, <1>2, <1>3, <1>4, ThreadType DEF Fills

\* A step that leaves stream, archive and session of an id, or empties them.
LEMMA StreamKept ==
  ASSUME ServingInv, NEW id \in Ids, StreamOK(id), current' = current, source' = source, origin' = origin,
         stream'[id] = None \/ (stream'[id] = stream[id] /\ received'[stream[id]] = received[stream[id]]),
         id \in directory' \ unpacked' => id \in directory \ unpacked /\ archive'[id] = archive[id],
         \A t \in Threads : Fills(t, id) => Fills(t, id)' \/ id \notin directory' \ unpacked',
         id \in directory' \ unpacked' /\ Known(id) /\ source[current[id]] = "LOCAL_WEIGHTS"
           => session'[current[id]] \in {None, session[current[id]]}
  PROVE  StreamOK(id)'
<1> SUFFICES ASSUME stream'[id] # None, id \in directory' \ unpacked', \A t \in Threads : ~Fills(t, id)'
             PROVE  /\ Len(archive'[id]) = received'[stream'[id]]
                    /\ \A i \in 1 .. received'[stream'[id]] : archive'[id][i] = <<origin'[stream'[id]], i>>
                    /\ Known(id) => Owned(id, origin[stream[id]])'
  BY DEF StreamOK, Known, Owned
<1>1. /\ stream'[id] = stream[id] /\ received'[stream[id]] = received[stream[id]] 
      /\ id \in directory \ unpacked /\ archive'[id] = archive[id]
      /\ \A t \in Threads : ~Fills(t, id)
  OBVIOUS
<1> QED BY <1>1 DEF StreamOK, Owned

\* A chunk is the next of the archive its stream fills.
LEMMA AppendStreams ==
  ASSUME ServingInv, NEW t \in Threads, AppendWrite(t), NEW id \in Ids PROVE StreamOK(id)'
<1> USE DEF deployVars
<1>0. /\ TypeOK /\ Placed(frame[t]) /\ Holds(t) /\ WorkOK(t) /\ StreamOK(id) /\ Step(t)
      /\ \A u \in Threads : u # t => frame[u] = Idle
  BY ServingFacts DEF CargoInv, Step
<1>1. /\ frame[t].pc = "write" /\ frame[t].call = "append" /\ frame[t].stream = stream[frame[t].id]
      /\ frame[t].stream \in Streams /\ frame[t].id \in Ids /\ frame[t].stream # None
  BY <1>0 DEF AppendWrite, At, Placed, WorkOK
<1>2. \A u \in Threads : ~Fills(u, id) /\ ~Fills(u, id)'
  <2>1. ~Fills(t, id)
    BY <1>1 DEF Fills
  <2>2. frame'[t] = Idle
    BY <1>0, LeavePc DEF AppendWrite
  <2> QED BY <1>0, <2>1, <2>2, ServingFacts DEF Fills, Idle
<1>3. CASE id # frame[t].id
  <2>1. stream[id] # None => stream[id] # frame[t].stream
    BY <1>1, <1>3, StreamsApart
  <2>2. archive'[id] = archive[id] /\ (stream[id] # None => received'[stream[id]] = received[stream[id]])
    BY <1>0, <1>3, <2>1 DEF AppendWrite, TypeOK
  <2> QED BY <1>0, <1>2, <2>2 DEF AppendWrite, StreamOK, Owned, Known
<1>4. CASE id = frame[t].id /\ UNCHANGED <<archive, received>>
  BY <1>0, <1>2, <1>4 DEF AppendWrite, StreamOK, Owned, Known
<1>5. CASE id = frame[t].id /\ ~UNCHANGED <<archive, received>>
  <2> DEFINE x == stream[id]  n == received[stream[id]]
  <2>1. /\ archive' = [archive EXCEPT ![id] = Append(archive[id], <<origin[x], n + 1>>)]
        /\ received' = [received EXCEPT ![x] = n + 1]
        /\ UNCHANGED <<stream, directory, unpacked, origin, deployVars>>
    BY <1>1, <1>5 DEF AppendWrite
  <2>2. archive[id] \in Seq(Chunk) /\ n \in Nat /\ x \in Streams /\ origin[x] \in Sessions
    BY <1>0, <1>1, <1>5 DEF TypeOK, Holds
  <2>3. <<origin[x], n + 1>> \in Chunk
    BY <2>2 DEF Chunk
  <2>4. archive'[id] = Append(archive[id], <<origin[x], n + 1>>) /\ received'[x] = n + 1
    BY <1>0, <2>1, <2>2 DEF TypeOK
  <2> SUFFICES ASSUME stream[id] # None, id \in directory \ unpacked
               PROVE  /\ Len(archive'[id]) = received'[x]
                      /\ \A i \in 1 .. received'[x] : archive'[id][i] = <<origin[x], i>>
                      /\ Known(id) => Owned(id, origin[x])
    BY <2>1 DEF StreamOK, Owned, Known
  <2>5. /\ Len(archive[id]) = n /\ \A i \in 1 .. n : archive[id][i] = <<origin[x], i>>
        /\ Known(id) => Owned(id, origin[x])
    BY <1>0, <1>2 DEF StreamOK
  <2> HIDE DEF n, x
  <2>6. Len(archive'[id]) = n + 1
    BY <2>2, <2>3, <2>4, <2>5
  <2>7. ASSUME NEW i \in 1 .. n + 1 PROVE archive'[id][i] = <<origin[x], i>>
    BY <2>2, <2>3, <2>4, <2>5
  <2> QED BY <2>4, <2>5, <2>6, <2>7
<1> QED BY <1>3, <1>4, <1>5

\* A stream is put in the table with the directory made for it.
LEMMA CommitStreams ==
  ASSUME ServingInv, NEW t \in Threads, PrepareCommit(t), NEW id \in Ids PROVE StreamOK(id)'
<1> USE DEF diskVars
<1>0. /\ TypeOK /\ RecordsOK /\ Placed(frame[t]) /\ Holds(t) /\ WorkOK(t) /\ RoomOK(t) /\ Loads(frame[t])
      /\ ObjectOK(t) /\ StreamOK(id) /\ Step(t)
      /\ \A u \in Threads : u # t => frame[u] = Idle
  BY ServingFacts DEF CargoInv, Step
<1>1. /\ frame[t].pc = "commit" /\ frame[t].call = "prepare" /\ frame[t].id \in Ids
      /\ Known(frame[t].id) /\ frame[t].object = current[frame[t].id]
      /\ archive[frame[t].id] = <<>> /\ received[frame[t].stream] = 0
      /\ origin[frame[t].stream] = frame[t].session
  BY <1>0 DEF PrepareCommit, At, Placed, WorkOK, RoomOK, Loads, ObjectOK
<1>2. current[frame[t].id] \in Objects
  BY <1>0, <1>1 DEF TypeOK, Known
<1>3. CASE id = frame[t].id
  <2>1. stream'[id] = frame[t].stream /\ session'[current[id]] = frame[t].session
    BY <1>0, <1>1, <1>2, <1>3 DEF PrepareCommit, TypeOK
  <2>2. Len(archive'[id]) = 0 /\ received'[stream'[id]] = 0
    BY <1>1, <1>3, <2>1 DEF PrepareCommit
  <2> QED BY <1>1, <1>3, <2>1, <2>2 DEF StreamOK, Owned, PrepareCommit
<1>4. CASE id # frame[t].id
  <2>1. Known(id) => current[id] # frame[t].object
    BY <1>0, <1>1, <1>4 DEF RecordsOK, Known
  <2>2. /\ stream'[id] = stream[id]
        /\ Known(id) => session'[current[id]] = session[current[id]]
    BY <1>0, <1>4, <2>1 DEF PrepareCommit, TypeOK
  <2>3. \A u \in Threads : ~Fills(u, id)
    BY <1>0, <1>4, NoneDistinct DEF Fills, Idle
  <2> QED BY <1>0, <2>2, <2>3 DEF PrepareCommit, StreamOK, Owned, Known
<1> QED BY <1>3, <1>4

\* A directory is made, and filled, for the upload that is due.
LEMMA RoomStreams ==
  ASSUME ServingInv, NEW t \in Threads, MakeDirectory(t) \/ ActivateFill(t), NEW id \in Ids
  PROVE  StreamOK(id)'
<1>0. /\ TypeOK /\ Placed(frame[t]) /\ StreamOK(id) /\ Step(t)
      /\ \A u \in Threads : u # t => frame[u] = Idle /\ frame'[u] = Idle
      /\ UNCHANGED <<current, source, session, stream, origin, received>>
  BY ServingFacts DEF CargoInv, Step, MakeDirectory, ActivateFill, streamVars, deployVars
<1>1. frame[t].pc \in {"mkdir", "fill"} /\ frame[t].id \in Ids /\ frame[t].call \in {"prepare", "execute"}
  BY <1>0 DEF MakeDirectory, ActivateFill, At, Placed
<1>2. CASE Fills(t, id)'
  BY <1>2 DEF StreamOK
<1>3. CASE ~Fills(t, id)'
  <2>1. id \in directory' \ unpacked' => id \in directory \ unpacked /\ archive'[id] = archive[id]
    <3>1. CASE MakeDirectory(t)
      <4>1. CASE Goto(t, IF frame[t].call = "execute" THEN "fill" ELSE "commit")
        <5>1. id # frame[t].id
          BY <1>3, <4>1, GotoLands, <1>0 DEF Fills, Carries
        <5> QED BY <1>0, <3>1, <5>1, Undisturbed DEF MakeDirectory, Wiped, TypeOK, diskVars
      <4>2. CASE ~Goto(t, IF frame[t].call = "execute" THEN "fill" ELSE "commit")
        BY <1>0, <3>1, <4>2, Undisturbed DEF MakeDirectory, Wiped, TypeOK, diskVars
      <4> QED BY <4>1, <4>2
    <3>2. CASE ActivateFill(t)
      <4>1. CASE frame[t].id \in directory
        <5>1. Goto(t, "check") /\ frame[t].call = "execute"
          BY <1>0, <3>2, <4>1 DEF ActivateFill, At, Placed
        <5>2. id # frame[t].id
          BY <1>0, <1>3, <5>1, GotoLands DEF Fills, Carries
        <5> QED BY <1>0, <3>2, <5>2 DEF ActivateFill, TypeOK
      <4>2. CASE frame[t].id \notin directory
        BY <3>2, <4>2 DEF ActivateFill
      <4> QED BY <4>1, <4>2
    <3> QED BY <3>1, <3>2
  <2>2. ~PrepareCommit(t)
    BY <1>1 DEF PrepareCommit, At
  <2>3. \A u \in Threads : Fills(u, id) => Fills(u, id)' \/ id \notin directory' \ unpacked'
    BY <1>0, <2>2, FillsOn, NoneDistinct DEF Fills, Idle
  <2> QED BY <1>0, <2>1, <2>3, StreamKept
<1> QED BY <1>2, <1>3

\* What the streams in the table have received stays in their directories.
LEMMA StreamStep == ASSUME ServingInv, NEW t \in Threads, Step(t), NEW id \in Ids PROVE StreamOK(id)'
<1>0. /\ TypeOK /\ RecordsOK /\ Placed(frame[t]) /\ Holds(t) /\ StreamOK(id) /\ CargoOK(t) /\ ObjectOK(t)
      /\ \A u \in Threads : u # t => frame[u] = Idle /\ frame'[u] = Idle
      /\ UNCHANGED <<current, source, origin>>
  BY ServingFacts DEF CargoInv
<1>1. CASE AppendWrite(t) \/ PrepareCommit(t) \/ MakeDirectory(t) \/ ActivateFill(t)
  BY <1>1, AppendStreams, CommitStreams, RoomStreams
<1>2. CASE ~(AppendWrite(t) \/ PrepareCommit(t) \/ MakeDirectory(t) \/ ActivateFill(t))
  <2>1. received' = received
    BY <1>2, StepReceives
  <2>2. stream'[id] \in {stream[id], None}
    BY <1>0, <1>2, StepStreams DEF Retire, FinalizeRelease, CloseNext, Drop, TypeOK
  <2>3. id \in directory' \ unpacked' => id \in directory \ unpacked /\ archive'[id] = archive[id]
    BY <1>0, <1>2, StepDisk, Undisturbed DEF StopWipe, LoadUnpack, LoadExtract, Wiped, TypeOK, diskVars
  <2>4. \A u \in Threads : Fills(u, id) => Fills(u, id)' \/ id \notin directory' \ unpacked'
    BY <1>0, <1>2, FillsOn, NoneDistinct DEF Fills, Idle
  <2>5. id \in directory' \ unpacked' /\ Known(id) /\ source[current[id]] = "LOCAL_WEIGHTS"
          => session'[current[id]] \in {None, session[current[id]]}
    <3> SUFFICES ASSUME id \in directory' \ unpacked', Known(id), source[current[id]] = "LOCAL_WEIGHTS"
                 PROVE  session'[current[id]] \in {None, session[current[id]]}
      OBVIOUS
    <3>1. current[id] \in Objects /\ id \notin unpacked
      BY <1>0, <2>3 DEF TypeOK, Known
    <3>2. CASE LoadOnline(t)
      <4>1. frame[t].pc = "online" /\ frame[t].call \in {"finalize", "execute"}
        BY <1>0, <3>2 DEF LoadOnline, At, Placed, Loading
      <4>2. frame[t].id # id /\ frame[t].object = current[frame[t].id] /\ frame[t].id \in Ids
        BY <1>0, <3>1, <4>1 DEF CargoOK, ObjectOK, Activated, Placed
      <4>3. current[id] # frame[t].object
        BY <1>0, <4>2 DEF RecordsOK, Known
      <4> QED BY <1>0, <3>1, <3>2, <4>3 DEF LoadOnline, TypeOK
    <3>3. CASE Activate(t) \/ Retire(t)
      BY <1>0, <3>1, <3>3 DEF Activate, Retire, TypeOK
    <3>4. CASE FinalizeMark(t) \/ FinalizeFailed(t) \/ CloseNext(t)
      BY <3>4 DEF FinalizeMark, FinalizeFailed, CloseNext
    <3> QED BY <1>2, <3>2, <3>3, <3>4, StepRecords
  <2> QED BY <1>0, <2>1, <2>2, <2>3, <2>4, <2>5, StreamKept
<1> QED BY <1>1, <1>2

\* A handler keeps the stream it works on.
LEMMA WorkStep == ASSUME ServingInv, NEW t \in Threads, Step(t) PROVE WorkOK(t)'
<1>0. /\ TypeOK /\ SecretInv /\ Serial
      /\ Placed(frame[t]) /\ Holds(t) /\ ObjectOK(t) /\ WorkOK(t) /\ GoneOK(t)
      /\ UNCHANGED <<current, source, origin>>
  BY ServingFacts
<1>1. CASE Rests(t)
  BY <1>1 DEF Rests, WorkOK
<1>2. CASE Turns(t)
  <2>1. frame'[t].call \in {"execute", "close"}
    BY <1>0, <1>2 DEF Turns, Placed, At
  <2> QED BY <2>1 DEF WorkOK
<1>3. CASE Carries(t) /\ Path(t)
  <2>1. ~(PrepareCommit(t) \/ Retire(t) \/ FinalizeRelease(t) \/ CloseNext(t) \/ AppendWrite(t))
    BY <1>3 DEF Path, PrepareCommit, Retire, FinalizeRelease, CloseNext, AppendWrite, At
  <2>2. UNCHANGED <<stream, received>>
    BY <2>1, StepStreams, StepReceives
  <2>3. ASSUME frame[t].call = "finalize", frame'[t].pc \in Loading PROVE status'[frame[t].object] = "LOADING"
    <3>1. Known(frame[t].id) /\ frame[t].object = current[frame[t].id] /\ frame[t].id \in Ids
      BY <1>0, <1>3, <2>3 DEF ObjectOK, Placed, Path
    <3>2. frame[t].object \in Objects
      BY <1>0, <3>1 DEF TypeOK, Known
    <3>3. CASE FinalizeMark(t)
      BY <1>0, <3>2, <3>3 DEF FinalizeMark, TypeOK
    <3>4. CASE ~FinalizeMark(t)
      <4>1. ~At(t, "mark")
        BY <3>4, StepOf
      <4>2. frame[t].pc \in Loading
        BY <1>0, <1>3, <2>3, <4>1, ThreadType DEF Path, At, Labels, Loading, Placed
      <4>3. ~(FinalizeFailed(t) \/ LoadOnline(t) \/ Activate(t))
        BY <1>3, <2>3, <4>2 DEF FinalizeFailed, LoadOnline, Activate, At, Path, Loading
      <4>4. status' = status
        BY <2>1, <3>4, <4>3, StepRecords
      <4> QED BY <1>0, <2>3, <4>2, <4>4 DEF WorkOK
    <3> QED BY <3>3, <3>4
  <2> QED BY <1>0, <1>3, <2>2, <2>3 DEF WorkOK, Carries
<1> QED BY <1>0, <1>1, <1>2, <1>3, StepLands

\* What was made anew is still there when it is used.
LEMMA RoomStep == ASSUME ServingInv, NEW t \in Threads, Step(t) PROVE RoomOK(t)'
<1>0. /\ TypeOK /\ SecretInv /\ Serial /\ CargoInv
      /\ Placed(frame[t]) /\ RoomOK(t) /\ GoneOK(t)
  BY ServingFacts
<1>1. CASE Rests(t) \/ Turns(t)
  BY <1>1 DEF Rests, Turns, RoomOK
<1>2. CASE Carries(t) /\ Path(t) /\ At(t, "mkdir")
  <2>1. /\ MakeDirectory(t) /\ Gone(frame[t].id) /\ frame[t].id \in Ids
        /\ archive[frame[t].id] = <<>> /\ frame[t].id \notin unpacked
    BY <1>0, <1>2, StepOf DEF GoneOK, Placed, At, Gone, CargoInv, DiskOK
  <2>2. /\ directory' = directory \cup {frame[t].id} /\ UNCHANGED <<archive, unpacked, childVars>>
        /\ frame'[t].pc \in {"fill", "commit"}
    <3>1. CASE Escape(t)
      BY <1>0, <1>2, <3>1, EscapeLands DEF Rests, Path, At, Placed
    <3>2. CASE ~Escape(t)
      <4>1. /\ directory' = directory \cup {frame[t].id} /\ UNCHANGED <<archive, unpacked, childVars>>
            /\ \E l \in {"fill", "commit"} : Goto(t, l)
        BY <2>1, <3>2 DEF MakeDirectory, Gone
      <4> QED BY <1>0, <4>1, GotoLands
    <3> QED BY <3>1, <3>2
  <2>3. ~Alive(frame[t].id)'
    BY <2>1, <2>2, <1>2 DEF Gone, Alive, childVars, Carries
  <2> QED BY <1>2, <2>1, <2>2, <2>3 DEF RoomOK, Carries, Alive
<1>3. CASE Carries(t) /\ Path(t) /\ At(t, "fill")
  <2>1. /\ ActivateFill(t) /\ frame[t].call = "execute" /\ frame[t].id \in directory \ unpacked
        /\ ~Alive(frame[t].id) /\ frame[t].id \in Ids
    BY <1>0, <1>3, StepOf DEF Placed, RoomOK, At
  <2>2. /\ archive'[frame[t].id] = Upload(frame[t].session)
        /\ UNCHANGED <<directory, unpacked, childVars>>
    BY <1>0, <2>1 DEF ActivateFill, TypeOK
  <2>3. frame'[t].pc = "check"
    BY <1>3 DEF Path
  <2> QED BY <1>3, <2>1, <2>2, <2>3 DEF RoomOK, Carries, Alive, childVars
<1>4. CASE Carries(t) /\ Path(t) /\ frame[t].pc \notin {"mkdir", "fill"}
  <2>1. frame'[t].pc \notin {"commit", "fill"}
    BY <1>0, <1>4, ThreadType DEF Path, At, Labels, Placed
  <2>2. ASSUME frame[t].call = "execute", frame'[t].pc \in {"check", "unpack"}
        PROVE  At(t, "check") /\ UNCHANGED <<childVars, diskVars>>
    <3>1. At(t, "check")
      BY <1>0, <1>4, <2>2, ThreadType DEF Path, At, Labels, Placed
    <3>2. LoadCheck(t)
      BY <3>1, StepOf
    <3> QED BY <3>1, <3>2 DEF LoadCheck
  <2> QED BY <1>0, <1>4, <2>1, <2>2 DEF RoomOK, Carries, At, Alive, childVars, diskVars
<1> QED BY <1>0, <1>1, <1>2, <1>3, <1>4, StepLands DEF At

\* What a stream has received to the end is its upload.
LEMMA StreamWhole ==
  ASSUME ServingInv, NEW t \in Threads, Step(t), frame[t].call = "finalize", frame[t].id \in directory \ unpacked,
         \A u \in Threads : ~Fills(u, frame[t].id), frame[t].id \in Ids
  PROVE  /\ archive[frame[t].id] = Upload(origin[frame[t].stream])
         /\ Known(frame[t].id) => Owned(frame[t].id, origin[frame[t].stream])
<1>1. /\ TypeOK /\ WorkOK(t) /\ StreamOK(frame[t].id)
  BY ServingFacts DEF CargoInv
<1>2. /\ stream[frame[t].id] = frame[t].stream /\ frame[t].stream # None
      /\ received[frame[t].stream] = Chunks
  BY <1>1 DEF WorkOK
<1>3. /\ archive[frame[t].id] \in Seq(Chunk) /\ Len(archive[frame[t].id]) = Chunks
      /\ \A i \in 1 .. Chunks : archive[frame[t].id][i] = <<origin[frame[t].stream], i>>
      /\ Known(frame[t].id) => Owned(frame[t].id, origin[frame[t].stream])
  BY <1>1, <1>2 DEF StreamOK, TypeOK
<1> QED BY <1>3, WholeUpload

\* What is loaded stays what is due, from the archive to the child.
LEMMA CargoStep == ASSUME ServingInv, NEW t \in Threads, Step(t) PROVE CargoOK(t)'
<1>0. /\ TypeOK /\ SecretInv /\ Serial /\ CargoInv
      /\ Placed(frame[t]) /\ Holds(t) /\ ObjectOK(t) /\ RoomOK(t) /\ CargoOK(t)
      /\ UNCHANGED <<current, source, origin>>
      /\ \A u \in Threads : u # t => frame[u] = Idle /\ frame'[u] = Idle
  BY ServingFacts
<1>1. CASE Rests(t) \/ Turns(t)
  BY <1>1 DEF Rests, Turns, CargoOK
<1>2. CASE Carries(t) /\ Path(t) /\ At(t, "unpack")
  <2> DEFINE f == [frame[t] EXCEPT !.data = archive[frame[t].id], !.pc = "extract"]
  <2>1. LoadUnpack(t) /\ frame[t].id \in Ids /\ frame[t].call \in {"finalize", "execute"}
    BY <1>0, <1>2, StepOf DEF Placed, At, Loading
  <2>2. CASE frame[t].id \notin directory \ unpacked
    <3>1. frame'[t].pc = "release"
      BY <1>0, <1>2, <2>1, <2>2, EscapeLands DEF LoadUnpack, Rests, Path
    <3> QED BY <3>1 DEF CargoOK
  <2>3. CASE frame[t].id \in directory \ unpacked
    <3>1. f.pc = "extract" /\ f.data = archive[frame[t].id]
      BY <1>0, ThreadType DEF Frame
    <3>2. frame'[t] = f /\ unpacked' = unpacked \cup {frame[t].id} /\ session' = session
      BY <1>0, <2>1, <2>3, Landing DEF LoadUnpack, deployVars
    <3> HIDE DEF f
    <3>3. CASE frame[t].call = "execute"
      BY <1>0, <1>2, <2>1, <3>1, <3>2, <3>3 DEF RoomOK, CargoOK, Carries, Due, At
    <3>4. CASE frame[t].call = "finalize"
      <4>1. \A u \in Threads : ~Fills(u, frame[t].id)
        BY <1>0, <1>2, <3>4 DEF Fills, Idle, At
      <4>2. /\ archive[frame[t].id] = Upload(origin[frame[t].stream])
            /\ Owned(frame[t].id, origin[frame[t].stream])
        BY <1>0, <2>1, <2>3, <3>4, <4>1, StreamWhole DEF ObjectOK
      <4> QED BY <1>0, <1>2, <3>1, <3>2, <3>4, <4>2 DEF CargoOK, Carries, Due, Owned
    <3> QED BY <2>1, <3>3, <3>4
  <2> QED BY <2>2, <2>3
<1>3. CASE Carries(t) /\ Path(t) /\ At(t, "extract")
  <2> DEFINE f == [frame[t] EXCEPT !.data = <<>>, !.pc = "launch"]
  <2>1. LoadExtract(t) /\ frame[t].id \in Ids
    BY <1>0, <1>3, StepOf DEF Placed, At
  <2>2. CASE Fail(t)
    BY <1>0, <1>3, <2>2, FailLands DEF CargoOK, Rests, Path
  <2>3. CASE ~Fail(t)
    <3>1. /\ Become(t, f) /\ unpacked' = unpacked \cup {frame[t].id} /\ session' = session
          /\ model' = [model EXCEPT ![frame[t].id] = frame[t].data]
      BY <2>1, <2>3 DEF LoadExtract, deployVars
    <3>2. f.pc = "launch"
      BY <1>0, ThreadType DEF Frame
    <3>3. frame'[t] = f
      BY <1>0, <3>1, Landing
    <3> HIDE DEF f
    <3>4. model'[frame[t].id] = frame[t].data
      BY <1>0, <2>1, <3>1 DEF TypeOK
    <3> QED BY <1>0, <1>3, <3>1, <3>2, <3>3, <3>4 DEF CargoOK, Carries, Due, Owned, At
  <2> QED BY <2>2, <2>3
<1>4. CASE Carries(t) /\ Path(t) /\ At(t, "launch")
  <2>1. PICK p \in Children : LoadLaunch(t, p)
    BY <1>4, StepOf
  <2> DEFINE f == [frame[t] EXCEPT !.child = p, !.pc = "wait"]
  <2>2. frame[t].id \in Ids
    BY <1>0, <1>4 DEF Placed, At
  <2>3. CASE Fail(t) \/ Escape(t)
    BY <1>0, <1>4, <2>3, FailLands, EscapeLands DEF CargoOK, Rests, Path
  <2>4. CASE ~(Fail(t) \/ Escape(t))
    <3>1. /\ Become(t, f) /\ unpacked' = unpacked /\ session' = session
          /\ serves' = [serves EXCEPT ![p] = model[frame[t].id]]
          /\ registered' = [registered EXCEPT ![frame[t].id] = p]
      BY <2>1, <2>4 DEF LoadLaunch, deployVars, diskVars
    <3>2. f.pc = "wait" /\ f.child = p
      BY <1>0, ThreadType DEF Frame
    <3>3. frame'[t] = f
      BY <1>0, <3>1, Landing
    <3> HIDE DEF f
    <3>4. serves'[p] = model[frame[t].id] /\ registered'[frame[t].id] = p
      BY <1>0, <2>2, <3>1 DEF TypeOK
    <3> QED BY <1>0, <1>4, <3>1, <3>2, <3>3, <3>4 DEF CargoOK, Carries, Due, Owned, At
  <2> QED BY <2>3, <2>4
<1>5. CASE Carries(t) /\ Path(t) /\ At(t, "wait")
  <2>1. LoadWait(t)
    BY <1>5, StepOf
  <2>2. CASE Goto(t, "online")
    <3>1. frame'[t].child = frame[t].child /\ frame'[t].pc = "online"
      BY <1>0, <2>2, GotoLands
    <3> QED BY <1>0, <1>5, <2>1, <3>1 DEF CargoOK, Carries, Due, Owned, At, LoadWait, deployVars, diskVars, childVars
  <2>3. CASE frame'[t].pc = "pop"
    BY <2>3 DEF CargoOK
  <2>4. Goto(t, "online") \/ frame'[t].pc = "pop"
    <3> DEFINE f == [frame[t] EXCEPT !.child = None]
               l == IF frame[t].call = "finalize" THEN "failed" ELSE "escape"
    <3>1. f \in Frame
      BY <1>0, ThreadType DEF Frame
    <3>2. Goto(t, "online") \/ Stop(t, f, l)
      BY <2>1 DEF LoadWait
    <3> HIDE DEF f, l
    <3> QED BY <1>0, <3>1, <3>2, StopLands
  <2> QED BY <2>2, <2>3, <2>4
<1>6. CASE Carries(t) /\ Path(t) /\ frame[t].pc \notin {"unpack", "extract", "launch", "wait"}
  <2>1. frame'[t].pc \notin {"extract", "launch", "wait", "online"}
    BY <1>0, <1>6, ThreadType DEF Path, At, Labels, Placed
  <2> QED BY <2>1 DEF CargoOK
<1> QED BY <1>0, <1>1, <1>2, <1>3, <1>4, <1>5, <1>6, StepLands DEF At

\* A deployment whose record and child stay as they are.
LEMMA ServesKept ==
  ASSUME TypeOK, NEW id \in Ids, ServesOK(id), current'[id] = current[id], UNCHANGED source,
         Alive(id)' => /\ registered'[id] = registered[id] /\ Alive(id)
                       /\ serves'[registered[id]] = serves[registered[id]]
                       /\ port'[registered[id]] = port[registered[id]],
         Known(id) /\ status'[current[id]] = "ONLINE" /\ source[current[id]] = "LOCAL_WEIGHTS" =>
           /\ status[current[id]] = "ONLINE" /\ session'[current[id]] \in {None, session[current[id]]}
           /\ endpoint'[current[id]] = endpoint[current[id]],
         \A t \in Threads : Replaces(t, id) => Replaces(t, id)' \/ ~Alive(id)'
  PROVE  ServesOK(id)'
<1> SUFFICES ASSUME Known(id), status'[current[id]] = "ONLINE", source[current[id]] = "LOCAL_WEIGHTS",
                    session'[current[id]] # None, Alive(id)', \A t \in Threads : ~Replaces(t, id)'
             PROVE  /\ endpoint'[current[id]] = port'[registered'[id]]
                    /\ serves'[registered'[id]] = Upload(session'[current[id]])
  BY DEF ServesOK, Known
<1>1. /\ status[current[id]] = "ONLINE" /\ session'[current[id]] = session[current[id]]
      /\ endpoint'[current[id]] = endpoint[current[id]] /\ Alive(id) /\ registered'[id] = registered[id]
      /\ serves'[registered[id]] = serves[registered[id]] /\ port'[registered[id]] = port[registered[id]]
  OBVIOUS
<1>2. \A t \in Threads : ~Replaces(t, id)
  OBVIOUS
<1> QED BY <1>1, <1>2 DEF ServesOK

\* Only the end of a load gives a deployment an endpoint.
LEMMA StepEndpoint == ASSUME NEW t, Step(t) PROVE endpoint' = endpoint \/ LoadOnline(t)
<1> USE DEF deployVars
<1>1. CASE \/ Retire(t) \/ StopPop(t) \/ StopKill(t) \/ StopLook(t) \/ StopWipe(t) \/ StopRaises(t)
           \/ MakeDirectory(t) \/ PrepareCommit(t) \/ AppendWrite(t)
           \/ FinalizeMark(t) \/ FinalizeFailed(t) \/ FinalizeRelease(t)
  BY <1>1 DEF Retire, StopPop, StopKill, StopLook, StopWipe, StopRaises, MakeDirectory, PrepareCommit,
              AppendWrite, FinalizeMark, FinalizeFailed, FinalizeRelease
<1>2. CASE \/ LoadCheck(t) \/ LoadUnpack(t) \/ LoadExtract(t)
           \/ (\E p \in Children : LoadLaunch(t, p)) \/ LoadWait(t)
           \/ Consume(t) \/ Activate(t) \/ ActivateFill(t) \/ Ask(t) \/ CloseNext(t)
  BY <1>2 DEF LoadCheck, LoadUnpack, LoadExtract, LoadLaunch, LoadWait, Consume, Activate,
              ActivateFill, Ask, CloseNext
<1> QED BY <1>1, <1>2 DEF Step

\* An activation that replaces a child goes on doing so until it has.
LEMMA ReplacesOn ==
  ASSUME ServingInv, NEW t \in Threads, Step(t), NEW id \in Ids, Replaces(t, id), ~LoadOnline(t)
  PROVE  Replaces(t, id)' \/ ~Alive(id)'
<1>0. TypeOK /\ SecretInv /\ Serial /\ frame[t] \in Frame
  BY ServingFacts, ThreadType
<1>1. CASE At(t, "pop")
  <2>1. StopPop(t)
    BY <1>1, StepOf
  <2> QED BY <1>0, <2>1 DEF StopPop, Replaces, Alive, TypeOK
<1>2. CASE At(t, "wait")
  <2>1. LoadWait(t) /\ frame[t].call = "execute"
    BY <1>2, StepOf DEF Replaces
  <2> DEFINE f == [frame[t] EXCEPT !.child = None]
             l == IF frame[t].call = "finalize" THEN "failed" ELSE "escape"
  <2>2. f \in Frame /\ f.call = frame[t].call /\ f.id = frame[t].id
    BY <1>0 DEF Frame
  <2>3. Goto(t, "online") \/ Stop(t, f, l)
    BY <2>1 DEF LoadWait
  <2> HIDE DEF f, l
  <2>4. CASE Goto(t, "online")
    BY <1>0, <2>1, <2>4, GotoLands DEF Replaces, Carries
  <2>5. CASE Stop(t, f, l)
    <3>1. frame'[t].pc = "pop" /\ frame'[t].call = f.call /\ frame'[t].id = f.id
      BY <1>0, <2>2, <2>5, StopLands
    <3> QED BY <2>1, <2>2, <3>1 DEF Replaces
  <2> QED BY <2>3, <2>4, <2>5
<1>3. CASE At(t, "online")
  BY <1>3 DEF Step, At, Retire, StopPop, StopKill, StopLook, StopWipe, StopRaises, MakeDirectory, PrepareCommit,
       AppendWrite, FinalizeMark, FinalizeFailed, FinalizeRelease, LoadCheck, LoadUnpack, LoadExtract,
       LoadLaunch, LoadWait, Consume, Activate, ActivateFill, Ask, CloseNext
<1> QED BY <1>1, <1>2, <1>3 DEF Replaces, At

\* The load that ends serves the upload its session authorized.
LEMMA OnlineServes ==
  ASSUME ServingInv, NEW t \in Threads, LoadOnline(t), NEW id \in Ids, frame[t].id = id
  PROVE  ServesOK(id)'
<1>0. /\ TypeOK /\ Placed(frame[t]) /\ ObjectOK(t) /\ CargoOK(t) /\ UNCHANGED <<current, source>> /\ Step(t)
  BY ServingFacts DEF Step
<1>1. frame[t].pc = "online" /\ frame[t].call \in {"finalize", "execute"} /\ frame[t].child \in Children
  BY <1>0 DEF LoadOnline, At, Placed, Loading
<1>2. /\ frame[t].object = current[id] /\ Known(id) /\ current[id] \in Objects
      /\ registered[id] = frame[t].child /\ serves[frame[t].child] = Upload(Due(t))
  BY <1>0, <1>1 DEF ObjectOK, Activated, CargoOK, Known, TypeOK
<1>3. /\ endpoint'[current[id]] = port[registered[id]]
      /\ UNCHANGED childVars
  BY <1>0, <1>2 DEF LoadOnline, TypeOK
<1>4. ASSUME source[current[id]] = "LOCAL_WEIGHTS", session'[current[id]] # None
      PROVE  session'[current[id]] = Due(t)
  <2>1. CASE frame[t].call = "execute"
    BY <1>0, <1>2, <2>1 DEF LoadOnline, TypeOK, Due
  <2>2. CASE frame[t].call = "finalize"
    <3>1. session'[current[id]] = session[current[id]] /\ Owned(id, Due(t))
      BY <1>0, <1>1, <2>2 DEF LoadOnline, CargoOK
    <3> QED BY <1>4, <3>1 DEF Owned
  <2> QED BY <1>1, <2>1, <2>2
<1> QED BY <1>0, <1>2, <1>3, <1>4 DEF ServesOK, childVars

\* A step that changes the child of an id ends it, or is the launch of another.
LEMMA ChildStays ==
  ASSUME ServingInv, NEW t \in Threads, Step(t), NEW id \in Ids, Alive(id)',
         ~(frame[t].id = id /\ registered'[id] # registered[id])
  PROVE  /\ registered'[id] = registered[id] /\ Alive(id)
         /\ serves'[registered[id]] = serves[registered[id]] /\ port'[registered[id]] = port[registered[id]]
<1>0. TypeOK /\ ChildrenOK
  BY ServingFacts
<1>1. CASE UNCHANGED childVars
  BY <1>1 DEF Alive, childVars
<1>2. CASE StopPop(t)
  BY <1>0, <1>2 DEF StopPop, Alive, TypeOK
<1>3. CASE StopKill(t)
  BY <1>0, <1>3 DEF StopKill, Alive, TypeOK
<1>4. ASSUME NEW p \in Children, LoadLaunch(t, p), ~UNCHANGED childVars
      PROVE  /\ registered'[id] = registered[id] /\ Alive(id)
             /\ serves'[registered[id]] = serves[registered[id]] /\ port'[registered[id]] = port[registered[id]]
  <2>1. /\ process[p] = "none" /\ process' = [process EXCEPT ![p] = "running"]
        /\ serves' = [serves EXCEPT ![p] = model[frame[t].id]]
        /\ registered' = [registered EXCEPT ![frame[t].id] = p]
        /\ \E k \in FreePorts : port' = [port EXCEPT ![p] = k]
    BY <1>4 DEF LoadLaunch
  <2>2. registered'[id] = registered[id] /\ registered[id] # None
    BY <1>0, <2>1 DEF TypeOK, Alive
  <2>3. registered[id] # p /\ registered[id] \in Children
    BY <1>0, <2>1, <2>2 DEF ChildrenOK, TypeOK
  <2>4. process'[registered[id]] = process[registered[id]]
    BY <1>0, <2>1, <2>3 DEF TypeOK
  <2> QED BY <1>0, <2>1, <2>2, <2>3, <2>4 DEF TypeOK, Alive
<1> QED BY <1>1, <1>2, <1>3, <1>4, StepChildren

\* What is ONLINE goes on serving what its session authorized.
LEMMA ServesStep == ASSUME ServingInv, NEW t \in Threads, Step(t), NEW id \in Ids PROVE ServesOK(id)'
<1>0. /\ TypeOK /\ SecretInv /\ Serial /\ RecordsOK /\ ServesOK(id) /\ Placed(frame[t]) /\ ObjectOK(t)
      /\ CargoOK(t) /\ WorkOK(t)
      /\ \A u \in Threads : u # t => frame[u] = Idle /\ frame'[u] = Idle
      /\ UNCHANGED <<current, source>>
  BY ServingFacts DEF CargoInv
<1>1. CASE LoadOnline(t) /\ frame[t].id = id
  BY <1>1, OnlineServes
<1>2. CASE frame[t].id = id /\ registered'[id] # registered[id]
  <2>1. StopPop(t) \/ \E p \in Children : LoadLaunch(t, p)
    BY <1>2, StepChildren DEF StopKill, childVars
  <2>2. CASE StopPop(t)
    BY <1>0, <1>2, <2>2 DEF StopPop, ServesOK, Alive, TypeOK
  <2>3. ASSUME NEW p \in Children, LoadLaunch(t, p) PROVE ServesOK(id)'
    <3> DEFINE f == [frame[t] EXCEPT !.child = p, !.pc = "wait"]
    <3>1. Become(t, f) /\ status' = status /\ frame[t].pc = "launch" /\ frame[t].call \in {"finalize", "execute"}
      BY <1>0, <1>2, <2>3 DEF LoadLaunch, childVars, deployVars, At, Placed, Loading
    <3>2. f.pc = "wait" /\ f.call = frame[t].call /\ f.id = id
      BY <1>0, <1>2, ThreadType DEF Frame
    <3>3. frame'[t] = f
      BY <1>0, <3>1, Landing
    <3> HIDE DEF f
    <3>4. CASE frame[t].call = "execute"
      BY <3>2, <3>3, <3>4 DEF ServesOK, Replaces
    <3>5. CASE frame[t].call = "finalize"
      BY <1>0, <1>2, <3>1, <3>5 DEF ServesOK, WorkOK, ObjectOK, Loading
    <3> QED BY <3>1, <3>4, <3>5
  <2> QED BY <2>1, <2>2, <2>3
<1>3. CASE ~(LoadOnline(t) /\ frame[t].id = id) /\ ~(frame[t].id = id /\ registered'[id] # registered[id])
  <2>1. Alive(id)' => /\ registered'[id] = registered[id] /\ Alive(id)
                      /\ serves'[registered[id]] = serves[registered[id]]
                      /\ port'[registered[id]] = port[registered[id]]
    BY <1>3, ChildStays
  <2>2. ASSUME Known(id), status'[current[id]] = "ONLINE", source[current[id]] = "LOCAL_WEIGHTS"
        PROVE  /\ status[current[id]] = "ONLINE" /\ session'[current[id]] \in {None, session[current[id]]}
               /\ endpoint'[current[id]] = endpoint[current[id]]
    <3>1. current[id] \in Objects
      BY <1>0, <2>2 DEF TypeOK, Known
    <3>2. CASE LoadOnline(t)
      <4>1. /\ frame[t].id \in Ids \ {id} /\ frame[t].object = current[frame[t].id] /\ Known(frame[t].id)
        BY <1>0, <1>3, <3>2 DEF LoadOnline, At, Placed, Loading, ObjectOK, Activated
      <4>2. current[id] # frame[t].object
        BY <1>0, <2>2, <4>1 DEF RecordsOK, Known
      <4> QED BY <1>0, <2>2, <3>1, <3>2, <4>2 DEF LoadOnline, TypeOK
    <3>3. CASE ~LoadOnline(t)
      <4>1. endpoint' = endpoint
        BY <3>3, StepEndpoint
      <4>2. CASE Retire(t) \/ PrepareCommit(t)
        BY <1>0, <2>2, <3>1, <4>1, <4>2 DEF Retire, PrepareCommit, TypeOK
      <4>3. CASE FinalizeMark(t) \/ FinalizeFailed(t) \/ CloseNext(t)
        BY <1>0, <2>2, <3>1, <4>1, <4>3 DEF FinalizeMark, FinalizeFailed, CloseNext, TypeOK
      <4>4. CASE Activate(t)
        BY <1>0, <2>2, <3>1, <4>1, <4>4 DEF Activate, TypeOK
      <4> QED BY <2>2, <3>3, <4>1, <4>2, <4>3, <4>4, StepRecords
    <3> QED BY <3>2, <3>3
  <2>3. \A u \in Threads : Replaces(u, id) => Replaces(u, id)' \/ ~Alive(id)'
    <3> SUFFICES ASSUME NEW u \in Threads, Replaces(u, id) PROVE Replaces(u, id)' \/ ~Alive(id)'
      OBVIOUS
    <3>1. u = t
      BY <1>0 DEF Replaces, Idle
    <3>2. ~LoadOnline(t)
      BY <1>3, <3>1 DEF Replaces
    <3> QED BY <3>1, <3>2, ReplacesOn
  <2> QED BY <1>0, <2>1, <2>2, <2>3, ServesKept
<1> QED BY <1>1, <1>2, <1>3

\* A handler keeps what is served.
LEMMA ServingStep == ASSUME ServingInv, NEW t \in Threads, Step(t) PROVE CargoInv'
<1>1. ASSUME NEW u \in Threads, u # t PROVE WorkOK(u)' /\ RoomOK(u)' /\ CargoOK(u)'
  <2>1. frame'[u] = Idle
    BY <1>1, ServingFacts
  <2> QED BY <2>1 DEF WorkOK, RoomOK, CargoOK, Idle, Loading
<1> QED BY <1>1, DiskStep, FreshStep, StreamStep, ServesStep, WorkStep, RoomStep, CargoStep DEF CargoInv

\* Whoever is not at a load has nothing to keep.
Plain(t) == frame[t].pc \notin Loading \cup {"commit", "fill"}

LEMMA PlainCargo == ASSUME NEW t, Plain(t)' PROVE RoomOK(t)' /\ CargoOK(t)'
  BY DEF Plain, RoomOK, CargoOK, Loading

LEMMA RestCargo == ASSUME NEW t, frame'[t] = Idle PROVE WorkOK(t)' /\ RoomOK(t)' /\ CargoOK(t)'
  BY DEF WorkOK, RoomOK, CargoOK, Idle, Loading

\* No session is bound to a deployment that was not bound to it, and none goes ONLINE.
Unbinds(id) ==
  \/ /\ current'[id] = current[id]
     /\ Known(id) => /\ source'[current[id]] = source[current[id]]
                     /\ session'[current[id]] \in {None, session[current[id]]}
                     /\ status'[current[id]] = "ONLINE" => status[current[id]] = "ONLINE"
  \/ session'[current'[id]] = None

\* A request that begins when every thread is at rest.
LEMMA CargoBegins ==
  ASSUME ServingInv, \A u \in Threads : frame[u] = Idle,
         NEW t \in Threads, \A u \in Threads : u # t => frame'[u] = Idle, Plain(t)', WorkOK(t)',
         UNCHANGED <<stream, received, diskVars, childVars, endpoint>>,
         \A x \in Streams : origin[x] \in Sessions => origin'[x] = origin[x],
         \A o \in Objects : status'[o] = "unused" => session'[o] = None,
         \A id \in Ids : Unbinds(id)
  PROVE  CargoInv'
<1> USE DEF diskVars, childVars
<1>0. TypeOK /\ StreamsOK /\ DiskOK /\ FreshOK /\ \A id \in Ids : StreamOK(id) /\ ServesOK(id)
  BY DEF ServingInv, ServedInv, SecretInv, CargoInv
<1>1. DiskOK' /\ FreshOK'
  BY <1>0, NoneDistinct DEF DiskOK, FreshOK, TypeOK
<1>2. ASSUME NEW id \in Ids PROVE StreamOK(id)'
  <2> SUFFICES ASSUME stream[id] # None, id \in directory \ unpacked
               PROVE  /\ Len(archive[id]) = received[stream[id]]
                      /\ \A i \in 1 .. received[stream[id]] : archive[id][i] = <<origin'[stream[id]], i>>
                      /\ Known(id)' => Owned(id, origin[stream[id]])'
    BY DEF StreamOK
  <2>1. \A u \in Threads : ~Fills(u, id)
    BY DEF Fills, Idle
  <2>2. stream[id] \in Streams /\ origin'[stream[id]] = origin[stream[id]]
    BY <1>0 DEF TypeOK, StreamsOK
  <2>3. /\ Len(archive[id]) = received[stream[id]]
        /\ \A i \in 1 .. received[stream[id]] : archive[id][i] = <<origin[stream[id]], i>>
        /\ Known(id) => Owned(id, origin[stream[id]])
    BY <1>0, <2>1 DEF StreamOK
  <2>4. Known(id)' => Owned(id, origin[stream[id]])'
    BY <2>2, <2>3 DEF Unbinds, Owned, Known
  <2> QED BY <2>2, <2>3, <2>4
<1>3. ASSUME NEW id \in Ids PROVE ServesOK(id)'
  <2>1. \A u \in Threads : ~Replaces(u, id)
    BY DEF Replaces, Idle
  <2> QED BY <1>0, <2>1 DEF Unbinds, ServesOK, Known, Alive
<1>4. ASSUME NEW u \in Threads PROVE WorkOK(u)' /\ RoomOK(u)' /\ CargoOK(u)'
  BY PlainCargo, RestCargo
<1> QED BY <1>1, <1>2, <1>3, <1>4 DEF CargoInv

\* _purge takes sessions from deployments.
LEMMA PurgeUnbinds ==
  ASSUME TypeOK, FreshOK, NEW made, Purge(made), UNCHANGED <<current, source>>
  PROVE  /\ \A id \in Ids : Unbinds(id)
         /\ \A o \in Objects : status'[o] = "unused" => session'[o] = None
<1>1. ASSUME NEW o \in Objects
      PROVE  /\ session'[o] \in {None, session[o]} /\ status'[o] \in {status[o], "AUTHORIZATION_REQUIRED"}
             /\ status'[o] = "unused" => session'[o] = None
  BY DEF Purge, FreshOK
<1> QED BY <1>1, NoneDistinct DEF Unbinds, Known, TypeOK

\* Who began nothing works on no stream.
LEMMA WorkBegins ==
  ASSUME NEW t \in Threads, frame'[t].call \notin {"append", "finalize", "prepare"} PROVE WorkOK(t)'
  BY DEF WorkOK

\* The requests: nothing is at work before.
LEMMA CargoRequests == ASSUME ServingInv, MaxInFlight = 1, Request PROVE CargoInv'
<1> USE DEF streamVars, deployVars
<1>0. /\ TypeOK /\ Serial /\ SecretInv /\ RecordsOK /\ FreshOK /\ Requests \subseteq Threads /\ EventLoop \in Threads
      /\ UNCHANGED <<diskVars, childVars>>
  BY RequestKeeps DEF ServingInv, ServedInv, RecordInv, CargoInv, Threads
<1>1. ASSUME NEW t \in Threads, Admits(t), NEW f, Become(t, f), f.pc \notin Loading \cup {"commit", "fill"},
             WorkOK(t)', UNCHANGED <<stream, received, endpoint>>,
             \A x \in Streams : origin[x] \in Sessions => origin'[x] = origin[x],
             \A o \in Objects : status'[o] = "unused" => session'[o] = None,
             \A id \in Ids : Unbinds(id)
      PROVE  CargoInv'
  <2>1. \A u \in Threads : frame[u] = Idle
    BY <1>0, <1>1, Alone
  <2>2. Plain(t)' /\ \A u \in Threads : u # t => frame'[u] = Idle
    BY <1>0, <1>1, <2>1, Landing DEF Plain
  <2> QED BY <1>0, <1>1, <2>1, <2>2, CargoBegins
<1>2. ASSUME NEW t \in Threads, Admits(t), frame' = frame, UNCHANGED <<streamVars, endpoint>>,
             \A o \in Objects : status'[o] = "unused" => session'[o] = None,
             \A id \in Ids : Unbinds(id)
      PROVE  CargoInv'
  <2>1. \A u \in Threads : frame[u] = Idle
    BY <1>0, <1>2, Alone
  <2>2. Plain(t)' /\ WorkOK(t)' /\ \A u \in Threads : u # t => frame'[u] = Idle
    BY <1>2, <2>1, RestCargo DEF Plain, Idle, Loading
  <2> QED BY <1>0, <1>2, <2>1, <2>2, CargoBegins
<1>3. ASSUME NEW t \in Requests, Refuse(t) PROVE CargoInv'
  BY <1>0, <1>2, <1>3, PurgeUnbinds DEF Refuse
<1>4. ASSUME NEW t \in Requests, NEW s \in Sessions, NEW id \in Ids, CreateSession(t, s, id) PROVE CargoInv'
  BY <1>0, <1>2, <1>4, PurgeUnbinds DEF CreateSession
<1>5. ASSUME NEW t \in Requests, NEW id \in Ids, NEW o \in Objects, NEW src \in Sources, Register(t, id, o, src)
      PROVE  CargoInv'
  <2>1. /\ current' = [current EXCEPT ![id] = o] /\ status[o] = "unused"
        /\ source' = [source EXCEPT ![o] = src] /\ status' = [status EXCEPT ![o] = "AUTHORIZATION_REQUIRED"]
        /\ UNCHANGED <<session, endpoint, streamVars, frame>> /\ Admits(t)
    BY <1>5 DEF Register
  <2>2. session[o] = None
    BY <1>0, <2>1 DEF FreshOK
  <2>3. \A i \in Ids : Known(i) => current[i] # o /\ current[i] \in Objects
    BY <1>0, <2>1, NoneDistinct DEF RecordsOK, Known, TypeOK
  <2>4. \A i \in Ids : Unbinds(i)
    BY <1>0, <2>1, <2>2, <2>3 DEF Unbinds, TypeOK
  <2>5. \A x \in Objects : status'[x] = "unused" => session'[x] = None
    BY <1>0, <2>1 DEF FreshOK, TypeOK
  <2> QED BY <1>0, <1>2, <2>1, <2>4, <2>5
<1>6. (UNCHANGED <<current, source, status, session>>) =>
        /\ \A id \in Ids : Unbinds(id)
        /\ \A o \in Objects : status'[o] = "unused" => session'[o] = None
  BY <1>0 DEF Unbinds, FreshOK
<1>7. ASSUME NEW t \in Requests, NEW id \in Ids, Offline(t, id) PROVE CargoInv'
  <2> DEFINE g == [Idle EXCEPT !.call = "offline", !.id = id, !.object = current[id]]
             f == [g EXCEPT !.pc = "pop", !.then = "retire"]
  <2>1. f.call = "offline" /\ f.pc \notin Loading \cup {"commit", "fill"}
    BY DEF Idle, Loading
  <2>2. Become(t, f)
    BY <1>7 DEF Offline, Stop
  <2> HIDE DEF f
  <2>3. WorkOK(t)'
    BY <1>0, <2>1, <2>2, Landing, WorkBegins
  <2>4. Admits(t) /\ UNCHANGED <<current, source, status, session, streamVars, endpoint>>
    BY <1>7 DEF Offline
  <2> QED BY <1>0, <1>1, <1>6, <2>1, <2>2, <2>3, <2>4
<1>8. ASSUME NEW t \in Requests, NEW id \in Ids, NEW s \in Sessions, NEW x \in Streams, PrepareOpen(t, id, s, x)
      PROVE  CargoInv'
  <2> DEFINE g == [Idle EXCEPT !.call = "prepare", !.id = id, !.object = current[id],
                               !.stream = x, !.session = s]
             f == [g EXCEPT !.pc = "pop", !.then = "mkdir"]
  <2>1. f.call = "prepare" /\ f.pc \notin Loading \cup {"commit", "fill"} /\ f.stream = x
    BY DEF Idle, Loading
  <2>2. Become(t, f)
    BY <1>8 DEF PrepareOpen, Stop
  <2> HIDE DEF f
  <2>3. frame'[t] = f
    BY <1>0, <2>2, Landing
  <2>4. /\ Admits(t) /\ Purge({}) /\ UNCHANGED <<current, source, stream, received, endpoint>>
        /\ origin[x] = None /\ origin' = [origin EXCEPT ![x] = s]
    BY <1>8 DEF PrepareOpen
  <2>5. received'[x] = 0
    BY <1>0, <2>4 DEF FreshOK
  <2>6. WorkOK(t)'
    BY <2>1, <2>3, <2>5 DEF WorkOK
  <2>7. \A y \in Streams : origin[y] \in Sessions => origin'[y] = origin[y]
    BY <1>0, <2>4, NoneDistinct DEF TypeOK
  <2> QED BY <1>0, <1>1, <2>1, <2>2, <2>4, <2>6, <2>7, PurgeUnbinds
<1>9. ASSUME NEW id \in Ids, AppendOpen(id) PROVE CargoInv'
  <2> DEFINE f == [Idle EXCEPT !.call = "append", !.id = id, !.stream = stream[id], !.pc = "write"]
  <2>1. f.call = "append" /\ f.pc \notin Loading \cup {"commit", "fill"} /\ f.stream = stream[id] /\ f.id = id
    BY DEF Idle, Loading
  <2>2. Become(EventLoop, f)
    BY <1>9 DEF AppendOpen
  <2> HIDE DEF f
  <2>3. frame'[EventLoop] = f
    BY <1>0, <2>2, Landing
  <2>4. Admits(EventLoop) /\ UNCHANGED <<current, source, status, session, streamVars, endpoint>> /\ stream[id] # None
    BY <1>9 DEF AppendOpen
  <2>5. WorkOK(EventLoop)'
    BY <2>1, <2>3, <2>4 DEF WorkOK
  <2> QED BY <1>0, <1>1, <1>6, <2>1, <2>2, <2>4, <2>5
<1>10. ASSUME NEW t \in Requests, NEW id \in Ids, Finalize(t, id) PROVE CargoInv'
  <2> DEFINE f == [Idle EXCEPT !.call = "finalize", !.id = id, !.object = current[id],
                               !.stream = stream[id], !.pc = "mark"]
  <2>1. f.call = "finalize" /\ f.pc = "mark" /\ f.stream = stream[id] /\ f.id = id
    BY DEF Idle
  <2>2. Become(t, f)
    BY <1>10 DEF Finalize
  <2> HIDE DEF f
  <2>3. frame'[t] = f
    BY <1>0, <2>2, Landing
  <2>4. /\ Admits(t) /\ UNCHANGED <<current, source, status, session, streamVars, endpoint>>
        /\ stream[id] # None /\ received[stream[id]] = Chunks
    BY <1>10 DEF Finalize, Complete
  <2>5. WorkOK(t)'
    BY <2>1, <2>3, <2>4 DEF WorkOK, Loading
  <2>6. f.pc \notin Loading \cup {"commit", "fill"}
    BY <2>1 DEF Loading
  <2> QED BY <1>0, <1>1, <1>6, <2>2, <2>4, <2>5, <2>6
<1>11. ASSUME NEW t \in Requests, NEW id \in Ids, NEW s \in Sessions, Execute(t, id, s) PROVE CargoInv'
  <2> DEFINE f == [Idle EXCEPT !.call = "execute", !.id = id, !.session = s, !.pc = "consume"]
  <2>1. f.call = "execute" /\ f.pc \notin Loading \cup {"commit", "fill"}
    BY DEF Idle, Loading
  <2>2. Become(t, f)
    BY <1>11 DEF Execute
  <2> HIDE DEF f
  <2>3. WorkOK(t)'
    BY <1>0, <2>1, <2>2, Landing, WorkBegins
  <2>4. Admits(t) /\ Purge({}) /\ UNCHANGED <<current, source, streamVars, endpoint>>
    BY <1>11 DEF Execute
  <2> QED BY <1>0, <1>1, <2>1, <2>2, <2>3, <2>4, PurgeUnbinds
<1>12. ASSUME NEW t \in Requests, NEW id \in Ids, NEW s \in Sessions, Infer(t, id, s) PROVE CargoInv'
  <2> DEFINE f == [Idle EXCEPT !.call = "ask", !.id = id, !.object = current[id], !.session = s, !.pc = "ask"]
  <2>1. f.call = "ask" /\ f.pc \notin Loading \cup {"commit", "fill"}
    BY DEF Idle, Loading
  <2>2. Become(t, f)
    BY <1>12 DEF Infer
  <2> HIDE DEF f
  <2>3. WorkOK(t)'
    BY <1>0, <2>1, <2>2, Landing, WorkBegins
  <2>4. Admits(t) /\ Purge({}) /\ UNCHANGED <<current, source, streamVars, endpoint>>
    BY <1>12 DEF Infer
  <2> QED BY <1>0, <1>1, <2>1, <2>2, <2>3, <2>4, PurgeUnbinds
<1>13. ASSUME NEW t \in Requests, NEW id \in Ids, RuntimeChat(t, id) PROVE CargoInv'
  <2> DEFINE f == [Idle EXCEPT !.call = "ask", !.id = id, !.object = current[id], !.pc = "ask"]
  <2>1. f.call = "ask" /\ f.pc \notin Loading \cup {"commit", "fill"}
    BY DEF Idle, Loading
  <2>2. Become(t, f)
    BY <1>13 DEF RuntimeChat
  <2> HIDE DEF f
  <2>3. WorkOK(t)'
    BY <1>0, <2>1, <2>2, Landing, WorkBegins
  <2>4. Admits(t) /\ UNCHANGED <<current, source, status, session, streamVars, endpoint>>
    BY <1>13 DEF RuntimeChat
  <2> QED BY <1>0, <1>1, <1>6, <2>1, <2>2, <2>3, <2>4
<1> QED BY <1>3, <1>4, <1>5, <1>7, <1>8, <1>9, <1>10, <1>11, <1>12, <1>13 DEF Request

\* CargoInv is kept.
LEMMA CargoNext == ASSUME ServingInv, MaxInFlight = 1, [Next]_vars PROVE CargoInv'
<1> USE DEF childVars, sessionVars, deployVars, diskVars, streamVars
<1>0. /\ TypeOK /\ Serial /\ DiskOK /\ FreshOK /\ \A id \in Ids : StreamOK(id) /\ ServesOK(id)
      /\ \A t \in Threads : WorkOK(t) /\ RoomOK(t) /\ CargoOK(t) /\ Placed(frame[t])
  BY DEF ServingInv, ServedInv, CargoInv, SecretInv, ThreadsOK
<1>1. ASSUME UNCHANGED <<current, source, status, session, endpoint, streamVars, diskVars, registered, serves, port, frame>>,
             \A p \in Children : process'[p] = "running" => process[p] = "running"
      PROVE  CargoInv'
  <2>1. DiskOK' /\ FreshOK'
    BY <1>0, <1>1 DEF DiskOK, FreshOK
  <2>2. \A id \in Ids : Alive(id)' => Alive(id)
    BY <1>0, <1>1 DEF Alive, TypeOK
  <2>3. ASSUME NEW id \in Ids PROVE StreamOK(id)' /\ ServesOK(id)'
    <3>1. \A t \in Threads : (Fills(t, id)' <=> Fills(t, id)) /\ (Replaces(t, id)' <=> Replaces(t, id))
      BY <1>1 DEF Fills, Replaces
    <3>2. StreamOK(id)'
      BY <1>0, <1>1, <3>1 DEF StreamOK, Owned, Known
    <3>3. ServesOK(id)'
      BY <1>0, <1>1, <2>2, <3>1 DEF ServesOK, Known
    <3> QED BY <3>2, <3>3
  <2>4. ASSUME NEW t \in Threads PROVE WorkOK(t)' /\ RoomOK(t)' /\ CargoOK(t)'
    <3>1. WorkOK(t)'
      BY <1>0, <1>1 DEF WorkOK
    <3>2. frame[t].pc \notin {"idle", "next", "closed", "aborted"} => frame[t].id \in Ids
      BY <1>0 DEF Placed
    <3>3. frame[t].pc \in Loading \cup {"commit", "fill"} => (Alive(frame[t].id)' => Alive(frame[t].id))
      BY <1>1, <2>2, <3>2 DEF Loading, Alive
    <3>4. RoomOK(t)'
      BY <1>0, <1>1, <3>3 DEF RoomOK, Alive, Loading
    <3>5. CargoOK(t)'
      BY <1>0, <1>1 DEF CargoOK, Due, Owned
    <3> QED BY <3>1, <3>4, <3>5
  <2> QED BY <2>1, <2>3, <2>4 DEF CargoInv
<1>2. ASSUME NEW s \in Sessions, SessionExpires(s) PROVE CargoInv'
  BY <1>1, <1>2 DEF SessionExpires
<1>3. ASSUME NEW p \in Children, ChildEnds(p) PROVE CargoInv'
  <2>1. \A q \in Children : process'[q] = "running" => process[q] = "running"
    BY <1>0, <1>3 DEF ChildEnds, TypeOK
  <2> QED BY <1>1, <1>3, <2>1 DEF ChildEnds
<1>4. CASE Restart
  <2>1. /\ \A t \in Threads : frame'[t] = Idle
        /\ \A id \in Ids : current'[id] = None /\ stream'[id] = None
        /\ \A x \in Streams : received'[x] = 0
        /\ \A o \in Objects : session'[o] = None
        /\ UNCHANGED diskVars
    BY <1>4 DEF Restart
  <2>2. DiskOK' /\ FreshOK'
    BY <1>0, <2>1 DEF DiskOK, FreshOK
  <2>3. \A id \in Ids : StreamOK(id)' /\ ServesOK(id)'
    BY <2>1 DEF StreamOK, ServesOK, Known
  <2> QED BY <2>1, <2>2, <2>3, RestCargo DEF CargoInv
<1>5. CASE CloseBegin
  <2>1. \A u \in Threads : frame[u] = Idle
    BY <1>0, <1>5 DEF CloseBegin, InFlight, At, Threads, Serial, Tidy
  <2>2. PICK l \in {"next", "aborted"} : Become(Closer, [Idle EXCEPT !.call = "close", !.pc = l])
    BY <1>5 DEF CloseBegin
  <2> DEFINE f == [Idle EXCEPT !.call = "close", !.pc = l]
  <2>3. f.call = "close" /\ f.pc \notin Loading \cup {"commit", "fill"} /\ Closer \in Threads
    BY DEF Idle, Threads, Loading
  <2>4. frame'[Closer] = f /\ \A u \in Threads : u # Closer => frame'[u] = Idle
    BY <1>0, <2>1, <2>2, <2>3, Landing
  <2> HIDE DEF f
  <2>5. Plain(Closer)' /\ WorkOK(Closer)'
    BY <2>3, <2>4, WorkBegins DEF Plain
  <2>6. UNCHANGED <<deployVars, streamVars, diskVars, childVars>>
    BY <1>5 DEF CloseBegin
  <2>7. /\ \A id \in Ids : Unbinds(id)
        /\ \A o \in Objects : status'[o] = "unused" => session'[o] = None
    BY <1>0, <2>6 DEF Unbinds, FreshOK
  <2> QED BY <2>1, <2>3, <2>4, <2>5, <2>6, <2>7, CargoBegins
<1>6. CASE UNCHANGED vars
  BY <1>1, <1>6 DEF vars
<1> QED BY <1>2, <1>3, <1>4, <1>5, <1>6, ServingStep, CargoRequests DEF Next, Environment, Stopped

\* The initial state.
LEMMA InitCargo == Init => CargoInv
<1> SUFFICES ASSUME Init PROVE CargoInv
  OBVIOUS
<1>1. /\ \A t \in Threads : frame[t] = Idle
      /\ \A id \in Ids : current[id] = None /\ stream[id] = None /\ archive[id] = <<>>
      /\ unpacked = {}
      /\ \A x \in Streams : received[x] = 0
      /\ \A o \in Objects : session[o] = None
  BY DEF Init
<1>2. DiskOK /\ FreshOK
  BY <1>1 DEF DiskOK, FreshOK
<1>3. \A id \in Ids : StreamOK(id) /\ ServesOK(id)
  BY <1>1 DEF StreamOK, ServesOK, Known
<1>4. ASSUME NEW t \in Threads PROVE WorkOK(t) /\ RoomOK(t) /\ CargoOK(t)
  BY <1>1 DEF WorkOK, RoomOK, CargoOK, Idle, Loading
<1> QED BY <1>2, <1>3, <1>4 DEF CargoInv

LEMMA ServingInvariant == ASSUME MaxInFlight = 1 PROVE Spec => []ServingInv
<1>1. Init => ServingInv
  BY InitOK, InitServes, InitRecords, InitUploads, InitCargo DEF ServingInv, ServedInv
<1>2. ServingInv /\ [Next]_vars => ServingInv'
  BY Inductive, SerialStep, ChildrenNext, RecordNext, UploadsNext, CargoNext DEF ServingInv, ServedInv
<1> QED BY <1>1, <1>2, PTL DEF Spec

\* Whenever clients wait for each answer, a deployment that is ONLINE serves the upload
\* its session authorized, all of it and in order, from the endpoint requests are sent
\* to, whatever an earlier upload, a failed load or an agent that died left on disk
\* (prepare_stream_deployment, append_stream_chunk, finalize_stream_deployment and the
\* activation at the end of execute).
THEOREM OnlineServesUpload == ASSUME MaxInFlight = 1 PROVE Spec => []ServesAuthorizedUpload
<1>1. ServingInv => ServesAuthorizedUpload
  <2> SUFFICES ASSUME ServingInv, NEW id \in Ids, Known(id), status[current[id]] = "ONLINE",
                      source[current[id]] = "LOCAL_WEIGHTS", session[current[id]] # None,
                      AtRest(id), Alive(id)
               PROVE  /\ endpoint[current[id]] = port[registered[id]]
                      /\ serves[registered[id]] = Upload(session[current[id]])
    BY DEF ServesAuthorizedUpload
  <2>1. \A t \in Threads : ~Replaces(t, id)
    BY DEF AtRest, Replaces
  <2>2. ServesOK(id)
    BY DEF ServingInv, CargoInv
  <2> QED BY <2>1, <2>2 DEF ServesOK
<1> QED BY <1>1, ServingInvariant, PTL

-----------------------------------------------------------------------------
(* What is asked.                                                          *)

\* No two children listen on one port, whoever started them.
PortsOK ==
  /\ \A p \in Children : process[p] # "none" => port[p] \in Ports
  /\ \A p, q \in Children : Listens(p) /\ Listens(q) /\ port[p] = port[q] => p = q

\* What is asked is in the table, ONLINE and bound to the session of the request.
AskOK(t) ==
  At(t, "ask") /\ frame[t].session # None =>
    /\ Known(frame[t].id) /\ frame[t].object = current[frame[t].id]
    /\ status[frame[t].object] = "ONLINE" /\ session[frame[t].object] = frame[t].session

AskInv == PortsOK /\ \A t \in Threads : AskOK(t)

\* Who asks nobody has nothing to keep.
LEMMA RestAsks ==
  ASSUME NEW t \in Threads, frame'[t].pc # "ask" PROVE AskOK(t)'
  BY DEF AskOK, At

\* Only Infer and runtime_chat ask.
LEMMA StepAsks == ASSUME ServingInv, NEW t \in Threads, Step(t) PROVE frame'[t].pc # "ask"
<1>0. TypeOK /\ SecretInv /\ Serial /\ Placed(frame[t])
  BY ServingFacts
<1> QED BY <1>0, StepLands, ThreadType DEF Rests, Carries, Path, Turns, Placed, At, Labels

\* Ports stay apart: who begins to listen does so on a port that is free.
LEMMA PortsStep ==
  ASSUME ServingInv, PortsOK, NEW t \in Threads, Step(t)
  PROVE  PortsOK'
<1>0. TypeOK
  BY ServingFacts
<1>1. CASE UNCHANGED childVars
  BY <1>1 DEF PortsOK, Listens, childVars
<1>2. CASE StopPop(t) \/ StopKill(t)
  <2>1. port' = port /\ \A p \in Children : process'[p] \in {process[p], "dead"}
    BY <1>0, <1>2 DEF StopPop, StopKill, TypeOK
  <2>2. \A p \in Children : process'[p] # "none" /\ process[p] = "none" => FALSE
    BY <1>0, <1>2 DEF StopPop, StopKill, TypeOK
  <2> QED BY <2>1, <2>2 DEF PortsOK, Listens
<1>3. ASSUME NEW p \in Children, LoadLaunch(t, p), ~UNCHANGED childVars PROVE PortsOK'
  <2>1. PICK k \in FreePorts : process' = [process EXCEPT ![p] = "running"] /\ port' = [port EXCEPT ![p] = k]
    BY <1>3 DEF LoadLaunch
  <2>2. /\ \A q \in Children \ {p} : process'[q] = process[q] /\ port'[q] = port[q]
        /\ process'[p] = "running" /\ port'[p] = k
    BY <1>0, <2>1 DEF TypeOK
  <2>3. k \in Ports /\ \A q \in Children : Listens(q) => port[q] # k
    BY DEF FreePorts
  <2> QED BY <2>2, <2>3 DEF PortsOK, Listens
<1> QED BY <1>1, <1>2, <1>3, StepChildren

\* The step of a handler.
LEMMA AskStep ==
  ASSUME ServingInv, AskInv, NEW t \in Threads, Step(t)
  PROVE  AskInv'
<1>1. PortsOK'
  BY PortsStep DEF AskInv
<1>2. AskOK(t)'
  BY StepAsks DEF AskOK, At
<1>3. ASSUME NEW u \in Threads, u # t PROVE AskOK(u)'
  BY <1>3, ServingFacts, RestAsks DEF Idle
<1> QED BY <1>1, <1>2, <1>3 DEF AskInv

\* A request asks for what is in the table.
LEMMA AskRequests == ASSUME ServingInv, AskInv, MaxInFlight = 1, Request PROVE AskInv'
<1> USE DEF streamVars, deployVars
<1>0. /\ TypeOK /\ Serial /\ PortsOK /\ Requests \subseteq Threads /\ EventLoop \in Threads
      /\ UNCHANGED <<diskVars, childVars>>
  BY RequestKeeps DEF ServingInv, ServedInv, AskInv, Threads
<1>1. ASSUME NEW t \in Threads, Admits(t), NEW f, Become(t, f), f.pc = "ask" => AskOK(t)'
      PROVE  AskInv'
  <2>1. frame'[t] = f /\ \A u \in Threads : u # t => frame'[u] = Idle
    BY <1>0, <1>1, Alone, Landing
  <2>2. \A u \in Threads : AskOK(u)'
    BY <1>1, <2>1, RestAsks DEF Idle
  <2>3. PortsOK'
    BY <1>0 DEF PortsOK, Listens, childVars
  <2> QED BY <2>2, <2>3 DEF AskInv
<1>2. ASSUME NEW t \in Threads, Admits(t), frame' = frame PROVE AskInv'
  <2>1. \A u \in Threads : frame'[u] = Idle
    BY <1>0, <1>2, Alone
  <2>2. \A u \in Threads : AskOK(u)'
    BY <2>1, RestAsks DEF Idle
  <2>3. PortsOK'
    BY <1>0 DEF PortsOK, Listens, childVars
  <2> QED BY <2>2, <2>3 DEF AskInv
<1>4. ASSUME NEW t \in Requests, Refuse(t) PROVE AskInv'
  BY <1>0, <1>2, <1>4 DEF Refuse
<1>5. ASSUME NEW t \in Requests, NEW s \in Sessions, NEW id \in Ids, CreateSession(t, s, id) PROVE AskInv'
  BY <1>0, <1>2, <1>5 DEF CreateSession
<1>6. ASSUME NEW t \in Requests, NEW id \in Ids, NEW o \in Objects, NEW src \in Sources, Register(t, id, o, src)
      PROVE  AskInv'
  BY <1>0, <1>2, <1>6 DEF Register
<1>7. ASSUME NEW t \in Requests, NEW id \in Ids, Offline(t, id) PROVE AskInv'
  <2> DEFINE g == [Idle EXCEPT !.call = "offline", !.id = id, !.object = current[id]]
             f == [g EXCEPT !.pc = "pop", !.then = "retire"]
  <2>1. f.pc = "pop"
    BY DEF Idle
  <2>2. Become(t, f)
    BY <1>7 DEF Offline, Stop
  <2> HIDE DEF f
  <2> QED BY <1>0, <1>1, <1>7, <2>1, <2>2 DEF Offline
<1>8. ASSUME NEW t \in Requests, NEW id \in Ids, NEW s \in Sessions, NEW x \in Streams, PrepareOpen(t, id, s, x)
      PROVE  AskInv'
  <2> DEFINE g == [Idle EXCEPT !.call = "prepare", !.id = id, !.object = current[id],
                               !.stream = x, !.session = s]
             f == [g EXCEPT !.pc = "pop", !.then = "mkdir"]
  <2>1. f.pc = "pop"
    BY DEF Idle
  <2>2. Become(t, f)
    BY <1>8 DEF PrepareOpen, Stop
  <2> HIDE DEF f
  <2> QED BY <1>0, <1>1, <1>8, <2>1, <2>2 DEF PrepareOpen
<1>9. ASSUME NEW id \in Ids, AppendOpen(id) PROVE AskInv'
  <2> DEFINE f == [Idle EXCEPT !.call = "append", !.id = id, !.stream = stream[id], !.pc = "write"]
  <2>1. f.pc = "write"
    BY DEF Idle
  <2>2. Become(EventLoop, f)
    BY <1>9 DEF AppendOpen
  <2> HIDE DEF f
  <2> QED BY <1>0, <1>1, <1>9, <2>1, <2>2 DEF AppendOpen
<1>10. ASSUME NEW t \in Requests, NEW id \in Ids, Finalize(t, id) PROVE AskInv'
  <2> DEFINE f == [Idle EXCEPT !.call = "finalize", !.id = id, !.object = current[id],
                               !.stream = stream[id], !.pc = "mark"]
  <2>1. f.pc = "mark"
    BY DEF Idle
  <2>2. Become(t, f)
    BY <1>10 DEF Finalize
  <2> HIDE DEF f
  <2> QED BY <1>0, <1>1, <1>10, <2>1, <2>2 DEF Finalize
<1>11. ASSUME NEW t \in Requests, NEW id \in Ids, NEW s \in Sessions, Execute(t, id, s) PROVE AskInv'
  <2> DEFINE f == [Idle EXCEPT !.call = "execute", !.id = id, !.session = s, !.pc = "consume"]
  <2>1. f.pc = "consume"
    BY DEF Idle
  <2>2. Become(t, f)
    BY <1>11 DEF Execute
  <2> HIDE DEF f
  <2> QED BY <1>0, <1>1, <1>11, <2>1, <2>2 DEF Execute
<1>12. ASSUME NEW t \in Requests, NEW id \in Ids, NEW s \in Sessions, Infer(t, id, s) PROVE AskInv'
  <2> DEFINE f == [Idle EXCEPT !.call = "ask", !.id = id, !.object = current[id], !.session = s, !.pc = "ask"]
  <2>1. f.pc = "ask" /\ f.id = id /\ f.object = current[id] /\ f.session = s
    BY DEF Idle
  <2>2. Become(t, f)
    BY <1>12 DEF Infer
  <2> HIDE DEF f
  <2>3. frame'[t] = f
    BY <1>0, <2>2, Landing
  <2>4. /\ current[id] \in Objects /\ Known(id) /\ status[current[id]] = "ONLINE"
        /\ session[current[id]] = s /\ s \in Live /\ Purge({}) /\ current' = current
    BY <1>0, <1>12 DEF Infer, Bound, Known, TypeOK
  <2>5. current[id] \notin Stale
    BY <2>4 DEF Stale, Live
  <2>6. AskOK(t)'
    BY <2>1, <2>3, <2>4, <2>5 DEF AskOK, Purge, Known
  <2> QED BY <1>0, <1>1, <1>12, <2>1, <2>2, <2>6 DEF Infer
<1>13. ASSUME NEW t \in Requests, NEW id \in Ids, RuntimeChat(t, id) PROVE AskInv'
  <2> DEFINE f == [Idle EXCEPT !.call = "ask", !.id = id, !.object = current[id], !.pc = "ask"]
  <2>1. f.pc = "ask" /\ f.session = None
    BY DEF Idle
  <2>2. Become(t, f)
    BY <1>13 DEF RuntimeChat
  <2> HIDE DEF f
  <2>3. frame'[t] = f
    BY <1>0, <2>2, Landing
  <2>4. AskOK(t)'
    BY <2>1, <2>3 DEF AskOK
  <2> QED BY <1>0, <1>1, <1>13, <2>1, <2>2, <2>4 DEF RuntimeChat
<1> QED BY <1>4, <1>5, <1>6, <1>7, <1>8, <1>9, <1>10, <1>11, <1>12, <1>13 DEF Request

\* AskInv is kept.
LEMMA AskNext == ASSUME ServingInv, AskInv, MaxInFlight = 1, [Next]_vars PROVE AskInv'
<1> USE DEF childVars, sessionVars, deployVars
<1>0. /\ TypeOK /\ Serial /\ PortsOK
      /\ \A t \in Threads : AskOK(t) /\ Placed(frame[t])
  BY DEF ServingInv, ServedInv, AskInv, SecretInv, ThreadsOK
<1>1. ASSUME port' = port,
             \A p \in Children : process'[p] # "none" => process[p] # "none",
             \A p \in Children : Listens(p)' => Listens(p)
      PROVE  PortsOK'
  BY <1>0, <1>1 DEF PortsOK, Listens
<1>2. ASSUME UNCHANGED <<current, status, session, frame>> PROVE \A t \in Threads : AskOK(t)'
  BY <1>0, <1>2 DEF AskOK, At, Known
<1>3. ASSUME NEW s \in Sessions, SessionExpires(s) PROVE AskInv'
  BY <1>1, <1>2, <1>3 DEF SessionExpires, AskInv, Listens
<1>4. ASSUME NEW p \in Children, ChildEnds(p) PROVE AskInv'
  <2>1. \A q \in Children : process'[q] \in {process[q], "dead"} /\ (process[q] = "none" => process'[q] = "none")
    BY <1>0, <1>4 DEF ChildEnds, TypeOK
  <2> QED BY <1>1, <1>2, <1>4, <2>1 DEF ChildEnds, AskInv, Listens
<1>5. CASE Restart
  <2>1. port' = port /\ \A t \in Threads : frame'[t] = Idle
    BY <1>5 DEF Restart
  <2>2. \A p \in Children : (process'[p] # "none" => process[p] # "none") /\ (Listens(p)' => Listens(p))
    BY <1>0, <1>5 DEF Restart, Listens, TypeOK
  <2> QED BY <1>1, <2>1, <2>2, RestAsks DEF AskInv, Idle
<1>6. CASE CloseBegin
  <2>1. \A u \in Threads : frame[u] = Idle
    BY <1>0, <1>6 DEF CloseBegin, InFlight, At, Threads, Serial, Tidy
  <2>2. PICK l \in {"next", "aborted"} : Become(Closer, [Idle EXCEPT !.call = "close", !.pc = l])
    BY <1>6 DEF CloseBegin
  <2> DEFINE f == [Idle EXCEPT !.call = "close", !.pc = l]
  <2>3. f.pc \in {"next", "aborted"} /\ Closer \in Threads
    BY DEF Idle, Threads
  <2>4. frame'[Closer] = f /\ \A u \in Threads : u # Closer => frame'[u] = Idle
    BY <1>0, <2>1, <2>2, <2>3, Landing
  <2> HIDE DEF f
  <2>5. \A u \in Threads : frame'[u].pc # "ask"
    BY <2>3, <2>4 DEF Idle
  <2>6. PortsOK'
    BY <1>1, <1>6 DEF CloseBegin, Listens
  <2> QED BY <2>5, <2>6, RestAsks DEF AskInv
<1>7. CASE UNCHANGED vars
  BY <1>1, <1>2, <1>7 DEF vars, AskInv, Listens
<1> QED BY <1>3, <1>4, <1>5, <1>6, <1>7, AskStep, AskRequests DEF Next, Environment, Stopped

\* The initial state.
LEMMA InitAsks == Init => AskInv
<1> SUFFICES ASSUME Init PROVE AskInv
  OBVIOUS
<1>1. (\A t \in Threads : frame[t] = Idle) /\ \A p \in Children : process[p] = "none"
  BY DEF Init
<1> QED BY <1>1 DEF AskInv, PortsOK, Listens, AskOK, At, Idle

\* Whenever clients wait for each answer, infer sends a request for local weights to the
\* child that has loaded the whole upload its session authorized, as long as the agent
\* runs that child ("request key is not bound to this deployment"): with however many
\* deployments, whose children end, give their ports back and are loaded again, and
\* whatever children outlived an agent that died.  Once the child has ended its port may
\* be another's (the run deployments_reused_port).
THEOREM InferReachesLive ==
  ASSUME MaxInFlight = 1 PROVE Spec => []InferReachesLiveModel
<1>1. ServingInv /\ AskInv => InferReachesLiveModel
  <2> SUFFICES ASSUME ServingInv, AskInv, NEW t \in Threads, At(t, "ask"), frame[t].session # None,
                      source[frame[t].object] = "LOCAL_WEIGHTS", Alive(frame[t].id)
               PROVE  /\ endpoint[frame[t].object] # None
                      /\ \A p \in Children : Listens(p) /\ port[p] = endpoint[frame[t].object]
                                                => serves[p] = Upload(frame[t].session)
    BY DEF InferReachesLiveModel
  <2> DEFINE o == frame[t].object  id == frame[t].id  p == registered[id]
  <2>0. TypeOK /\ Serial /\ PortsOK /\ AskOK(t) /\ Placed(frame[t])
    BY DEF ServingInv, ServedInv, AskInv, SecretInv, ThreadsOK
  <2>1. /\ id \in Ids /\ Known(id) /\ o = current[id] /\ o \in Objects
        /\ status[o] = "ONLINE" /\ session[o] = frame[t].session
    BY <2>0 DEF AskOK, Placed, At, Known, TypeOK
  <2>2. \A u \in Threads : ~Replaces(u, id)
    <3>1. \A u \in Threads : u # t => frame[u] = Idle
      BY <2>0 DEF Serial, Idle, At
    <3> QED BY <2>1, <3>1, NoneDistinct DEF At, Replaces, Idle
  <2>3. endpoint[o] = port[p] /\ serves[p] = Upload(frame[t].session)
    BY <2>1, <2>2 DEF ServingInv, CargoInv, ServesOK
  <2>4. p \in Children /\ Listens(p) /\ process[p] # "none"
    BY <2>0, <2>1 DEF Alive, Listens, TypeOK
  <2>5. endpoint[o] # None
    BY <2>0, <2>3, <2>4, NoneDistinct DEF PortsOK
  <2> QED BY <2>0, <2>3, <2>4, <2>5 DEF PortsOK
<1>2. Init => ServingInv /\ AskInv
  BY InitOK, InitServes, InitRecords, InitUploads, InitCargo, InitAsks DEF ServingInv, ServedInv
<1>3. ServingInv /\ AskInv /\ [Next]_vars => (ServingInv /\ AskInv)'
  BY Inductive, SerialStep, ChildrenNext, RecordNext, UploadsNext, CargoNext, AskNext DEF ServingInv, ServedInv
<1> QED BY <1>1, <1>2, <1>3, PTL DEF Spec
=============================================================================
