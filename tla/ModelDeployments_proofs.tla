---------------------- MODULE ModelDeployments_proofs ----------------------
(* Type correctness of ModelDeployments and the handling of credentials,   *)
(* for every set of ids, objects, streams, children, sessions and threads, *)
(* and however many requests overlap.                                      *)
(*                                                                         *)
(* TypeOK and SecretInv are proved inductive together.  A step of a        *)
(* handler changes the local state of one thread; ThreadMoves turns what   *)
(* it does to the lock, the credentials and the streams into a question    *)
(* about that local state alone.                                           *)
EXTENDS ModelDeployments, TLAPS

-----------------------------------------------------------------------------
(* The inductive invariant.                                                *)

Loading == {"check", "unpack", "extract", "launch", "wait", "online"}

\* Which call a local state can belong to, and what it then holds.
Placed(f) ==
  /\ f.pc \notin {"idle", "next", "closed", "aborted"} => f.id \in Ids
  /\ f.call \in {"prepare", "execute"} => f.session \in Sessions
  /\ f.pc \in {"consume", "activate", "fill"} => f.call = "execute"
  /\ f.pc \in {"mkdir", "commit"} \/ f.then = "mkdir" => f.call \in {"prepare", "execute"}
  /\ f.pc = "commit" => f.call = "prepare"
  /\ f.pc = "retire" \/ f.then = "retire" => f.call = "offline"
  /\ f.pc = "mark" => f.call = "finalize"
  /\ f.pc \in Loading => f.call \in {"finalize", "execute"}
  /\ f.pc \in {"wait", "online"} => f.child \in Children
  /\ f.pc = "write" => f.call = "append" /\ f.stream \in Streams
  /\ f.pc = "ask" => f.call = "ask"
  /\ f.pc = "next" \/ f.then = "next" => f.call = "close"
  /\ f.then \in {"idle", "retire", "mkdir", "failed", "release", "escape", "next"}

\* offline and the activation hold the lock, and offline has cleared the
\* credential; a stream at work was authorized.
Holds(t) ==
  /\ frame[t].call = "offline" => lock = t /\ frame[t].object \notin secret
  /\ frame[t].call = "execute" /\ frame[t].pc \notin {"consume", "activate"} => lock = t
  /\ frame[t].stream # None => origin[frame[t].stream] \in Sessions

ThreadsOK == \A t \in Threads : Placed(frame[t]) /\ Holds(t)

StreamsOK == \A id \in Ids : stream[id] # None => origin[stream[id]] \in Sessions

SecretsOK == \A o \in secret : status[o] \notin {"unused", "AUTHORIZATION_REQUIRED", "OFFLINE"}

SecretInv == ThreadsOK /\ StreamsOK /\ SecretsOK

-----------------------------------------------------------------------------
(* Local states.                                                           *)

\* A thread at rest has a well-typed local state that holds nothing.
LEMMA IdleOK ==
  /\ Idle \in Frame /\ Placed(Idle)
  /\ [Idle EXCEPT !.pc = "aborted"] \in Frame /\ Placed([Idle EXCEPT !.pc = "aborted"])
  /\ [Idle EXCEPT !.pc = "closed"] \in Frame /\ Placed([Idle EXCEPT !.pc = "closed"])
<1>1. <<>> \in Seq(Chunk)
  OBVIOUS
<1> QED BY <1>1 DEF Idle, Frame, Placed, Labels, Calls, Loading

\* What TypeOK says of the local state of one thread.
LEMMA ThreadType ==
  ASSUME TypeOK, NEW t \in Threads
  PROVE  /\ frame[t] \in Frame
         /\ frame[t].pc \in Labels
         /\ frame[t].call \in Calls
         /\ frame[t].id \in Ids \cup {None}
         /\ frame[t].object \in Objects \cup {None}
         /\ frame[t].stream \in Streams \cup {None}
         /\ frame[t].session \in Sessions \cup {None}
         /\ frame[t].child \in Children \cup {None}
         /\ frame[t].data \in Seq(Chunk)
         /\ frame[t].then \in Labels
  BY DEF TypeOK, Frame

\* A thread that takes on a well-typed local state leaves frame well typed.
LEMMA BecomeType ==
  ASSUME TypeOK, NEW t, NEW f \in Frame, Become(t, f)
  PROVE  frame' \in [Threads -> Frame]
  BY DEF TypeOK, Become

\* A step to another label keeps the rest of the local state.
LEMMA GotoFrame ==
  ASSUME TypeOK, NEW t \in Threads, NEW l \in Labels
  PROVE  [frame[t] EXCEPT !.pc = l] \in Frame
  BY DEF TypeOK, Frame

\* Entering stop is a well-typed step.
LEMMA StopFrame ==
  ASSUME NEW f \in Frame, NEW l \in Labels
  PROVE  [f EXCEPT !.pc = "pop", !.then = l] \in Frame
  BY DEF Frame, Labels

\* What a step does to the lock, the credentials and the streams, as far as the
\* other threads depend on it.
Keeps(t) ==
  /\ \/ lock' = lock
     \/ lock = None /\ lock' = t
     \/ lock = t /\ lock' = None
  /\ secret' \subseteq secret \/ lock = None
  /\ \A x \in Streams : origin[x] \in Sessions => origin'[x] \in Sessions

\* A step of thread t is a question about its own new local state.
LEMMA ThreadMoves ==
  ASSUME TypeOK, ThreadsOK, NEW t \in Threads, NEW f \in Frame, Become(t, f), Keeps(t), Placed(f),
         f.call = "offline" => lock' = t /\ f.object \notin secret',
         f.call = "execute" /\ f.pc \notin {"consume", "activate"} => lock' = t,
         f.stream # None => origin'[f.stream] \in Sessions
  PROVE  ThreadsOK' /\ frame' \in [Threads -> Frame]
<1> SUFFICES ASSUME NEW u \in Threads PROVE Placed(frame'[u]) /\ Holds(u)'
  BY BecomeType DEF ThreadsOK, Placed
<1>1. CASE u = t
  <2>1. frame'[u] = f
    BY <1>1 DEF Become, TypeOK
  <2> QED BY <2>1, <1>1 DEF Holds
<1>2. CASE u # t
  <2>1. frame'[u] = frame[u]
    BY <1>2 DEF Become, TypeOK
  <2>2. Placed(frame[u]) /\ Holds(u) /\ frame[u].stream \in Streams \cup {None}
    BY ThreadType DEF ThreadsOK
  <2>3. u # None
    BY NoneDistinct
  <2>4. lock = u => lock' = u /\ secret' \subseteq secret
    BY <1>2, <2>3 DEF Keeps
  <2> QED BY <2>1, <2>2, <2>4 DEF Holds, Keeps
<1> QED BY <1>1, <1>2

\* A thread that goes on with the call, the deployment and the stream it has.
LEMMA SameMoves ==
  ASSUME TypeOK, ThreadsOK, NEW t \in Threads, NEW f \in Frame, Become(t, f),
         f.call = frame[t].call, f.object = frame[t].object, f.stream = frame[t].stream,
         lock' = lock, secret' \subseteq secret, origin' = origin,
         frame[t].pc \notin {"consume", "activate"}, Placed(f)
  PROVE  ThreadsOK' /\ frame' \in [Threads -> Frame]
<1>1. Keeps(t)
  BY DEF Keeps
<1>2. Holds(t)
  BY DEF ThreadsOK
<1> QED BY <1>1, <1>2, ThreadMoves DEF Holds

\* Another label, and nothing else.
LEMMA GotoMoves ==
  ASSUME TypeOK, ThreadsOK, NEW t \in Threads, NEW l \in Labels, Goto(t, l),
         lock' = lock, secret' \subseteq secret, origin' = origin,
         frame[t].pc \notin {"consume", "activate"}, Placed([frame[t] EXCEPT !.pc = l])
  PROVE  ThreadsOK' /\ frame' \in [Threads -> Frame]
<1> DEFINE f == [frame[t] EXCEPT !.pc = l]
<1>1. f \in Frame /\ Become(t, f)
  BY GotoFrame DEF Goto
<1>2. f.call = frame[t].call /\ f.object = frame[t].object /\ f.stream = frame[t].stream
  BY ThreadType DEF Frame
<1> QED BY <1>1, <1>2, SameMoves

\* A step that is no thread's own.
LEMMA NobodyMoves ==
  ASSUME TypeOK, ThreadsOK, frame' = frame, lock' = lock, secret' \subseteq secret, origin' = origin
  PROVE  ThreadsOK' /\ frame' \in [Threads -> Frame]
  BY DEF TypeOK, ThreadsOK, Placed, Holds

\* A thread that returns holds nothing.
LEMMA LeaveMoves ==
  ASSUME TypeOK, ThreadsOK, NEW t \in Threads, Leave(t), Keeps(t)
  PROVE  ThreadsOK' /\ frame' \in [Threads -> Frame]
<1>1. Idle.call = "none" /\ Idle.stream = None
  BY DEF Idle
<1> QED BY <1>1, IdleOK, ThreadMoves DEF Leave

\* An exception ends the handler, or leads to the finally clause of finalize.
LEMMA EscapeMoves ==
  ASSUME TypeOK, ThreadsOK, NEW t \in Threads, Escape(t), frame[t].pc # "idle",
         frame[t].pc \notin {"next", "closed", "aborted"},
         secret' \subseteq secret, origin' = origin
  PROVE  ThreadsOK' /\ frame' \in [Threads -> Frame] /\ lock' \in Threads \cup {None}
<1>1. Keeps(t)
  BY DEF Keeps, Escape
<1>2. lock' \in Threads \cup {None}
  BY DEF Escape, TypeOK
<1>3. CASE frame[t].call = "finalize"
  <2> DEFINE f == [frame[t] EXCEPT !.pc = "release"]
  <2>1. f \in Frame /\ Become(t, f)
    BY <1>3, GotoFrame DEF Escape, Labels
  <2>2. f.call = "finalize" /\ f.stream = frame[t].stream
    BY <1>3, ThreadType DEF Frame
  <2>3. Placed(frame[t]) /\ Holds(t)
    BY DEF ThreadsOK
  <2>4. Placed(f)
    BY <1>3, <2>3, ThreadType DEF Placed, Frame, Loading
  <2> QED BY <1>1, <1>2, <2>1, <2>2, <2>3, <2>4, ThreadMoves DEF Holds
<1>4. CASE frame[t].call = "close"
  <2>1. Become(t, [Idle EXCEPT !.pc = "aborted"])
    BY <1>4 DEF Escape
  <2>2. /\ [Idle EXCEPT !.pc = "aborted"].call = "none"
        /\ [Idle EXCEPT !.pc = "aborted"].stream = None
    BY DEF Idle
  <2> QED BY <1>1, <1>2, <2>1, <2>2, IdleOK, ThreadMoves
<1>5. CASE frame[t].call \notin {"finalize", "close"}
  <2>1. Leave(t)
    BY <1>5 DEF Escape, Leave
  <2> QED BY <1>1, <1>2, <2>1, LeaveMoves
<1> QED BY <1>3, <1>4, <1>5

\* A CipherGpuError in start.
LEMMA FailMoves ==
  ASSUME TypeOK, ThreadsOK, NEW t \in Threads, Fail(t), frame[t].pc \in Loading,
         secret' \subseteq secret, origin' = origin
  PROVE  ThreadsOK' /\ frame' \in [Threads -> Frame] /\ lock' \in Threads \cup {None}
<1>1. CASE frame[t].call = "finalize"
  <2>1. Goto(t, "failed") /\ lock' = lock
    BY <1>1 DEF Fail
  <2>2. Placed([frame[t] EXCEPT !.pc = "failed"])
    BY <1>1, ThreadType DEF ThreadsOK, Placed, Frame, Loading
  <2>3. ThreadsOK' /\ frame' \in [Threads -> Frame]
    BY <2>1, <2>2, GotoMoves DEF Labels, Loading
  <2> QED BY <2>1, <2>3 DEF TypeOK
<1>2. CASE frame[t].call # "finalize"
  BY <1>2, EscapeMoves DEF Fail, Loading
<1> QED BY <1>1, <1>2

-----------------------------------------------------------------------------
(* Shared state.                                                           *)

\* The streams in the table stay authorized as long as none is made or forgotten.
LEMMA StreamsKept ==
  ASSUME TypeOK, StreamsOK, \A id \in Ids : stream'[id] \in {stream[id], None},
         \A x \in Streams : origin[x] \in Sessions => origin'[x] \in Sessions
  PROVE  StreamsOK'
  BY DEF StreamsOK, TypeOK

\* No credential is added, and what still has one keeps its status.
LEMMA SecretsKept ==
  ASSUME SecretsOK, secret' \subseteq secret, \A o \in secret' : status'[o] = status[o]
  PROVE  SecretsOK'
  BY DEF SecretsOK

\* _purge keeps the types, and clears the credentials of what it gives up.
LEMMA PurgeStep ==
  ASSUME TypeOK, SecretsOK, NEW made \in SUBSET Sessions, Purge(made)
  PROVE  /\ table' \subseteq Sessions
         /\ secret' \subseteq secret
         /\ session' \in [Objects -> Sessions \cup {None}]
         /\ status' \in [Objects -> Status]
         /\ SecretsOK'
<1>1. \A o \in Objects : status'[o] \in {status[o], "AUTHORIZATION_REQUIRED"}
  BY DEF Purge
<1>2. status' \in [Objects -> Status]
  BY DEF Purge, TypeOK, Status
<1>3. \A o \in secret' : o \in secret /\ o \in Objects /\ status'[o] = status[o]
  BY DEF Purge, TypeOK
<1>4. SecretsOK'
  BY <1>3, SecretsKept
<1> QED BY <1>2, <1>3, <1>4 DEF Purge, TypeOK, Live

\* The initial state.
LEMMA InitOK == Init => TypeOK /\ SecretInv
<1> SUFFICES ASSUME Init PROVE TypeOK /\ SecretInv
  OBVIOUS
<1>1. <<>> \in Seq(Chunk)
  OBVIOUS
<1>2. TypeOK
  BY <1>1, IdleOK DEF Init, TypeOK, Sources, Status, ProcessState
<1>3. Idle.call = "none" /\ Idle.stream = None
  BY DEF Idle
<1>4. ThreadsOK
  BY <1>3, IdleOK DEF Init, ThreadsOK, Holds
<1>5. StreamsOK /\ SecretsOK
  BY DEF Init, StreamsOK, SecretsOK
<1> QED BY <1>2, <1>4, <1>5 DEF SecretInv

-----------------------------------------------------------------------------
(* Requests and what surrounds them.                                       *)

\* The steps with which a request begins.
LEMMA RequestStep ==
  ASSUME TypeOK, SecretInv, Request PROVE TypeOK' /\ SecretInv'
<1>0. ThreadsOK /\ StreamsOK /\ SecretsOK /\ Requests \subseteq Threads /\ EventLoop \in Threads
  BY DEF SecretInv, Threads
<1>e. <<>> \in Seq(Chunk)
  OBVIOUS
<1>1. ASSUME NEW t \in Requests, Refuse(t) PROVE TypeOK' /\ SecretInv'
  <2>1. Purge({})
    BY <1>1 DEF Refuse
  <2>2. ThreadsOK' /\ frame' \in [Threads -> Frame]
    BY <1>0, <1>1, <2>1, PurgeStep, NobodyMoves DEF Refuse, streamVars
  <2>3. StreamsOK'
    BY <1>0, <1>1 DEF Refuse, streamVars, StreamsOK
  <2> QED BY <1>0, <1>1, <2>1, <2>2, <2>3, PurgeStep DEF TypeOK, SecretInv, Refuse, streamVars, diskVars, childVars
<1>2. ASSUME NEW t \in Requests, NEW s \in Sessions, NEW id \in Ids, CreateSession(t, s, id)
      PROVE TypeOK' /\ SecretInv'
  <2>1. Purge({s})
    BY <1>2 DEF CreateSession
  <2>2. ThreadsOK' /\ frame' \in [Threads -> Frame]
    BY <1>0, <1>2, <2>1, PurgeStep, NobodyMoves DEF CreateSession, streamVars
  <2>3. StreamsOK'
    BY <1>0, <1>2 DEF CreateSession, streamVars, StreamsOK
  <2>4. task' \in [Sessions -> Ids \cup {None}]
    BY <1>2 DEF CreateSession, TypeOK
  <2> QED BY <1>0, <1>2, <2>1, <2>2, <2>3, <2>4, PurgeStep
          DEF TypeOK, SecretInv, CreateSession, streamVars, diskVars, childVars
<1>3. ASSUME NEW t \in Requests, NEW id \in Ids, NEW o \in Objects, NEW src \in Sources, Register(t, id, o, src)
      PROVE TypeOK' /\ SecretInv'
  <2>1. ThreadsOK' /\ frame' \in [Threads -> Frame]
    BY <1>0, <1>3, NobodyMoves DEF Register, streamVars
  <2>2. StreamsOK'
    BY <1>0, <1>3 DEF Register, streamVars, StreamsOK
  <2>3. o \notin secret
    BY <1>0, <1>3 DEF Register, SecretsOK
  <2>4. SecretsOK'
    BY <1>0, <1>3, <2>3, SecretsKept DEF Register, TypeOK
  <2>5. /\ current' \in [Ids -> Objects \cup {None}]
        /\ source' \in [Objects -> Sources]
        /\ status' \in [Objects -> Status]
    BY <1>3 DEF Register, TypeOK, Status
  <2> QED BY <1>0, <1>3, <2>1, <2>2, <2>4, <2>5
          DEF TypeOK, SecretInv, Register, streamVars, diskVars, childVars, sessionVars
<1>4. ASSUME NEW t \in Requests, NEW id \in Ids, Offline(t, id) PROVE TypeOK' /\ SecretInv'
  <2> DEFINE f == [[Idle EXCEPT !.call = "offline", !.id = id, !.object = current[id]]
                     EXCEPT !.pc = "pop", !.then = "retire"]
  <2>1. Become(t, f)
    BY <1>4 DEF Offline, Stop
  <2>2. current[id] \in Objects \cup {None}
    BY DEF TypeOK
  <2>3. f \in Frame /\ Placed(f) /\ f.call = "offline" /\ f.object = current[id] /\ f.stream = None
    BY <2>2, <1>e DEF Idle, Frame, Placed, Labels, Calls, Loading
  <2>4. Keeps(t) /\ lock' = t /\ f.object \notin secret'
    BY <1>4, <2>3 DEF Offline, Keeps, Unlocked, Admits, streamVars
  <2>5. ThreadsOK' /\ frame' \in [Threads -> Frame]
    BY <1>0, <2>1, <2>3, <2>4, ThreadMoves
  <2>6. StreamsOK'
    BY <1>0, <1>4 DEF Offline, streamVars, StreamsOK
  <2>7. SecretsOK'
    BY <1>0, <1>4, SecretsKept DEF Offline
  <2> QED BY <1>0, <1>4, <2>5, <2>6, <2>7
          DEF TypeOK, SecretInv, Offline, streamVars, diskVars, childVars, sessionVars
<1>5. ASSUME NEW t \in Requests, NEW id \in Ids, NEW s \in Sessions, NEW x \in Streams, PrepareOpen(t, id, s, x)
      PROVE TypeOK' /\ SecretInv'
  <2> DEFINE f == [[Idle EXCEPT !.call = "prepare", !.id = id, !.object = current[id],
                                !.stream = x, !.session = s] EXCEPT !.pc = "pop", !.then = "mkdir"]
  <2>1. Become(t, f) /\ Purge({})
    BY <1>5 DEF PrepareOpen, Stop
  <2>2. current[id] \in Objects \cup {None}
    BY DEF TypeOK
  <2>3. f \in Frame /\ Placed(f) /\ f.call = "prepare" /\ f.stream = x
    BY <2>2, <1>e DEF Idle, Frame, Placed, Labels, Calls, Loading
  <2>4. origin' \in [Streams -> Sessions \cup {None}] /\ origin'[x] = s
    BY <1>5 DEF PrepareOpen, TypeOK
  <2>5. \A y \in Streams : origin[y] \in Sessions => origin'[y] \in Sessions
    BY <1>5 DEF PrepareOpen, TypeOK
  <2>6. Keeps(t)
    BY <1>0, <1>5, <2>1, <2>5, PurgeStep DEF PrepareOpen, Keeps
  <2>7. ThreadsOK' /\ frame' \in [Threads -> Frame]
    BY <1>0, <2>1, <2>3, <2>4, <2>6, ThreadMoves
  <2>8. StreamsOK'
    BY <1>0, <1>5, <2>5, StreamsKept DEF PrepareOpen
  <2> QED BY <1>0, <1>5, <2>1, <2>4, <2>7, <2>8, PurgeStep
          DEF TypeOK, SecretInv, PrepareOpen, diskVars, childVars
<1>6. ASSUME NEW id \in Ids, AppendOpen(id) PROVE TypeOK' /\ SecretInv'
  <2> DEFINE f == [Idle EXCEPT !.call = "append", !.id = id, !.stream = stream[id], !.pc = "write"]
  <2>1. Become(EventLoop, f) /\ stream[id] \in Streams /\ origin[stream[id]] \in Sessions
    BY <1>0, <1>6 DEF AppendOpen, TypeOK, StreamsOK
  <2>2. f \in Frame /\ Placed(f) /\ f.call = "append" /\ f.stream = stream[id]
    BY <2>1, <1>e DEF Idle, Frame, Placed, Labels, Calls, Loading
  <2>3. Keeps(EventLoop)
    BY <1>6 DEF AppendOpen, Keeps, deployVars, streamVars
  <2>4. ThreadsOK' /\ frame' \in [Threads -> Frame]
    BY <1>0, <1>6, <2>1, <2>2, <2>3, ThreadMoves DEF AppendOpen, streamVars
  <2> QED BY <1>0, <1>6, <2>4
          DEF TypeOK, SecretInv, StreamsOK, SecretsOK, AppendOpen, deployVars, streamVars, diskVars, childVars, sessionVars
<1>7. ASSUME NEW t \in Requests, NEW id \in Ids, Finalize(t, id) PROVE TypeOK' /\ SecretInv'
  <2> DEFINE f == [Idle EXCEPT !.call = "finalize", !.id = id, !.object = current[id],
                               !.stream = stream[id], !.pc = "mark"]
  <2>1. /\ Become(t, f) /\ current[id] \in Objects \cup {None}
        /\ stream[id] \in Streams /\ origin[stream[id]] \in Sessions
    BY <1>0, <1>7 DEF Finalize, TypeOK, StreamsOK
  <2>2. f \in Frame /\ Placed(f) /\ f.call = "finalize" /\ f.stream = stream[id]
    BY <2>1, <1>e DEF Idle, Frame, Placed, Labels, Calls, Loading
  <2>3. Keeps(t)
    BY <1>7 DEF Finalize, Keeps, deployVars, streamVars
  <2>4. ThreadsOK' /\ frame' \in [Threads -> Frame]
    BY <1>0, <1>7, <2>1, <2>2, <2>3, ThreadMoves DEF Finalize, streamVars
  <2> QED BY <1>0, <1>7, <2>4
          DEF TypeOK, SecretInv, StreamsOK, SecretsOK, Finalize, deployVars, streamVars, diskVars, childVars, sessionVars
<1>8. ASSUME NEW t \in Requests, NEW id \in Ids, NEW s \in Sessions, Execute(t, id, s)
      PROVE TypeOK' /\ SecretInv'
  <2> DEFINE f == [Idle EXCEPT !.call = "execute", !.id = id, !.session = s, !.pc = "consume"]
  <2>1. Become(t, f) /\ Purge({})
    BY <1>8 DEF Execute
  <2>2. f \in Frame /\ Placed(f) /\ f.call = "execute" /\ f.pc = "consume" /\ f.stream = None
    BY <1>e DEF Idle, Frame, Placed, Labels, Calls, Loading
  <2>3. Keeps(t)
    BY <1>0, <1>8, <2>1, PurgeStep DEF Execute, Keeps, streamVars
  <2>4. ThreadsOK' /\ frame' \in [Threads -> Frame]
    BY <1>0, <2>1, <2>2, <2>3, ThreadMoves
  <2>5. StreamsOK'
    BY <1>0, <1>8 DEF Execute, streamVars, StreamsOK
  <2> QED BY <1>0, <1>8, <2>1, <2>4, <2>5, PurgeStep
          DEF TypeOK, SecretInv, Execute, streamVars, diskVars, childVars
<1>9. ASSUME NEW t \in Requests, NEW id \in Ids, NEW s \in Sessions, Infer(t, id, s)
      PROVE TypeOK' /\ SecretInv'
  <2> DEFINE f == [Idle EXCEPT !.call = "ask", !.id = id, !.object = current[id], !.session = s, !.pc = "ask"]
  <2>1. Become(t, f) /\ Purge({}) /\ current[id] \in Objects \cup {None}
    BY <1>9 DEF Infer, TypeOK
  <2>2. f \in Frame /\ Placed(f) /\ f.call = "ask" /\ f.stream = None
    BY <2>1, <1>e DEF Idle, Frame, Placed, Labels, Calls, Loading
  <2>3. Keeps(t)
    BY <1>0, <1>9, <2>1, PurgeStep DEF Infer, Keeps, streamVars
  <2>4. ThreadsOK' /\ frame' \in [Threads -> Frame]
    BY <1>0, <2>1, <2>2, <2>3, ThreadMoves
  <2>5. StreamsOK'
    BY <1>0, <1>9 DEF Infer, streamVars, StreamsOK
  <2> QED BY <1>0, <1>9, <2>1, <2>4, <2>5, PurgeStep
          DEF TypeOK, SecretInv, Infer, streamVars, diskVars, childVars
<1>10. ASSUME NEW t \in Requests, NEW id \in Ids, RuntimeChat(t, id) PROVE TypeOK' /\ SecretInv'
  <2> DEFINE f == [Idle EXCEPT !.call = "ask", !.id = id, !.object = current[id], !.pc = "ask"]
  <2>1. Become(t, f) /\ current[id] \in Objects \cup {None}
    BY <1>10 DEF RuntimeChat, TypeOK
  <2>2. f \in Frame /\ Placed(f) /\ f.call = "ask" /\ f.stream = None
    BY <2>1, <1>e DEF Idle, Frame, Placed, Labels, Calls, Loading
  <2>3. Keeps(t)
    BY <1>10 DEF RuntimeChat, Keeps, deployVars, streamVars
  <2>4. ThreadsOK' /\ frame' \in [Threads -> Frame]
    BY <1>0, <2>1, <2>2, <2>3, ThreadMoves
  <2> QED BY <1>0, <1>10, <2>4
          DEF TypeOK, SecretInv, StreamsOK, SecretsOK, RuntimeChat, deployVars, streamVars, diskVars, childVars, sessionVars
<1> QED BY <1>1, <1>2, <1>3, <1>4, <1>5, <1>6, <1>7, <1>8, <1>9, <1>10 DEF Request

\* The surroundings, and the begin of close().
LEMMA EnvironmentStep ==
  ASSUME TypeOK, SecretInv, Environment \/ CloseBegin PROVE TypeOK' /\ SecretInv'
<1>0. ThreadsOK /\ StreamsOK /\ SecretsOK /\ Closer \in Threads
  BY DEF SecretInv, Threads
<1>e. <<>> \in Seq(Chunk)
  OBVIOUS
<1>1. ASSUME NEW s \in Sessions, SessionExpires(s) PROVE TypeOK' /\ SecretInv'
  <2>1. ThreadsOK' /\ frame' \in [Threads -> Frame]
    BY <1>0, <1>1, NobodyMoves DEF SessionExpires, deployVars, streamVars
  <2> QED BY <1>0, <1>1, <2>1 DEF TypeOK, SecretInv, StreamsOK, SecretsOK, SessionExpires,
                                  deployVars, streamVars, diskVars, childVars
<1>2. ASSUME NEW p \in Children, ChildEnds(p) PROVE TypeOK' /\ SecretInv'
  <2>1. ThreadsOK' /\ frame' \in [Threads -> Frame]
    BY <1>0, <1>2, NobodyMoves DEF ChildEnds, deployVars, streamVars
  <2>2. process' \in [Children -> ProcessState]
    BY <1>2 DEF ChildEnds, TypeOK, ProcessState
  <2> QED BY <1>0, <1>2, <2>1, <2>2 DEF TypeOK, SecretInv, StreamsOK, SecretsOK, ChildEnds,
                                  deployVars, streamVars, diskVars, sessionVars
<1>3. CASE Restart
  <2>1. Idle.call = "none" /\ Idle.stream = None
    BY DEF Idle
  <2>2. ThreadsOK' /\ frame' \in [Threads -> Frame]
    BY <1>3, <2>1, IdleOK DEF Restart, ThreadsOK, Holds, Placed
  <2>3. StreamsOK' /\ SecretsOK'
    BY <1>3 DEF Restart, StreamsOK, SecretsOK
  <2>4. process' \in [Children -> ProcessState]
    BY <1>3 DEF Restart, TypeOK, ProcessState
  <2>5. /\ source' \in [Objects -> Sources] /\ status' \in [Objects -> Status]
        /\ restarts' \in Nat
    BY <1>3 DEF Restart, TypeOK, Sources, Status
  <2> QED BY <1>3, <2>2, <2>3, <2>4, <2>5 DEF TypeOK, SecretInv, Restart, diskVars
<1>4. CASE CloseBegin
  <2>1. ASSUME NEW l \in {"next", "aborted"}, Become(Closer, [Idle EXCEPT !.call = "close", !.pc = l])
        PROVE  ThreadsOK' /\ frame' \in [Threads -> Frame]
    <3> DEFINE f == [Idle EXCEPT !.call = "close", !.pc = l]
    <3>1. f \in Frame /\ Placed(f) /\ f.call = "close" /\ f.stream = None
      BY <1>e DEF Idle, Frame, Placed, Labels, Calls, Loading
    <3>2. Keeps(Closer)
      BY <1>4 DEF CloseBegin, Keeps, deployVars, streamVars
    <3> QED BY <1>0, <2>1, <3>1, <3>2, ThreadMoves
  <2>2. ThreadsOK' /\ frame' \in [Threads -> Frame]
    BY <1>4, <2>1 DEF CloseBegin
  <2> QED BY <1>0, <1>4, <2>2 DEF TypeOK, SecretInv, StreamsOK, SecretsOK, CloseBegin, deployVars, streamVars, diskVars, childVars, sessionVars
<1> QED BY <1>1, <1>2, <1>3, <1>4 DEF Environment

-----------------------------------------------------------------------------
(* Steps of a thread in a handler.                                         *)

\* What is left of the directory of an id is well typed.
LEMMA WipedType ==
  ASSUME TypeOK, NEW id, Wiped(id) \/ HalfWiped(id)
  PROVE  /\ directory' \subseteq Ids
         /\ archive' \in [Ids -> Seq(Chunk)]
         /\ unpacked' \subseteq Ids
         /\ model' \in [Ids -> Seq(Chunk)]
<1>1. <<>> \in Seq(Chunk)
  OBVIOUS
<1>2. [archive EXCEPT ![id] = <<>>] \in [Ids -> Seq(Chunk)]
  BY <1>1 DEF TypeOK
<1>3. [model EXCEPT ![id] = <<>>] \in [Ids -> Seq(Chunk)]
  BY <1>1 DEF TypeOK
<1> QED BY <1>2, <1>3 DEF Wiped, HalfWiped, TypeOK

\* The steps of stop, prepare_archive and the handlers that stop.
LEMMA StopStep ==
  ASSUME TypeOK, SecretInv, NEW t \in Threads,
         \/ Retire(t) \/ StopPop(t) \/ StopKill(t) \/ StopLook(t) \/ StopWipe(t) \/ StopRaises(t)
         \/ MakeDirectory(t) \/ PrepareCommit(t) \/ CloseNext(t)
  PROVE  TypeOK' /\ SecretInv'
<1>0. ThreadsOK /\ StreamsOK /\ SecretsOK /\ Placed(frame[t]) /\ Holds(t)
  BY DEF SecretInv, ThreadsOK
<1>1. CASE Retire(t)
  <2>1. frame[t].call = "offline" /\ lock = t /\ frame[t].object \notin secret
    BY <1>0, <1>1 DEF Retire, At, Placed, Holds
  <2>2. Keeps(t)
    BY <1>1, <2>1 DEF Retire, Keeps
  <2>3. ThreadsOK' /\ frame' \in [Threads -> Frame]
    BY <1>0, <1>1, <2>2, LeaveMoves DEF Retire
  <2>4. StreamsOK'
    BY <1>0, <1>1, StreamsKept DEF Retire, Drop, TypeOK
  <2>5. SecretsOK'
    BY <1>0, <1>1, <2>1, SecretsKept DEF Retire, TypeOK
  <2>6. /\ dek' \subseteq Streams /\ stream' \in [Ids -> Streams \cup {None}]
        /\ status' \in [Objects -> Status] /\ session' \in [Objects -> Sessions \cup {None}]
    BY <1>1 DEF Retire, Drop, TypeOK, Status
  <2> QED BY <1>1, <2>3, <2>4, <2>5, <2>6
          DEF TypeOK, SecretInv, Retire, diskVars, childVars, sessionVars
<1>2. CASE StopPop(t)
  <2> DEFINE f == [frame[t] EXCEPT !.child = registered[frame[t].id], !.pc = "kill"]
  <2>1. frame[t].pc = "pop" /\ frame[t].id \in Ids
    BY <1>0, <1>2 DEF StopPop, At, Placed
  <2>2. registered[frame[t].id] \in Children \cup {None}
    BY <2>1 DEF TypeOK
  <2>3. f \in Frame /\ f.call = frame[t].call /\ f.object = frame[t].object /\ f.stream = frame[t].stream
    BY <2>2, ThreadType DEF Frame, Labels
  <2>4. Placed(f)
    BY <1>0, <2>1, ThreadType DEF Placed, Frame, Loading
  <2>5. ThreadsOK' /\ frame' \in [Threads -> Frame]
    BY <1>0, <1>2, <2>1, <2>3, <2>4, SameMoves DEF StopPop, deployVars, streamVars
  <2>6. registered' \in [Ids -> Children \cup {None}]
    BY <1>2 DEF StopPop, TypeOK
  <2> QED BY <1>0, <1>2, <2>5, <2>6 DEF TypeOK, SecretInv, StreamsOK, SecretsOK, StopPop,
                                  deployVars, streamVars, diskVars, sessionVars
<1>3. CASE StopKill(t)
  <2> DEFINE f == [frame[t] EXCEPT !.child = None, !.pc = "look"]
  <2>1. frame[t].pc = "kill"
    BY <1>3 DEF StopKill, At
  <2>2. f \in Frame /\ f.call = frame[t].call /\ f.object = frame[t].object /\ f.stream = frame[t].stream
    BY ThreadType DEF Frame, Labels
  <2>3. Placed(f)
    BY <1>0, <2>1, ThreadType DEF Placed, Frame, Loading
  <2>4. ThreadsOK' /\ frame' \in [Threads -> Frame]
    BY <1>0, <1>3, <2>1, <2>2, <2>3, SameMoves DEF StopKill, deployVars, streamVars
  <2>5. process' \in [Children -> ProcessState]
    BY <1>3 DEF StopKill, TypeOK, ProcessState
  <2> QED BY <1>0, <1>3, <2>4, <2>5 DEF TypeOK, SecretInv, StreamsOK, SecretsOK, StopKill,
                                  deployVars, streamVars, diskVars, sessionVars
<1>4. CASE StopLook(t)
  <2>1. frame[t].pc = "look"
    BY <1>4 DEF StopLook, At
  <2>2. ASSUME NEW l \in {"wipe", frame[t].then} PROVE l \in Labels /\ Placed([frame[t] EXCEPT !.pc = l])
    <3>1. l \in Labels
      BY ThreadType DEF Labels
    <3>2. Placed([frame[t] EXCEPT !.pc = l])
      BY <1>0, <2>1, ThreadType DEF Placed, Frame, Loading
    <3> QED BY <3>1, <3>2
  <2>3. ThreadsOK' /\ frame' \in [Threads -> Frame]
    BY <1>0, <1>4, <2>1, <2>2, GotoMoves DEF StopLook, deployVars, streamVars
  <2> QED BY <1>0, <1>4, <2>3 DEF TypeOK, SecretInv, StreamsOK, SecretsOK, StopLook, deployVars, streamVars, diskVars, childVars, sessionVars
<1>5. CASE StopWipe(t)
  <2>1. frame[t].pc = "wipe"
    BY <1>5 DEF StopWipe, At
  <2>2. frame[t].then \in Labels /\ Placed([frame[t] EXCEPT !.pc = frame[t].then])
    BY <1>0, <2>1, ThreadType DEF Placed, Frame, Loading
  <2>3. ThreadsOK' /\ frame' \in [Threads -> Frame] /\ lock' \in Threads \cup {None}
    <3>1. CASE Escape(t)
      BY <1>0, <1>5, <2>1, <3>1, EscapeMoves DEF StopWipe, deployVars, streamVars
    <3>2. CASE Goto(t, frame[t].then) /\ UNCHANGED lock
      BY <1>0, <1>5, <2>1, <2>2, <3>2, GotoMoves DEF StopWipe, deployVars, streamVars, TypeOK
    <3> QED BY <1>5, <3>1, <3>2 DEF StopWipe
  <2>4. /\ directory' \subseteq Ids /\ archive' \in [Ids -> Seq(Chunk)]
        /\ unpacked' \subseteq Ids /\ model' \in [Ids -> Seq(Chunk)]
    BY <1>5, WipedType DEF StopWipe, TypeOK, diskVars
  <2> QED BY <1>0, <1>5, <2>3, <2>4 DEF TypeOK, SecretInv, StreamsOK, SecretsOK, StopWipe,
                                  deployVars, streamVars, childVars, sessionVars
<1>6. CASE StopRaises(t)
  <2>1. ThreadsOK' /\ frame' \in [Threads -> Frame] /\ lock' \in Threads \cup {None}
    BY <1>0, <1>6, EscapeMoves DEF StopRaises, At, deployVars, streamVars
  <2> QED BY <1>0, <1>6, <2>1 DEF TypeOK, SecretInv, StreamsOK, SecretsOK, StopRaises, deployVars, streamVars, diskVars, childVars, sessionVars
<1>7. CASE MakeDirectory(t)
  <2> DEFINE l == IF frame[t].call = "execute" THEN "fill" ELSE "commit"
  <2>1. /\ frame[t].pc = "mkdir" /\ frame[t].id \in Ids
        /\ frame[t].call \in {"prepare", "execute"}
    BY <1>0, <1>7 DEF MakeDirectory, At, Placed
  <2>2. l \in Labels /\ Placed([frame[t] EXCEPT !.pc = l])
    <3>1. l \in Labels /\ l \in {"fill", "commit"}
      BY DEF Labels
    <3>2. Placed([frame[t] EXCEPT !.pc = l])
      BY <1>0, <2>1, <3>1, ThreadType DEF Placed, Frame, Loading
    <3> QED BY <3>1, <3>2
  <2>3. ThreadsOK' /\ frame' \in [Threads -> Frame] /\ lock' \in Threads \cup {None}
    <3>1. CASE Escape(t)
      BY <1>0, <1>7, <2>1, <3>1, EscapeMoves DEF MakeDirectory, deployVars, streamVars
    <3>2. CASE Goto(t, l) /\ UNCHANGED lock
      BY <1>0, <1>7, <2>1, <2>2, <3>2, GotoMoves DEF MakeDirectory, deployVars, streamVars, TypeOK
    <3>3. CASE UNCHANGED <<frame, lock>>
      BY <1>0, <1>7, <3>3, NobodyMoves DEF MakeDirectory, deployVars, streamVars, TypeOK
    <3> QED BY <1>7, <3>1, <3>2, <3>3 DEF MakeDirectory
  <2>4. /\ directory' \subseteq Ids /\ archive' \in [Ids -> Seq(Chunk)]
        /\ unpacked' \subseteq Ids /\ model' \in [Ids -> Seq(Chunk)]
    BY <1>7, <2>1, WipedType DEF MakeDirectory, TypeOK, diskVars
  <2> QED BY <1>0, <1>7, <2>3, <2>4 DEF TypeOK, SecretInv, StreamsOK, SecretsOK, MakeDirectory,
                                  deployVars, streamVars, childVars, sessionVars
<1>8. CASE PrepareCommit(t)
  <2>1. frame[t].call = "prepare" /\ frame[t].session \in Sessions
    BY <1>0, <1>8 DEF PrepareCommit, At, Placed
  <2>2. Keeps(t)
    BY <1>8 DEF PrepareCommit, Keeps
  <2>3. ThreadsOK' /\ frame' \in [Threads -> Frame]
    BY <1>0, <1>8, <2>2, LeaveMoves DEF PrepareCommit
  <2>4. StreamsOK'
    BY <1>0, <1>8 DEF PrepareCommit, StreamsOK, Holds, TypeOK
  <2>5. SecretsOK'
    BY <1>0, <1>8 DEF PrepareCommit, SecretsOK, TypeOK
  <2>6. /\ consumed' \subseteq Sessions /\ stream' \in [Ids -> Streams \cup {None}]
        /\ status' \in [Objects -> Status] /\ session' \in [Objects -> Sessions \cup {None}]
    BY <1>8, <2>1, ThreadType DEF PrepareCommit, TypeOK, Status
  <2> QED BY <1>8, <2>3, <2>4, <2>5, <2>6
          DEF TypeOK, SecretInv, PrepareCommit, diskVars, childVars
<1>9. CASE CloseNext(t)
  <2>1. frame[t].pc = "next"
    BY <1>9 DEF CloseNext, At
  <2>2. CASE todo = {} /\ Become(t, [Idle EXCEPT !.pc = "closed"]) /\ UNCHANGED <<secret, todo>>
             /\ dek' = dek \ {stream[id] : id \in Ids} /\ stream' = [id \in Ids |-> None] /\ table' = {}
    <3>1. /\ [Idle EXCEPT !.pc = "closed"].call = "none"
          /\ [Idle EXCEPT !.pc = "closed"].stream = None
      BY DEF Idle
    <3>2. Keeps(t)
      BY <1>9, <2>2 DEF CloseNext, Keeps
    <3>3. ThreadsOK' /\ frame' \in [Threads -> Frame]
      BY <1>0, <2>2, <3>1, <3>2, IdleOK, ThreadMoves
    <3>4. StreamsOK' /\ SecretsOK'
      BY <1>0, <1>9, <2>2 DEF CloseNext, StreamsOK, SecretsOK
    <3> QED BY <1>9, <2>2, <3>3, <3>4 DEF TypeOK, SecretInv, CloseNext, diskVars, childVars
  <2>3. ASSUME NEW id \in todo, todo' = todo \ {id}, secret' = secret \ {current[id]},
               Stop(t, [frame[t] EXCEPT !.id = id], "next"), UNCHANGED <<stream, dek, table>>
        PROVE  TypeOK' /\ SecretInv'
    <3> DEFINE f == [[frame[t] EXCEPT !.id = id] EXCEPT !.pc = "pop", !.then = "next"]
    <3>1. id \in Ids
      BY DEF TypeOK
    <3>2. /\ f \in Frame /\ f.call = frame[t].call /\ f.object = frame[t].object
          /\ f.stream = frame[t].stream /\ Become(t, f)
      BY <2>3, <3>1, ThreadType DEF Frame, Labels, Stop
    <3>3. Placed(f)
      BY <1>0, <2>1, <3>1, ThreadType DEF Placed, Frame, Loading
    <3>4. ThreadsOK' /\ frame' \in [Threads -> Frame]
      BY <1>0, <1>9, <2>1, <2>3, <3>2, <3>3, SameMoves DEF CloseNext
    <3>5. StreamsOK' /\ SecretsOK'
      BY <1>0, <1>9, <2>3 DEF CloseNext, StreamsOK, SecretsOK
    <3> QED BY <1>9, <2>3, <3>4, <3>5 DEF TypeOK, SecretInv, CloseNext, diskVars, childVars
  <2> QED BY <1>9, <2>2, <2>3 DEF CloseNext
<1> QED BY <1>1, <1>2, <1>3, <1>4, <1>5, <1>6, <1>7, <1>8, <1>9

\* The steps of append, finalize, infer and of start, which two callers share.
LEMMA LoadStep ==
  ASSUME TypeOK, SecretInv, NEW t \in Threads,
         \/ AppendWrite(t) \/ FinalizeMark(t) \/ FinalizeFailed(t) \/ FinalizeRelease(t)
         \/ LoadCheck(t) \/ LoadUnpack(t) \/ LoadExtract(t) \/ (\E p \in Children : LoadLaunch(t, p))
         \/ LoadWait(t) \/ LoadOnline(t) \/ Ask(t)
  PROVE  TypeOK' /\ SecretInv'
<1>0. ThreadsOK /\ StreamsOK /\ SecretsOK /\ Placed(frame[t]) /\ Holds(t)
  BY DEF SecretInv, ThreadsOK
<1>e. <<>> \in Seq(Chunk)
  OBVIOUS
<1>1. CASE AppendWrite(t)
  <2>1. frame[t].stream \in Streams /\ origin[frame[t].stream] \in Sessions
    BY <1>0, <1>1, NoneDistinct DEF AppendWrite, At, Placed, Holds
  <2>2. ThreadsOK' /\ frame' \in [Threads -> Frame]
    BY <1>0, <1>1, LeaveMoves DEF AppendWrite, Keeps, deployVars
  <2>3. received' \in [Streams -> Nat]
    <3>1. received \in [Streams -> Nat] /\ received[frame[t].stream] + 1 \in Nat
      BY <2>1 DEF TypeOK
    <3>2. \/ received' = [received EXCEPT ![frame[t].stream] = received[frame[t].stream] + 1]
          \/ received' = received
      BY <1>1 DEF AppendWrite
    <3> QED BY <2>1, <3>1, <3>2
  <2>4. <<origin[frame[t].stream], received[frame[t].stream] + 1>> \in Chunk
    BY <2>1 DEF TypeOK, Chunk
  <2>5. ASSUME frame[t].id \in Ids
        PROVE  Append(archive[frame[t].id], <<origin[frame[t].stream], received[frame[t].stream] + 1>>) \in Seq(Chunk)
    BY <2>4, <2>5 DEF TypeOK
  <2>6. archive' \in [Ids -> Seq(Chunk)]
    BY <1>1, <2>5 DEF AppendWrite, TypeOK
  <2> QED BY <1>0, <1>1, <2>2, <2>3, <2>6 DEF TypeOK, SecretInv, StreamsOK, SecretsOK, AppendWrite,
                                         deployVars, childVars, sessionVars
<1>2. CASE FinalizeMark(t)
  <2>1. frame[t].pc = "mark" /\ Placed([frame[t] EXCEPT !.pc = "check"])
    BY <1>0, <1>2, ThreadType DEF FinalizeMark, At, Placed, Frame, Loading
  <2>2. ThreadsOK' /\ frame' \in [Threads -> Frame]
    BY <1>0, <1>2, <2>1, GotoMoves DEF FinalizeMark, streamVars, Labels
  <2>3. status' \in [Objects -> Status]
    BY <1>2 DEF FinalizeMark, TypeOK, Status
  <2>4. SecretsOK' /\ StreamsOK'
    BY <1>0, <1>2 DEF FinalizeMark, SecretsOK, StreamsOK, TypeOK, streamVars
  <2> QED BY <1>2, <2>2, <2>3, <2>4
          DEF TypeOK, SecretInv, FinalizeMark, streamVars, diskVars, childVars, sessionVars
<1>3. CASE FinalizeFailed(t)
  <2> DEFINE f == [frame[t] EXCEPT !.pc = "pop", !.then = "release"]
  <2>1. /\ frame[t].pc = "failed" /\ Become(t, f) /\ f \in Frame /\ f.call = frame[t].call
        /\ f.object = frame[t].object /\ f.stream = frame[t].stream
    BY <1>3, ThreadType DEF FinalizeFailed, At, Stop, Frame, Labels
  <2>2. Placed(f)
    BY <1>0, <2>1, ThreadType DEF Placed, Frame, Loading
  <2>3. ThreadsOK' /\ frame' \in [Threads -> Frame]
    BY <1>0, <1>3, <2>1, <2>2, SameMoves DEF FinalizeFailed, streamVars
  <2>4. status' \in [Objects -> Status]
    BY <1>3 DEF FinalizeFailed, TypeOK, Status
  <2>5. SecretsOK' /\ StreamsOK'
    BY <1>0, <1>3 DEF FinalizeFailed, SecretsOK, StreamsOK, TypeOK, streamVars
  <2> QED BY <1>3, <2>3, <2>4, <2>5
          DEF TypeOK, SecretInv, FinalizeFailed, streamVars, diskVars, childVars, sessionVars
<1>4. CASE FinalizeRelease(t)
  <2>1. ThreadsOK' /\ frame' \in [Threads -> Frame]
    BY <1>0, <1>4, LeaveMoves DEF FinalizeRelease, Keeps, deployVars
  <2>2. StreamsOK' /\ SecretsOK'
    BY <1>0, <1>4, StreamsKept DEF FinalizeRelease, SecretsOK, TypeOK, deployVars
  <2>3. dek' \subseteq Streams /\ stream' \in [Ids -> Streams \cup {None}]
    BY <1>4 DEF FinalizeRelease, TypeOK
  <2> QED BY <1>4, <2>1, <2>2, <2>3
          DEF TypeOK, SecretInv, FinalizeRelease, deployVars, diskVars, childVars, sessionVars
<1>5. CASE LoadCheck(t)
  <2>1. frame[t].pc = "check" /\ Placed([frame[t] EXCEPT !.pc = "unpack"])
    BY <1>0, <1>5, ThreadType DEF LoadCheck, At, Placed, Frame, Loading
  <2>2. ThreadsOK' /\ frame' \in [Threads -> Frame] /\ lock' \in Threads \cup {None}
    <3>1. CASE Goto(t, "unpack") /\ UNCHANGED lock
      BY <1>0, <1>5, <2>1, <3>1, GotoMoves DEF LoadCheck, deployVars, streamVars, Labels, TypeOK
    <3>2. CASE Fail(t)
      BY <1>0, <1>5, <2>1, <3>2, FailMoves DEF LoadCheck, deployVars, streamVars, Loading
    <3> QED BY <1>5, <3>1, <3>2 DEF LoadCheck
  <2> QED BY <1>0, <1>5, <2>2 DEF TypeOK, SecretInv, StreamsOK, SecretsOK, LoadCheck, deployVars, streamVars, diskVars, childVars, sessionVars
<1>6. CASE LoadUnpack(t)
  <2> DEFINE f == [frame[t] EXCEPT !.data = archive[frame[t].id], !.pc = "extract"]
  <2>1. frame[t].pc = "unpack" /\ frame[t].id \in Ids
    BY <1>0, <1>6 DEF LoadUnpack, At, Placed
  <2>2. archive[frame[t].id] \in Seq(Chunk)
    BY <2>1 DEF TypeOK
  <2>3. f \in Frame /\ f.call = frame[t].call /\ f.object = frame[t].object /\ f.stream = frame[t].stream
    BY <2>2, ThreadType DEF Frame, Labels
  <2>4. Placed(f)
    BY <1>0, <2>1, ThreadType DEF Placed, Frame, Loading
  <2>5. ThreadsOK' /\ frame' \in [Threads -> Frame] /\ lock' \in Threads \cup {None}
    <3>1. CASE Become(t, f) /\ UNCHANGED lock
      BY <1>0, <1>6, <2>1, <2>3, <2>4, <3>1, SameMoves DEF LoadUnpack, deployVars, streamVars, TypeOK
    <3>2. CASE Escape(t)
      BY <1>0, <1>6, <2>1, <3>2, EscapeMoves DEF LoadUnpack, deployVars, streamVars
    <3> QED BY <1>6, <3>1, <3>2 DEF LoadUnpack
  <2>6. unpacked' \subseteq Ids
    BY <1>6, <2>1 DEF LoadUnpack, TypeOK
  <2> QED BY <1>0, <1>6, <2>5, <2>6 DEF TypeOK, SecretInv, StreamsOK, SecretsOK, LoadUnpack,
                                   deployVars, streamVars, childVars, sessionVars
<1>7. CASE LoadExtract(t)
  <2> DEFINE f == [frame[t] EXCEPT !.data = <<>>, !.pc = "launch"]
  <2>1. frame[t].pc = "extract" /\ frame[t].id \in Ids
    BY <1>0, <1>7 DEF LoadExtract, At, Placed
  <2>2. f \in Frame /\ f.call = frame[t].call /\ f.object = frame[t].object /\ f.stream = frame[t].stream
    BY <1>e, ThreadType DEF Frame, Labels
  <2>3. Placed(f)
    BY <1>0, <2>1, ThreadType DEF Placed, Frame, Loading
  <2>4. ThreadsOK' /\ frame' \in [Threads -> Frame] /\ lock' \in Threads \cup {None}
    <3>1. CASE Become(t, f) /\ UNCHANGED lock
      BY <1>0, <1>7, <2>1, <2>2, <2>3, <3>1, SameMoves DEF LoadExtract, deployVars, streamVars, TypeOK
    <3>2. CASE Fail(t)
      BY <1>0, <1>7, <2>1, <3>2, FailMoves DEF LoadExtract, deployVars, streamVars, Loading
    <3> QED BY <1>7, <3>1, <3>2 DEF LoadExtract
  <2>5. directory' \subseteq Ids /\ unpacked' \subseteq Ids /\ model' \in [Ids -> Seq(Chunk)]
    BY <1>7, <2>1, ThreadType DEF LoadExtract, TypeOK
  <2> QED BY <1>0, <1>7, <2>4, <2>5 DEF TypeOK, SecretInv, StreamsOK, SecretsOK, LoadExtract,
                                   deployVars, streamVars, childVars, sessionVars
<1>8. ASSUME NEW p \in Children, LoadLaunch(t, p) PROVE TypeOK' /\ SecretInv'
  <2> DEFINE f == [frame[t] EXCEPT !.child = p, !.pc = "wait"]
  <2>1. frame[t].pc = "launch" /\ frame[t].id \in Ids
    BY <1>0, <1>8 DEF LoadLaunch, At, Placed
  <2>2. f \in Frame /\ f.call = frame[t].call /\ f.object = frame[t].object /\ f.stream = frame[t].stream
    BY ThreadType DEF Frame, Labels
  <2>3. Placed(f)
    BY <1>0, <2>1, ThreadType DEF Placed, Frame, Loading
  <2>4. ThreadsOK' /\ frame' \in [Threads -> Frame] /\ lock' \in Threads \cup {None}
    <3>1. CASE Become(t, f) /\ UNCHANGED lock
      BY <1>0, <1>8, <2>1, <2>2, <2>3, <3>1, SameMoves DEF LoadLaunch, deployVars, streamVars, TypeOK
    <3>2. CASE Fail(t)
      BY <1>0, <1>8, <2>1, <3>2, FailMoves DEF LoadLaunch, deployVars, streamVars, Loading
    <3>3. CASE Escape(t)
      BY <1>0, <1>8, <2>1, <3>3, EscapeMoves DEF LoadLaunch, deployVars, streamVars
    <3> QED BY <1>8, <3>1, <3>2, <3>3 DEF LoadLaunch
  <2>5. process' \in [Children -> ProcessState]
    <3>1. process' = [process EXCEPT ![p] = "running"] \/ process' = process
      BY <1>8 DEF LoadLaunch, childVars
    <3> QED BY <3>1 DEF TypeOK, ProcessState
  <2>6. runs' \in [Children -> Ids \cup {None}] /\ registered' \in [Ids -> Children \cup {None}]
    <3>1. runs' = [runs EXCEPT ![p] = frame[t].id] \/ runs' = runs
      BY <1>8 DEF LoadLaunch, childVars
    <3>2. registered' = [registered EXCEPT ![frame[t].id] = p] \/ registered' = registered
      BY <1>8 DEF LoadLaunch, childVars
    <3> QED BY <2>1, <3>1, <3>2 DEF TypeOK
  <2>7. serves' \in [Children -> Seq(Chunk)] /\ port' \in [Children -> Ports \cup {None}]
    <3>1. serves' = [serves EXCEPT ![p] = model[frame[t].id]] \/ serves' = serves
      BY <1>8 DEF LoadLaunch, childVars
    <3>2. (\E k \in Ports : port' = [port EXCEPT ![p] = k]) \/ port' = port
      BY <1>8 DEF LoadLaunch, FreePorts, childVars
    <3>3. model[frame[t].id] \in Seq(Chunk)
      BY <2>1 DEF TypeOK
    <3>4. serves' \in [Children -> Seq(Chunk)]
      BY <3>1, <3>3 DEF TypeOK
    <3>5. port' \in [Children -> Ports \cup {None}]
      BY <3>2 DEF TypeOK
    <3> QED BY <3>4, <3>5
  <2> QED BY <1>0, <1>8, <2>4, <2>5, <2>6, <2>7 DEF TypeOK, SecretInv, StreamsOK, SecretsOK, LoadLaunch,
                                   deployVars, streamVars, diskVars, sessionVars
<1>9. CASE LoadWait(t)
  <2> DEFINE l == IF frame[t].call = "finalize" THEN "failed" ELSE "escape"
             f == [[frame[t] EXCEPT !.child = None] EXCEPT !.pc = "pop", !.then = l]
  <2>1. frame[t].pc = "wait" /\ Placed([frame[t] EXCEPT !.pc = "online"])
    BY <1>0, <1>9, ThreadType DEF LoadWait, At, Placed, Frame, Loading
  <2>2. /\ l \in {"failed", "escape"} /\ f \in Frame /\ f.call = frame[t].call
        /\ f.object = frame[t].object /\ f.stream = frame[t].stream
    <3>1. l \in {"failed", "escape"}
      OBVIOUS
    <3>2. [frame[t] EXCEPT !.child = None] \in Frame
      BY ThreadType DEF Frame
    <3>3. l \in Labels
      BY <3>1 DEF Labels
    <3>4. f \in Frame
      BY <3>2, <3>3, StopFrame
    <3>5. f.call = frame[t].call /\ f.object = frame[t].object /\ f.stream = frame[t].stream
      BY ThreadType DEF Frame
    <3> QED BY <3>1, <3>4, <3>5
  <2>3. Placed(f)
    BY <1>0, <2>1, <2>2, ThreadType DEF Placed, Frame, Loading
  <2>4. ThreadsOK' /\ frame' \in [Threads -> Frame]
    <3>1. CASE Goto(t, "online")
      BY <1>0, <1>9, <2>1, <3>1, GotoMoves DEF LoadWait, deployVars, streamVars, Labels
    <3>2. CASE Become(t, f)
      BY <1>0, <1>9, <2>1, <2>2, <2>3, <3>2, SameMoves DEF LoadWait, deployVars, streamVars
    <3> QED BY <1>9, <3>1, <3>2 DEF LoadWait, Stop
  <2> QED BY <1>0, <1>9, <2>4 DEF TypeOK, SecretInv, StreamsOK, SecretsOK, LoadWait, deployVars, streamVars, diskVars, childVars, sessionVars
<1>10. CASE LoadOnline(t)
  <2> DEFINE f == [frame[t] EXCEPT !.child = None, !.pc = "release"]
  <2>1. /\ frame[t].pc = "online" /\ frame[t].child \in Children
        /\ frame[t].call \in {"finalize", "execute"}
    BY <1>0, <1>10 DEF LoadOnline, At, Placed, Loading
  <2>2. /\ endpoint' \in [Objects -> Ports \cup {None}]
        /\ status' \in [Objects -> Status]
    BY <1>10, <2>1 DEF LoadOnline, TypeOK, Status
  <2>3. SecretsOK' /\ StreamsOK'
    BY <1>0, <1>10 DEF LoadOnline, SecretsOK, StreamsOK, TypeOK, streamVars
  <2>4. CASE frame[t].call = "finalize"
    <3>1. f \in Frame /\ f.call = frame[t].call /\ f.object = frame[t].object /\ f.stream = frame[t].stream
      BY ThreadType DEF Frame, Labels
    <3>2. Placed(f)
      BY <1>0, <2>1, <2>4, ThreadType DEF Placed, Frame, Loading
    <3>3. ThreadsOK' /\ frame' \in [Threads -> Frame]
      BY <1>0, <1>10, <2>1, <2>4, <3>1, <3>2, SameMoves DEF LoadOnline, streamVars
    <3> QED BY <1>10, <2>2, <2>3, <2>4, <3>3
            DEF TypeOK, SecretInv, LoadOnline, streamVars, diskVars, childVars, sessionVars
  <2>5. CASE frame[t].call = "execute"
    <3>1. lock = t /\ frame[t].session \in Sessions
      BY <1>0, <2>1, <2>5 DEF Holds, Placed
    <3>2. Keeps(t)
      BY <1>10, <2>5, <3>1 DEF LoadOnline, Keeps, streamVars
    <3>3. ThreadsOK' /\ frame' \in [Threads -> Frame]
      BY <1>0, <1>10, <2>5, <3>2, LeaveMoves DEF LoadOnline
    <3>4. session' \in [Objects -> Sessions \cup {None}] /\ lock' = None
      BY <1>10, <2>5, <3>1 DEF LoadOnline, TypeOK
    <3> QED BY <1>10, <2>2, <2>3, <3>3, <3>4
            DEF TypeOK, SecretInv, LoadOnline, streamVars, diskVars, childVars, sessionVars
  <2> QED BY <2>1, <2>4, <2>5
<1>11. CASE Ask(t)
  <2>1. ThreadsOK' /\ frame' \in [Threads -> Frame]
    BY <1>0, <1>11, LeaveMoves DEF Ask, Keeps, deployVars, streamVars
  <2> QED BY <1>0, <1>11, <2>1 DEF TypeOK, SecretInv, StreamsOK, SecretsOK, Ask, deployVars, streamVars, diskVars, childVars, sessionVars
<1> QED BY <1>1, <1>2, <1>3, <1>4, <1>5, <1>6, <1>7, <1>8, <1>9, <1>10, <1>11

\* The steps of execute.  The activation finds the lock free, so no offline is
\* under way, and leaves the deployment ONLINE when it gives it a credential.
LEMMA ExecuteStep ==
  ASSUME TypeOK, SecretInv, NEW t \in Threads, Consume(t) \/ Activate(t) \/ ActivateFill(t)
  PROVE  TypeOK' /\ SecretInv'
<1>0. ThreadsOK /\ StreamsOK /\ SecretsOK /\ Placed(frame[t]) /\ Holds(t)
  BY DEF SecretInv, ThreadsOK
<1>1. CASE Consume(t)
  <2> DEFINE f == [frame[t] EXCEPT !.pc = "activate"]
  <2>1. frame[t].pc = "consume" /\ frame[t].call = "execute" /\ frame[t].session \in Sessions
    BY <1>0, <1>1 DEF Consume, At, Placed
  <2>2. Keeps(t)
    BY <1>1 DEF Consume, Keeps, deployVars, streamVars
  <2>3. /\ f \in Frame /\ Placed(f) /\ f.call = "execute" /\ f.pc = "activate"
        /\ f.stream = frame[t].stream
    BY <1>0, <2>1, ThreadType DEF Placed, Frame, Loading, Labels
  <2>4. ThreadsOK' /\ frame' \in [Threads -> Frame]
    <3>1. CASE Goto(t, "activate")
      BY <1>0, <1>1, <2>2, <2>3, <3>1, ThreadMoves DEF Consume, Goto, Holds, streamVars
    <3>2. CASE Leave(t)
      BY <1>0, <2>2, <3>2, LeaveMoves
    <3> QED BY <1>1, <3>1, <3>2 DEF Consume
  <2>5. consumed' \subseteq Sessions
    BY <1>1, <2>1 DEF Consume, TypeOK
  <2> QED BY <1>0, <1>1, <2>4, <2>5 DEF TypeOK, SecretInv, StreamsOK, SecretsOK, Consume,
                                   deployVars, streamVars, diskVars, childVars
<1>2. CASE Activate(t)
  <2> DEFINE id == frame[t].id
             o == current[id]
             f == [[frame[t] EXCEPT !.object = o] EXCEPT !.pc = "pop", !.then = "mkdir"]
  <2>1. frame[t].pc = "activate" /\ id \in Ids /\ lock = None /\ o \in Objects \cup {None}
    BY <1>0, <1>2 DEF Activate, At, Placed, Unlocked, TypeOK
  <2>2. frame[t].session \in Sessions \cup {None}
    BY ThreadType
  <2>3. StreamsOK' /\ Keeps(t)
    BY <1>0, <1>2, <2>1 DEF Activate, StreamsOK, Keeps, streamVars
  <2>4. CASE Leave(t) /\ UNCHANGED <<status, session, secret, lock>>
    <3>1. ThreadsOK' /\ frame' \in [Threads -> Frame]
      BY <1>0, <2>3, <2>4, LeaveMoves
    <3> QED BY <1>0, <1>2, <2>3, <2>4, <3>1
            DEF TypeOK, SecretInv, SecretsOK, Activate, streamVars, diskVars, childVars, sessionVars
  <2>5. ASSUME Known(id), source[o] = "OPENAI_COMPATIBLE", Leave(t), UNCHANGED lock,
               \/ /\ secret'  = secret \cup {o}
                  /\ status'  = [status EXCEPT ![o] = "ONLINE"]
                  /\ session' = [session EXCEPT ![o] = frame[t].session]
               \/ secret' = secret \ {o} /\ UNCHANGED <<status, session>>
        PROVE  TypeOK' /\ SecretInv'
    <3>1. ThreadsOK' /\ frame' \in [Threads -> Frame]
      BY <1>0, <2>3, <2>5, LeaveMoves
    <3>2. o \in Objects
      BY <2>1, <2>5 DEF Known
    <3>3. /\ secret' \subseteq Objects /\ status' \in [Objects -> Status]
          /\ session' \in [Objects -> Sessions \cup {None}]
      BY <2>2, <2>5, <3>2 DEF TypeOK, Status
    <3>4. SecretsOK'
      BY <1>0, <2>5, <3>2 DEF SecretsOK, TypeOK
    <3> QED BY <1>2, <2>3, <2>5, <3>1, <3>3, <3>4
            DEF TypeOK, SecretInv, Activate, streamVars, diskVars, childVars, sessionVars
  <2>6. ASSUME secret' = secret \ {o}, lock' = t, Become(t, f), UNCHANGED <<status, session>>
        PROVE  TypeOK' /\ SecretInv'
    <3>1. f \in Frame /\ f.call = frame[t].call /\ f.stream = frame[t].stream /\ f.object = o
      BY <2>1, ThreadType DEF Frame, Labels
    <3>2. f.call \in {"prepare", "execute"} /\ Placed(f)
      BY <1>0, <1>2, <2>1, ThreadType DEF Placed, Frame, Loading
    <3>3. ThreadsOK' /\ frame' \in [Threads -> Frame]
      BY <1>0, <1>2, <2>3, <2>6, <3>1, <3>2, ThreadMoves DEF Activate, Holds, streamVars
    <3>4. SecretsOK'
      BY <1>0, <2>6 DEF SecretsOK
    <3> QED BY <1>2, <2>3, <2>6, <3>3, <3>4
            DEF TypeOK, SecretInv, Activate, streamVars, diskVars, childVars, sessionVars
  <2> QED BY <1>2, <2>4, <2>5, <2>6 DEF Activate, Stop
<1>3. CASE ActivateFill(t)
  <2>1. /\ frame[t].pc = "fill" /\ frame[t].id \in Ids /\ frame[t].call = "execute"
        /\ frame[t].session \in Sessions
    BY <1>0, <1>3 DEF ActivateFill, At, Placed
  <2>2. Placed([frame[t] EXCEPT !.pc = "check"])
    BY <1>0, <2>1, ThreadType DEF Placed, Frame, Loading
  <2>3. ThreadsOK' /\ frame' \in [Threads -> Frame] /\ lock' \in Threads \cup {None}
    <3>1. CASE Goto(t, "check") /\ UNCHANGED lock
      BY <1>0, <1>3, <2>1, <2>2, <3>1, GotoMoves DEF ActivateFill, deployVars, streamVars, Labels, TypeOK
    <3>2. CASE Escape(t)
      BY <1>0, <1>3, <2>1, <3>2, EscapeMoves DEF ActivateFill, deployVars, streamVars
    <3> QED BY <1>3, <3>1, <3>2 DEF ActivateFill
  <2>4. Upload(frame[t].session) \in Seq(Chunk)
    <3>1. Upload(frame[t].session) \in [1 .. Chunks -> Chunk]
      BY <2>1, Bounds DEF Upload, Chunk
    <3> QED BY <3>1, Bounds
  <2>5. archive' \in [Ids -> Seq(Chunk)]
    BY <1>3, <2>4 DEF ActivateFill, TypeOK
  <2> QED BY <1>0, <1>3, <2>3, <2>5 DEF TypeOK, SecretInv, StreamsOK, SecretsOK, ActivateFill,
                                   deployVars, streamVars, childVars, sessionVars
<1> QED BY <1>1, <1>2, <1>3

-----------------------------------------------------------------------------
(* The theorems.                                                           *)

\* TypeOK and SecretInv are inductive.
LEMMA Inductive == TypeOK /\ SecretInv /\ [Next]_vars => TypeOK' /\ SecretInv'
<1> SUFFICES ASSUME TypeOK, SecretInv, [Next]_vars PROVE TypeOK' /\ SecretInv'
  OBVIOUS
<1>1. CASE Request
  BY <1>1, RequestStep
<1>2. CASE Environment \/ CloseBegin
  BY <1>2, EnvironmentStep
<1>3. ASSUME NEW t \in Threads, Step(t) PROVE TypeOK' /\ SecretInv'
  BY <1>3, StopStep, LoadStep, ExecuteStep DEF Step
<1>4. CASE UNCHANGED vars
  BY <1>4 DEF vars, deployVars, streamVars, diskVars, childVars, sessionVars, TypeOK, SecretInv, ThreadsOK, StreamsOK, SecretsOK, Placed, Holds
<1> QED BY <1>1, <1>2, <1>3, <1>4 DEF Next, Stopped

\* Every variable keeps its type, however the handlers, the children, the purges,
\* the restarts and close() interleave.
THEOREM TypeCorrect == Spec => []TypeOK
<1>1. Init => TypeOK /\ SecretInv
  BY InitOK
<1> QED BY <1>1, Inductive, PTL DEF Spec

\* Whatever requests overlap, a deployment that is OFFLINE or AUTHORIZATION_REQUIRED
\* holds no credential: _purge and offline take both away, and the activation, which
\* gives one, does not come between the steps of offline.
THEOREM CredentialsGivenUp == Spec => []NoCredentialWithoutAuthorization
<1>1. Init => TypeOK /\ SecretInv
  BY InitOK
<1>2. SecretInv => NoCredentialWithoutAuthorization
  BY DEF SecretInv, SecretsOK, NoCredentialWithoutAuthorization
<1> QED BY <1>1, <1>2, Inductive, PTL DEF Spec
=============================================================================
