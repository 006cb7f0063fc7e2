-------------------------- MODULE ModelDeployments --------------------------
(***************************************************************************)
(* The life of a model deployment: the deployment handlers of              *)
(* ConfidentialExecutionService (ciphergpu/service.py), the activation at  *)
(* the end of execute, infer, runtime_chat, _purge and close(), together   *)
(* with the ModelRuntimeManager they drive (ciphergpu/model_runtime.py)    *)
(* and its vLLM children.                                                  *)
(*                                                                         *)
(* A handler is a thread that takes one atomic step per access to what the *)
(* others see.  The tables are behind one RLock; most handlers hold it for *)
(* a single step, offline and the activation of a deployment hold it while *)
(* they stop, unpack and start.  finalize, which does the same, does not.  *)
(*                                                                         *)
(* Directories, child registrations and tables go by the client's          *)
(* deployment id; the deployment and stream OBJECTS a thread holds do not. *)
(***************************************************************************)
EXTENDS Naturals, Sequences, FiniteSets

CONSTANTS
  Ids,          \* the deployment ids clients use
  Objects,      \* ModelDeployment instances (bounds the registrations)
  Streams,      \* StreamDeployment instances (bounds the preparations)
  Children,     \* vLLM processes (bounds the loads)
  Ports,        \* the TCP ports the kernel hands out
  Sessions,     \* sessions, each made once
  Requests,     \* threads of the pool that runs the plain handlers
  EventLoop,    \* the thread of the async handler: chunk upload
  Closer,       \* the thread that runs close()
  Chunks,       \* chunks per model
  MaxInFlight,  \* how many requests the clients keep in flight at once
  MaxRestarts,  \* how often the agent dies and is started again
  None

Threads == Requests \cup {EventLoop, Closer}

ASSUME ThreadsDistinct == EventLoop \notin Requests /\ Closer \notin Requests \cup {EventLoop}

ASSUME NoneDistinct ==
  None \notin Objects \cup Streams \cup Children \cup Ports \cup Sessions \cup Ids \cup Threads

ASSUME RequestsFinite == IsFiniteSet(Requests)

ASSUME Bounds == Chunks \in Nat \ {0} /\ MaxInFlight \in Nat \ {0} /\ MaxRestarts \in Nat

VARIABLES
  current,     \* _model_deployments: id -> the object in the table
  source,      \* source_type of an object
  status,      \* status of an object; "unused": not made yet
  session,     \* session_id of an object
  secret,      \* objects that hold a credential
  endpoint,    \* base_url of an object: the local port it leads to, if any
  stream,      \* _stream_deployments: id -> the object in the table
  origin,      \* the session that authorized a stream; None: not made yet
  received,    \* next_index of a stream
  dek,         \* streams whose DEK is not zeroed
  directory,   \* ids whose directory below root exists
  archive,     \* model-package: the chunks <<session, index>> written to it
  unpacked,    \* ids whose directory model/ exists
  model,       \* what was extracted below model/
  registered,  \* _runtimes: id -> child
  process,     \* state of each child
  runs,        \* the id a child was started for
  serves,      \* the model a child has loaded
  port,        \* the port a child was started with
  task,        \* the deployment a session's task is for; None: not made yet
  table,       \* _sessions
  expired,     \* sessions whose expires_at has passed
  consumed,    \* sessions whose consumed flag is set
  lock,        \* the thread that holds _lock across steps
  frame,       \* local state of each thread
  todo,        \* deployments close() has still to visit
  restarts     \* how often the agent was started again

deployVars  == <<current, source, status, session, secret, endpoint>>
streamVars  == <<stream, origin, received, dek>>
diskVars    == <<directory, archive, unpacked, model>>
childVars   == <<registered, process, runs, serves, port>>
sessionVars == <<task, table, expired, consumed>>
vars == <<deployVars, streamVars, diskVars, childVars, sessionVars, lock, frame, todo, restarts>>

-----------------------------------------------------------------------------
(* Values.                                                                 *)

Sources == {"LOCAL_WEIGHTS", "OPENAI_COMPATIBLE"}

Status == {"unused", "AUTHORIZATION_REQUIRED", "DECRYPTING", "LOADING", "ONLINE",
           "FAILED", "OFFLINE"}

Chunk == Sessions \X Nat

\* "orphan": still running, but started by an agent that has died since
ProcessState == {"none", "running", "dead", "orphan"}

Calls == {"none", "offline", "prepare", "append", "finalize", "execute", "ask", "close"}

Labels == {"idle", "pop", "kill", "look", "wipe", "retire", "mkdir", "commit",
           "write", "mark", "check", "unpack", "extract", "launch", "wait",
           "online", "failed", "release", "consume", "activate", "fill", "ask", "escape",
           "next", "closed", "aborted"}

Frame == [pc : Labels, call : Calls, id : Ids \cup {None}, object : Objects \cup {None},
          stream : Streams \cup {None}, session : Sessions \cup {None},
          child : Children \cup {None}, data : Seq(Chunk), then : Labels]

Idle == [pc |-> "idle", call |-> "none", id |-> None, object |-> None, stream |-> None,
         session |-> None, child |-> None, data |-> <<>>, then |-> "idle"]

Upload(s) == [i \in 1 .. Chunks |-> <<s, i>>]

-----------------------------------------------------------------------------
Init ==
  /\ current    = [id \in Ids |-> None]
  /\ source     = [o \in Objects |-> "LOCAL_WEIGHTS"]
  /\ status     = [o \in Objects |-> "unused"]
  /\ session    = [o \in Objects |-> None]
  /\ secret     = {}
  /\ endpoint   = [o \in Objects |-> None]
  /\ stream     = [id \in Ids |-> None]
  /\ origin     = [x \in Streams |-> None]
  /\ received   = [x \in Streams |-> 0]
  /\ dek        = {}
  /\ directory  = {}
  /\ archive    = [id \in Ids |-> <<>>]
  /\ unpacked   = {}
  /\ model      = [id \in Ids |-> <<>>]
  /\ registered = [id \in Ids |-> None]
  /\ process    = [p \in Children |-> "none"]
  /\ runs       = [p \in Children |-> None]
  /\ serves     = [p \in Children |-> <<>>]
  /\ port       = [p \in Children |-> None]
  /\ task       = [s \in Sessions |-> None]
  /\ table      = {}
  /\ expired    = {}
  /\ consumed   = {}
  /\ lock       = None
  /\ frame      = [t \in Threads |-> Idle]
  /\ todo       = {}
  /\ restarts   = 0

-----------------------------------------------------------------------------
(* Threads and the lock.                                                   *)

At(t, l) == frame[t].pc = l

Become(t, f) == frame' = [frame EXCEPT ![t] = f]

Goto(t, l) == Become(t, [frame[t] EXCEPT !.pc = l])

Leave(t) == Become(t, Idle)

Unlocked == lock = None

InFlight == {t \in Requests \cup {EventLoop} : frame[t].pc # "idle"}

\* t can take a request: a chunk upload runs on the event loop itself, which
\* dispatches nothing else until it returns, and no request arrives once the
\* server shuts down.  The first thing all handlers do with the tables is to
\* take the lock.
Admits(t) ==
  /\ At(t, "idle")
  /\ At(EventLoop, "idle")
  /\ At(Closer, "idle")
  /\ Cardinality(InFlight) < MaxInFlight
  /\ Unlocked

Known(id) == current[id] # None

\* an exception that is no CipherGpuError leaves the handler; the lock goes with
\* its with-statement, and finalize still runs its finally clause
Escape(t) ==
  /\ Become(t, CASE frame[t].call = "finalize" -> [frame[t] EXCEPT !.pc = "release"]
                 [] frame[t].call = "close"    -> [Idle EXCEPT !.pc = "aborted"]
                 [] OTHER                      -> Idle)
  /\ lock' = IF lock = t THEN None ELSE lock

\* a CipherGpuError in start: finalize has a clause for it
Fail(t) ==
  IF frame[t].call = "finalize" THEN Goto(t, "failed") /\ UNCHANGED lock ELSE Escape(t)

\* enter ModelRuntimeManager.stop, and go on at l when it returns
Stop(t, f, l) == Become(t, [f EXCEPT !.pc = "pop", !.then = l])

-----------------------------------------------------------------------------
(* Sessions; see Authorization for what is left out here.                  *)

Live == table \ expired

\* the deployments whose session is purged
Stale == {o \in {current[id] : id \in Ids} \ {None} : session[o] \in table \cap expired}

\* mutant: the credential of an expired deployment is kept
PurgeKeepingSecrets(made) ==
  /\ table'   = Live \cup made
  /\ session' = [o \in Objects |-> IF o \in Stale THEN None ELSE session[o]]
  /\ status'  = [o \in Objects |-> IF o \in Stale THEN "AUTHORIZATION_REQUIRED" ELSE status[o]]
  /\ UNCHANGED secret

\* _purge, with which create_session, execute, infer and the two prepare handlers
\* begin (and create_session adds a session): vLLM child and plaintext of an
\* expired deployment stay
Purge(made) ==
  /\ table'   = Live \cup made
  /\ secret'  = secret \ Stale
  /\ session' = [o \in Objects |-> IF o \in Stale THEN None ELSE session[o]]
  /\ status'  = [o \in Objects |-> IF o \in Stale THEN "AUTHORIZATION_REQUIRED" ELSE status[o]]

\* any of these requests that is refused afterwards
Refuse(t) ==
  /\ t \in Requests
  /\ Admits(t)
  /\ Purge({})
  /\ UNCHANGED <<current, source, endpoint, streamVars, diskVars, childVars,
                 task, expired, consumed, lock, frame, todo, restarts>>

CreateSession(t, s, id) ==
  /\ t \in Requests
  /\ Admits(t)
  /\ task[s] = None
  /\ task' = [task EXCEPT ![s] = id]
  /\ Purge({s})
  /\ UNCHANGED <<current, source, endpoint, streamVars, diskVars, childVars,
                 expired, consumed, lock, frame, todo, restarts>>

SessionExpires(s) ==
  /\ s \in Live
  /\ expired' = expired \cup {s}
  /\ UNCHANGED <<deployVars, streamVars, diskVars, childVars, task, table, consumed,
                 lock, frame, todo, restarts>>

\* mutant: a consumed session is accepted again
AuthorizesAgain(s, id) == s \in Live /\ task[s] = id

\* what prepare and execute ask of the session
Authorizes(s, id) == s \in Live \ consumed /\ task[s] = id

-----------------------------------------------------------------------------
(* register_model_deployment, offline_model_deployment.                    *)

\* a deployment that is ONLINE is kept, any other is replaced
Register(t, id, o, src) ==
  /\ t \in Requests
  /\ Admits(t)
  /\ Known(id) => status[current[id]] # "ONLINE"
  /\ status[o] = "unused"
  /\ current' = [current EXCEPT ![id] = o]
  /\ source'  = [source EXCEPT ![o] = src]
  /\ status'  = [status EXCEPT ![o] = "AUTHORIZATION_REQUIRED"]
  /\ UNCHANGED <<session, secret, endpoint, streamVars, diskVars, childVars, sessionVars,
                 lock, frame, todo, restarts>>

\* the lock is held until the child is gone; an id that is not in the table is
\* answered with OFFLINE, which changes nothing
Offline(t, id) ==
  /\ t \in Requests
  /\ Admits(t)
  /\ Known(id)
  /\ secret' = secret \ {current[id]}
  /\ lock' = t
  /\ Stop(t, [Idle EXCEPT !.call = "offline", !.id = id, !.object = current[id]], "retire")
  /\ UNCHANGED <<current, source, status, session, endpoint, streamVars, diskVars, childVars,
                 sessionVars, todo, restarts>>

\* mutant: the stream goes, its key stays
DropKeepingKey(id) == stream' = [stream EXCEPT ![id] = None] /\ UNCHANGED dek

\* zero the DEK of the stream in the table and take it out
Drop(id) ==
  /\ dek'    = dek \ {stream[id]}
  /\ stream' = [stream EXCEPT ![id] = None]

Retire(t) ==
  LET o == frame[t].object IN
  /\ At(t, "retire")
  /\ Drop(frame[t].id)
  /\ status'  = [status EXCEPT ![o] = "OFFLINE"]
  /\ session' = [session EXCEPT ![o] = None]
  /\ lock' = None
  /\ Leave(t)
  /\ UNCHANGED <<current, source, secret, endpoint, origin, received, diskVars, childVars,
                 sessionVars, todo, restarts>>

-----------------------------------------------------------------------------
(* ModelRuntimeManager.stop and prepare_archive.                           *)

StopPop(t) ==
  LET id == frame[t].id IN
  /\ At(t, "pop")
  /\ registered' = [registered EXCEPT ![id] = None]
  /\ Become(t, [frame[t] EXCEPT !.child = registered[id], !.pc = "kill"])
  /\ UNCHANGED <<deployVars, streamVars, diskVars, process, runs, serves, port, sessionVars,
                 lock, todo, restarts>>

\* mutant: a child that does not end on terminate is left alone
StopKillPatient(t) ==
  /\ At(t, "kill")
  /\ Become(t, [frame[t] EXCEPT !.child = None, !.pc = "look"])
  /\ UNCHANGED <<deployVars, streamVars, diskVars, childVars, sessionVars, lock, todo, restarts>>

\* terminate, wait, kill, wait
StopKill(t) ==
  LET p == frame[t].child IN
  /\ At(t, "kill")
  /\ process' = IF p # None /\ process[p] = "running"
                  THEN [process EXCEPT ![p] = "dead"] ELSE process
  /\ Become(t, [frame[t] EXCEPT !.child = None, !.pc = "look"])
  /\ UNCHANGED <<deployVars, streamVars, diskVars, registered, runs, serves, port, sessionVars,
                 lock, todo, restarts>>

\* mutant: remove_plaintext is False
StopLookKeeping(t) ==
  /\ At(t, "look")
  /\ Goto(t, frame[t].then)
  /\ UNCHANGED <<deployVars, streamVars, diskVars, childVars, sessionVars, lock, todo, restarts>>

\* the log is copied if there is one, which changes nothing here
StopLook(t) ==
  /\ At(t, "look")
  /\ Goto(t, IF frame[t].id \in directory THEN "wipe" ELSE frame[t].then)
  /\ UNCHANGED <<deployVars, streamVars, diskVars, childVars, sessionVars, lock, todo, restarts>>

Wiped(id) ==
  /\ directory' = directory \ {id}
  /\ archive'   = [archive EXCEPT ![id] = <<>>]
  /\ unpacked'  = unpacked \ {id}
  /\ model'     = [model EXCEPT ![id] = <<>>]

\* another thread writes into the directory that t removes
Disturbed(t) ==
  \E u \in Threads \ {t} :
    frame[u].id = frame[t].id /\ frame[u].pc \in {"write", "fill", "extract", "launch"}

\* what rmtree leaves that raises over this (ENOTEMPTY)
HalfWiped(id) ==
  /\ UNCHANGED directory
  /\ archive' \in {archive, [archive EXCEPT ![id] = <<>>]}
  /\ \/ UNCHANGED <<unpacked, model>>
     \/ /\ unpacked' \in {unpacked, unpacked \ {id}}
        /\ model' = [model EXCEPT ![id] = <<>>]

\* rmtree of a directory another thread removed in between raises FileNotFoundError
StopWipe(t) ==
  LET id == frame[t].id IN
  /\ At(t, "wipe")
  /\ \/ id \in directory /\ Wiped(id) /\ Goto(t, frame[t].then) /\ UNCHANGED lock
     \/ id \notin directory /\ Escape(t) /\ UNCHANGED diskVars
     \/ id \in directory /\ Disturbed(t) /\ HalfWiped(id) /\ Escape(t)
  /\ UNCHANGED <<deployVars, streamVars, childVars, sessionVars, todo, restarts>>

StopRaises(t) ==
  /\ At(t, "escape")
  /\ Escape(t)
  /\ UNCHANGED <<deployVars, streamVars, diskVars, childVars, sessionVars, todo, restarts>>

\* the second half of prepare_archive: a directory that is there again is wiped
\* once more; removing and making it may raise
MakeDirectory(t) ==
  LET id == frame[t].id IN
  /\ At(t, "mkdir")
  /\ \/ /\ id \notin directory
        /\ directory' = directory \cup {id}
        /\ Goto(t, IF frame[t].call = "execute" THEN "fill" ELSE "commit")
        /\ UNCHANGED <<archive, unpacked, model, lock>>
     \/ id \in directory /\ Wiped(id) /\ UNCHANGED <<frame, lock>>
     \/ Escape(t) /\ UNCHANGED diskVars
     \/ id \in directory /\ Disturbed(t) /\ HalfWiped(id) /\ Escape(t)
  /\ UNCHANGED <<deployVars, streamVars, childVars, sessionVars, todo, restarts>>

-----------------------------------------------------------------------------
(* prepare_stream_deployment.                                              *)

\* the handler holds the object and the opened DEK before it stops what runs under
\* the id; nothing zeroes the DEK when that raises
PrepareOpen(t, id, s, x) ==
  /\ t \in Requests
  /\ Admits(t)
  /\ Known(id)
  /\ source[current[id]] = "LOCAL_WEIGHTS"
  /\ Authorizes(s, id)
  /\ origin[x] = None
  /\ Purge({})
  /\ origin' = [origin EXCEPT ![x] = s]
  /\ dek'    = dek \cup {x}
  /\ Stop(t, [Idle EXCEPT !.call = "prepare", !.id = id, !.object = current[id],
                          !.stream = x, !.session = s], "mkdir")
  /\ UNCHANGED <<current, source, endpoint, stream, received, diskVars, childVars,
                 task, expired, consumed, lock, todo, restarts>>

\* a stream that was in the table is replaced without its DEK being zeroed
PrepareCommit(t) ==
  LET f == frame[t] IN
  /\ At(t, "commit")
  /\ Unlocked
  /\ consumed' = consumed \cup {f.session}
  /\ stream'   = [stream EXCEPT ![f.id] = f.stream]
  /\ status'   = [status EXCEPT ![f.object] = "DECRYPTING"]
  /\ session'  = [session EXCEPT ![f.object] = f.session]
  /\ Leave(t)
  /\ UNCHANGED <<current, source, secret, endpoint, origin, received, dek, diskVars, childVars,
                 task, table, expired, lock, todo, restarts>>

-----------------------------------------------------------------------------
(* append_stream_chunk.                                                    *)

\* a chunk that is not the next one, or does not decrypt, changes nothing
AppendOpen(id) ==
  LET x == stream[id] IN
  /\ Admits(EventLoop)
  /\ x # None
  /\ received[x] < Chunks
  /\ x \in dek
  /\ Become(EventLoop, [Idle EXCEPT !.call = "append", !.id = id, !.stream = x, !.pc = "write"])
  /\ UNCHANGED <<deployVars, streamVars, diskVars, childVars, sessionVars, lock, todo, restarts>>

\* mutant: a chunk that cannot be written is taken back, though it was not counted
AppendWriteTakenBack(t) ==
  LET x == frame[t].stream  id == frame[t].id IN
  /\ At(t, "write")
  /\ \/ /\ id \in directory
        /\ archive'  = [archive EXCEPT ![id] = Append(@, <<origin[x], received[x] + 1>>)]
        /\ received' = [received EXCEPT ![x] = @ + 1]
     \/ received' = [received EXCEPT ![x] = @ - 1] /\ UNCHANGED archive
  /\ Leave(t)
  /\ UNCHANGED <<deployVars, stream, origin, dek, directory, unpacked, model, childVars,
                 sessionVars, lock, todo, restarts>>

\* the chunk goes to whatever archive the id has by now; next_index is read by
\* nobody else in between
AppendWrite(t) ==
  LET x == frame[t].stream  id == frame[t].id IN
  /\ At(t, "write")
  /\ \/ /\ id \in directory
        /\ archive'  = [archive EXCEPT ![id] = Append(@, <<origin[x], received[x] + 1>>)]
        /\ received' = [received EXCEPT ![x] = @ + 1]
     \/ \* the file cannot be written
        UNCHANGED <<archive, received>>
  /\ Leave(t)
  /\ UNCHANGED <<deployVars, stream, origin, dek, directory, unpacked, model, childVars,
                 sessionVars, lock, todo, restarts>>

-----------------------------------------------------------------------------
(* finalize_stream_deployment.                                             *)

\* mutant: the last chunk is not waited for
CompleteEarly(x) == received[x] + 1 >= Chunks

Complete(x) == received[x] = Chunks

Finalize(t, id) ==
  LET x == stream[id] IN
  /\ t \in Requests
  /\ Admits(t)
  /\ x # None
  /\ Known(id)
  /\ Complete(x)
  /\ Become(t, [Idle EXCEPT !.call = "finalize", !.id = id, !.object = current[id],
                            !.stream = x, !.pc = "mark"])
  /\ UNCHANGED <<deployVars, streamVars, diskVars, childVars, sessionVars, lock, todo, restarts>>

FinalizeMark(t) ==
  /\ At(t, "mark")
  /\ status' = [status EXCEPT ![frame[t].object] = "LOADING"]
  /\ Goto(t, "check")
  /\ UNCHANGED <<current, source, session, secret, endpoint, streamVars, diskVars, childVars,
                 sessionVars, lock, todo, restarts>>

FinalizeFailed(t) ==
  /\ At(t, "failed")
  /\ status' = [status EXCEPT ![frame[t].object] = "FAILED"]
  /\ Stop(t, frame[t], "release")
  /\ UNCHANGED <<current, source, session, secret, endpoint, streamVars, diskVars, childVars,
                 sessionVars, lock, todo, restarts>>

\* the finally clause: zero the DEK of the stream that was loaded, and take out the
\* stream that is in the table now
FinalizeRelease(t) ==
  /\ At(t, "release")
  /\ dek'    = dek \ {frame[t].stream}
  /\ stream' = [stream EXCEPT ![frame[t].id] = None]
  /\ Leave(t)
  /\ UNCHANGED <<deployVars, origin, received, diskVars, childVars, sessionVars,
                 lock, todo, restarts>>

-----------------------------------------------------------------------------
(* ModelRuntimeManager.start, called by finalize and by the activation.    *)

LoadCheck(t) ==
  /\ At(t, "check")
  /\ \/ archive[frame[t].id] # <<>> /\ Goto(t, "unpack") /\ UNCHANGED lock
     \/ archive[frame[t].id] = <<>> /\ Fail(t)
  /\ UNCHANGED <<deployVars, streamVars, diskVars, childVars, sessionVars, todo, restarts>>

\* mkdir of model/ raises when it is there or its parent is not, and that is no
\* CipherGpuError; the archive is opened right after it
LoadUnpack(t) ==
  LET id == frame[t].id IN
  /\ At(t, "unpack")
  /\ IF id \in directory \ unpacked
       THEN /\ unpacked' = unpacked \cup {id}
            /\ Become(t, [frame[t] EXCEPT !.data = archive[id], !.pc = "extract"])
            /\ UNCHANGED lock
       ELSE Escape(t) /\ UNCHANGED unpacked
  /\ UNCHANGED <<deployVars, streamVars, directory, archive, model, childVars, sessionVars,
                 todo, restarts>>

\* extractall creates the parents it misses
LoadExtract(t) ==
  LET id == frame[t].id IN
  /\ At(t, "extract")
  /\ \/ /\ directory' = directory \cup {id}
        /\ unpacked'  = unpacked \cup {id}
        /\ model'     = [model EXCEPT ![id] = frame[t].data]
        /\ Become(t, [frame[t] EXCEPT !.data = <<>>, !.pc = "launch"])
        /\ UNCHANGED lock
     \/ \* the archive is refused before anything is written
        Fail(t) /\ UNCHANGED <<directory, unpacked, model>>
  /\ UNCHANGED <<deployVars, streamVars, archive, childVars, sessionVars, todo, restarts>>

\* a child that has ended gives its port back
Listens(p) == process[p] \in {"running", "orphan"}

\* mutant: a port is taken without looking whether it is free
AnyPort == Ports

FreePorts == Ports \ {port[p] : p \in {q \in Children : Listens(q)}}

\* the layout is refused, there is no vLLM (a FileNotFoundError has a clause of its
\* own), or the directory is gone or no process can be made, which is no CipherGpuError
LoadLaunch(t, p) ==
  LET id == frame[t].id IN
  /\ At(t, "launch")
  /\ \/ /\ id \in unpacked
        /\ process[p] = "none"
        /\ process'    = [process EXCEPT ![p] = "running"]
        /\ runs'       = [runs EXCEPT ![p] = id]
        /\ serves'     = [serves EXCEPT ![p] = model[id]]
        /\ \E k \in FreePorts : port' = [port EXCEPT ![p] = k]
        /\ registered' = [registered EXCEPT ![id] = p]
        /\ Become(t, [frame[t] EXCEPT !.child = p, !.pc = "wait"])
        /\ UNCHANGED lock
     \/ Fail(t) /\ UNCHANGED childVars
     \/ Escape(t) /\ UNCHANGED childVars
  /\ UNCHANGED <<deployVars, streamVars, diskVars, sessionVars, todo, restarts>>

\* mutant: no time limit, a child that hangs is waited for
LoadWaitForever(t) ==
  /\ At(t, "wait")
  /\ process[frame[t].child] # "running"
  /\ Stop(t, [frame[t] EXCEPT !.child = None],
          IF frame[t].call = "finalize" THEN "failed" ELSE "escape")
  /\ UNCHANGED <<deployVars, streamVars, diskVars, childVars, sessionVars, lock, todo, restarts>>

\* _wait_healthy: the child answers, or it has ended or the time is up and start
\* stops what is registered under the id
LoadWait(t) ==
  /\ At(t, "wait")
  /\ \/ process[frame[t].child] = "running" /\ Goto(t, "online")
     \/ Stop(t, [frame[t] EXCEPT !.child = None],
             IF frame[t].call = "finalize" THEN "failed" ELSE "escape")
  /\ UNCHANGED <<deployVars, streamVars, diskVars, childVars, sessionVars, lock, todo, restarts>>

\* neither caller looks at the deployment or at the session again; the activation
\* binds it to the session of its request
LoadOnline(t) ==
  LET f == frame[t] IN
  /\ At(t, "online")
  /\ endpoint' = [endpoint EXCEPT ![f.object] = port[f.child]]
  /\ status'   = [status EXCEPT ![f.object] = "ONLINE"]
  /\ IF f.call = "finalize"
       THEN /\ Become(t, [f EXCEPT !.child = None, !.pc = "release"])
            /\ UNCHANGED <<session, lock>>
       ELSE /\ session' = [session EXCEPT ![f.object] = f.session]
            /\ lock' = None
            /\ Leave(t)
  /\ UNCHANGED <<current, source, secret, streamVars, diskVars, childVars, sessionVars,
                 todo, restarts>>

-----------------------------------------------------------------------------
(* execute with a model.deploy task, _activate_model_deployment.           *)

Execute(t, id, s) ==
  /\ t \in Requests
  /\ Admits(t)
  /\ Authorizes(s, id)
  /\ Purge({})
  /\ Become(t, [Idle EXCEPT !.call = "execute", !.id = id, !.session = s, !.pc = "consume"])
  /\ UNCHANGED <<current, source, endpoint, streamVars, diskVars, childVars, task, expired,
                 consumed, lock, todo, restarts>>

\* the jti is looked up again, the session is not; or what was sent does not decrypt
Consume(t) ==
  /\ At(t, "consume")
  /\ Unlocked
  /\ \/ consumed' = consumed \cup {frame[t].session} /\ Goto(t, "activate")
     \/ UNCHANGED consumed /\ Leave(t)
  /\ UNCHANGED <<deployVars, streamVars, diskVars, childVars, task, table, expired,
                 lock, todo, restarts>>

\* what was decrypted is a credential, valid or not, or a whole model; the old
\* credential goes in either case
Activate(t) ==
  LET id == frame[t].id  o == current[id] IN
  /\ At(t, "activate")
  /\ Unlocked
  /\ \/ \* no deployment has this id, or the task names no asset
        Leave(t) /\ UNCHANGED <<status, session, secret, lock>>
     \/ /\ Known(id) /\ source[o] = "OPENAI_COMPATIBLE"
        /\ \/ /\ secret'  = secret \cup {o}
              /\ status'  = [status EXCEPT ![o] = "ONLINE"]
              /\ session' = [session EXCEPT ![o] = frame[t].session]
           \/ /\ secret' = secret \ {o}
              /\ UNCHANGED <<status, session>>
        /\ Leave(t)
        /\ UNCHANGED lock
     \/ /\ Known(id) /\ source[o] = "LOCAL_WEIGHTS"
        /\ secret' = secret \ {o}
        /\ lock' = t
        /\ Stop(t, [frame[t] EXCEPT !.object = o], "mkdir")
        /\ UNCHANGED <<status, session>>
  /\ UNCHANGED <<current, source, endpoint, streamVars, diskVars, childVars, sessionVars,
                 todo, restarts>>

ActivateFill(t) ==
  LET id == frame[t].id IN
  /\ At(t, "fill")
  /\ IF id \in directory
       THEN /\ archive' = [archive EXCEPT ![id] = Upload(frame[t].session)]
            /\ Goto(t, "check")
            /\ UNCHANGED lock
       ELSE Escape(t) /\ UNCHANGED archive
  /\ UNCHANGED <<deployVars, streamVars, directory, unpacked, model, childVars, sessionVars,
                 todo, restarts>>

-----------------------------------------------------------------------------
(* infer and runtime_chat, _invoke_model.                                  *)

\* mutant: any session that is alive will do
BoundToAny(o, s) == s \in Live

Bound(o, s) == s \in Live /\ session[o] = s

Infer(t, id, s) ==
  LET o == current[id] IN
  /\ t \in Requests
  /\ Admits(t)
  /\ Known(id)
  /\ status[o] = "ONLINE"
  /\ Bound(o, s)
  /\ Purge({})
  /\ Become(t, [Idle EXCEPT !.call = "ask", !.id = id, !.object = o, !.session = s, !.pc = "ask"])
  /\ UNCHANGED <<current, source, endpoint, streamVars, diskVars, childVars, task, expired,
                 consumed, lock, todo, restarts>>

Alive(id) == registered[id] # None /\ process[registered[id]] = "running"

\* no session is asked for
RuntimeChat(t, id) ==
  LET o == current[id] IN
  /\ t \in Requests
  /\ Admits(t)
  /\ Known(id)
  /\ status[o] = "ONLINE"
  /\ source[o] = "LOCAL_WEIGHTS" => Alive(id)
  /\ Become(t, [Idle EXCEPT !.call = "ask", !.id = id, !.object = o, !.pc = "ask"])
  /\ UNCHANGED <<deployVars, streamVars, diskVars, childVars, sessionVars, lock, todo, restarts>>

\* the child or the provider is asked, or cannot be
Ask(t) ==
  /\ At(t, "ask")
  /\ Leave(t)
  /\ UNCHANGED <<deployVars, streamVars, diskVars, childVars, sessionVars, lock, todo, restarts>>

-----------------------------------------------------------------------------
(* close.                                                                  *)

\* once the requests in flight have returned; closing the training jobs, which
\* comes first, may raise
CloseBegin ==
  /\ At(Closer, "idle")
  /\ InFlight = {}
  /\ Unlocked
  /\ todo' = {id \in Ids : Known(id)}
  /\ \E l \in {"next", "aborted"} : Become(Closer, [Idle EXCEPT !.call = "close", !.pc = l])
  /\ UNCHANGED <<deployVars, streamVars, diskVars, childVars, sessionVars, lock, restarts>>

CloseNext(t) ==
  /\ At(t, "next")
  /\ \/ \E id \in todo :
          /\ todo' = todo \ {id}
          /\ secret' = secret \ {current[id]}
          /\ Stop(t, [frame[t] EXCEPT !.id = id], "next")
          /\ UNCHANGED <<stream, dek, table>>
     \/ /\ todo = {}
        /\ dek'    = dek \ {stream[id] : id \in Ids}
        /\ stream' = [id \in Ids |-> None]
        /\ table'  = {}
        /\ Become(t, [Idle EXCEPT !.pc = "closed"])
        /\ UNCHANGED <<secret, todo>>
  /\ UNCHANGED <<current, source, status, session, endpoint, origin, received, diskVars,
                 childVars, task, expired, consumed, lock, restarts>>

-----------------------------------------------------------------------------
(* The surroundings.                                                       *)

ChildEnds(p) ==
  /\ process[p] = "running"
  /\ process' = [process EXCEPT ![p] = "dead"]
  /\ UNCHANGED <<deployVars, streamVars, diskVars, registered, runs, serves, port, sessionVars,
                 lock, frame, todo, restarts>>

\* the agent dies, at any moment, and is started again: disk is what is left, and
\* the children, which are sessions of their own, unless the container died as well
Restart ==
  /\ restarts < MaxRestarts
  /\ restarts' = restarts + 1
  /\ current'    = [id \in Ids |-> None]
  /\ source'     = [o \in Objects |-> "LOCAL_WEIGHTS"]
  /\ status'     = [o \in Objects |-> "unused"]
  /\ session'    = [o \in Objects |-> None]
  /\ secret'     = {}
  /\ endpoint'   = [o \in Objects |-> None]
  /\ stream'     = [id \in Ids |-> None]
  /\ origin'     = [x \in Streams |-> None]
  /\ received'   = [x \in Streams |-> 0]
  /\ dek'        = {}
  /\ registered' = [id \in Ids |-> None]
  /\ table'      = {}
  /\ consumed'   = {}
  /\ lock'       = None
  /\ frame'      = [t \in Threads |-> Idle]
  /\ todo'       = {}
  /\ \E s \in {"orphan", "dead"} :
       process' = [p \in Children |-> IF process[p] = "running" THEN s ELSE process[p]]
  /\ UNCHANGED <<diskVars, runs, serves, port, task, expired>>

-----------------------------------------------------------------------------
\* what a thread does next on its own once its handler has begun
Step(t) ==
  \/ Retire(t) \/ StopPop(t) \/ StopKill(t) \/ StopLook(t) \/ StopWipe(t) \/ StopRaises(t)
  \/ MakeDirectory(t) \/ PrepareCommit(t) \/ AppendWrite(t)
  \/ FinalizeMark(t) \/ FinalizeFailed(t) \/ FinalizeRelease(t)
  \/ LoadCheck(t) \/ LoadUnpack(t) \/ LoadExtract(t)
  \/ (\E p \in Children : LoadLaunch(t, p)) \/ LoadWait(t) \/ LoadOnline(t)
  \/ Consume(t) \/ Activate(t) \/ ActivateFill(t) \/ Ask(t) \/ CloseNext(t)

\* what clients ask for
Request ==
  \/ \E t \in Requests :
       \/ Refuse(t)
       \/ \E id \in Ids :
            \/ \E o \in Objects, src \in Sources : Register(t, id, o, src)
            \/ \E s \in Sessions :
                 \/ CreateSession(t, s, id) \/ Execute(t, id, s) \/ Infer(t, id, s)
                 \/ \E x \in Streams : PrepareOpen(t, id, s, x)
            \/ Offline(t, id) \/ Finalize(t, id) \/ RuntimeChat(t, id)
  \/ \E id \in Ids : AppendOpen(id)

Environment ==
  \/ \E s \in Sessions : SessionExpires(s)
  \/ \E p \in Children : ChildEnds(p)
  \/ Restart

\* the process exits after close(): nothing is left to do
Stopped == frame[Closer].pc \in {"closed", "aborted"} /\ UNCHANGED vars

Next == Request \/ Environment \/ (\E t \in Threads : Step(t)) \/ CloseBegin \/ Stopped

Spec == Init /\ [][Next]_vars

\* every thread that has begun is scheduled again; nothing is assumed of the
\* clients, of the children or of the shutdown
FairSpec == Spec /\ \A t \in Threads : WF_vars(Step(t))

-----------------------------------------------------------------------------
(* Properties.                                                             *)

\* Every variable has its type.
TypeOK ==
  /\ current    \in [Ids -> Objects \cup {None}]
  /\ source     \in [Objects -> Sources]
  /\ status     \in [Objects -> Status]
  /\ session    \in [Objects -> Sessions \cup {None}]
  /\ secret     \subseteq Objects
  /\ endpoint   \in [Objects -> Ports \cup {None}]
  /\ stream     \in [Ids -> Streams \cup {None}]
  /\ origin     \in [Streams -> Sessions \cup {None}]
  /\ received   \in [Streams -> Nat]
  /\ dek        \subseteq Streams
  /\ directory  \subseteq Ids
  /\ archive    \in [Ids -> Seq(Chunk)]
  /\ unpacked   \subseteq Ids
  /\ model      \in [Ids -> Seq(Chunk)]
  /\ registered \in [Ids -> Children \cup {None}]
  /\ process    \in [Children -> ProcessState]
  /\ runs       \in [Children -> Ids \cup {None}]
  /\ serves     \in [Children -> Seq(Chunk)]
  /\ port       \in [Children -> Ports \cup {None}]
  /\ task       \in [Sessions -> Ids \cup {None}]
  /\ table      \subseteq Sessions
  /\ expired    \subseteq Sessions
  /\ consumed   \subseteq Sessions
  /\ lock       \in Threads \cup {None}
  /\ frame      \in [Threads -> Frame]
  /\ todo       \subseteq Ids
  /\ restarts   \in Nat

AtRest(id) == \A t \in Threads : frame[t].id # id

\* What an ONLINE deployment serves is the upload its session authorized, all of
\* it and in order, also over what an earlier upload, a failed load or an agent
\* that died left on disk.
ServesAuthorizedUpload ==
  \A id \in Ids : LET o == current[id] IN
    /\ Known(id)
    /\ status[o] = "ONLINE" /\ source[o] = "LOCAL_WEIGHTS" /\ session[o] # None
    /\ AtRest(id)
    /\ Alive(id)
    => endpoint[o] = port[registered[id]] /\ serves[registered[id]] = Upload(session[o])

\* the session whose upload a child has loaded
Loaded(p) == serves[p][1][1]

Served == INSTANCE ServedModels WITH
  Ids      <- Ids,
  Sessions <- Sessions,
  None     <- None,
  serving  <- [id \in Ids |-> IF Alive(id) THEN Loaded(registered[id]) ELSE None],
  loaded   <- {Loaded(p) : p \in {q \in Children : process[q] # "none"}}

\* An authorization is good for one load of its upload, across failed loads, new
\* registrations and restarts of the agent, and a model is loaded under an id only
\* when the one before is gone: a client that waits for each answer sees
\* ServedModels.
LoadsAreAuthorized == Served!Spec

\* "Owns model plaintext directories and one vLLM child per deployment": every
\* child the agent started and that runs is registered under its deployment,
\* where stop finds it, unless a thread is just about to kill it.
OneChild ==
  \A p \in Children : process[p] = "running" =>
    \/ registered[runs[p]] = p
    \/ \E t \in Threads : At(t, "kill") /\ frame[t].child = p

\* "The requested safe state": a deployment that goes OFFLINE has no child, no
\* plaintext on disk, no stream with an open DEK and no credential then, whatever
\* was going on under its id before.
OfflineCleans ==
  [][\A id \in Ids : LET o == current[id] IN
       o # None /\ status[o] # "OFFLINE" /\ status'[o] = "OFFLINE"
         => /\ ~Alive(id)' /\ id \notin directory'
            /\ stream'[id] = None /\ stream[id] \notin dek'
            /\ o \notin secret']_vars

\* A deployment in the table holds a credential only together with a session that
\* has not been purged.
CredentialHasSession ==
  \A id \in Ids : current[id] \in secret => session[current[id]] \in table

\* An authorization that is required, or was given up, is not there: whatever the
\* interleaving, a deployment that is OFFLINE or AUTHORIZATION_REQUIRED holds no
\* credential.
NoCredentialWithoutAuthorization ==
  \A o \in secret : status[o] \notin {"AUTHORIZATION_REQUIRED", "OFFLINE"}

\* An ONLINE deployment has a session: runtime_chat serves "an already-authorized
\* local runtime".
OnlineIsAuthorized ==
  \A id \in Ids :
    Known(id) /\ status[current[id]] = "ONLINE" /\ AtRest(id) => session[current[id]] # None

\* "request key is not bound to this deployment": what infer sends the request to
\* is what its session authorized, a child that has loaded the whole upload or a
\* provider for which the session brought the credential, whatever else listens on
\* this port meanwhile.
InferReachesOwnModel ==
  \A t \in Threads : LET o == frame[t].object IN
    At(t, "ask") /\ frame[t].session # None
      => IF source[o] = "LOCAL_WEIGHTS"
           THEN /\ endpoint[o] # None
                /\ \A p \in Children : Listens(p) /\ port[p] = endpoint[o]
                                         => serves[p] = Upload(frame[t].session)
           ELSE o \in secret => session[o] = frame[t].session

\* The same while the agent runs the child of the deployment: another deployment's
\* child never gets the request instead, however ports are given back and taken.
InferReachesLiveModel ==
  \A t \in Threads : LET o == frame[t].object IN
    At(t, "ask") /\ frame[t].session # None /\ source[o] = "LOCAL_WEIGHTS" /\ Alive(frame[t].id)
      => /\ endpoint[o] # None
         /\ \A p \in Children : Listens(p) /\ port[p] = endpoint[o]
                                  => serves[p] = Upload(frame[t].session)

\* "Stop workers" of close(): when it has returned, no child this agent started
\* runs, no plaintext is left of what is in the table, and no deployment there
\* holds a credential.  Of stream DEKs it says nothing: a second prepare replaces a
\* stream in the table, and nobody zeroes the DEK of the first.
ShutdownStopsModels ==
  At(Closer, "closed") =>
    /\ \A p \in Children : process[p] # "running"
    /\ \A id \in Ids : Known(id) => id \notin directory /\ current[id] \notin secret

\* A request comes to an end however long loading takes and whatever raises, unless
\* it waits for the lock.
RequestsReturn ==
  \A t \in Requests \cup {EventLoop} :
    frame[t].pc # "idle" ~> frame[t].pc \in {"idle", "commit", "consume", "activate"}

\* The lock everybody waits for, the event loop included, is given back, though it
\* is held while a child is stopped or a model loaded.
LockReleased == \A t \in Requests : lock = t ~> lock # t
=============================================================================
