---------------------------- MODULE TrainingJobs ----------------------------
(***************************************************************************)
(* The life of a confidential training job: the training handlers of       *)
(* ConfidentialExecutionService (ciphergpu/service.py) together with the   *)
(* TrainingRuntimeManager they drive (ciphergpu/training_runtime.py), the  *)
(* worker process and the monitor thread of each start, and close().       *)
(*                                                                         *)
(* FastAPI runs each plain handler on a thread of its pool and the async   *)
(* chunk upload on the event loop; TrainingJob objects are shared and only *)
(* the tables are behind the lock.  So a handler is a thread that takes    *)
(* one atomic step per access to what the others see, in the order of the  *)
(* code, and Next interleaves the steps of all threads.                    *)
(*                                                                         *)
(* A job directory, a process registration and the job table are keyed by  *)
(* the client's job_id; the job OBJECT a thread holds is not.  The model   *)
(* keeps the two apart (JobIds and Objects).                               *)
(***************************************************************************)
EXTENDS Naturals, Sequences, FiniteSets

CONSTANTS
  JobIds,       \* the job_ids clients use
  Objects,      \* TrainingJob instances (bounds the number of preparations)
  Workers,      \* worker processes; the monitor thread of a start bears the
                \* name of the process it was started with (bounds the starts)
  Requests,     \* threads of the pool that runs the plain handlers
  EventLoop,    \* the thread of the async handler: chunk upload
  Closer,       \* the thread that runs close()
  Slots,        \* the input slots a job declares, all of them required
                \* (validation-data, which start() can do without, is left out)
  Chunks,       \* chunks per input
  MaxInFlight,  \* how many requests the clients keep in flight at once
  MaxPrepares,  \* how often the clients prepare one and the same job_id
  None

Threads == Requests \cup {EventLoop, Closer} \cup Workers

\* what a job delivers, in the order in which it is encrypted
Outputs == {"result-model", "result-data"}

ASSUME ThreadsDistinct ==
  /\ Requests \cap Workers = {}
  /\ EventLoop \notin Requests \cup Workers
  /\ Closer \notin Requests \cup Workers \cup {EventLoop}

ASSUME NoneDistinct == None \notin Objects \cup Workers \cup JobIds \cup Slots \cup Threads \cup Outputs

ASSUME InputsDeclared == Slots # {} /\ Chunks \in Nat \ {0}

ASSUME ObjectsFinite == IsFiniteSet(Objects)

ASSUME ClientBounds == MaxInFlight \in Nat \ {0} /\ MaxPrepares \in Nat \ {0}

VARIABLES
  current,      \* _training_jobs: job_id -> the object in the table
  owner,        \* job_id of an object
  status,       \* status of an object; "unused" and "opening" precede its publication
  received,     \* next_index of each input
  finalized,    \* inputs whose finalized flag is set
  dek,          \* inputs whose DEK is not zeroed
  outputs,      \* objects whose outputs are assigned
  folders,      \* sub-directories of root/job_id ({}: the directory does not exist)
  package,      \* packages/slot.package: the chunks <<object, index>> written to it
  unpacked,     \* slots whose directory input/slot exists
  input,        \* what was extracted below input/slot
  trained,      \* the worker that made output/model and output/data
  archived,     \* the worker whose result lies in output/<output>.tar.gz
  sealed,       \* the worker whose result lies in encrypted/<output>
  registered,   \* _processes: job_id -> worker
  process,      \* state of each worker process
  runs,         \* the object a worker was launched for
  frame,        \* local state of each thread
  todo          \* jobs close() has still to visit

jobVars  == <<current, owner, status, received, finalized, dek, outputs>>
diskVars == <<folders, package, unpacked, input, trained, archived, sealed>>
procVars == <<registered, process, runs>>
vars     == <<jobVars, diskVars, procVars, frame, todo>>

-----------------------------------------------------------------------------
(* Values.                                                                 *)

Over == {"COMPLETED", "FAILED", "CANCELLED"}

Status == Over \cup {"unused", "opening", "STAGING_INPUTS", "VALIDATING_INPUTS",
                     "RUNNING", "ENCRYPTING_OUTPUTS", "OUTPUT_READY", "CANCELLING"}

\* in the order they are made; checkpoints/ is filled and removed together
\* with output/, and logs/ together with encrypted/
FolderOrder == <<"packages", "input", "output", "encrypted">>
Folders == {"packages", "input", "output", "encrypted"}

Chunk == Objects \X Nat

ProcessState == {"none", "running", "ok", "error", "killed"}

Labels == {"idle", "dead", "discard", "mkdir", "commit", "decrypt", "write",
           "advance",
           "open", "extract", "finalize", "gpu", "launch", "register", "started", "cancel",
           "clear", "pop", "kill", "look", "wipe", "end",
           "find", "attach", "wait", "encrypting", "read", "seal", "tidy", "ready",
           "next", "closed", "aborted"}

\* where the cleanup a thread is in leads: the status it sets, "PREPARE" or "SHUTDOWN"
Finals == {"none", "PREPARE", "SHUTDOWN"} \cup Over

Frame == [pc : Labels, job : Objects \cup {None}, slot : Slots \cup Outputs \cup {None},
          final : Finals, worker : Workers \cup {None}, data : Seq(Chunk), made : 0 .. 3]

Blank(l) == [pc |-> l, job |-> None, slot |-> None, final |-> "none",
             worker |-> None, data |-> <<>>, made |-> 0]

EmptyInputs == [s \in Slots |-> <<>>]

NoOutputs == [out \in Outputs |-> None]

Uploaded(o, s) == [i \in 1 .. received[o][s] |-> <<o, i>>]

-----------------------------------------------------------------------------
Init ==
  /\ current    = [id \in JobIds |-> None]
  /\ owner      = [o \in Objects |-> None]
  /\ status     = [o \in Objects |-> "unused"]
  /\ received   = [o \in Objects |-> [s \in Slots |-> 0]]
  /\ finalized  = [o \in Objects |-> {}]
  /\ dek        = [o \in Objects |-> {}]
  /\ outputs    = {}
  /\ folders    = [id \in JobIds |-> {}]
  /\ package    = [id \in JobIds |-> [s \in Slots |-> <<>>]]
  /\ unpacked   = [id \in JobIds |-> {}]
  /\ input      = [id \in JobIds |-> [s \in Slots |-> <<>>]]
  /\ trained    = [id \in JobIds |-> None]
  /\ archived   = [id \in JobIds |-> NoOutputs]
  /\ sealed     = [id \in JobIds |-> NoOutputs]
  /\ registered = [id \in JobIds |-> None]
  /\ process    = [p \in Workers |-> "none"]
  /\ runs       = [p \in Workers |-> None]
  /\ frame      = [t \in Threads |-> Blank("idle")]
  /\ todo       = {}

-----------------------------------------------------------------------------
(* Threads.                                                                *)

At(t, l) == frame[t].pc = l

Become(t, f) == frame' = [frame EXCEPT ![t] = f]

Goto(t, l) == Become(t, [frame[t] EXCEPT !.pc = l])

\* a handler returns or raises to the client; a monitor thread ends
Rest(t) == Blank(IF t \in Workers THEN "dead" ELSE "idle")

Leave(t) == Become(t, Rest(t))

\* mutant: failing goes straight to the removal of the directory
FailUncleared(t) ==
  Become(t, [Blank("pop") EXCEPT !.job = frame[t].job, !.final = "FAILED"])

\* enter _fail_training_job with the job the thread holds
Fail(t) == Become(t, [Blank("clear") EXCEPT !.job = frame[t].job, !.final = "FAILED"])

Id(t) == owner[frame[t].job]

InFlight == {t \in Requests \cup {EventLoop} : frame[t].pc # "idle"}

\* t can take a request: a chunk upload runs on the event loop itself, which
\* dispatches nothing else until it returns, and no request arrives once the
\* server shuts down.
Admits(t) ==
  /\ At(t, "idle")
  /\ At(EventLoop, "idle")
  /\ At(Closer, "idle")
  /\ Cardinality(InFlight) < MaxInFlight

Known(id) == current[id] # None

-----------------------------------------------------------------------------
(* Removing a directory tree.                                              *)

\* What is there of a directory when of its folders left are, and of those kept
\* hold what they held.
Remains(id, left, kept) ==
  /\ folders'  = [folders EXCEPT ![id] = left]
  /\ package'  = [package EXCEPT ![id] = IF "packages" \in kept THEN @ ELSE EmptyInputs]
  /\ unpacked' = [unpacked EXCEPT ![id] = IF "input" \in kept THEN @ ELSE {}]
  /\ input'    = [input EXCEPT ![id] = IF "input" \in kept THEN @ ELSE EmptyInputs]
  /\ trained'  = [trained EXCEPT ![id] = IF "output" \in kept THEN @ ELSE None]
  /\ archived' = [archived EXCEPT ![id] = IF "output" \in kept THEN @ ELSE NoOutputs]
  /\ sealed'   = [sealed EXCEPT ![id] = IF "encrypted" \in kept THEN @ ELSE NoOutputs]

\* the folders t is writing to, has just made, or is removing
Touches(t) ==
  CASE At(t, "mkdir") /\ frame[t].made > 0    -> {FolderOrder[frame[t].made]}
    [] At(t, "commit") \/ At(t, "register")   -> {"encrypted"}
    [] At(t, "write")                         -> folders[Id(t)] \cap {"packages"}
    [] At(t, "extract")                       -> {"input"}
    [] At(t, "seal")                          -> {"output", "encrypted"}
    [] At(t, "tidy")                          -> folders[Id(t)] \ {"encrypted"}
    [] OTHER                                  -> {}

\* the folders somebody else touches while t removes the directory: other
\* threads, and a worker that runs there
Touched(t) ==
  UNION {Touches(u) : u \in {v \in Threads \ {t} : frame[v].job # None /\ Id(v) = Id(t)}}
    \cup {f \in {"output"} : \E p \in Workers : process[p] = "running" /\ owner[runs[p]] = Id(t)}

\* rmtree raises half way, at a folder that is touched meanwhile (ENOTEMPTY,
\* FileNotFoundError).  Of the others some are gone and some not yet reached.
Interrupted(t, tree) ==
  LET rest == folders[Id(t)] \ tree IN
  \E f \in Touched(t) \cap tree : \E left \in SUBSET (folders[Id(t)] \cap tree) :
    Remains(Id(t), rest \cup left \cup {f}, rest \cup left)

-----------------------------------------------------------------------------
(* prepare_training_job.  The authorization checks are in Authorization;   *)
(* a request they refuse changes nothing here.                             *)

PrepareOpen(t, id, o) ==
  /\ t \in Requests
  /\ Admits(t)
  /\ Known(id) => status[current[id]] \in Over
  /\ status[o] = "unused"
  /\ Cardinality({q \in Objects : status[q] # "unused" /\ owner[q] = id}) < MaxPrepares
  /\ status' = [status EXCEPT ![o] = "opening"]
  /\ owner'  = [owner EXCEPT ![o] = id]
  /\ \E opened \in SUBSET Slots :
       /\ dek' = [dek EXCEPT ![o] = opened]
       /\ Become(t, [Blank(IF opened = Slots THEN "pop" ELSE "discard")
                       EXCEPT !.job = o, !.final = "PREPARE"])
  /\ UNCHANGED <<current, received, finalized, outputs, diskVars, procVars, todo>>

\* mutant: the except clause drops the object without zeroing its DEKs
PrepareDiscardUncleared(t) ==
  /\ At(t, "discard")
  /\ status' = [status EXCEPT ![frame[t].job] = "unused"]
  /\ Leave(t)
  /\ UNCHANGED <<current, owner, received, finalized, dek, outputs, diskVars, procVars, todo>>

\* the except clause: zero what was opened and re-raise; nothing was published
PrepareDiscard(t) ==
  /\ At(t, "discard")
  /\ dek'    = [dek EXCEPT ![frame[t].job] = {}]
  /\ status' = [status EXCEPT ![frame[t].job] = "unused"]
  /\ Leave(t)
  /\ UNCHANGED <<current, owner, received, finalized, outputs, diskVars, procVars, todo>>

\* one mkdir after the other, with the parents but without exist_ok: a folder
\* that another thread has re-created in the meantime ends the preparation, and
\* one that another thread wipes in between stays away
PrepareMkdir(t) ==
  LET f == FolderOrder[frame[t].made + 1] IN
  /\ At(t, "mkdir")
  /\ \/ /\ f \notin folders[Id(t)]
        /\ folders' = [folders EXCEPT ![Id(t)] = @ \cup {f}]
        /\ IF frame[t].made = 3 THEN Goto(t, "commit")
             ELSE Become(t, [frame[t] EXCEPT !.made = @ + 1])
     \/ f \in folders[Id(t)] /\ Goto(t, "discard") /\ UNCHANGED folders
  /\ UNCHANGED <<jobVars, package, unpacked, input, trained, archived, sealed, procVars, todo>>

PrepareCommit(t) ==
  /\ At(t, "commit")
  /\ current' = [current EXCEPT ![Id(t)] = frame[t].job]
  /\ status'  = [status EXCEPT ![frame[t].job] = "STAGING_INPUTS"]
  /\ Leave(t)
  /\ UNCHANGED <<owner, received, finalized, dek, outputs, diskVars, procVars, todo>>

-----------------------------------------------------------------------------
(* append_training_input.                                                  *)

AppendCheck(id, s) ==
  LET o == current[id] IN
  /\ Admits(EventLoop)
  /\ Known(id)
  /\ status[o] = "STAGING_INPUTS"
  /\ s \notin finalized[o]
  /\ received[o][s] < Chunks
  /\ \/ Become(EventLoop, [Blank("decrypt") EXCEPT !.job = o, !.slot = s])
     \/ \* the digest of the ciphertext does not match
        Become(EventLoop, [Blank("clear") EXCEPT !.job = o, !.final = "FAILED"])
  /\ UNCHANGED <<jobVars, diskVars, procVars, todo>>

\* mutant: a chunk that does not fit is counted as received
AppendDecryptCounting(t) ==
  /\ At(t, "decrypt")
  /\ \/ frame[t].slot \in dek[frame[t].job] /\ (Goto(t, "write") \/ Goto(t, "advance"))
     \/ Fail(t)
  /\ UNCHANGED <<jobVars, diskVars, procVars, todo>>

\* authentication fails surely with a zeroed key, and may fail with the right
\* one; TRAINING_PACKAGE_TOO_LARGE is re-raised and does not fail the job
AppendDecrypt(t) ==
  /\ At(t, "decrypt")
  /\ \/ frame[t].slot \in dek[frame[t].job] /\ (Goto(t, "write") \/ Leave(t))
     \/ Fail(t)
  /\ UNCHANGED <<jobVars, diskVars, procVars, todo>>

\* mutant: each chunk truncates the package ("wb" instead of "ab")
AppendWriteTruncating(t) ==
  LET o == frame[t].job  s == frame[t].slot IN
  /\ At(t, "write")
  /\ \/ /\ "packages" \in folders[Id(t)]
        /\ package' = [package EXCEPT ![Id(t)][s] = << <<o, received[o][s] + 1>> >>]
        /\ Goto(t, "advance")
     \/ Fail(t) /\ UNCHANGED package
  /\ UNCHANGED <<jobVars, folders, unpacked, input, trained, archived, sealed, procVars, todo>>

\* the file may not be writable
AppendWrite(t) ==
  LET o == frame[t].job  s == frame[t].slot IN
  /\ At(t, "write")
  /\ \/ /\ "packages" \in folders[Id(t)]
        /\ package' = [package EXCEPT ![Id(t)][s] = Append(@, <<o, received[o][s] + 1>>)]
        /\ Goto(t, "advance")
     \/ Fail(t) /\ UNCHANGED package
  /\ UNCHANGED <<jobVars, folders, unpacked, input, trained, archived, sealed, procVars, todo>>

AppendAdvance(t) ==
  /\ At(t, "advance")
  /\ received' = [received EXCEPT ![frame[t].job][frame[t].slot] = @ + 1]
  /\ Leave(t)
  /\ UNCHANGED <<current, owner, status, finalized, dek, outputs, diskVars, procVars, todo>>

-----------------------------------------------------------------------------
(* finalize_training_input.  The job's status is not looked at.            *)

FinalizeCheck(t, id, s) ==
  LET o == current[id] IN
  /\ t \in Requests
  /\ Admits(t)
  /\ Known(id)
  /\ s \notin finalized[o]
  /\ received[o][s] = Chunks
  /\ Become(t, [Blank("open") EXCEPT !.job = o, !.slot = s])
  /\ UNCHANGED <<jobVars, diskVars, procVars, todo>>

\* the package must exist and input/slot must not; the archive is then opened
FinalizeOpen(t) ==
  LET id == Id(t)  s == frame[t].slot IN
  /\ At(t, "open")
  /\ \/ /\ package[id][s] # <<>>
        /\ "input" \in folders[id]
        /\ s \notin unpacked[id]
        /\ unpacked' = [unpacked EXCEPT ![id] = @ \cup {s}]
        /\ Become(t, [frame[t] EXCEPT !.pc = "extract", !.data = package[id][s]])
     \/ /\ package[id][s] = <<>> \/ "input" \notin folders[id] \/ s \in unpacked[id]
        /\ Fail(t)
        /\ UNCHANGED unpacked
  /\ UNCHANGED <<jobVars, folders, package, input, trained, archived, sealed, procVars, todo>>

\* extractall creates the parents it misses, so it also re-creates a directory
\* that was wiped after the archive was opened
FinalizeExtract(t) ==
  LET id == Id(t)  s == frame[t].slot IN
  /\ At(t, "extract")
  /\ \/ \* the archive is refused before anything is written
        /\ Fail(t)
        /\ UNCHANGED <<folders, unpacked, input, package>>
     \/ /\ folders'  = [folders EXCEPT ![id] = @ \cup {"input"}]
        /\ unpacked' = [unpacked EXCEPT ![id] = @ \cup {s}]
        /\ input'    = [input EXCEPT ![id][s] = frame[t].data]
        /\ \/ /\ package' = [package EXCEPT ![id][s] = <<>>]
              /\ Become(t, [frame[t] EXCEPT !.pc = "finalize", !.data = <<>>])
           \/ \* what was extracted is no valid model or dataset
              /\ Fail(t)
              /\ UNCHANGED package
  /\ UNCHANGED <<jobVars, trained, archived, sealed, procVars, todo>>

\* mutant: the job is marked instead of the input
FinalizeCommitOfJob(t) ==
  LET o == frame[t].job  s == frame[t].slot IN
  /\ At(t, "finalize")
  /\ finalized' = [finalized EXCEPT ![o] = @ \cup {o}]
  /\ dek' = [dek EXCEPT ![o] = @ \ {s}]
  /\ Leave(t)
  /\ UNCHANGED <<current, owner, status, received, outputs, diskVars, procVars, todo>>

\* mutant: the DEK of a finalized input is left to a later cleanup
FinalizeCommitUncleared(t) ==
  LET o == frame[t].job  s == frame[t].slot IN
  /\ At(t, "finalize")
  /\ finalized' = [finalized EXCEPT ![o] = @ \cup {s}]
  /\ status' = IF finalized[o] \cup {s} = Slots
                 THEN [status EXCEPT ![o] = "VALIDATING_INPUTS"] ELSE status
  /\ Leave(t)
  /\ UNCHANGED <<current, owner, received, dek, outputs, diskVars, procVars, todo>>

FinalizeCommit(t) ==
  LET o == frame[t].job  s == frame[t].slot IN
  /\ At(t, "finalize")
  /\ finalized' = [finalized EXCEPT ![o] = @ \cup {s}]
  /\ dek' = [dek EXCEPT ![o] = @ \ {s}]
  /\ status' = IF finalized[o] \cup {s} = Slots
                 THEN [status EXCEPT ![o] = "VALIDATING_INPUTS"] ELSE status
  /\ Leave(t)
  /\ UNCHANGED <<current, owner, received, outputs, diskVars, procVars, todo>>

-----------------------------------------------------------------------------
(* start_training_job and the worker process.                              *)

StartCheck(t, id, p) ==
  LET o == current[id] IN
  /\ t \in Requests
  /\ Admits(t)
  /\ Known(id)
  /\ status[o] = "VALIDATING_INPUTS"
  /\ finalized[o] = Slots
  /\ process[p] = "none"
  /\ \A u \in Threads : frame[u].worker # p
  /\ Become(t, [Blank("gpu") EXCEPT !.job = o, !.worker = p])
  /\ UNCHANGED <<jobVars, diskVars, procVars, todo>>

GpuBusy(id) ==
  \E j \in JobIds \ {id} :
    Known(j) /\ status[current[j]] \in {"RUNNING", "ENCRYPTING_OUTPUTS"}

\* refused also when a model deployment is ONLINE, at any time as far as this module knows
StartGpu(t) ==
  /\ At(t, "gpu")
  /\ \/ ~GpuBusy(Id(t)) /\ Goto(t, "launch")
     \/ Leave(t)
  /\ UNCHANGED <<jobVars, diskVars, procVars, todo>>

StartLaunch(t) ==
  LET id == Id(t)  p == frame[t].worker IN
  /\ At(t, "launch")
  /\ \/ /\ {"input", "encrypted"} \subseteq folders[id] /\ unpacked[id] = Slots
        /\ process' = [process EXCEPT ![p] = "running"]
        /\ runs'    = [runs EXCEPT ![p] = frame[t].job]
        /\ Goto(t, "register")
     \/ \* an input is missing, or the spec file or the process cannot be created
        /\ Fail(t)
        /\ UNCHANGED <<process, runs>>
  /\ UNCHANGED <<jobVars, diskVars, registered, todo>>

\* whatever is registered under this job_id is replaced
StartRegister(t) ==
  /\ At(t, "register")
  /\ registered' = [registered EXCEPT ![Id(t)] = frame[t].worker]
  /\ Goto(t, "started")
  /\ UNCHANGED <<jobVars, diskVars, process, runs, todo>>

StartCommit(t) ==
  LET o == frame[t].job  p == frame[t].worker IN
  /\ At(t, "started")
  /\ status' = [status EXCEPT ![o] = "RUNNING"]
  /\ frame' = [frame EXCEPT ![t] = Blank("idle"),
                            ![p] = [Blank("find") EXCEPT !.job = o]]
  /\ UNCHANGED <<current, owner, received, finalized, dek, outputs, diskVars, procVars, todo>>

\* Training is over: either adapter makes output/model and output/data with
\* their parents, and raises when they exist.  From now on they hold something,
\* also after the end of a worker that fails or is killed.  A worker whose
\* directory is wiped meanwhile makes part of it anew.
WorkerWrites(p) ==
  LET id == owner[runs[p]] IN
  /\ process[p] = "running"
  /\ trained[id] = None
  /\ folders' = [folders EXCEPT ![id] = @ \cup {"output"}]
  /\ trained' = [trained EXCEPT ![id] = p]
  /\ UNCHANGED <<jobVars, package, unpacked, input, archived, sealed, procVars, frame, todo>>

\* the last file is written into the directories it has made, and it exits with 0
WorkerSucceeds(p) ==
  /\ process[p] = "running"
  /\ trained[owner[runs[p]]] = p
  /\ process' = [process EXCEPT ![p] = "ok"]
  /\ UNCHANGED <<jobVars, diskVars, registered, runs, frame, todo>>

\* whatever raises ends the process with an error
WorkerFails(p) ==
  /\ process[p] = "running"
  /\ process' = [process EXCEPT ![p] = "error"]
  /\ UNCHANGED <<jobVars, diskVars, registered, runs, frame, todo>>

-----------------------------------------------------------------------------
(* _monitor_training_job.                                                  *)

\* the thread looks its job up again by job_id
MonitorFind(t) ==
  /\ At(t, "find")
  /\ Become(t, [frame[t] EXCEPT !.job = current[Id(t)], !.pc = "attach"])
  /\ UNCHANGED <<jobVars, diskVars, procVars, todo>>

MonitorAttach(t) ==
  /\ At(t, "attach")
  /\ \/ /\ registered[Id(t)] # None
        /\ Become(t, [frame[t] EXCEPT !.worker = registered[Id(t)], !.pc = "wait"])
     \/ registered[Id(t)] = None /\ Fail(t)
  /\ UNCHANGED <<jobVars, diskVars, procVars, todo>>

\* mutant: wait() without a timeout
MonitorWaitForever(t) ==
  /\ At(t, "wait")
  /\ \/ process[frame[t].worker] = "ok" /\ Goto(t, "encrypting")
     \/ process[frame[t].worker] \in {"error", "killed"} /\ Fail(t)
  /\ UNCHANGED <<jobVars, diskVars, procVars, todo>>

\* mutant: the exit code is not looked at
MonitorWaitHeedless(t) ==
  /\ At(t, "wait")
  /\ \/ process[frame[t].worker] # "running" /\ Goto(t, "encrypting")
     \/ process[frame[t].worker] = "running" /\ Fail(t)
  /\ UNCHANGED <<jobVars, diskVars, procVars, todo>>

\* wait() returns the exit code, or raises after maxRuntimeSeconds
MonitorWait(t) ==
  /\ At(t, "wait")
  /\ \/ process[frame[t].worker] = "ok" /\ Goto(t, "encrypting")
     \/ process[frame[t].worker] # "ok" /\ Fail(t)
  /\ UNCHANGED <<jobVars, diskVars, procVars, todo>>

MonitorEncrypting(t) ==
  /\ At(t, "encrypting")
  /\ status' = [status EXCEPT ![frame[t].job] = "ENCRYPTING_OUTPUTS"]
  /\ Become(t, [frame[t] EXCEPT !.pc = "read", !.slot = "result-model"])
  /\ UNCHANGED <<current, owner, received, finalized, dek, outputs, diskVars, procVars, todo>>

\* what the result directory holds is packed into an archive beside it
MonitorRead(t) ==
  LET id == Id(t) IN
  /\ At(t, "read")
  /\ \/ /\ trained[id] # None
        /\ archived' = [archived EXCEPT ![id][frame[t].slot] = trained[id]]
        /\ Goto(t, "seal")
     \/ trained[id] = None /\ Fail(t) /\ UNCHANGED archived
  /\ UNCHANGED <<jobVars, folders, package, unpacked, input, trained, sealed, procVars, todo>>

\* the chunks go below encrypted/<output>, created with its parents before the
\* archive is opened again; the signer may refuse the manifest
MonitorSeal(t) ==
  LET id == Id(t)  out == frame[t].slot IN
  /\ At(t, "seal")
  /\ folders' = [folders EXCEPT ![id] = @ \cup {"encrypted"}]
  /\ \/ /\ archived[id][out] # None
        /\ sealed' = [sealed EXCEPT ![id][out] = archived[id][out]]
        /\ \/ /\ out = "result-model"
              /\ Become(t, [frame[t] EXCEPT !.pc = "read", !.slot = "result-data"])
              /\ UNCHANGED outputs
           \/ /\ out = "result-data"
              /\ outputs' = outputs \cup {frame[t].job}
              /\ Become(t, [frame[t] EXCEPT !.pc = "tidy", !.slot = None])
     \/ Fail(t) /\ UNCHANGED <<sealed, outputs>>
  /\ UNCHANGED <<current, owner, status, received, finalized, dek,
                 package, unpacked, input, trained, archived, procVars, todo>>

\* mutant: input/ is not among the directories that are removed
MonitorTidyKeepingInput(t) ==
  LET stay == folders[Id(t)] \cap {"encrypted", "input"} IN
  /\ At(t, "tidy")
  /\ Remains(Id(t), stay, stay)
  /\ Goto(t, "ready")
  /\ UNCHANGED <<jobVars, procVars, todo>>

\* folder by folder; of two removals that meet, one raises and the other goes on
MonitorTidy(t) ==
  LET stay == folders[Id(t)] \cap {"encrypted"} IN
  /\ At(t, "tidy")
  /\ \/ Remains(Id(t), stay, stay) /\ Goto(t, "ready")
     \/ Interrupted(t, Folders \ {"encrypted"}) /\ Fail(t)
     \/ /\ \E u \in Threads \ {t} : At(u, "wipe") /\ Id(u) = Id(t)
        /\ Fail(t)
        /\ UNCHANGED diskVars
  /\ UNCHANGED <<jobVars, procVars, todo>>

MonitorReady(t) ==
  /\ At(t, "ready")
  /\ status' = [status EXCEPT ![frame[t].job] = "OUTPUT_READY"]
  /\ Leave(t)
  /\ UNCHANGED <<current, owner, received, finalized, dek, outputs, diskVars, procVars, todo>>

-----------------------------------------------------------------------------
(* cancel_training_job, acknowledge_training_outputs, close.               *)

CancelCheck(t, id) ==
  /\ t \in Requests
  /\ Admits(t)
  /\ Known(id)
  /\ status[current[id]] \notin Over
  /\ Become(t, [Blank("cancel") EXCEPT !.job = current[id], !.final = "CANCELLED"])
  /\ UNCHANGED <<jobVars, diskVars, procVars, todo>>

CancelMark(t) ==
  /\ At(t, "cancel")
  /\ status' = [status EXCEPT ![frame[t].job] = "CANCELLING"]
  /\ Goto(t, "clear")
  /\ UNCHANGED <<current, owner, received, finalized, dek, outputs, diskVars, procVars, todo>>

Acknowledge(t, id) ==
  /\ t \in Requests
  /\ Admits(t)
  /\ Known(id)
  /\ status[current[id]] = "OUTPUT_READY"
  /\ current[id] \in outputs
  /\ Become(t, [Blank("pop") EXCEPT !.job = current[id], !.final = "COMPLETED"])
  /\ UNCHANGED <<jobVars, diskVars, procVars, todo>>

\* the server shuts down once the requests in flight have returned
CloseBegin ==
  /\ At(Closer, "idle")
  /\ InFlight = {}
  /\ todo' = {id \in JobIds : Known(id)}
  /\ Goto(Closer, "next")
  /\ UNCHANGED <<jobVars, diskVars, procVars>>

\* mutant: close() stops the workers but forgets the DEKs
CloseNextUncleared(t) ==
  /\ At(t, "next")
  /\ \/ \E id \in todo :
          /\ todo' = todo \ {id}
          /\ Become(t, [Blank("pop") EXCEPT !.job = current[id], !.final = "SHUTDOWN"])
     \/ /\ todo = {}
        /\ Become(t, Blank("closed"))
        /\ UNCHANGED todo
  /\ UNCHANGED <<jobVars, diskVars, procVars>>

CloseNext(t) ==
  /\ At(t, "next")
  /\ \/ \E id \in todo :
          /\ todo' = todo \ {id}
          /\ Become(t, [Blank("clear") EXCEPT !.job = current[id], !.final = "SHUTDOWN"])
     \/ /\ todo = {}
        /\ Become(t, Blank("closed"))
        /\ UNCHANGED todo
  /\ UNCHANGED <<jobVars, diskVars, procVars>>

-----------------------------------------------------------------------------
(* _clear_training_deks, then TrainingRuntimeManager.cancel and the removal *)
(* of the directory: shared by failing, cancelling, acknowledging, closing  *)
(* and by prepare_job, which clears no DEK.                                 *)

ClearDeks(t) ==
  /\ At(t, "clear")
  /\ dek' = [dek EXCEPT ![frame[t].job] = {}]
  /\ Goto(t, "pop")
  /\ UNCHANGED <<current, owner, status, received, finalized, outputs, diskVars, procVars, todo>>

PopProcess(t) ==
  /\ At(t, "pop")
  /\ registered' = [registered EXCEPT ![Id(t)] = None]
  /\ Become(t, [frame[t] EXCEPT !.worker = registered[Id(t)], !.pc = "kill"])
  /\ UNCHANGED <<jobVars, diskVars, process, runs, todo>>

\* mutant: the registration goes, the process stays
KillProcessNot(t) ==
  /\ At(t, "kill")
  /\ Become(t, [frame[t] EXCEPT !.worker = None, !.pc = "look"])
  /\ UNCHANGED <<jobVars, diskVars, procVars, todo>>

\* mutant: wait for the process to end by itself
KillProcessPatient(t) ==
  LET p == frame[t].worker IN
  /\ At(t, "kill")
  /\ p # None => process[p] # "running"
  /\ Become(t, [frame[t] EXCEPT !.worker = None, !.pc = "look"])
  /\ UNCHANGED <<jobVars, diskVars, procVars, todo>>

\* terminate, wait, kill, wait
KillProcess(t) ==
  LET p == frame[t].worker IN
  /\ At(t, "kill")
  /\ process' = IF p # None /\ process[p] = "running"
                  THEN [process EXCEPT ![p] = "killed"] ELSE process
  /\ Become(t, [frame[t] EXCEPT !.worker = None, !.pc = "look"])
  /\ UNCHANGED <<jobVars, diskVars, registered, runs, todo>>

AfterCleanup(t) == IF frame[t].final = "PREPARE" THEN "mkdir" ELSE "end"

LookForDirectory(t) ==
  /\ At(t, "look")
  /\ Goto(t, IF folders[Id(t)] # {} THEN "wipe" ELSE AfterCleanup(t))
  /\ UNCHANGED <<jobVars, diskVars, procVars, todo>>

\* an exception in the cleanup itself: prepare discards its job, close() is
\* abandoned, a request ends in a 500 and a monitor thread dies
CleanupRaises(t) ==
  CASE frame[t].final = "PREPARE"  -> Goto(t, "discard")
    [] frame[t].final = "SHUTDOWN" -> Become(t, Blank("aborted"))
    [] OTHER                       -> Leave(t)

\* the directory may be gone by now, removed by another thread
WipeDirectory(t) ==
  /\ At(t, "wipe")
  /\ \/ /\ folders[Id(t)] # {}
        /\ Remains(Id(t), {}, {})
        /\ Goto(t, AfterCleanup(t))
     \/ /\ folders[Id(t)] = {}
        /\ CleanupRaises(t)
        /\ UNCHANGED diskVars
     \/ Interrupted(t, Folders) /\ CleanupRaises(t)
  /\ UNCHANGED <<jobVars, procVars, todo>>

\* mutant: a cancellation leaves the status as it marked it
EndCleanupUnmarked(t) ==
  LET o == frame[t].job IN
  /\ At(t, "end")
  /\ \/ /\ frame[t].final \in Over
        /\ status' = IF frame[t].final = "CANCELLED" THEN status
                        ELSE [status EXCEPT ![o] = frame[t].final]
        /\ Leave(t)
     \/ /\ frame[t].final = "SHUTDOWN"
        /\ status' = [status EXCEPT ![o] = IF @ \in Over THEN @ ELSE "FAILED"]
        /\ Become(t, Blank("next"))
  /\ UNCHANGED <<current, owner, received, finalized, dek, outputs, diskVars, procVars, todo>>

EndCleanup(t) ==
  LET o == frame[t].job IN
  /\ At(t, "end")
  /\ \/ /\ frame[t].final \in Over
        /\ status' = [status EXCEPT ![o] = frame[t].final]
        /\ Leave(t)
     \/ /\ frame[t].final = "SHUTDOWN"
        /\ status' = [status EXCEPT ![o] = IF @ \in Over THEN @ ELSE "FAILED"]
        /\ Become(t, Blank("next"))
  /\ UNCHANGED <<current, owner, received, finalized, dek, outputs, diskVars, procVars, todo>>

Cleanup(t) ==
  \/ ClearDeks(t) \/ PopProcess(t) \/ KillProcess(t)
  \/ LookForDirectory(t) \/ WipeDirectory(t) \/ EndCleanup(t)

-----------------------------------------------------------------------------
\* what a thread does next on its own once its handler has begun
Step(t) ==
  \/ PrepareDiscard(t) \/ PrepareMkdir(t) \/ PrepareCommit(t)
  \/ AppendDecrypt(t) \/ AppendWrite(t) \/ AppendAdvance(t)
  \/ FinalizeOpen(t) \/ FinalizeExtract(t) \/ FinalizeCommit(t)
  \/ StartGpu(t) \/ StartLaunch(t) \/ StartRegister(t) \/ StartCommit(t)
  \/ MonitorFind(t) \/ MonitorAttach(t) \/ MonitorWait(t) \/ MonitorEncrypting(t)
  \/ MonitorRead(t) \/ MonitorSeal(t) \/ MonitorTidy(t) \/ MonitorReady(t)
  \/ CancelMark(t) \/ CloseNext(t)
  \/ Cleanup(t)

\* what clients ask for
Request ==
  \/ \E t \in Requests, id \in JobIds :
       \/ \E o \in Objects : PrepareOpen(t, id, o)
       \/ \E s \in Slots : FinalizeCheck(t, id, s)
       \/ \E p \in Workers : StartCheck(t, id, p)
       \/ CancelCheck(t, id)
       \/ Acknowledge(t, id)
  \/ \E id \in JobIds, s \in Slots : AppendCheck(id, s)

Worker == \E p \in Workers : WorkerWrites(p) \/ WorkerSucceeds(p) \/ WorkerFails(p)

\* the process exits after close(): nothing is left to do
Stopped ==
  /\ frame[Closer].pc \in {"closed", "aborted"}
  /\ \A p \in Workers : frame[p].pc \in {"idle", "dead"}
  /\ UNCHANGED vars

Next == Request \/ Worker \/ (\E t \in Threads : Step(t)) \/ CloseBegin \/ Stopped

Spec == Init /\ [][Next]_vars

\* every thread that has begun is scheduled again; nothing is assumed of the
\* clients, of the worker process or of the shutdown
FairSpec == Spec /\ \A t \in Threads : WF_vars(Step(t))

-----------------------------------------------------------------------------
(* Properties.                                                             *)

\* Every variable has its type.
TypeOK ==
  /\ current    \in [JobIds -> Objects \cup {None}]
  /\ owner      \in [Objects -> JobIds \cup {None}]
  /\ status     \in [Objects -> Status]
  /\ received   \in [Objects -> [Slots -> Nat]]
  /\ finalized  \in [Objects -> SUBSET Slots]
  /\ dek        \in [Objects -> SUBSET Slots]
  /\ outputs    \subseteq Objects
  /\ folders    \in [JobIds -> SUBSET Folders]
  /\ package    \in [JobIds -> [Slots -> Seq(Chunk)]]
  /\ unpacked   \in [JobIds -> SUBSET Slots]
  /\ input      \in [JobIds -> [Slots -> Seq(Chunk)]]
  /\ trained    \in [JobIds -> Workers \cup {None}]
  /\ archived   \in [JobIds -> [Outputs -> Workers \cup {None}]]
  /\ sealed     \in [JobIds -> [Outputs -> Workers \cup {None}]]
  /\ registered \in [JobIds -> Workers \cup {None}]
  /\ process    \in [Workers -> ProcessState]
  /\ runs       \in [Workers -> Objects \cup {None}]
  /\ frame      \in [Threads -> Frame]
  /\ todo       \subseteq JobIds

\* A job that is not going on holds no open DEK: whatever order the handlers,
\* the monitor and close() interleave in, FAILED and CANCELLED are reported,
\* and an object that was never published is dropped, only after every DEK was
\* zeroed (service.py _fail_training_job, cancel_training_job and the except
\* clause of prepare_training_job).
DeksClearedWhenOver ==
  \A o \in Objects :
    status[o] \in {"unused", "FAILED", "CANCELLED"} => dek[o] = {}

Published(o) == status[o] \notin {"unused", "opening"}

\* What must hold of a thread's local state f for that, given the statuses and
\* the open DEKs: past _clear_training_deks it holds a job without open DEKs,
\* and an object that is not published is held while it is being prepared only.
FrameOK(f, st, k) ==
  /\ f.pc \notin {"idle", "dead", "next", "closed", "aborted"} => f.job # None
  /\ f.pc \in {"decrypt", "write", "advance", "open", "extract", "finalize"} => f.slot \in Slots
  /\ f.pc \in {"read", "seal"} => f.slot \in Outputs
  /\ f.pc \in {"discard", "mkdir", "commit"} => f.final = "PREPARE"
  /\ f.final = "PREPARE" =>
       /\ f.job # None
       /\ f.pc \in {"discard", "pop", "kill", "look", "wipe", "mkdir", "commit"}
  /\ f.job # None =>
       IF f.final = "PREPARE" THEN st[f.job] = "opening"
                              ELSE st[f.job] \notin {"unused", "opening"}
  /\ /\ f.pc \in {"pop", "kill", "look", "wipe", "end"}
     /\ f.final \in {"FAILED", "CANCELLED", "SHUTDOWN"}
     => k[f.job] = {}

\* The inductive invariant behind DeksClearedWhenOver: an unpublished object has
\* one thread, the one that prepares it.
KeyInv ==
  /\ DeksClearedWhenOver
  /\ \A id \in JobIds : Known(id) => Published(current[id])
  /\ \A id \in todo : Known(id)
  /\ \A o \in Objects : status[o] # "unused" => owner[o] \in JobIds
  /\ \A o \in Objects : Published(o) => Known(owner[o])
  /\ \A t \in Threads : FrameOK(frame[t], status, dek)
  /\ \A t, u \in Threads :
       t # u /\ frame[t].final = "PREPARE" => frame[t].job # frame[u].job

\* The same of a job whose result is delivered: a job is trained only after
\* each of its inputs was finalized, which zeroes its DEK.
DeksClearedWhenDelivered ==
  \A id \in JobIds :
    Known(id) /\ status[current[id]] \in {"OUTPUT_READY", "COMPLETED"}
      => dek[current[id]] = {}

PlaintextGone(id) ==
  /\ package[id] = EmptyInputs
  /\ input[id] = EmptyInputs
  /\ unpacked[id] = {}
  /\ trained[id] = None
  /\ archived[id] = NoOutputs

\* plaintextCleaned in the view of a job (service.py _training_job_view) is
\* true of the disk once the job is at rest, that is when no thread handles it
\* and no worker was left running for it: of a job reported as cleaned, neither
\* packages nor inputs nor the worker's result are there in the clear, and what
\* a late thread or worker wrote after the report was wiped by someone.  Premise:
\* one request at a time, and no job_id is prepared twice; the run
\* training_late_extraction has a finalize that overlaps with a cancellation.
PlaintextCleaned ==
  \A id \in JobIds :
    /\ Known(id)
    /\ status[current[id]] \in Over \cup {"OUTPUT_READY"}
    /\ \A t \in Threads : frame[t].job # None => Id(t) # id
    /\ \A p \in Workers : process[p] = "running" => owner[runs[p]] # id
    => PlaintextGone(id)

\* Of a job that stages its inputs and that no thread is handling, everything
\* the client was told was received is on disk: as a package until the input is
\* finalized, extracted below input/ afterwards.  Premise: one request at a time,
\* and no job_id is prepared twice.  The run training_reused_id shows that a
\* monitor of the earlier job wipes the inputs of the later one.
StagedInputsKept ==
  \A id \in JobIds : LET o == current[id] IN
    /\ Known(id)
    /\ status[o] \in {"STAGING_INPUTS", "VALIDATING_INPUTS"}
    /\ \A t \in Threads : frame[t].job # o
    => \A s \in Slots :
         (IF s \in finalized[o] THEN input[id][s] ELSE package[id][s]) = Uploaded(o, s)

\* The inputs a worker reads are the uploads of the job it was launched for,
\* all of them and in order, or were wiped.  Premise: one request at a time, and
\* no job_id is prepared twice.
TrainsOnOwnInputs ==
  \A p \in Workers : process[p] = "running" =>
    \A s \in Slots :
      input[owner[runs[p]]][s] \in {<<>>, [i \in 1 .. Chunks |-> <<runs[p], i>>]}

\* Whatever lies encrypted of a job that offers its result was made by one and
\* the same worker, which was launched for this very job object and exited with
\* 0: neither by a worker that failed or was killed half way nor by one that is
\* still writing.  Premise: one request at a time, and no job_id is prepared
\* twice.
ResultIsOwn ==
  \A id \in JobIds :
    Known(id) /\ status[current[id]] = "OUTPUT_READY" =>
      \A out, other \in Outputs : LET p == sealed[id][out] IN
        p # None => /\ runs[p] = current[id] /\ process[p] = "ok"
                    /\ sealed[id][other] \in {p, None}

\* Cancelling the job in the table reaches every worker: one that runs is
\* registered under its job_id and was launched for the object in the table,
\* unless the start that launched it is about to register it or a thread is
\* about to kill it.  Premise: one request at a time, and no job_id is prepared
\* twice: of two overlapping starts of one job the second replaces the
\* registration of the first.
WorkerUnderControl ==
  \A p \in Workers : process[p] = "running" =>
    \/ registered[owner[runs[p]]] = p /\ current[owner[runs[p]]] = runs[p]
    \/ \E t \in Threads : frame[t].worker = p /\ frame[t].pc \in {"register", "kill"}

Exited == frame[Closer].pc \in {"closed", "aborted"}

\* When close() has returned, no job of the table holds an open DEK.  Neither a
\* close() that is ended by an exception nor a job that an overlapping prepare has
\* replaced in the table is meant.
ShutdownClearsKeys ==
  At(Closer, "closed") => \A id \in JobIds : Known(id) => dek[current[id]] = {}

\* A cancellation comes to an end.  It ends without a final status only when
\* rmtree raised because somebody touched the directory meanwhile; then there
\* is something left to remove, and the job stays CANCELLING until another
\* cancellation.
CancelResolves ==
  \A o \in Objects :
    status[o] = "CANCELLING" ~>
      \/ status[o] # "CANCELLING"
      \/ /\ folders[owner[o]] # {}
         /\ \A t \in Threads : frame[t].job = o => frame[t].final # "CANCELLED"

\* A RUNNING job does not stay so: whatever becomes of its worker, its monitor
\* thread takes it on, at the latest after maxRuntimeSeconds.
RunningEnds ==
  \A o \in Objects :
    status[o] = "RUNNING" ~> status[o] # "RUNNING" \/ current[owner[o]] # o

\* close() comes to an end whatever the monitors do meanwhile.
CloseEnds ==
  At(Closer, "next") ~> Exited
=============================================================================
