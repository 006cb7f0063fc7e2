# CipherGPU in TLA+

CipherGPU (`src/ciphergpu`) is a data-plane agent: it makes short-lived attestation
sessions, consumes one-time grants, opens the data-encryption keys (DEKs) that are
sealed to a session, and then executes a task, loads a model or trains one.  It keeps
everything in memory and plaintext on disk only as long as it is needed.  Its handlers
run concurrently, its training workers are processes of their own, and its tests send
one request after the other.  These modules are about what the tests cannot reach: the
order in which the steps of several handlers, monitor threads, worker processes and the
shutdown take place.

## 1. Inventory

| component | state | operations | interacts with |
|---|---|---|---|
| HTTP application (`app.py`, `main.py`) | none | routes; `lifespan` calls `close()` | runs plain handlers on a thread pool and the two chunk uploads on the event loop, which dispatches nothing while one of them runs |
| sessions and grants (`service.py` 126-134, 975-1034, 1436-1474) | `_sessions`, `_consumed_jti`; of a session `consumed`, `private_key`, `expires_at` | `create_session`, `_purge`, and the checks and commits of the three handlers that consume an authorization | attestation signing (after the session was stored), control plane (issues grants) |
| execution (`service.py` 1036-1239) | `_receipts` | `execute`, `receipt`, `cancel` | sessions and grants; activation of a model deployment |
| model deployments (`service.py` 137-155, 239-411, 1241-1434) | `_model_deployments`, `_stream_deployments` | register, stream prepare / append / finalize, activate, offline, purge, `infer`, `runtime_chat` | sessions and grants, model runtime, training (GPU) |
| model runtime (`model_runtime.py`) | `_runtimes`, one directory per deployment | `prepare_archive`, append, `start`, `stop`, `endpoint` | vLLM child processes |
| training jobs (`service.py` 158-187, 413-721, 723-906) | `_training_jobs`; of a job its status, inputs (DEK, `next_index`, `finalized`), outputs | prepare, append, finalize, start, cancel, outputs, acknowledge, the monitor thread, `close()` | sessions and grants, training runtime |
| training runtime (`training_runtime.py`) | `_processes`, one directory per job | `prepare_job`, append, finalize, `start`, `wait`, `cancel`, `cleanup_plaintext`, `cleanup_all` | worker processes, the file system |
| training worker (`training_worker.py`) | its process, `output/`, `progress.json` | train, write results, exit | the job's directory |
| attestation signing (`sim_attestation.py`, `service.py` 67-108) | none | sign evidence, receipt, manifest | called by the service |
| crypto, wire models, errors, client | none | pure functions, records | |

What is hard, and what makes each component correct:

- *Training jobs.*  Only the tables are behind the lock; job objects are shared by the
  handlers, the event loop, one monitor thread per start and `close()`, and each reads a
  status, works for seconds or hours and then writes a status.  Directory, process table
  and monitor go by `job_id`, the handlers by object.  Correct means: no DEK of a job
  that is over stays open; what a job reports as cleaned is gone; the worker trains on
  exactly what was uploaded; what is served is the result of this very job; no worker is
  out of reach; a job that was acknowledged stays so; one worker trains at a time;
  cancelling, running and shutting down end.
- *Sessions and grants.*  Checks are made without the lock and recorded with it.  Used
  grants are remembered in memory only.  Correct means: one effect per session and per
  grant, also across expiry and restarts.
- *Model deployments and model runtime.*  A load takes minutes, during which the session
  may be purged, the deployment taken offline or a second load begun.  Directories,
  child registrations and streams go by the client's id, the handlers by object.  Correct
  means: what an ONLINE deployment serves is the upload its session authorized, and only
  once; it is ONLINE only with a session; every child that runs is where `stop` finds it;
  child, plaintext, stream key and credential are gone when it is OFFLINE; the lock
  everybody waits for comes back.
- *Both together.*  One GPU: a training job does not start while a deployment is ONLINE.
  The reverse is not claimed: a deployment is loaded without a look at the jobs.

The hazards are listed one by one, at the lines where they bite, in `PROJECT.json`.

## 2. Plan

Done:

1. `TrainingJobs`: the training jobs with runtime, worker, monitor and shutdown;
   `TrainingJobs_proofs`: types, the clearing of the DEKs, what `close()` leaves;
   `TrainingResults_proofs`: the DEKs of delivered jobs; `TrainingWorkers_proofs`: the
   worker processes and whose result is served; `TrainingInputs_proofs`: what lies on
   disk.
2. `OneTimeAuthorization` (abstract) and `Authorization`, which implements it as long as
   requests do not overlap; `Authorization_proofs`: both, and what holds when they do.
3. `ModelDeployments`: deployments, streams, runtime, activation, inference, purge,
   offline, shutdown and restart; `ModelDeployments_proofs`: types and the credentials.
4. `ServedModels` (abstract), which `ModelDeployments` implements as long as requests do
   not overlap; `ServedModels_proofs`: that, and the registration of the children;
   `ServedUploads_proofs`: what is served, what infer reaches, and what offline and
   shutdown leave.

To do:

5. Weaker premises, where TLC finds them enough: `WorkerUnderControl` and
   `PlaintextCleaned` for requests that overlap but are about different jobs.

Two modules were planned and dropped.  An abstract life of a training job (staged, running,
delivered or over) would have to let a job leave CANCELLED and COMPLETED, which the code
does (section 4), and then promises little more than `ResultIsOwn` already says.
For the GPU that jobs and deployments share, the code
claims no exclusion beyond the one check in `start_training_job`, which `TrainingJobs`
lets refuse at any time, so there is nothing the composition could be held to.

## 3. Modules

### TrainingJobs

One action per step of a handler that other threads can see, in the order of the code.
`frame[t]` is the local state of a thread: where it is (`pc`), the job object and the
input or output (`slot`) it works with, the process it holds, how many folders a
preparation has made (`made`), and, in the cleanup that is shared by failing, cancelling,
acknowledging, shutting down and preparing, the status this leads to (`final`).

| code | actions |
|---|---|
| `prepare_training_job`, `prepare_job` | `PrepareOpen`, then the cleanup of what was there, `PrepareMkdir` per folder, `PrepareCommit`, or `PrepareDiscard` |
| `append_training_input` | `AppendCheck`, `AppendDecrypt`, `AppendWrite`, `AppendAdvance` (event loop) |
| `finalize_training_input`, `finalize_input` | `FinalizeCheck`, `FinalizeOpen`, `FinalizeExtract`, `FinalizeCommit` |
| `start_training_job`, `start` | `StartCheck`, `StartGpu`, `StartLaunch`, `StartRegister`, `StartCommit` |
| the worker | `WorkerWrites`, `WorkerSucceeds`, `WorkerFails`; killed by `KillProcess` |
| `_monitor_training_job` | `MonitorFind`, `MonitorAttach`, `MonitorWait`, `MonitorEncrypting`, `MonitorRead` and `MonitorSeal` per output, `MonitorTidy`, `MonitorReady` |
| `cancel_training_job` | `CancelCheck`, `CancelMark`, cleanup |
| `acknowledge_training_outputs` | `Acknowledge`, cleanup |
| `close` | `CloseBegin`, `CloseNext`, cleanup per job |
| `_fail_training_job`, `_clear_training_deks`, `cleanup_all` | `ClearDeks`, `PopProcess`, `KillProcess`, `LookForDirectory`, `WipeDirectory`, `EndCleanup` |

Job objects (`Objects`) and job ids (`JobIds`) are different things: an id may be
prepared again once its job is over, and a thread keeps the object it found.

Disk: `folders`, `package` (which chunks of which object were appended), `unpacked` and
`input` (what was extracted), `trained` (whose result lies below `output/`, from the
moment the worker makes the result directories), `archived` and `sealed` (for each output,
whose result was packed and whose lies encrypted).  Removing a tree succeeds in one step,
finds the tree gone (`FileNotFoundError`), or raises half way (`Interrupted`): at a folder
that another thread or a worker touches at that moment (ENOTEMPTY), with any part of the
rest gone.  Where the exception goes depends on who removes (`CleanupRaises`).
Checkpoints come and go with `output/`, logs with `encrypted/`; `job-spec.json` holds
names only and is left out.  A job in the model requires each of its slots, so
validation-data, without which `start` goes on, is not told apart.  After SIGKILL the
wait of five seconds succeeds.  The GPU check can be refused at any time, since
deployments are not part of this module.  Progress, epochs and metrics are left out, so
are the reading handlers.

### Authorization, OneTimeAuthorization

`Authorization` has the session table and flags, the grants that were issued, the used
jtis and, as history, a `log` of the effects that were authorized.  Each of `execute`,
`prepare_stream_deployment` and `prepare_training_job` is a begin (all checks; those
that precede the opening commute with everything that matters, so they are one step), an
`OpenDeks` and a commit.  `Refuse` is any request that fails a check: it purges all the
same.  `IssueGrant` is the control plane, external to the repository, and hands out
grants only for sessions whose evidence was received.  `Restart` is a crash or an orderly
end: all tables are lost, `log` is not.

`OneTimeAuthorization` is the promise in one action: an effect has a session and grants
that no earlier effect had.

### ModelDeployments

As in `TrainingJobs` a handler is a thread that takes one step per access to what others
see.  `frame[t]` holds where it is (`pc`), which call it belongs to, the id, object,
stream, session and child it works with, the chunks it has read from an archive, and, in
`stop`, where that returns to (`then`).  The lock is a variable of its own, because
`offline` and the activation keep it while they stop, unpack and load; a handler that
takes it for one access has the guard `Unlocked` and no step of its own for it.

| code | actions |
|---|---|
| `register_model_deployment` | `Register` |
| `offline_model_deployment` | `Offline`, stop, `Retire` |
| `ModelRuntimeManager.stop` | `StopPop`, `StopKill`, `StopLook`, `StopWipe`; `StopRaises` passes the error on |
| `prepare_stream_deployment`, `prepare_archive` | `PrepareOpen`, stop, `MakeDirectory`, `PrepareCommit` |
| `append_stream_chunk` | `AppendOpen`, `AppendWrite` (event loop) |
| `finalize_stream_deployment` | `Finalize`, `FinalizeMark`, load, `FinalizeFailed`, `FinalizeRelease` |
| `ModelRuntimeManager.start` | `LoadCheck`, `LoadUnpack`, `LoadExtract`, `LoadLaunch`, `LoadWait`, `LoadOnline` |
| `execute` of `model.deploy`, `_activate_model_deployment` | `Execute`, `Consume`, `Activate`, stop, `MakeDirectory`, `ActivateFill`, load |
| `infer`, `runtime_chat`, `_invoke_model` | `Infer`, `RuntimeChat`, `Ask` |
| `create_session`, `_purge` | `CreateSession`, `Purge`; `Refuse` is any request that is refused after its purge |
| `close` | `CloseBegin`, `CloseNext`, stop per deployment |
| surroundings | `SessionExpires`, `ChildEnds`, `Restart` |

An exception that is no `CipherGpuError` leaves the handler wherever it is raised; the
lock goes with its `with` statement and `finalize` still runs its `finally` clause
(`Escape`, `Fail`).  Disk is `directory`, `archive` (the chunks, each with the session
whose stream it came with), `unpacked` (`model/` exists) and `model` (what was extracted
there); a child `serves` what was in `model` when it was launched.

Merged into one step: starting a child, its port and its registration (`LoadLaunch`);
writing a chunk and counting it (`AppendWrite`, only the event loop does either); the
checks of `execute`.  A port is taken from those no live child listens on; the moment
between `_free_port` and the bind is left out.  Killing a child succeeds.  Removing a tree
succeeds, finds it gone, or raises half way because another thread writes there
(`Disturbed`, `HalfWiped`).  The part of `close()` that
is about training jobs may raise, and then no deployment is visited.  At a restart tables
and threads are lost and disk is not; children, which have sessions of their own, either
go on without their parent (`orphan`) or ended with the container.  Names, error codes
and the bodies of inferences are left out.

### ServedModels

What deployments promise about the weights on the GPU, in two actions: `Load` puts the
upload of a session that was never loaded before under an id that serves nothing, `Drop`
takes models away.  `ModelDeployments` maps an id whose registered child runs to the
session whose upload that child has loaded, and everything else to `None`.

### MC modules

`MCTrainingJobs`, `MCAuthorization` and `MCModelDeployments` only add the symmetry set:
ids, objects, threads, workers, children, ports, grants and so on are interchangeable.
The runs that check liveness use no symmetry.

Operators marked `mutant` are the code with one plausible mistake (a DEK that is not
zeroed, a guard that is dropped).  No specification uses them; each of them, put in place
of the definition it follows, violates the property of the run named with it in
`PROJECT.json`.

## 4. Runs

`MaxInFlight` says how many requests clients keep in flight: 1 is a client that waits
for each answer, as `scripts/run_training_smoke.py`, the acceptance script and
`client.py` do, 2 lets requests overlap.  Monitors, workers, children, expiry and the
shutdown interleave with the requests in every run.

| run | instance | shows |
|---|---|---|
| `training_sequential` | 2 jobs, 2 inputs of 2 chunks, 1 worker, no overlap, no id reused | `TypeOK`; `TrainsOnOwnInputs`; `PlaintextCleaned`; `StagedInputsKept`; `WorkerUnderControl`; `ResultIsOwn`; `DeksClearedWhenDelivered`; `ShutdownClearsKeys` |
| `training_overlapping_prepares` | 1 id prepared twice, no start, 2 requests overlap | `KeyInv`; `DeksClearedWhenOver` |
| `training_liveness` | 1 job, 1 worker, 2 requests overlap, fair threads | `CancelResolves`; `RunningEnds`; `CloseEnds` |
| `authorization_sequential` | 2 sessions, 2 grants, 2 assets, no overlap | `TypeOK`; `OneTimeUse` (refinement) |
| `authorization_overlapping` | 1 session, 2 grants, 2 assets, 2 requests overlap | `UseInv`; `ExecutionIsFresh` |
| `deployments_sequential` | 1 id, 2 objects, streams, children, ports and sessions, 2 chunks, 1 restart, no overlap | `TypeOK`; `ServesAuthorizedUpload`; `OneChild`; `CredentialHasSession`; `InferReachesOwnModel`; `InferReachesLiveModel`; `ShutdownStopsModels`; `OfflineCleans`; `LoadsAreAuthorized` (refinement) |
| `deployments_overlapping` | 1 of each, 1 chunk, 2 requests overlap, fair threads | `NoCredentialWithoutAuthorization`; `RequestsReturn`; `LockReleased` |

Five runs show where the code does not do what it, a test or a comment says; each stops at
the first counterexample, and `PROJECT.json` quotes the lines.

| run | property | what happens | needs |
|---|---|---|---|
| `training_late_extraction` | `PlaintextCleaned` | a cancellation comes between opening an archive and extracting it; the plaintext of a CANCELLED job stays on disk | overlap |
| `training_reused_id` | `StagedInputsKept` | the monitor of a cancelled job wipes what was uploaded for the job that took its id | an id used again |
| `authorization_replay` | `GrantUsedOnce` | two overlapping prepares use one grant twice | overlap |
| `deployments_unauthorized` | `OnlineIsAuthorized` | a deployment that is registered again, or whose session is purged, between prepare and finalize goes ONLINE without a session | nothing |
| `deployments_reused_port` | `InferReachesOwnModel` | the child of one deployment has ended and the child of another was given its port; `infer` sends the request there | nothing |

*Beyond the bounds.*  The passing runs hold for the instances above, and not for every use
of the code.  What follows was found with the same modules: TLC refutes each statement of
the third column when it is added to a copy of the configuration named, and the
counterexample is what the second column says.  All contradict a line of the repository as
much as the five runs do.

| code | what happens | refuted | instance |
|---|---|---|---|
| `start_training_job` 644-660, "another training job is running" | two overlapping starts of different jobs both find the GPU free, since RUNNING is set after the lock was given back; both train | no two workers run for RUNNING jobs | `training_late_extraction` with 2 jobs, 2 objects, 2 workers |
| `cancel_training_job` 683-685, which leaves a COMPLETED job alone | an acknowledgement comes between the look at the status and CANCELLING; the job ends as CANCELLED | a COMPLETED job stays so | `training_late_extraction` |
| `_monitor_training_job` 742; `tests/test_training.py` 295-299 downloads the result of an OUTPUT_READY job | a cancellation removes the result, the monitor then sets OUTPUT_READY over CANCELLED | `sealed` is there of an OUTPUT_READY job nobody handles | `training_late_extraction` with `MaxInFlight = 1` |
| `close` 216, "Stop workers and clear all ephemeral key material" | (a) a monitor woken by `close()` removes the same directory: the exception ends `close()` and the DEKs of the other jobs stay open, and the deployments as they are | `frame[Closer].pc = "aborted"` implies `dek` empty | `training_reused_id` with 2 jobs, each prepared once |
| | (b) of two overlapping prepares of one id the second replaces the object of the first, whose DEKs nobody finds any more | at `"closed"` every `dek` is empty | `training_overlapping_prepares` |
| | (c) two overlapping starts of one job: the second registration replaces the first, whose worker outlives `close()` | at `"closed"` no worker runs | `training_late_extraction` with 2 workers |
| | (d) a second prepare replaces a stream (368) and leaves the DEK of the first open | at `"closed"` `dek` is empty | `deployments_unauthorized` |
| `cancel_training_job` 687-689; `scripts/system_training_acceptance.py` 497 waits for a job that is ready or over | an upload or extraction writes into the directory that is removed, `rmtree` raises: a 500, and the job stays CANCELLING until it is cancelled again | a CANCELLING job is held by a thread | `training_late_extraction` |

Further consequences of the same:

- With an id that is used again, `TrainsOnOwnInputs`, `PlaintextCleaned` and, when there
  is a second worker, `ResultIsOwn` fail like `StagedInputsKept`: a worker whose monitor has given up may still read or
  write in the directory that was prepared since.  With overlapping requests
  `DeksClearedWhenDelivered` fails then too.
- With two starts of one job `ResultIsOwn` and `WorkerUnderControl` fail: two workers and
  two monitors share a directory and a registration.
- A job that answered CANCELLED may be given another status by a late finalize as well.
- After a restart `offline` answers that a deployment it does not know is in the
  requested safe state; the plaintext an agent that died left under this id stays on disk
  until the id is prepared again.
- With two requests at a time `OneChild` (two finalizes register two children under one
  id), `ServesAuthorizedUpload` (a chunk of an old stream is written to a new archive),
  `CredentialHasSession` and `InferReachesOwnModel` fail; a finalize that is in flight
  goes on after `offline` and reports ONLINE; a finalize takes a stream out that was
  prepared while it was loading, and that stream's DEK stays open.

`CancelResolves` is therefore weaker than a promise that CANCELLED comes: it says that a
cancellation is not forgotten, and that if CANCELLING stays, a removal was interrupted and
something is left for the next cancellation to remove.  `ShutdownClearsKeys` and
`ShutdownStopsModels` are about a `close()` that returns and about what is in the tables.
`InferReachesLiveModel` is what is proved for any number of deployments; for the one of
`deployments_sequential` the stronger `InferReachesOwnModel` holds as well.

*Bounds.*  The properties relate at most two jobs, two objects under one id, two workers,
children or sessions, or two requests, so the runs have two of what their question is
about and one of the rest; two chunks and two inputs are enough for loss, repetition and
order, and for a job that has one input finalized and one not.  Two sessions, streams and
children let a deployment be loaded, lost and loaded again, once of them after a restart.
`MaxPrepares`, `MaxRestarts` and the number of objects, streams, sessions, workers and
children bound how often a thing is done; nothing else is unbounded.
`training_overlapping_prepares` has no workers: a DEK is opened, dropped and zeroed before
a start, and with a worker the instance is too large; `KeyInv` is proved for any number of
them.  What is proved (section 5) holds without these bounds, except where a premise is
named.

*Fairness.*  `FairSpec` assumes that a thread that has begun is scheduled again, which
the operating system and the thread pool provide.  Nothing is assumed of clients, of
workers and children (they may run forever), or of the shutdown.  `MonitorWait` can always
go on because `wait()` has a timeout (`maxRuntimeSeconds`), `LoadWait` because
`_wait_healthy` has one, `KillProcess` and `StopKill` because SIGKILL follows SIGTERM.
Fairness is weak: of two threads that want the lock, one may lose every time.
`RequestsReturn` therefore excepts a request that waits for the lock, and `LockReleased`
says that whoever holds it gives it back.

*Deadlock* is checked in all runs.  The one place where the system stops, after `close()`
has ended, is the stuttering action `Stopped`; `Authorization` never stops.

## 5. Proofs

All theorems hold for every value of the constants; what is assumed of them is stated as
named assumptions in the modules (threads are different from each other, `None` is none
of the values, bounds are positive, the thread pool and the job objects are finite).

A theorem that does not hold for every use of the code names its premise:
`MaxInFlight = 1` is a client that waits for each answer, `MaxPrepares = 1` one that
prepares no `job_id` twice.  The client and the scripts of the repository are of that
kind; the agent itself enforces neither.  Monitors, workers, children, expiry, crashes and
`close()` interleave with that one request all the same, and a theorem with a premise is
about those.  What is only true because nobody else is there under the premises
(that staged inputs stay, that one job trains at a time, that COMPLETED is final) is not stated as a theorem: the
counterexamples of section 4 show what becomes of it.

`TrainingJobs_proofs`

- `TypeCorrect`: `Spec => []TypeOK`.
- `KeysCleared`: `Spec => []DeksClearedWhenOver`.  By itself this is not inductive: the
  step that sets FAILED does not look at the DEKs.  `KeyInv` adds that a thread past
  `_clear_training_deks` holds a job without open DEKs (nothing ever opens one again),
  and that an object that is not yet published is held by exactly one thread, the one
  that prepares it, so that dropping it or failing in between is that thread's business
  alone.  `TypeOK` and `KeyInv` are inductive together.  Most steps change one thread's
  local state and no DEK; the lemma `KeyStep` reduces them to a question about that local
  state.

- `KeysKnown`: `Spec => []KeyInv`, the invariant itself.
- `ShutdownClears`: `Spec => []ShutdownClearsKeys`.  `CloseInv` follows `close()` through
  the table: a job it has visited holds no open DEK, the one it is visiting is left to
  `KeyInv` once its DEKs were cleared, and since no request is in a handler any more, no
  preparation can open a DEK or publish a job behind its back.

`TrainingResults_proofs`, for `MaxPrepares = 1` and any number of requests in flight

- `DeliveredKeysCleared`: `Spec => []DeksClearedWhenDelivered`.  Nothing clears a DEK on
  the way to OUTPUT_READY; there is none, because a job is started only when each input
  is finalized, and that closes its DEK (`CompleteOK`).  `UniqueOK` says that there is one
  published object of an id, so that what is looked up is what was meant, and `ResultsOK`
  that whatever lies under an id as a result was made by a worker of that id.
- What a step does to the local state of its thread, to jobs, results and workers is
  said once (`Moves`, `JobsMove`, `ResultsMove`, `ProcsMove`); the invariants of this and
  the following two modules are argued from that.

`TrainingWorkers_proofs`, for `MaxInFlight = 1` and `MaxPrepares = 1`

- `WorkersControlled`: `Spec => []WorkerUnderControl`.  The key is `StartsOK`: an object
  is started once, since it leaves VALIDATING_INPUTS for good before its start returns; so
  its worker and its monitor are the only ones it ever has.  `RegisteredOK` ties the
  process table to the objects, between launch and registration too.
- `ResultsAreOwn`: `Spec => []ResultIsOwn`.  A worker may be killed, fail or run on while
  its result is half written, and a monitor may give up at any time.  `ExitsOK` says that
  a monitor waits for its own worker and comes to the encryption only when that has exited
  with 0; after that nothing is written below `output/`.

`TrainingInputs_proofs`, with the same premises

- `OwnInputsTrained`, `PlaintextRemoved`: `TrainsOnOwnInputs` and `PlaintextCleaned` are
  invariants.  `DiskInv` follows the disk: data lie in the folder of their job
  (`FoldersOK`), an extracted input is the job's own upload or gone (`InputsOK`), a package
  has the chunks that were counted (`StagedOK`), a handler finds what it left at its last
  step (`HandlersOK`), a job that is over is clean or has a thread that will come to it
  (`CleanedOK`), and a worker that runs has somebody who waits for it (`AttendedOK`).
  Much of it turns on the lemma `SoleHandler`: a job that was not started is in the hands
  of one thread.  A removal may raise half way and leave plaintext; the lemma `Meddler`
  says who can have been in its way, and that this is a worker that runs or a thread that
  will itself remove the rest.

`Authorization_proofs`

- `TypeCorrect` and `UseKnown`: `Spec => []TypeOK`, `Spec => []UseInv`.
- `ExecutionsFresh`: `Spec => []ExecutionIsFresh`, for any number of overlapping requests.
  The jti is looked up again under the lock, but the table is lost in a restart; `UseInv`
  says why that does no harm: a used grant is bound to its session, and as long as that
  session is in the table or in the hands of a handler, the grant is in the table of used
  grants.
- `OneTimeWhenSerial`: if `MaxInFlight = 1` then `Spec => OneTimeUse`.  `SerialInv` adds
  that at most one thread is busy and that what it checked still holds when it commits;
  then every step is a step of `OneTimeAuthorization` or changes nothing of it.
  `authorization_replay` shows that the assumption is needed.

`ModelDeployments_proofs`

- `TypeCorrect`: `Spec => []TypeOK`.  That needs the part of `SecretInv` that says what a
  thread holds at each label (`Placed`).
- `CredentialsGivenUp`: `Spec => []NoCredentialWithoutAuthorization`, for any number of
  overlapping requests.  `offline` clears the credential first and sets OFFLINE when the
  child is gone; in between another activation could store a new one.  `SecretInv` says
  why it does not: both hold the lock throughout, so the object `offline` works on has no
  credential as long as it is at work.

`ServedModels_proofs`, both for `MaxInFlight = 1`

- `OneChildWhenSerial`: `Spec => []OneChild`.  The registration of a child would be lost
  if a second one were launched under its id.  `ChildrenOK` says why it is not: a child
  that runs has left `model/` on disk, over which nothing is unpacked, and between `stop`
  taking out a registration and the next launch no child of this id runs.
- `LoadsAuthorizedWhenSerial`: `Spec => LoadsAreAuthorized`, the refinement of
  `ServedModels`.  `UploadsOK` says that archives and streams only come from sessions
  that authorize nothing any more and were for this id; that an archive whose upload was
  loaded lies beside the `model/` it was unpacked to, so that `start` refuses it; that a
  stream whose upload was loaded is in the hands of the finalize that loaded it; and what
  a handler on its way to the launch will load was not loaded before.  Then a launch is a
  `Load`, the end of a child or of the agent is a `Drop`, and nothing else is seen.

`ServedUploads_proofs`, all for `MaxInFlight = 1`

- `CredentialsHaveSession`, `ShutdownIsClean`, `OfflineIsClean`: `CredentialHasSession`
  and `ShutdownStopsModels` are invariants, `Spec => OfflineCleans`.  `RecordInv` says
  that an object is registered under one id and a child runs only for a deployment in the
  table (`RecordsOK`), so that `close()`, which goes through the table, misses none; that
  the object a handler works on is the one in the table (`ObjectOK`); and that behind
  `stop` neither child nor directory is there until the handler makes them anew
  (`GoneOK`).
- `OnlineServesUpload`: `Spec => []ServesAuthorizedUpload`.  `CargoInv` follows an upload.
  The chunks a stream has counted lie in the archive, in order and of its own session
  (`StreamOK`); the directory of a new stream is empty, whatever a failed load or an
  agent that died left there (`RoomOK`); what a load reads, extracts and launches is
  the whole upload of the session that is due (`CargoOK`); and an ONLINE deployment whose
  child lives serves it from its endpoint (`ServesOK`) until it is replaced.
- `InferReachesLive`: `Spec => []InferReachesLiveModel`, for any number of deployments.
  The children of this and of earlier agents listen on different ports (`PortsOK`): a port
  is taken from those nobody listens on, and is free again only when its child has ended.
  `AskOK` adds that what is asked is ONLINE and bound to the session of the request; as
  long as its own child runs, nobody else can be at its endpoint.  Once that child has
  ended this is false (`deployments_reused_port`).

Model-checked only: the liveness properties `CancelResolves`, `RunningEnds`, `CloseEnds`,
`RequestsReturn` and `LockReleased`, which rest on fairness and `ENABLED` and are beyond
the prover; `StagedInputsKept` for a client that reuses no id, and `InferReachesOwnModel`
for a single deployment; and the counterexamples of section 4.

## 6. Not modelled

The encrypted output of `execute` and its receipt, which are computed from the request
and stored once; the cryptography, which is assumed to do what it says, and opening with
a zeroed key fails; archive contents and their validation beyond accepting or refusing;
the computation of the worker; what a model answers; the attestation service beyond that
signing may fail; wire models, the client and the scripts, which keep no state.
