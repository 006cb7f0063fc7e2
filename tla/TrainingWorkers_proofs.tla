----------------------- MODULE TrainingWorkers_proofs -----------------------
(* The worker processes stay under control, and the result that is offered  *)
(* is that of a worker that exited with 0, for every number of jobs,        *)
(* workers and threads, as long as the clients send one request at a time   *)
(* and prepare no job_id twice (MaxInFlight = 1, MaxPrepares = 1).  Workers, *)
(* monitors and close() still interleave with that request in every way.    *)
(*                                                                          *)
(* Under these premises an object is started once (StartsOK), which makes   *)
(* its worker and its monitor unique; the rest follows from that.  Two      *)
(* starts of one job that overlap give it two workers, and the run          *)
(* training_reused_id has a monitor at work on a job that took its id.      *)
EXTENDS TrainingResults_proofs

-----------------------------------------------------------------------------
(* One request at a time, and what each kind of thread does.                *)

Resting == {"idle", "dead", "next", "closed", "aborted"}

Cleaning == {"clear", "pop", "kill", "look", "wipe", "end"}

SerialOK ==
  /\ \A t, u \in Clients : frame[t].pc # "idle" /\ frame[u].pc # "idle" => t = u
  /\ frame[Closer].pc # "idle" => \A t \in Clients : frame[t].pc = "idle"

Kind(t) ==
  /\ frame[t].pc \in Resting => frame[t].job = None
  /\ t \in Workers => /\ frame[t].pc \in {"idle", "dead"} \cup Monitoring \cup Cleaning
                      /\ frame[t].final \in {"none", "FAILED"}
  /\ t \in Clients => /\ frame[t].pc \notin Monitoring \cup (Resting \ {"idle"})
                      /\ frame[t].final # "SHUTDOWN"
  /\ t = Closer => /\ frame[t].pc \in {"idle", "next", "closed", "aborted"} \cup Cleaning
                   /\ frame[t].pc \in Cleaning => frame[t].final = "SHUTDOWN"

KindsOK == \A t \in Threads : Kind(t)

\* The kinds of threads are disjoint.
LEMMA ThreadKinds ==
  /\ Threads = Clients \cup {Closer} \cup Workers
  /\ Clients \cap Workers = {} /\ Closer \notin Clients \cup Workers
  /\ Requests \subseteq Clients /\ EventLoop \in Clients
  BY ThreadsDistinct DEF Threads, Clients

\* A thread that is at work besides a request is a monitor.
LEMMA Beside ==
  ASSUME SerialOK, NEW u \in Clients, frame[u].pc # "idle",
         NEW t \in Threads, t # u, frame[t].pc # "idle"
  PROVE  t \in Workers
  BY ThreadKinds DEF SerialOK

\* A request is admitted, and close() begins, only when none is in flight.
LEMMA NoneInFlight ==
  ASSUME TypeOK, SerialOK, MaxInFlight = 1,
         InFlight = {} \/ Cardinality(InFlight) < MaxInFlight
  PROVE  \A u \in Clients : frame[u].pc = "idle"
<1>1. InFlight = {t \in Clients : frame[t].pc # "idle"}
  BY DEF InFlight, Clients
<1>2. ASSUME NEW u \in Clients, frame[u].pc # "idle" PROVE FALSE
  <2>1. InFlight = {u}
    BY <1>1, <1>2 DEF SerialOK
  <2>2. Cardinality({u}) = 1
    BY FS_Singleton
  <2> QED BY <2>1, <2>2
<1> QED BY <1>2

\* What a step of t leaves of the other threads.
LEMMA OthersStay ==
  ASSUME TypeOK, RolesOK, NEW t \in Threads, Elsewhere(t), NEW u \in Threads, u # t,
         u \notin Workers \/ ~At(t, "started")
  PROVE  frame'[u] = frame[u]
  BY DEF Elsewhere, RolesOK, At, Starting

\* Both are kept.
LEMMA SerialNext ==
  ASSUME TypeOK, KeyInv, UniqueOK, RolesOK, SerialOK, MaxInFlight = 1, [Next]_vars
  PROVE  SerialOK'
<1>1. ASSUME NEW t \in Threads, Step(t) PROVE SerialOK'
  <2>1. Elsewhere(t) /\ Moves(t)
    BY <1>1, StepMoves
  <2>2. frame[t].pc # "idle"
    BY <2>1 DEF Moves, At, ReturnsAt, FailsAt
  <2>3. \A u \in Clients \cup {Closer} : u # t => frame'[u] = frame[u]
    BY <2>1, OthersStay, ThreadKinds
  <2> QED BY <2>2, <2>3, ThreadKinds DEF SerialOK
<1>2. ASSUME NEW t \in Clients, \A u \in Threads \ {t} : frame'[u] = frame[u], Admits(t)
      PROVE  SerialOK'
  <2>1. \A u \in Clients \cup {Closer} : frame[u].pc = "idle"
    BY <1>2, NoneInFlight DEF Admits, At
  <2> QED BY <1>2, <2>1, ThreadKinds DEF SerialOK
<1>3. ASSUME NEW t \in Requests, NEW id \in JobIds, NEW o \in Objects, PrepareOpen(t, id, o)
      PROVE  SerialOK'
  BY <1>2, <1>3, PrepareMoves, ThreadKinds DEF PrepareOpen
<1>4. CASE CloseBegin
  <2>1. \A u \in Clients : frame[u].pc = "idle"
    BY <1>4, NoneInFlight DEF CloseBegin
  <2> QED BY <1>4, <2>1, CloseMoves, ThreadKinds DEF SerialOK
<1>5. CASE frame' = frame
  BY <1>5 DEF SerialOK
<1>6. ASSUME NEW t \in Clients, NEW id \in JobIds, Begins(t, id) PROVE SerialOK'
  BY <1>2, <1>6 DEF Begins
<1> QED
  BY <1>1, <1>3, <1>4, <1>5, <1>6, RequestBegins
  DEF Next, Worker, WorkerWrites, WorkerSucceeds, WorkerFails, Stopped, vars

LEMMA KindsNext ==
  ASSUME TypeOK, KeyInv, UniqueOK, RolesOK, KindsOK, [Next]_vars
  PROVE  KindsOK'
<1>1. ASSUME NEW t \in Threads, Step(t) PROVE KindsOK'
  <2>1. Elsewhere(t) /\ Moves(t)
    BY <1>1, StepMoves
  <2>2. Kind(t) /\ frame[t].final \in Finals
    BY ThreadType DEF KindsOK, Starting
  <2>3. Kind(t)'
    <3>1. CASE t \in Workers
      BY <2>1, <2>2, <3>1, ThreadKinds
      DEF Kind, Moves, Continues, LetsGo, Cleans, At, Resting, Cleaning, Monitoring, ReturnsAt, FailsAt, Starting
    <3>2. CASE t \in Clients
      BY <2>1, <2>2, <3>2, ThreadKinds
      DEF Kind, Moves, Continues, LetsGo, Cleans, At, Resting, Cleaning, Monitoring, ReturnsAt, FailsAt, Starting
    <3>3. CASE t = Closer
      BY <2>1, <2>2, <3>3, ThreadKinds
      DEF Kind, Moves, Continues, LetsGo, Cleans, At, Resting, Cleaning, Monitoring, ReturnsAt, FailsAt, Starting
    <3> QED BY <3>1, <3>2, <3>3, ThreadKinds
  <2>4. ASSUME NEW u \in Threads, u # t PROVE Kind(u)'
    <3>1. CASE frame'[u] = frame[u]
      BY <3>1 DEF KindsOK, Kind, Starting
    <3>2. CASE frame'[u] # frame[u]
      <4>1. u \in Workers /\ frame'[u].pc = "find" /\ frame'[u].final = "none"
        BY <2>1, <2>4, <3>2 DEF Elsewhere, RolesOK, At, Starting
      <4> QED BY <4>1, ThreadKinds DEF Kind, Resting, Cleaning, Monitoring, Starting
    <3> QED BY <3>1, <3>2
  <2> QED BY <2>3, <2>4 DEF KindsOK, Starting
<1>2. ASSUME NEW t \in Clients, NEW id \in JobIds, Begins(t, id) PROVE KindsOK'
  <2>1. Kind(t)'
    BY <1>2, ThreadKinds DEF Begins, Kind, Cleans, Resting, Cleaning, Monitoring, Starting
  <2> QED BY <1>2, <2>1 DEF Begins, KindsOK, Kind, Starting
<1>3. ASSUME NEW t \in Requests, NEW id \in JobIds, NEW o \in Objects, PrepareOpen(t, id, o)
      PROVE  KindsOK'
  <2>1. Kind(t)'
    BY <1>3, PrepareMoves, ThreadKinds DEF Kind, Resting, Cleaning, Monitoring, Starting
  <2>2. \A u \in Threads \ {t} : frame'[u] = frame[u]
    BY <1>3, PrepareMoves
  <2> QED BY <2>1, <2>2 DEF KindsOK, Kind, Starting
<1>4. CASE CloseBegin
  <2>1. /\ frame[Closer].pc = "idle" /\ Kind(Closer)
        /\ frame'[Closer].pc = "next" /\ frame'[Closer].job = frame[Closer].job
        /\ \A u \in Threads \ {Closer} : frame'[u] = frame[u]
    BY <1>4, CloseMoves, ThreadKinds DEF CloseBegin, At, Continues, KindsOK, Starting
  <2>2. Kind(Closer)'
    BY <2>1, ThreadKinds DEF Kind, Resting, Cleaning, Starting
  <2> QED BY <2>1, <2>2 DEF KindsOK, Kind, Starting
<1>5. CASE frame' = frame
  BY <1>5 DEF KindsOK, Kind, Starting
<1> QED
  BY <1>1, <1>2, <1>3, <1>4, <1>5, RequestBegins
  DEF Next, Worker, WorkerWrites, WorkerSucceeds, WorkerFails, Stopped, vars

-----------------------------------------------------------------------------
(* An object is started once.                                               *)

\* t is on its way from the start of its job o to the worker p.
Launched(p, o) ==
  \E t \in Threads :
    frame[t].pc \in {"register", "started"} /\ frame[t].worker = p /\ frame[t].job = o

\* Each worker has an object of its own, and it and its monitor keep to that
\* object; the object leaves VALIDATING_INPUTS as soon as its start is over.
StartsOK ==
  /\ \A p, q \in Workers : runs[p] # None /\ runs[p] = runs[q] => p = q
  /\ \A p \in Workers :
       /\ runs[p] # None => finalized[runs[p]] = Slots
       /\ frame[p].pc # "idle" => runs[p] # None
       /\ frame[p].job # None => frame[p].job = runs[p]
       /\ runs[p] # None /\ status[runs[p]] \in {"STAGING_INPUTS", "VALIDATING_INPUTS"}
            => Launched(p, runs[p])
  /\ \A t \in Threads :
       /\ frame[t].pc \in Starting =>
            /\ status[frame[t].job] = "VALIDATING_INPUTS"
            /\ frame[frame[t].worker].pc = "idle"
       /\ frame[t].pc \in {"register", "started"} => runs[frame[t].worker] = frame[t].job
       /\ frame[t].pc \in {"open", "extract", "finalize"} =>
            frame[t].slot \notin finalized[frame[t].job]

WorkerInv == ResultInv /\ SerialOK /\ KindsOK /\ StartsOK

\* While a start is under way no worker runs for its job, but the one it has launched.
LEMMA NotYetRun ==
  ASSUME WorkerInv, NEW t \in Threads, frame[t].pc \in {"gpu", "launch"}, NEW q \in Workers
  PROVE  runs[q] # frame[t].job
<1> SUFFICES ASSUME runs[q] = frame[t].job PROVE FALSE
  OBVIOUS
<1>1. frame[t].job \in Objects /\ frame[t].job # None /\ status[frame[t].job] = "VALIDATING_INPUTS"
  BY Handling, NoneDistinct DEF StartsOK, WorkerInv, ResultInv, Starting
<1>2. PICK u \in Threads : frame[u].pc \in {"register", "started"}
  BY <1>1 DEF StartsOK, WorkerInv, Launched, Starting
<1>3. t \in Clients /\ u \in Clients
  BY <1>2, ThreadKinds DEF WorkerInv, ResultInv, RolesOK, At, Starting
<1> QED BY <1>2, <1>3 DEF WorkerInv, SerialOK, At

\* While a start is under way no monitor has its job.
LEMMA NotYetMonitored ==
  ASSUME WorkerInv, NEW t \in Threads, frame[t].pc \in Starting,
         NEW q \in Workers
  PROVE  frame[q].job # frame[t].job
<1> SUFFICES ASSUME frame[q].job = frame[t].job PROVE FALSE
  OBVIOUS
<1>1. frame[t].job \in Objects /\ frame[t].job # None
  BY Handling, NoneDistinct DEF WorkerInv, ResultInv, Starting
<1>2. runs[q] = frame[t].job /\ frame[q].pc # "idle"
  BY <1>1, ThreadKinds DEF WorkerInv, StartsOK, KindsOK, Kind, Resting, Starting
<1>3. frame[t].pc \in {"register", "started"}
  BY <1>2, NotYetRun DEF Starting
<1>4. frame[t].worker \in Workers /\ runs[frame[t].worker] = frame[t].job
      /\ frame[frame[t].worker].pc = "idle"
  BY <1>3 DEF WorkerInv, ResultInv, RolesOK, StartsOK, At, Starting
<1>5. frame[t].worker = q
  BY <1>1, <1>2, <1>4 DEF WorkerInv, StartsOK, Starting
<1> QED BY <1>2, <1>4, <1>5

\* Nobody sets the status of a job that another thread is starting.
LEMMA StartUndisturbed ==
  ASSUME WorkerInv, NEW t \in Threads, frame[t].pc # "idle", NEW u \in Threads, u # t,
         frame[u].pc \in Starting
  PROVE  t \in Workers /\ frame[t].job # frame[u].job
<1>1. u \in Clients /\ frame[u].pc # "idle"
  BY ThreadKinds DEF WorkerInv, ResultInv, RolesOK, Starting
<1>2. t \in Workers
  BY <1>1, Beside DEF WorkerInv
<1> QED BY <1>2, NotYetMonitored

\* Every step of a thread keeps StartsOK.
LEMMA StartsStep ==
  ASSUME WorkerInv, NEW t \in Threads, Step(t) PROVE StartsOK'
<1>1. /\ Moves(t) /\ Elsewhere(t) /\ JobsMove(t) /\ ProcsMove(t)
      /\ TypeOK /\ KeyInv /\ UniqueOK /\ RolesOK
  BY StepMoves, StepJobs, StepProcs DEF WorkerInv, ResultInv
<1>2. frame[t].pc # "idle"
  BY <1>1 DEF Moves, At, ReturnsAt, FailsAt
<1>3. ASSUME NEW u \in Threads, u # t, frame[u].pc \in Starting
      PROVE  /\ t \in Workers /\ frame'[u] = frame[u] /\ frame[t].job # frame[u].job
             /\ frame[u].worker \in Workers /\ frame[u].job \in Objects /\ t # frame[u].worker
    <2>1. t \in Workers /\ frame[t].job # frame[u].job
      BY <1>2, <1>3, StartUndisturbed
    <2>2. u \in Clients /\ frame[u].worker \in Workers /\ frame[frame[u].worker].pc = "idle"
      BY <1>3, ThreadKinds DEF WorkerInv, ResultInv, RolesOK, StartsOK, Starting
    <2>3. frame'[u] = frame[u]
      BY <1>1, <1>3, <2>2, OthersStay, ThreadKinds
    <2> QED BY <1>1, <1>2, <1>3, <2>1, <2>2, <2>3, Handling DEF Starting
<1>4. ASSUME Launches(t)
      PROVE  /\ frame[t].worker \in Workers /\ frame[t].job \in Objects /\ frame[t].job # None
             /\ process[frame[t].worker] = "none" /\ frame[frame[t].worker].pc = "idle"
             /\ runs' = [runs EXCEPT ![frame[t].worker] = frame[t].job]
             /\ process' = [process EXCEPT ![frame[t].worker] = "running"]
             /\ frame'[t].worker = frame[t].worker /\ frame'[t].job = frame[t].job
             /\ t \in Requests /\ \A q \in Workers : runs[q] # frame[t].job
    <2>1. /\ frame[t].worker \in Workers /\ t \in Requests
          /\ process[frame[t].worker] = "none" /\ frame[frame[t].worker].pc = "idle"
      BY <1>1, <1>4 DEF RolesOK, At, WorkerInv, StartsOK, Starting, FreshOK, Launches, ResultInv
    <2>2. frame[t].job \in Objects /\ frame[t].job # None
      BY <1>1, <1>4, Handling, NoneDistinct DEF At, Launches
    <2>3. frame'[t].worker = frame[t].worker /\ frame'[t].job = frame[t].job
      BY <1>1, <1>4 DEF Moves, Continues, Keeps, LetsGo, Cleans, At, Launches, ReturnsAt, FailsAt
    <2>4. \A q \in Workers : runs[q] # frame[t].job
      BY <1>4, NotYetRun DEF At, Launches
    <2> QED BY <1>1, <1>4, <2>1, <2>2, <2>3, <2>4 DEF ProcsMove
<1>5. ASSUME ~(Launches(t))
      PROVE  /\ runs' = runs
             /\ \A p \in Workers : process'[p] = "none" <=> process[p] = "none"
  BY <1>1, <1>5 DEF ProcsMove, TypeOK
<1>6. ASSUME NEW p \in Workers, NEW q \in Workers, runs'[p] # None, runs'[p] = runs'[q]
      PROVE  p = q
  <2>1. CASE Launches(t)
    <3>1. \A w \in Workers : runs'[w] = IF w = frame[t].worker THEN frame[t].job ELSE runs[w]
      BY <1>1, <1>4, <2>1 DEF TypeOK
    <3>2. \A w \in Workers : runs[w] # frame[t].job
      BY <1>4, <2>1
    <3> QED BY <1>6, <3>1, <3>2 DEF WorkerInv, StartsOK, Starting
  <2>2. CASE ~(Launches(t))
    BY <1>5, <1>6, <2>2 DEF WorkerInv, StartsOK, Starting
  <2> QED BY <2>1, <2>2
<1>7. ASSUME NEW p \in Workers
      PROVE  runs'[p] # None => finalized'[runs'[p]] = Slots
  <2>1. \A o \in Objects : finalized[o] = Slots => finalized'[o] = Slots
    <3>1. \A o \in Objects : finalized[o] \subseteq finalized'[o]
      BY <1>1 DEF JobsMove
    <3>2. \A o \in Objects : finalized'[o] \subseteq Slots
      BY <1>1, TypeStep DEF Next, TypeOK
    <3> QED BY <3>1, <3>2
  <2>2. runs[p] \in Objects \cup {None}
    BY <1>1 DEF TypeOK
  <2>3. CASE Launches(t)
    <3>1. finalized[frame[t].job] = Slots
      BY <2>3 DEF WorkerInv, ResultInv, CompleteOK, At, Launches, Starting
    <3> QED BY <1>1, <1>4, <2>1, <2>2, <2>3, <3>1 DEF WorkerInv, StartsOK, TypeOK, Starting
  <2>4. CASE ~(Launches(t))
    BY <1>5, <2>1, <2>2, <2>4 DEF WorkerInv, StartsOK, Starting
  <2> QED BY <2>3, <2>4
<1>8. ASSUME NEW p \in Workers, frame'[p].pc # "idle"
      PROVE  runs'[p] # None /\ (frame'[p].job # None => frame'[p].job = runs'[p])
  <2>1. CASE p # t /\ frame'[p] # frame[p]
    <3>1. At(t, "started") /\ p = frame[t].worker /\ frame'[p].job = frame[t].job
      BY <1>1, <2>1, ThreadKinds DEF Elsewhere
    <3>2. runs'[p] = frame[t].job /\ frame[t].job # None
      BY <1>1, <1>5, <3>1, Handling, NoneDistinct DEF WorkerInv, StartsOK, At, Starting, Launches
    <3> QED BY <3>1, <3>2
  <2>2. CASE frame[p].pc # "idle" /\ frame'[p].job \in {None, frame[p].job}
    <3>1. runs[p] # None /\ (frame[p].job # None => frame[p].job = runs[p])
      BY <2>2 DEF WorkerInv, StartsOK, Starting
    <3>2. runs'[p] = runs[p]
      BY <1>1, <1>4, <1>5, <2>2 DEF TypeOK
    <3> QED BY <2>2, <3>1, <3>2
  <2>3. CASE p = t
    <3>1. frame'[p].job \in {None, frame[p].job}
      <4>1. frame[p].pc # "next"
        BY <2>3 DEF WorkerInv, KindsOK, Kind, Monitoring, Cleaning, Starting
      <4> QED BY <1>1, <2>3, <4>1 DEF Moves, Continues, LetsGo, Cleans, At
    <3> QED BY <1>2, <2>2, <2>3, <3>1
  <2> QED BY <1>8, <2>1, <2>2, <2>3
<1>9. ASSUME NEW p \in Workers, frame'[p].pc = "idle" PROVE frame'[p].job = None
  <2>1. KindsOK'
    BY <1>1, KindsNext DEF WorkerInv, Next
  <2> QED BY <1>9, <2>1, ThreadKinds DEF KindsOK, Kind, Resting, Starting
<1>10. ASSUME NEW p \in Workers, runs'[p] # None,
              status'[runs'[p]] \in {"STAGING_INPUTS", "VALIDATING_INPUTS"}
       PROVE  \E u \in Threads :
                /\ frame'[u].pc \in {"register", "started"}
                /\ frame'[u].worker = p /\ frame'[u].job = runs'[p]
  <2>1. CASE Launches(t) /\ p = frame[t].worker
    BY <1>1, <1>4, <2>1 DEF TypeOK, Launches
  <2>2. CASE ~(Launches(t) /\ p = frame[t].worker)
    <3>1. runs'[p] = runs[p] /\ runs[p] \in Objects /\ Published(runs[p]) /\ finalized[runs[p]] = Slots
      BY <1>1, <1>4, <1>5, <1>10, <2>2 DEF TypeOK, WorkerInv, ResultInv, ResultsOK, StartsOK, Starting
    <3>2. CASE status[runs[p]] \in {"STAGING_INPUTS", "VALIDATING_INPUTS"}
      <4>1. PICK u \in Threads : /\ frame[u].pc \in {"register", "started"}
                                 /\ frame[u].worker = p /\ frame[u].job = runs[p]
        BY <1>10, <3>1, <3>2 DEF WorkerInv, StartsOK, Launched, Starting
      <4>2. ~At(t, "started") \/ u # t
        <5>1. At(t, "started") /\ u = t => status'[runs[p]] = "RUNNING"
          BY <1>1, <3>1, <4>1 DEF JobsMove, NewStatus, At
        <5> QED BY <1>10, <3>1, <5>1
      <4>3. CASE u = t
        <5>1. frame'[t].pc = "started" /\ frame'[t].worker = p /\ frame'[t].job = runs[p]
          BY <1>1, <4>1, <4>2, <4>3
          DEF Moves, Continues, Keeps, LetsGo, Cleans, ReturnsAt, FailsAt, At
        <5> QED BY <3>1, <5>1
      <4>4. CASE u # t
        BY <1>3, <3>1, <4>1, <4>4 DEF Starting
      <4> QED BY <4>3, <4>4
    <3>3. CASE status[runs[p]] \notin {"STAGING_INPUTS", "VALIDATING_INPUTS"}
      <4>1. runs[p] = frame[t].job /\ status'[runs[p]] = NewStatus(t)
        BY <1>1, <1>10, <3>1, <3>3 DEF JobsMove
      <4>2. frame[t].final \in Finals /\ (At(t, "commit") => ~Published(frame[t].job))
        BY <1>1, <3>1, <4>1, ThreadType, NoneDistinct DEF KeyInv, FrameOK, At, Published
      <4>3. At(t, "finalize")
        BY <1>10, <3>1, <3>3, <4>1, <4>2 DEF NewStatus, At, Finals, Over
      <4>4. frame[t].slot \in Slots /\ frame[t].slot \notin finalized[runs[p]]
        BY <1>1, <4>1, <4>3, HoldingSlot DEF WorkerInv, StartsOK, At, Starting
      <4> QED BY <3>1, <4>4
    <3> QED BY <3>2, <3>3
  <2> QED BY <2>1, <2>2
<1>11. ASSUME NEW u \in Threads, frame'[u].pc \in Starting
       PROVE  /\ status'[frame'[u].job] = "VALIDATING_INPUTS"
              /\ frame'[frame'[u].worker].pc = "idle"
              /\ frame'[u].pc \in {"register", "started"} => runs'[frame'[u].worker] = frame'[u].job
  <2>1. CASE u # t
    <3>1. frame'[u] = frame[u]
      BY <1>1, <1>11, <2>1 DEF Elsewhere, Starting
    <3>2. /\ t \in Workers /\ frame[t].job # frame[u].job /\ t # frame[u].worker
          /\ frame[u].worker \in Workers /\ frame[u].job \in Objects
      BY <1>3, <1>11, <2>1, <3>1
    <3>3. ~At(t, "started") /\ ~Launches(t)
      BY <1>1, <3>2, ThreadKinds DEF RolesOK, At, Starting, Launches
    <3>4. frame'[frame[u].worker] = frame[frame[u].worker]
      BY <1>1, <3>2, <3>3, ThreadKinds DEF Elsewhere
    <3>5. status'[frame[u].job] = status[frame[u].job]
      BY <1>1, <3>2 DEF JobsMove
    <3> QED BY <1>5, <1>11, <3>1, <3>2, <3>3, <3>4, <3>5 DEF WorkerInv, StartsOK, Starting
  <2>2. CASE u = t
    <3>1. /\ frame[t].pc \in {"gpu", "launch", "register"}
          /\ frame'[t].job = frame[t].job /\ frame'[t].worker = frame[t].worker
          /\ frame'[t].pc = "register" => Launches(t)
          /\ frame'[t].pc = "started" => At(t, "register")
          /\ frame'[t].pc # "gpu"
      BY <1>1, <1>11, <2>2
      DEF Moves, Continues, Keeps, LetsGo, Cleans, ReturnsAt, FailsAt, At, Launches, Starting
    <3>2. frame[t].job \in Objects /\ frame[t].worker \in Workers /\ t \notin Workers
      BY <1>1, <3>1, Handling, ThreadKinds DEF RolesOK, Starting
    <3>3. status'[frame[t].job] = status[frame[t].job]
      BY <1>1, <3>1, <3>2 DEF JobsMove, NewStatus, At
    <3>4. frame'[frame[t].worker] = frame[frame[t].worker]
      BY <1>1, <3>1, <3>2, ThreadKinds DEF Elsewhere, At
    <3>5. Launches(t) => runs'[frame[t].worker] = frame[t].job
      BY <1>1, <1>4, <3>1, <3>2 DEF TypeOK
    <3>6. At(t, "register") => runs'[frame[t].worker] = frame[t].job
      BY <1>5 DEF WorkerInv, StartsOK, At, Launches
    <3> QED BY <2>2, <3>1, <3>2, <3>3, <3>4, <3>5, <3>6 DEF WorkerInv, StartsOK, Starting
  <2> QED BY <2>1, <2>2
<1>12. ASSUME NEW u \in Threads, frame'[u].pc \in {"open", "extract", "finalize"}
       PROVE  frame'[u].slot \notin finalized'[frame'[u].job]
  <2>1. CASE u # t
    <3>1. frame'[u] = frame[u]
      BY <1>1, <1>12, <2>1 DEF Elsewhere
    <3>2. u \in Clients
      BY <1>12, <3>1, ThreadKinds DEF WorkerInv, KindsOK, Kind, Monitoring, Cleaning, Starting
    <3>3. ~At(t, "finalize")
      BY <1>2, <1>12, <2>1, <3>1, <3>2, Beside, ThreadKinds
      DEF WorkerInv, KindsOK, Kind, Monitoring, Cleaning, At, Starting
    <3>4. frame[u].job \in Objects
      BY <1>1, <1>12, <3>1, Handling
    <3> QED BY <1>1, <1>12, <3>1, <3>3, <3>4 DEF JobsMove, WorkerInv, StartsOK, Starting
  <2>2. CASE u = t
    <3>1. /\ frame[t].pc \in {"open", "extract"}
          /\ frame'[t].job = frame[t].job /\ frame'[t].slot = frame[t].slot
      BY <1>1, <1>12, <2>2 DEF Moves, Continues, LetsGo, Cleans, At
    <3>2. frame[t].job \in Objects
      BY <1>1, <3>1, Handling
    <3> QED BY <1>1, <2>2, <3>1, <3>2 DEF JobsMove, WorkerInv, StartsOK, At, Starting
  <2> QED BY <2>1, <2>2
<1> QED BY <1>6, <1>7, <1>8, <1>9, <1>10, <1>11, <1>12 DEF StartsOK, Launched, At, Starting

\* A request leaves the workers and their monitors alone, and what it takes on
\* is no job that is being started.
LEMMA StartsBegin ==
  ASSUME WorkerInv, NEW t \in Clients, Admits(t), MaxInFlight = 1,
         \A u \in Threads \ {t} : frame'[u] = frame[u],
         UNCHANGED <<runs, process, finalized>>,
         \A o \in Objects : Published(o) => status'[o] = status[o],
         frame'[t].pc \in Starting =>
           /\ frame'[t].pc = "gpu" /\ status'[frame'[t].job] = "VALIDATING_INPUTS"
           /\ frame'[t].worker \in Workers /\ process[frame'[t].worker] = "none",
         frame'[t].pc \in {"open", "extract", "finalize"} =>
           frame'[t].slot \notin finalized[frame'[t].job]
  PROVE  StartsOK'
<1>1. \A u \in Clients \cup {Closer} : frame[u].pc = "idle"
  BY NoneInFlight DEF Admits, At, WorkerInv, ResultInv
<1>2. \A p \in Workers : frame'[p] = frame[p]
  BY ThreadKinds
<1>3. \A u \in Threads : frame[u].pc \notin Starting \cup {"open", "extract", "finalize"}
  <2>1. \A u \in Workers : frame[u].pc \notin Starting \cup {"open", "extract", "finalize"}
    BY ThreadKinds DEF WorkerInv, KindsOK, Kind, Monitoring, Cleaning, Starting
  <2> QED BY <1>1, <2>1, ThreadKinds DEF Starting
<1>4. \A u \in Threads : frame'[u].pc \in Starting \cup {"open", "extract", "finalize"} => u = t
  BY <1>3
<1>5. ASSUME NEW p \in Workers, runs[p] # None
      PROVE  status'[runs[p]] \notin {"STAGING_INPUTS", "VALIDATING_INPUTS"}
  <2>1. runs[p] \in Objects /\ Published(runs[p])
    BY <1>5 DEF WorkerInv, ResultInv, ResultsOK, TypeOK
  <2>2. ~Launched(p, runs[p])
    BY <1>3 DEF Launched, At, Starting
  <2> QED BY <1>5, <2>1, <2>2 DEF WorkerInv, StartsOK, Starting
<1>6. frame'[t].pc = "gpu" => frame'[frame'[t].worker].pc = "idle"
  BY <1>2 DEF WorkerInv, StartsOK, Starting, At, FreshOK, ResultInv
<1> QED BY <1>2, <1>4, <1>5, <1>6 DEF WorkerInv, StartsOK, Starting

LEMMA StartsNext ==
  ASSUME WorkerInv, MaxInFlight = 1, [Next]_vars PROVE StartsOK'
<1>1. ASSUME NEW t \in Threads, Step(t) PROVE StartsOK'
  BY <1>1, StartsStep
<1>2. ASSUME NEW t \in Clients, NEW id \in JobIds, Begins(t, id) PROVE StartsOK'
  <2>1. /\ UNCHANGED <<runs, process, finalized, status>> /\ Admits(t)
        /\ \A u \in Threads \ {t} : frame'[u] = frame[u]
    BY <1>2 DEF Begins, jobVars, procVars
  <2>2. frame'[t].pc \in Starting =>
           /\ frame'[t].pc = "gpu" /\ status'[frame'[t].job] = "VALIDATING_INPUTS"
           /\ frame'[t].worker \in Workers /\ process[frame'[t].worker] = "none"
    BY <1>2, <2>1 DEF Begins, Cleans, Starting
  <2>3. frame'[t].pc \in {"open", "extract", "finalize"} =>
           frame'[t].slot \notin finalized[frame'[t].job]
    BY <1>2 DEF Begins, Cleans
  <2> QED BY <2>1, <2>2, <2>3, StartsBegin
<1>3. ASSUME NEW t \in Requests, NEW id \in JobIds, NEW o \in Objects, PrepareOpen(t, id, o)
      PROVE  StartsOK'
  <2>1. /\ status[o] = "unused" /\ UNCHANGED <<runs, process, finalized>> /\ Admits(t)
        /\ t \in Clients
    BY <1>3, ThreadKinds DEF PrepareOpen, procVars
  <2>2. /\ frame'[t].pc \in {"pop", "discard"}
        /\ \A u \in Threads \ {t} : frame'[u] = frame[u]
        /\ \A q \in Objects \ {o} : status'[q] = status[q]
    BY <1>3, PrepareMoves DEF WorkerInv, ResultInv
  <2>3. \A q \in Objects : Published(q) => status'[q] = status[q]
    BY <2>1, <2>2 DEF Published
  <2> QED BY <2>1, <2>2, <2>3, StartsBegin DEF Starting
<1>4. CASE CloseBegin
  <2>1. /\ \A u \in Threads \ {Closer} : frame'[u] = frame[u]
        /\ frame'[Closer].pc = "next" /\ UNCHANGED <<jobVars, procVars>>
        /\ frame[Closer].pc = "idle"
    BY <1>4, CloseMoves DEF WorkerInv, ResultInv, Continues, CloseBegin, At
  <2>2. \A p \in Workers : frame'[p] = frame[p]
    BY <2>1, ThreadKinds
  <2>3. \A u \in Threads : frame'[u].pc \in Starting \cup {"open", "extract", "finalize"}
          => frame'[u] = frame[u]
    BY <2>1 DEF Starting
  <2>4. \A p \in Workers : Launched(p, runs[p]) => Launched(p, runs[p])'
    BY <2>1 DEF Launched, At, procVars
  <2>5. ASSUME NEW u \in Threads, frame[u].pc \in Starting
        PROVE  frame[u].worker \in Workers
    BY <2>5 DEF WorkerInv, ResultInv, RolesOK, Starting
  <2> QED BY <2>1, <2>2, <2>3, <2>4, <2>5 DEF WorkerInv, StartsOK, jobVars, procVars, Starting
<1>5. CASE UNCHANGED vars
  BY <1>5 DEF WorkerInv, StartsOK, Launched, At, vars, jobVars, procVars, Starting
<1>6. CASE Worker
  <2>1. /\ UNCHANGED <<runs, frame, status, finalized>>
        /\ \A p \in Workers : process'[p] = "none" <=> process[p] = "none"
    BY <1>6 DEF Worker, WorkerWrites, WorkerSucceeds, WorkerFails, procVars, jobVars, WorkerInv, ResultInv, TypeOK
  <2>2. \A u \in Threads : frame[u].pc \in {"gpu", "launch"} => frame[u].worker \in Workers
    BY DEF WorkerInv, ResultInv, RolesOK, Starting
  <2> QED BY <2>1, <2>2 DEF WorkerInv, StartsOK, Launched, At, Starting
<1> QED
  BY <1>1, <1>2, <1>3, <1>4, <1>5, <1>6, RequestBegins DEF Next, Stopped, WorkerInv, ResultInv

-----------------------------------------------------------------------------
(* Which worker is registered.                                              *)

\* The worker registered under a job_id was launched for an object of that id.
RegisteredOK ==
  \A id \in JobIds : registered[id] # None =>
    /\ registered[id] \in Workers
    /\ runs[registered[id]] # None /\ owner[runs[registered[id]]] = id

\* Every step of a thread keeps this, and every running worker registered or
\* about to be killed.
LEMMA ControlStep ==
  ASSUME WorkerInv, RegisteredOK, WorkerUnderControl, NEW t \in Threads, Step(t)
  PROVE  RegisteredOK' /\ WorkerUnderControl'
<1>1. /\ Moves(t) /\ Elsewhere(t) /\ JobsMove(t) /\ ProcsMove(t)
      /\ TypeOK /\ KeyInv /\ UniqueOK /\ RolesOK /\ ResultsOK /\ owner' = owner
  BY StepMoves, StepJobs, StepProcs DEF WorkerInv, ResultInv, JobsMove
<1>2. ASSUME NEW o \in Objects, Published(o)
      PROVE  /\ o # None /\ owner[o] \in JobIds /\ current[owner[o]] = o /\ current'[owner[o]] = o
  <2>1. o # None /\ owner[o] \in JobIds /\ Known(owner[o]) /\ current[owner[o]] = o
    BY <1>1, <1>2, Own, NoneDistinct
  <2>2. CASE At(t, "commit")
    <3>1. frame[t].job \in Objects /\ status[frame[t].job] = "opening" /\ Id(t) \in JobIds
      BY <1>1, <2>2, Holding DEF KeyInv, FrameOK, At
    <3>2. owner[o] # Id(t)
      BY <1>1, <1>2, <3>1 DEF UniqueOK, Id, Published
    <3> QED BY <1>1, <2>1, <2>2, <3>1, <3>2 DEF JobsMove, TypeOK
  <2>3. CASE ~At(t, "commit")
    BY <1>1, <2>1, <2>3 DEF JobsMove
  <2> QED BY <2>1, <2>2, <2>3
<1>3. ASSUME NEW u \in Threads, u # t, frame[u].pc \in {"register", "kill"}
      PROVE  frame'[u] = frame[u]
  <2>1. At(t, "started") => frame[frame[t].worker].pc = "idle"
    BY DEF WorkerInv, StartsOK, At, Starting
  <2> QED BY <1>1, <1>3, <2>1 DEF Elsewhere
<1>4. /\ runs' = runs \/ Launches(t)
      /\ \A p \in Workers : runs[p] # None => runs'[p] = runs[p]
  <2>1. Launches(t) => frame[t].worker \in Workers /\ runs[frame[t].worker] = None
    BY <1>1 DEF Launches, At, RolesOK, Starting, WorkerInv, ResultInv, FreshOK
  <2> QED BY <1>1, <2>1 DEF ProcsMove, TypeOK
<1>5. At(t, "register") =>
        /\ frame[t].worker \in Workers /\ runs[frame[t].worker] = frame[t].job
        /\ frame[t].job \in Objects /\ Published(frame[t].job)
        /\ Id(t) \in JobIds /\ owner[frame[t].job] = Id(t) /\ frame'[t].pc = "started"
  <2>1. At(t, "register") => frame'[t].pc = "started"
    BY <1>1 DEF Moves, Continues, LetsGo, Cleans, ReturnsAt, FailsAt, At
  <2>2. At(t, "register") => frame[t].worker \in Workers /\ runs[frame[t].worker] = frame[t].job
    BY <1>1 DEF WorkerInv, StartsOK, RolesOK, At, Starting
  <2> QED BY <1>1, <2>1, <2>2, Handling, Holding DEF At, Id
<1>6. RegisteredOK'
  <2>1. ASSUME NEW i \in JobIds, registered'[i] # None
        PROVE  /\ registered'[i] \in Workers
               /\ runs'[registered'[i]] # None /\ owner'[runs'[registered'[i]]] = i
    <3>1. CASE At(t, "register") /\ i = Id(t)
      <4>1. registered'[i] = frame[t].worker
        BY <1>1, <3>1 DEF ProcsMove, TypeOK, At
      <4>2. frame[t].job # None
        BY <1>5, <3>1, NoneDistinct
      <4> QED BY <1>1, <1>4, <1>5, <3>1, <4>1, <4>2
    <3>2. CASE ~(At(t, "register") /\ i = Id(t))
      <4>1. registered'[i] = registered[i]
        BY <1>1, <2>1, <3>2 DEF ProcsMove, TypeOK
      <4>2. /\ registered[i] \in Workers /\ runs[registered[i]] # None
            /\ owner[runs[registered[i]]] = i
        BY <2>1, <4>1 DEF RegisteredOK
      <4> QED BY <1>1, <1>4, <4>1, <4>2
    <3> QED BY <3>1, <3>2
  <2> QED BY <2>1 DEF RegisteredOK
<1>7. ASSUME NEW p \in Workers, process'[p] = "running"
      PROVE  \/ registered'[owner'[runs'[p]]] = p /\ current'[owner'[runs'[p]]] = runs'[p]
             \/ \E u \in Threads : frame'[u].worker = p /\ frame'[u].pc \in {"register", "kill"}
  <2>1. CASE Launches(t) /\ p = frame[t].worker
    <3>1. frame'[t].worker = p /\ frame'[t].pc = "register"
      BY <1>1, <2>1 DEF Launches, Moves, Continues, Keeps, LetsGo, Cleans, ReturnsAt, FailsAt, At
    <3> QED BY <3>1
  <2>2. CASE ~(Launches(t) /\ p = frame[t].worker)
    <3>1. process[p] = "running" /\ ~(At(t, "kill") /\ frame[t].worker = p)
      <4>1. frame[t].worker = p => p # None
        BY NoneDistinct
      <4>2. CASE Launches(t)
        <5>1. process'[p] = process[p]
          BY <1>1, <2>2, <4>2 DEF ProcsMove, TypeOK
        <5> QED BY <1>7, <4>2, <5>1 DEF Launches, At
      <4>3. CASE ~Launches(t)
        BY <1>1, <1>7, <4>1, <4>3 DEF ProcsMove, TypeOK
      <4> QED BY <4>2, <4>3
    <3>2. runs[p] \in Objects /\ Published(runs[p]) /\ runs'[p] = runs[p]
      BY <1>1, <1>4, <3>1 DEF ResultsOK, TypeOK
    <3>3. CASE registered[owner[runs[p]]] = p
      <4>1. CASE At(t, "pop") /\ Id(t) = owner[runs[p]]
        <5>1. frame'[t].pc = "kill" /\ frame'[t].worker = p
          BY <1>1, <3>3, <4>1 DEF Moves, Continues, LetsGo, Cleans, ReturnsAt, FailsAt, At
        <5> QED BY <5>1
      <4>2. CASE At(t, "register") /\ Id(t) = owner[runs[p]]
        <5>1. runs[frame[t].worker] = runs[p] /\ runs[p] # None
          BY <1>1, <1>2, <1>5, <3>2, <4>2 DEF UniqueOK, Published
        <5>2. frame[t].worker = p
          BY <1>5, <4>2, <5>1 DEF WorkerInv, StartsOK
        <5>3. registered'[owner[runs[p]]] = p
          BY <1>1, <1>5, <4>2, <5>2 DEF ProcsMove, TypeOK, At
        <5> QED BY <1>1, <1>2, <3>2, <5>3
      <4>3. CASE ~(frame[t].pc \in {"pop", "register"} /\ Id(t) = owner[runs[p]])
        <5>1. registered'[owner[runs[p]]] = p
          BY <1>1, <1>2, <3>2, <3>3, <4>3 DEF ProcsMove, TypeOK, At
        <5> QED BY <1>1, <1>2, <3>2, <5>1
      <4> QED BY <4>1, <4>2, <4>3 DEF At
    <3>4. CASE At(t, "register") /\ frame[t].worker = p
      <4>1. registered'[owner[runs[p]]] = p
        BY <1>1, <1>5, <3>4 DEF ProcsMove, TypeOK, At
      <4> QED BY <1>1, <1>2, <3>2, <4>1
    <3>5. ASSUME NEW u \in Threads, frame[u].worker = p, frame[u].pc \in {"register", "kill"},
                 ~(At(t, "register") /\ frame[t].worker = p)
          PROVE  frame'[u].worker = p /\ frame'[u].pc \in {"register", "kill"}
      BY <1>3, <3>1, <3>5 DEF At
    <3> QED BY <3>1, <3>3, <3>4, <3>5 DEF WorkerUnderControl
  <2> QED BY <2>1, <2>2
<1> QED BY <1>6, <1>7 DEF WorkerUnderControl

LEMMA ControlNext ==
  ASSUME WorkerInv, RegisteredOK, WorkerUnderControl, MaxInFlight = 1, [Next]_vars
  PROVE  RegisteredOK' /\ WorkerUnderControl'
<1>1. ASSUME NEW t \in Threads, Step(t) PROVE RegisteredOK' /\ WorkerUnderControl'
  BY <1>1, ControlStep
<1>2. ASSUME UNCHANGED <<runs, registered, current>>,
             \A p \in Workers : process'[p] = "running" => process[p] = "running",
             \A o \in Objects : Published(o) => owner'[o] = owner[o],
             \A u \in Threads : frame[u].pc \in {"register", "kill"} => frame'[u] = frame[u]
      PROVE  RegisteredOK' /\ WorkerUnderControl'
  <2>1. \A p \in Workers : runs[p] # None => owner'[runs[p]] = owner[runs[p]]
    BY <1>2 DEF WorkerInv, ResultInv, ResultsOK, TypeOK
  <2>2. \A p \in Workers : process[p] = "running" => runs[p] # None
    BY DEF WorkerInv, ResultInv, ResultsOK
  <2> QED BY <1>2, <2>1, <2>2 DEF RegisteredOK, WorkerUnderControl
<1>3. ASSUME NEW t \in Clients, NEW id \in JobIds, Begins(t, id)
      PROVE  RegisteredOK' /\ WorkerUnderControl'
  BY <1>2, <1>3 DEF Begins, jobVars, procVars, Admits, At
<1>4. ASSUME NEW t \in Requests, NEW id \in JobIds, NEW o \in Objects, PrepareOpen(t, id, o)
      PROVE  RegisteredOK' /\ WorkerUnderControl'
  <2>1. /\ ~Published(o) /\ UNCHANGED <<runs, registered, current, process>> /\ At(t, "idle")
    BY <1>4 DEF PrepareOpen, procVars, Published, Admits
  <2>2. /\ \A u \in Threads \ {t} : frame'[u] = frame[u]
        /\ \A q \in Objects \ {o} : owner'[q] = owner[q]
    BY <1>4, PrepareMoves DEF WorkerInv, ResultInv
  <2> QED BY <1>2, <2>1, <2>2 DEF At
<1>5. CASE CloseBegin
  <2>1. /\ \A u \in Threads \ {Closer} : frame'[u] = frame[u]
        /\ At(Closer, "idle") /\ UNCHANGED <<jobVars, procVars>>
    BY <1>5, CloseMoves DEF WorkerInv, ResultInv, CloseBegin
  <2> QED BY <1>2, <2>1 DEF At, jobVars, procVars
<1>6. CASE Worker
  <2>1. /\ UNCHANGED <<runs, registered, current, owner, frame>>
        /\ \A p \in Workers : process'[p] = "running" => process[p] = "running"
    BY <1>6 DEF Worker, WorkerWrites, WorkerSucceeds, WorkerFails, procVars, jobVars, WorkerInv, ResultInv, TypeOK
  <2> QED BY <1>2, <2>1
<1>7. CASE UNCHANGED vars
  BY <1>2, <1>7 DEF vars, jobVars, procVars
<1> QED
  BY <1>1, <1>3, <1>4, <1>5, <1>6, <1>7, RequestBegins DEF Next, Stopped, WorkerInv, ResultInv

-----------------------------------------------------------------------------
(* What the exit of a worker leads to.                                      *)

\* A monitor waits for the worker that was launched with it, and goes on to
\* serve what is there only when that worker has exited with 0.
ExitsOK ==
  \A p \in Workers :
    /\ At(p, "wait") => frame[p].worker = p
    /\ frame[p].pc \in {"encrypting", "read", "seal", "tidy", "ready"} => process[p] = "ok"
    /\ runs[p] # None /\ status[runs[p]] = "OUTPUT_READY" => process[p] = "ok"

\* Each object has one worker, and that is registered under its job_id.
LEMMA Attached ==
  ASSUME WorkerInv, RegisteredOK, NEW p \in Workers, frame[p].pc \in Monitoring,
         registered[Id(p)] # None
  PROVE  registered[Id(p)] = p
<1>1. /\ TypeOK /\ KeyInv /\ UniqueOK /\ ResultsOK /\ p \in Threads
  BY ThreadKinds DEF WorkerInv, ResultInv
<1>2. frame[p].job \in Objects /\ Id(p) \in JobIds /\ frame[p].job # None
  BY <1>1, Handling, Holding, NoneDistinct DEF Monitoring
<1>3. runs[p] = frame[p].job
  BY <1>2 DEF WorkerInv, StartsOK
<1>4. /\ registered[Id(p)] \in Workers /\ runs[registered[Id(p)]] # None
      /\ owner[runs[registered[Id(p)]]] = Id(p)
  BY <1>2 DEF RegisteredOK
<1>5. /\ runs[registered[Id(p)]] \in Objects /\ Published(runs[registered[Id(p)]])
      /\ Published(runs[p])
  BY <1>1, <1>2, <1>3, <1>4 DEF ResultsOK, TypeOK
<1>6. runs[registered[Id(p)]] = runs[p]
  BY <1>1, <1>2, <1>3, <1>4, <1>5 DEF UniqueOK, Published, Id
<1> QED BY <1>2, <1>3, <1>4, <1>6 DEF WorkerInv, StartsOK

LEMMA ExitsNext ==
  ASSUME WorkerInv, RegisteredOK, ExitsOK, [Next]_vars PROVE ExitsOK'
<1>0. TypeOK /\ KeyInv /\ UniqueOK /\ RolesOK /\ FreshOK /\ ResultsOK
  BY DEF WorkerInv, ResultInv
<1>1. ASSUME NEW t \in Threads, Step(t) PROVE ExitsOK'
  <2>1. Moves(t) /\ Elsewhere(t) /\ JobsMove(t) /\ ProcsMove(t)
    BY <1>0, <1>1, StepMoves, StepJobs, StepProcs
  <2>2. ASSUME NEW p \in Workers, process[p] = "ok"
        PROVE  process'[p] = "ok" /\ runs'[p] = runs[p]
    <3>1. Launches(t) => frame[t].worker \in Workers /\ process[frame[t].worker] = "none"
      BY <1>0 DEF Launches, At, RolesOK, Starting, FreshOK
    <3> QED BY <1>0, <2>1, <2>2, <3>1 DEF ProcsMove, TypeOK
  <2>3. ASSUME NEW p \in Workers, frame'[p].pc = "wait" PROVE frame'[p].worker = p
    <3>1. CASE p = t
      <4>1. /\ At(p, "attach") /\ registered[Id(p)] # None
            /\ frame'[p].worker = registered[Id(p)]
        BY <2>1, <2>3, <3>1 DEF Moves, Continues, LetsGo, Cleans, At
      <4> QED BY <4>1, Attached DEF Monitoring, At
    <3>2. CASE p # t
      <4>1. frame'[p] = frame[p]
        BY <2>1, <2>3, <3>2, ThreadKinds DEF Elsewhere
      <4> QED BY <2>3, <4>1 DEF ExitsOK, At
    <3> QED BY <3>1, <3>2
  <2>4. ASSUME NEW p \in Workers, frame'[p].pc \in {"encrypting", "read", "seal", "tidy", "ready"}
        PROVE  process'[p] = "ok"
    <3>1. CASE p = t
      <4>1. \/ At(p, "wait") /\ process[frame[p].worker] = "ok"
            \/ frame[p].pc \in {"encrypting", "read", "seal", "tidy", "ready"}
        BY <2>1, <2>4, <3>1 DEF Moves, Continues, LetsGo, Cleans, At
      <4> QED BY <2>2, <4>1 DEF ExitsOK
    <3>2. CASE p # t
      <4>1. frame'[p] = frame[p]
        BY <2>1, <2>4, <3>2, ThreadKinds DEF Elsewhere
      <4> QED BY <2>2, <2>4, <4>1 DEF ExitsOK
    <3> QED BY <3>1, <3>2
  <2>5. ASSUME NEW p \in Workers, runs'[p] # None, status'[runs'[p]] = "OUTPUT_READY"
        PROVE  process'[p] = "ok"
    <3>1. CASE Launches(t) /\ p = frame[t].worker
      <4>1. runs'[p] = frame[t].job /\ frame[t].job \in Objects
        BY <1>0, <2>1, <3>1, Handling DEF ProcsMove, TypeOK, Launches, At
      <4>2. status'[frame[t].job] = status[frame[t].job]
        BY <2>1, <3>1, <4>1 DEF JobsMove, NewStatus, Launches, At
      <4>3. status[frame[t].job] = "VALIDATING_INPUTS"
        BY <3>1 DEF WorkerInv, StartsOK, Launches, At, Starting
      <4> QED BY <2>5, <4>1, <4>2, <4>3
    <3>2. CASE ~(Launches(t) /\ p = frame[t].worker)
      <4>1. runs'[p] = runs[p] /\ runs[p] \in Objects
        BY <1>0, <2>1, <2>5, <3>2 DEF ProcsMove, TypeOK
      <4>2. CASE status[runs[p]] = "OUTPUT_READY"
        BY <2>2, <2>5, <4>1, <4>2 DEF ExitsOK
      <4>3. CASE status[runs[p]] # "OUTPUT_READY"
        <5>1. frame[t].job = runs[p] /\ NewStatus(t) = "OUTPUT_READY"
          BY <2>1, <2>5, <4>1, <4>3 DEF JobsMove
        <5>2. At(t, "ready")
          BY <1>0, <4>3, <5>1, ThreadType DEF NewStatus, Finals, Over
        <5>3. t \in Workers
          BY <5>2, ThreadKinds DEF WorkerInv, KindsOK, Kind, Monitoring, Cleaning, Resting, At
        <5>4. runs[t] = runs[p]
          BY <2>5, <4>1, <5>1, <5>3 DEF WorkerInv, StartsOK
        <5>5. t = p
          BY <2>5, <4>1, <5>3, <5>4 DEF WorkerInv, StartsOK
        <5> QED BY <2>2, <5>2, <5>5 DEF ExitsOK, At
      <4> QED BY <4>2, <4>3
    <3> QED BY <3>1, <3>2
  <2> QED BY <2>3, <2>4, <2>5 DEF ExitsOK, At
<1>2. ASSUME \A p \in Workers : frame'[p] = frame[p], runs' = runs,
             \A p \in Workers : process[p] = "ok" => process'[p] = "ok",
             \A o \in Objects : Published(o) => status'[o] = status[o]
      PROVE  ExitsOK'
  <2>1. \A p \in Workers : runs[p] # None => status'[runs[p]] = status[runs[p]]
    BY <1>0, <1>2 DEF ResultsOK, TypeOK
  <2> QED BY <1>2, <2>1 DEF ExitsOK, At
<1>3. ASSUME NEW t \in Clients, NEW id \in JobIds, Begins(t, id) PROVE ExitsOK'
  BY <1>2, <1>3, ThreadKinds DEF Begins, jobVars, procVars
<1>4. ASSUME NEW t \in Requests, NEW id \in JobIds, NEW o \in Objects, PrepareOpen(t, id, o)
      PROVE  ExitsOK'
  <2>1. ~Published(o) /\ UNCHANGED procVars
    BY <1>4 DEF PrepareOpen, Published
  <2>2. /\ \A u \in Threads \ {t} : frame'[u] = frame[u]
        /\ \A q \in Objects \ {o} : status'[q] = status[q]
    BY <1>0, <1>4, PrepareMoves
  <2> QED BY <1>2, <2>1, <2>2, ThreadKinds DEF procVars
<1>5. CASE CloseBegin
  <2>1. /\ \A u \in Threads \ {Closer} : frame'[u] = frame[u]
        /\ UNCHANGED <<jobVars, procVars>>
    BY <1>0, <1>5, CloseMoves DEF CloseBegin
  <2> QED BY <1>2, <2>1, ThreadKinds DEF jobVars, procVars
<1>6. CASE Worker
  <2>1. /\ UNCHANGED <<runs, status, frame>>
        /\ \A p \in Workers : process[p] = "ok" => process'[p] = "ok"
    BY <1>0, <1>6
    DEF Worker, WorkerWrites, WorkerSucceeds, WorkerFails, jobVars, procVars, TypeOK
  <2> QED BY <1>2, <2>1
<1>7. CASE UNCHANGED vars
  BY <1>2, <1>7 DEF vars, jobVars, procVars
<1> QED
  BY <1>0, <1>1, <1>3, <1>4, <1>5, <1>6, <1>7, RequestBegins DEF Next, Stopped

-----------------------------------------------------------------------------
LifeInv == WorkerInv /\ RegisteredOK /\ WorkerUnderControl /\ ExitsOK

LEMMA LifeInit ==
  ASSUME Init PROVE LifeInv
<1>1. ResultInv
  BY ResultInit
<1>2. \A t \in Threads : /\ frame[t].pc = "idle" /\ frame[t].final = "none"
                         /\ frame[t].job = None
  BY DEF Init, Blank
<1>3. SerialOK
  BY <1>2, ThreadKinds DEF SerialOK
<1>4. KindsOK
  BY <1>2, ThreadKinds DEF KindsOK, Kind, Resting, Cleaning, Monitoring, Starting
<1>5. StartsOK
  BY <1>2, ThreadKinds DEF Init, StartsOK, Starting
<1>6. RegisteredOK /\ WorkerUnderControl
  BY DEF Init, RegisteredOK, WorkerUnderControl
<1>7. ExitsOK
  BY <1>2, ThreadKinds DEF Init, ExitsOK, At
<1> QED BY <1>1, <1>3, <1>4, <1>5, <1>6, <1>7 DEF LifeInv, WorkerInv

\* LifeInv holds in every reachable state of sequential clients.
LEMMA LifeHolds == ASSUME MaxInFlight = 1, MaxPrepares = 1 PROVE Spec => []LifeInv
<1>1. Init => LifeInv
  BY LifeInit
<1>2. LifeInv /\ [Next]_vars => LifeInv'
  <2> SUFFICES ASSUME LifeInv, [Next]_vars PROVE LifeInv'
    OBVIOUS
  <2>1. WorkerInv /\ ResultInv /\ RegisteredOK /\ WorkerUnderControl /\ ExitsOK
    BY DEF LifeInv, WorkerInv
  <2>2. ResultInv'
    BY <2>1, TypeStep, KeyInvStep, UniqueNext, RolesNext, CompleteNext, FreshNext, ResultsNext
    DEF ResultInv
  <2>3. SerialOK' /\ KindsOK'
    BY <2>1, SerialNext, KindsNext DEF WorkerInv, ResultInv
  <2>4. StartsOK' /\ RegisteredOK' /\ WorkerUnderControl' /\ ExitsOK'
    BY <2>1, StartsNext, ControlNext, ExitsNext
  <2> QED BY <2>2, <2>3, <2>4 DEF LifeInv, WorkerInv
<1> QED BY <1>1, <1>2, PTL DEF Spec

\* Cancelling, failing or closing the job in the table reaches every worker
\* that runs for it: a running worker is registered under its job_id and runs
\* for the object in the table, or a thread is about to kill it
\* (training_runtime.py start and cancel, with the monitors of service.py).
THEOREM WorkersControlled ==
  ASSUME MaxInFlight = 1, MaxPrepares = 1 PROVE Spec => []WorkerUnderControl
<1>1. LifeInv => WorkerUnderControl
  BY DEF LifeInv
<1> QED BY <1>1, LifeHolds, PTL

\* Whatever is there of the result that is offered was made by one worker, which
\* was launched for the very job object in the table and has exited with 0: a
\* worker that fails, is killed or is still writing when its monitor gives up
\* contributes nothing, whatever the other jobs, their monitors and close() do
\* (service.py _monitor_training_job and _encrypt_training_output,
\* training_runtime.py wait).
THEOREM ResultsAreOwn ==
  ASSUME MaxInFlight = 1, MaxPrepares = 1 PROVE Spec => []ResultIsOwn
<1>1. LifeInv => ResultIsOwn
  <2> SUFFICES ASSUME LifeInv, NEW id \in JobIds, Known(id),
                      status[current[id]] = "OUTPUT_READY",
                      NEW out \in Outputs, NEW other \in Outputs, sealed[id][out] # None
               PROVE  /\ runs[sealed[id][out]] = current[id] /\ process[sealed[id][out]] = "ok"
                      /\ sealed[id][other] \in {sealed[id][out], None}
    BY DEF ResultIsOwn
  <2>1. TypeOK /\ KeyInv /\ UniqueOK /\ ResultsOK /\ StartsOK /\ ExitsOK
    BY DEF LifeInv, WorkerInv, ResultInv
  <2>2. current[id] \in Objects /\ Published(current[id]) /\ owner[current[id]] = id
    BY <2>1, KnownPublished DEF UniqueOK
  <2>3. ASSUME NEW x \in Outputs, sealed[id][x] # None
        PROVE  /\ sealed[id][x] \in Workers /\ runs[sealed[id][x]] = current[id]
               /\ runs[sealed[id][x]] # None
    <3>1. sealed[id][x] \in Workers /\ RanFor(sealed[id][x], id)
      BY <2>1, <2>3 DEF ResultsOK, TypeOK
    <3>2. runs[sealed[id][x]] \in Objects /\ Published(runs[sealed[id][x]])
      BY <2>1, <3>1 DEF ResultsOK, RanFor, TypeOK
    <3> QED BY <2>1, <2>2, <3>1, <3>2 DEF UniqueOK, RanFor, Published
  <2>4. process[sealed[id][out]] = "ok"
    BY <2>1, <2>3 DEF ExitsOK
  <2> QED BY <2>1, <2>3, <2>4 DEF StartsOK
<1> QED BY <1>1, LifeHolds, PTL
=============================================================================
