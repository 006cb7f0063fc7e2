----------------------- MODULE TrainingResults_proofs -----------------------
(* Of a job whose result is served the DEKs are gone, for every number of   *)
(* jobs, workers, threads and requests in flight, as long as no job_id is   *)
(* prepared twice (MaxPrepares = 1).                                        *)
(*                                                                          *)
(* Then a published object is the one in the table under its job_id, and    *)
(* what a monitor looks up by job_id is what it was started for.  The first *)
(* half of the module says what one step does to the local state of its     *)
(* thread (Moves) and to the jobs, the results and the workers (JobsMove,   *)
(* ResultsMove, ProcsMove); the invariants are argued from that alone.      *)
EXTENDS TrainingJobs_proofs, FiniteSetTheorems

-----------------------------------------------------------------------------
(* One object per job_id.                                                   *)

UniqueOK ==
  /\ \A o, q \in Objects :
       status[o] # "unused" /\ status[q] # "unused" /\ owner[o] = owner[q] => o = q
  /\ \A id \in JobIds : Known(id) => owner[current[id]] = id

\* A published object is the one in the table under its job_id.
LEMMA Own ==
  ASSUME TypeOK, KeyInv, UniqueOK, NEW o \in Objects, Published(o)
  PROVE  owner[o] \in JobIds /\ Known(owner[o]) /\ current[owner[o]] = o
<1>1. owner[o] \in JobIds /\ Known(owner[o])
  BY DEF KeyInv, Published
<1>2. /\ current[owner[o]] \in Objects /\ Published(current[owner[o]])
      /\ owner[current[owner[o]]] = owner[o]
  BY <1>1, KnownPublished DEF UniqueOK
<1> QED BY <1>1, <1>2 DEF UniqueOK, Published

-----------------------------------------------------------------------------
(* What a step of thread t does to local states.                            *)

Clients == Requests \cup {EventLoop}

\* t lets go of the job it holds, and goes to l
LetsGo(t, l) ==
  /\ frame'[t].pc = l
  /\ frame'[t].job = None /\ frame'[t].worker = None /\ frame'[t].slot = None
  /\ frame'[t].final = "none"

\* t enters the cleanup of job o that leads to x
Cleans(t, o, x) ==
  /\ frame'[t].pc = "clear"
  /\ frame'[t].job = o /\ frame'[t].worker = None /\ frame'[t].slot = None
  /\ frame'[t].final = x

\* t goes on with the job it holds
Continues(t, l) ==
  /\ frame'[t].pc = l
  /\ frame'[t].job = frame[t].job /\ frame'[t].final = frame[t].final
  /\ l \notin {"read", "tidy"} => frame'[t].slot = frame[t].slot

Keeps(t) == frame'[t].worker = frame[t].worker

ReturnsAt == {"discard", "commit", "decrypt", "advance", "finalize", "gpu", "started",
              "ready", "wipe", "end"}

FailsAt == {"decrypt", "write", "open", "extract", "launch", "attach", "wait", "read", "seal",
            "tidy"}

\* between the checks of start_training_job and its return
Starting == {"gpu", "launch", "register", "started"}

Moves(t) ==
  \/ /\ At(t, "mkdir") /\ Keeps(t)
     /\ Continues(t, "mkdir") \/ Continues(t, "commit") \/ Continues(t, "discard")
  \/ At(t, "decrypt") /\ Keeps(t) /\ Continues(t, "write")
  \/ At(t, "write") /\ Keeps(t) /\ Continues(t, "advance")
  \/ At(t, "open") /\ Keeps(t) /\ Continues(t, "extract")
  \/ At(t, "extract") /\ Keeps(t) /\ Continues(t, "finalize")
  \/ At(t, "gpu") /\ Keeps(t) /\ Continues(t, "launch") /\ ~GpuBusy(Id(t))
  \/ At(t, "launch") /\ Keeps(t) /\ Continues(t, "register")
  \/ At(t, "register") /\ Keeps(t) /\ Continues(t, "started")
  \/ At(t, "find") /\ Keeps(t) /\ Continues(t, "attach")
  \/ /\ At(t, "attach") /\ Continues(t, "wait")
     /\ registered[Id(t)] # None /\ frame'[t].worker = registered[Id(t)]
  \/ At(t, "wait") /\ Keeps(t) /\ Continues(t, "encrypting") /\ process[frame[t].worker] = "ok"
  \/ At(t, "encrypting") /\ Keeps(t) /\ Continues(t, "read")
  \/ At(t, "read") /\ Keeps(t) /\ Continues(t, "seal")
  \/ At(t, "seal") /\ Keeps(t) /\ (Continues(t, "read") \/ Continues(t, "tidy"))
  \/ At(t, "tidy") /\ Keeps(t) /\ Continues(t, "ready")
  \/ At(t, "cancel") /\ Keeps(t) /\ Continues(t, "clear")
  \/ At(t, "clear") /\ Keeps(t) /\ Continues(t, "pop")
  \/ At(t, "pop") /\ Continues(t, "kill") /\ frame'[t].worker = registered[Id(t)]
  \/ At(t, "kill") /\ Continues(t, "look") /\ frame'[t].worker = None
  \/ At(t, "look") /\ Keeps(t) /\ Continues(t, "wipe")
  \/ /\ frame[t].pc \in {"look", "wipe"} /\ Keeps(t)
     /\ Continues(t, IF frame[t].final = "PREPARE" THEN "mkdir" ELSE "end")
  \/ At(t, "wipe") /\ frame[t].final = "PREPARE" /\ Keeps(t) /\ Continues(t, "discard")
  \/ At(t, "wipe") /\ frame[t].final = "SHUTDOWN" /\ LetsGo(t, "aborted")
  \/ At(t, "end") /\ frame[t].final = "SHUTDOWN" /\ LetsGo(t, "next")
  \/ At(t, "next") /\ todo = {} /\ LetsGo(t, "closed")
  \/ At(t, "next") /\ \E id \in todo : Known(id) /\ Cleans(t, current[id], "SHUTDOWN")
  \/ /\ frame[t].pc \in ReturnsAt /\ frame[t].final \notin {"SHUTDOWN"}
     /\ LetsGo(t, IF t \in Workers THEN "dead" ELSE "idle")
  \/ frame[t].pc \in FailsAt /\ Cleans(t, frame[t].job, "FAILED")

\* the start of a monitor is the only step that touches another thread
Elsewhere(t) ==
  \A u \in Threads \ {t} :
    \/ frame'[u] = frame[u]
    \/ /\ At(t, "started") /\ u = frame[t].worker
       /\ frame'[u].pc = "find" /\ frame'[u].job = frame[t].job
       /\ frame'[u].worker = None /\ frame'[u].slot = None /\ frame'[u].final = "none"

\* A handler is begun by a request thread; only start_training_job has a worker.
RolesOK ==
  \A t \in Threads :
    /\ frame[t].pc \in Starting =>
         t \in Requests /\ frame[t].worker \in Workers /\ frame[t].final = "none"
    /\ frame[t].final \in {"SHUTDOWN", "COMPLETED"} =>
         frame[t].pc \in {"clear", "pop", "kill", "look", "wipe", "end"}

LEMMA BecomeMoves ==
  ASSUME TypeOK, NEW t \in Threads, NEW f, Become(t, f)
  PROVE  frame'[t] = f /\ \A u \in Threads \ {t} : frame'[u] = frame[u]
  BY DEF TypeOK, Become

\* The ways in which a step leaves the local state of its thread.
LEMMA GotoMoves ==
  ASSUME TypeOK, NEW t \in Threads, NEW l, Goto(t, l)
  PROVE  Continues(t, l) /\ Keeps(t) /\ Elsewhere(t)
<1>1. /\ frame'[t] = [frame[t] EXCEPT !.pc = l]
      /\ \A u \in Threads \ {t} : frame'[u] = frame[u]
  BY BecomeMoves DEF Goto
<1> QED BY <1>1, ThreadType DEF Continues, Keeps, Elsewhere, Frame

LEMMA OpenMoves ==
  ASSUME TypeOK, NEW t \in Threads, NEW l, NEW d, Become(t, [frame[t] EXCEPT !.pc = l, !.data = d])
  PROVE  Continues(t, l) /\ Keeps(t) /\ frame'[t].data = d /\ Elsewhere(t)
<1>1. /\ frame'[t] = [frame[t] EXCEPT !.pc = l, !.data = d]
      /\ \A u \in Threads \ {t} : frame'[u] = frame[u]
  BY BecomeMoves
<1> QED BY <1>1, ThreadType DEF Continues, Keeps, Elsewhere, Frame

LEMMA MadeMoves ==
  ASSUME TypeOK, NEW t \in Threads, NEW n, Become(t, [frame[t] EXCEPT !.made = n])
  PROVE  Continues(t, frame[t].pc) /\ Keeps(t) /\ Elsewhere(t)
<1>1. /\ frame'[t] = [frame[t] EXCEPT !.made = n]
      /\ \A u \in Threads \ {t} : frame'[u] = frame[u]
  BY BecomeMoves
<1> QED BY <1>1, ThreadType DEF Continues, Keeps, Elsewhere, Frame

LEMMA OutputMoves ==
  ASSUME TypeOK, NEW t \in Threads, NEW l \in {"read", "tidy"}, NEW out,
         Become(t, [frame[t] EXCEPT !.pc = l, !.slot = out])
  PROVE  Continues(t, l) /\ Keeps(t) /\ Elsewhere(t)
<1>1. /\ frame'[t] = [frame[t] EXCEPT !.pc = l, !.slot = out]
      /\ \A u \in Threads \ {t} : frame'[u] = frame[u]
  BY BecomeMoves
<1> QED BY <1>1, ThreadType DEF Continues, Keeps, Elsewhere, Frame

LEMMA FindMoves ==
  ASSUME TypeOK, NEW t \in Threads, NEW l, NEW o, Become(t, [frame[t] EXCEPT !.job = o, !.pc = l]),
         frame[t].job = o
  PROVE  Continues(t, l) /\ Keeps(t) /\ Elsewhere(t)
<1>1. /\ frame'[t] = [frame[t] EXCEPT !.job = o, !.pc = l]
      /\ \A u \in Threads \ {t} : frame'[u] = frame[u]
  BY BecomeMoves
<1> QED BY <1>1, ThreadType DEF Continues, Keeps, Elsewhere, Frame

LEMMA HoldMoves ==
  ASSUME TypeOK, NEW t \in Threads, NEW l, NEW w, Become(t, [frame[t] EXCEPT !.worker = w, !.pc = l])
  PROVE  Continues(t, l) /\ frame'[t].worker = w /\ Elsewhere(t)
<1>1. /\ frame'[t] = [frame[t] EXCEPT !.worker = w, !.pc = l]
      /\ \A u \in Threads \ {t} : frame'[u] = frame[u]
  BY BecomeMoves
<1> QED BY <1>1, ThreadType DEF Continues, Elsewhere, Frame

LEMMA BlankMoves ==
  ASSUME TypeOK, NEW t \in Threads, NEW l, Become(t, Blank(l))
  PROVE  LetsGo(t, l) /\ Elsewhere(t)
<1>1. frame'[t] = Blank(l) /\ \A u \in Threads \ {t} : frame'[u] = frame[u]
  BY BecomeMoves
<1> QED BY <1>1 DEF LetsGo, Elsewhere, Blank

LEMMA LeaveMoves ==
  ASSUME TypeOK, NEW t \in Threads, Leave(t)
  PROVE  LetsGo(t, IF t \in Workers THEN "dead" ELSE "idle") /\ Elsewhere(t)
  BY BlankMoves DEF Leave, Rest

LEMMA CleanMoves ==
  ASSUME TypeOK, NEW t \in Threads, NEW o, NEW x,
         Become(t, [Blank("clear") EXCEPT !.job = o, !.final = x])
  PROVE  Cleans(t, o, x) /\ Elsewhere(t)
<1>1. /\ frame'[t] = [Blank("clear") EXCEPT !.job = o, !.final = x]
      /\ \A u \in Threads \ {t} : frame'[u] = frame[u]
  BY BecomeMoves
<1> QED BY <1>1 DEF Cleans, Elsewhere, Blank

LEMMA FailMoves ==
  ASSUME TypeOK, NEW t \in Threads, Fail(t)
  PROVE  Cleans(t, frame[t].job, "FAILED") /\ Elsewhere(t)
  BY CleanMoves DEF Fail

\* Every step moves its thread so.
LEMMA StepMoves ==
  ASSUME TypeOK, KeyInv, UniqueOK, RolesOK, NEW t \in Threads, Step(t)
  PROVE  Moves(t) /\ Elsewhere(t)
<1>0. frame[t].final = "SHUTDOWN" => frame[t].pc \in {"clear", "pop", "kill", "look", "wipe", "end"}
  BY DEF RolesOK, Starting
<1>1. CASE PrepareDiscard(t)
  BY <1>0, <1>1, LeaveMoves DEF PrepareDiscard, At, Moves, ReturnsAt
<1>2. CASE PrepareMkdir(t)
  <2>1. CASE Become(t, [frame[t] EXCEPT !.made = @ + 1])
    BY <1>2, <2>1, MadeMoves DEF PrepareMkdir, At, Moves
  <2>2. CASE Goto(t, "commit") \/ Goto(t, "discard")
    BY <1>2, <2>2, GotoMoves DEF PrepareMkdir, Moves
  <2> QED BY <1>2, <2>1, <2>2 DEF PrepareMkdir
<1>3. CASE PrepareCommit(t)
  BY <1>0, <1>3, LeaveMoves DEF PrepareCommit, At, Moves, ReturnsAt
<1>4. CASE AppendDecrypt(t)
  BY <1>0, <1>4, GotoMoves, FailMoves, LeaveMoves DEF AppendDecrypt, At, Moves, FailsAt, ReturnsAt
<1>5. CASE AppendWrite(t)
  BY <1>5, GotoMoves, FailMoves DEF AppendWrite, At, Moves, FailsAt
<1>6. CASE AppendAdvance(t)
  BY <1>0, <1>6, LeaveMoves DEF AppendAdvance, At, Moves, ReturnsAt
<1>7. CASE FinalizeOpen(t)
  <2>1. CASE Fail(t)
    BY <1>7, <2>1, FailMoves DEF FinalizeOpen, At, Moves, FailsAt
  <2>2. CASE Become(t, [frame[t] EXCEPT !.pc = "extract", !.data = package[Id(t)][frame[t].slot]])
    BY <1>7, <2>2, OpenMoves DEF FinalizeOpen, Moves
  <2> QED BY <1>7, <2>1, <2>2 DEF FinalizeOpen
<1>8. CASE FinalizeExtract(t)
  <2>1. CASE Fail(t)
    BY <1>8, <2>1, FailMoves DEF FinalizeExtract, At, Moves, FailsAt
  <2>2. CASE Become(t, [frame[t] EXCEPT !.pc = "finalize", !.data = <<>>])
    BY <1>8, <2>2, OpenMoves DEF FinalizeExtract, Moves
  <2> QED BY <1>8, <2>1, <2>2 DEF FinalizeExtract
<1>9. CASE FinalizeCommit(t)
  BY <1>0, <1>9, LeaveMoves DEF FinalizeCommit, At, Moves, ReturnsAt
<1>10. CASE StartGpu(t)
  BY <1>0, <1>10, GotoMoves, LeaveMoves DEF StartGpu, At, Moves, ReturnsAt
<1>11. CASE StartLaunch(t)
  BY <1>11, GotoMoves, FailMoves DEF StartLaunch, At, Moves, FailsAt
<1>29. CASE StartRegister(t)
  BY <1>29, GotoMoves DEF StartRegister, Moves
<1>12. CASE StartCommit(t)
  <2>1. t \in Requests /\ frame[t].worker \in Workers /\ t \notin Workers /\ t # frame[t].worker
    BY <1>12, ThreadsDistinct DEF StartCommit, At, RolesOK, Starting
  <2>2. /\ frame'[t] = Blank("idle")
        /\ frame'[frame[t].worker] = [Blank("find") EXCEPT !.job = frame[t].job]
        /\ \A u \in Threads \ {t, frame[t].worker} : frame'[u] = frame[u]
    BY <1>12, <2>1 DEF StartCommit, TypeOK, Threads
  <2>3. LetsGo(t, "idle")
    BY <2>2 DEF LetsGo, Blank
  <2>4. Elsewhere(t)
    <3>1. /\ frame'[frame[t].worker].pc = "find" /\ frame'[frame[t].worker].job = frame[t].job
          /\ frame'[frame[t].worker].worker = None /\ frame'[frame[t].worker].slot = None
          /\ frame'[frame[t].worker].final = "none"
      BY <2>2 DEF Blank
    <3> QED BY <1>12, <2>2, <3>1 DEF Elsewhere, StartCommit
  <2> QED BY <1>0, <1>12, <2>1, <2>3, <2>4 DEF StartCommit, At, Moves, ReturnsAt
<1>13. CASE MonitorFind(t)
  <2>1. frame[t].job \in Objects /\ Published(frame[t].job)
    BY <1>13, Handling DEF MonitorFind, At
  <2>2. current[Id(t)] = frame[t].job
    BY <2>1, Own DEF Id
  <2> QED BY <1>13, <2>2, FindMoves DEF MonitorFind, Moves
<1>14. CASE MonitorAttach(t)
  <2>1. CASE Fail(t)
    BY <1>14, <2>1, FailMoves DEF MonitorAttach, At, Moves, FailsAt
  <2>2. CASE /\ registered[Id(t)] # None
             /\ Become(t, [frame[t] EXCEPT !.worker = registered[Id(t)], !.pc = "wait"])
    BY <1>14, <2>2, HoldMoves DEF MonitorAttach, Moves
  <2> QED BY <1>14, <2>1, <2>2 DEF MonitorAttach
<1>15. CASE MonitorWait(t)
  BY <1>15, GotoMoves, FailMoves DEF MonitorWait, At, Moves, FailsAt
<1>16. CASE MonitorEncrypting(t)
  BY <1>16, OutputMoves DEF MonitorEncrypting, Moves
<1>17. CASE MonitorRead(t)
  BY <1>17, GotoMoves, FailMoves DEF MonitorRead, At, Moves, FailsAt
<1>18. CASE MonitorSeal(t)
  <2>1. CASE Become(t, [frame[t] EXCEPT !.pc = "read", !.slot = "result-data"])
    BY <1>18, <2>1, OutputMoves DEF MonitorSeal, Moves
  <2>2. CASE Become(t, [frame[t] EXCEPT !.pc = "tidy", !.slot = None])
    BY <1>18, <2>2, OutputMoves DEF MonitorSeal, Moves
  <2>3. CASE Fail(t)
    BY <1>18, <2>3, FailMoves DEF MonitorSeal, At, Moves, FailsAt
  <2> QED BY <1>18, <2>1, <2>2, <2>3 DEF MonitorSeal
<1>19. CASE MonitorTidy(t)
  BY <1>19, GotoMoves, FailMoves DEF MonitorTidy, At, Moves, FailsAt
<1>20. CASE MonitorReady(t)
  BY <1>0, <1>20, LeaveMoves DEF MonitorReady, At, Moves, ReturnsAt
<1>21. CASE CancelMark(t)
  BY <1>21, GotoMoves DEF CancelMark, Moves
<1>22. CASE CloseNext(t)
  <2>1. CASE todo = {} /\ Become(t, Blank("closed"))
    BY <1>22, <2>1, BlankMoves DEF CloseNext, Moves
  <2>2. ASSUME NEW id \in todo,
               Become(t, [Blank("clear") EXCEPT !.job = current[id], !.final = "SHUTDOWN"])
        PROVE  Moves(t) /\ Elsewhere(t)
    BY <1>22, <2>2, CleanMoves DEF CloseNext, Moves, KeyInv
  <2> QED BY <1>22, <2>1, <2>2 DEF CloseNext
<1>23. CASE ClearDeks(t)
  BY <1>23, GotoMoves DEF ClearDeks, Moves
<1>24. CASE PopProcess(t)
  BY <1>24, HoldMoves DEF PopProcess, Moves
<1>25. CASE KillProcess(t)
  BY <1>25, HoldMoves DEF KillProcess, Moves
<1>26. CASE LookForDirectory(t)
  BY <1>26, GotoMoves DEF LookForDirectory, AfterCleanup, At, Moves
<1>27. CASE WipeDirectory(t)
  <2>1. CASE Goto(t, AfterCleanup(t))
    BY <1>27, <2>1, GotoMoves DEF WipeDirectory, AfterCleanup, At, Moves
  <2>2. CASE CleanupRaises(t)
    BY <1>27, <2>2, GotoMoves, BlankMoves, LeaveMoves
    DEF WipeDirectory, CleanupRaises, At, Moves, ReturnsAt
  <2> QED BY <1>27, <2>1, <2>2 DEF WipeDirectory
<1>28. CASE EndCleanup(t)
  <2>1. CASE frame[t].final \in Over /\ Leave(t)
    BY <1>28, <2>1, LeaveMoves DEF EndCleanup, At, Moves, ReturnsAt, Over
  <2>2. CASE frame[t].final = "SHUTDOWN" /\ Become(t, Blank("next"))
    BY <1>28, <2>2, BlankMoves DEF EndCleanup, At, Moves
  <2> QED BY <1>28, <2>1, <2>2 DEF EndCleanup
<1> QED
  BY <1>1, <1>2, <1>3, <1>4, <1>5, <1>6, <1>7, <1>8, <1>9, <1>10, <1>11, <1>12, <1>13,
     <1>14, <1>15, <1>16, <1>17, <1>18, <1>19, <1>20, <1>21, <1>22, <1>23, <1>24, <1>25,
     <1>26, <1>27, <1>28, <1>29 DEF Step, Cleanup

-----------------------------------------------------------------------------
(* What a step of thread t does to the jobs, the results and the workers.   *)

\* the status the job of t has after a step of t
NewStatus(t) ==
  CASE At(t, "discard")    -> "unused"
    [] At(t, "commit")     -> "STAGING_INPUTS"
    [] At(t, "finalize")   -> IF finalized[frame[t].job] \cup {frame[t].slot} = Slots
                                THEN "VALIDATING_INPUTS" ELSE status[frame[t].job]
    [] At(t, "started")    -> "RUNNING"
    [] At(t, "encrypting") -> "ENCRYPTING_OUTPUTS"
    [] At(t, "ready")      -> "OUTPUT_READY"
    [] At(t, "cancel")     -> "CANCELLING"
    [] At(t, "end")        -> IF frame[t].final # "SHUTDOWN" THEN frame[t].final
                              ELSE IF status[frame[t].job] \in Over THEN status[frame[t].job]
                              ELSE "FAILED"
    [] OTHER               -> status[frame[t].job]

JobsMove(t) ==
  /\ owner' = owner
  /\ current' = IF At(t, "commit") THEN [current EXCEPT ![Id(t)] = frame[t].job] ELSE current
  /\ \A o \in Objects \ {frame[t].job} :
       status'[o] = status[o] /\ finalized'[o] = finalized[o] /\ dek'[o] = dek[o]
  /\ frame[t].job \in Objects =>
       /\ status'[frame[t].job] = NewStatus(t)
       /\ dek'[frame[t].job] \subseteq dek[frame[t].job]
       /\ At(t, "finalize") => frame[t].slot \notin dek'[frame[t].job]
       /\ finalized'[frame[t].job] = IF At(t, "finalize")
            THEN finalized[frame[t].job] \cup {frame[t].slot} ELSE finalized[frame[t].job]

ResultsMove(t) ==
  \A id \in JobIds :
    /\ trained'[id] \in {trained[id], None}
    /\ \A out \in Outputs :
         /\ archived'[id][out] \in {archived[id][out], trained[id], None}
         /\ sealed'[id][out] \in {sealed[id][out], archived[id][out], None}

\* t launches its worker
Launches(t) == At(t, "launch") /\ frame'[t].pc = "register"

ProcsMove(t) ==
  /\ IF Launches(t)
       THEN /\ process' = [process EXCEPT ![frame[t].worker] = "running"]
            /\ runs'    = [runs EXCEPT ![frame[t].worker] = frame[t].job]
       ELSE /\ runs' = runs
            /\ process' = IF At(t, "kill") /\ frame[t].worker # None /\ process[frame[t].worker] = "running"
                            THEN [process EXCEPT ![frame[t].worker] = "killed"] ELSE process
  /\ registered' = IF At(t, "pop") THEN [registered EXCEPT ![Id(t)] = None]
                   ELSE IF At(t, "register") THEN [registered EXCEPT ![Id(t)] = frame[t].worker]
                   ELSE registered

\* A step of one of the labels at which no status is set leaves the job's alone.
LEMMA StillMoves ==
  ASSUME TypeOK, NEW t \in Threads, UNCHANGED jobVars,
         frame[t].pc \notin {"discard", "commit", "finalize", "started", "encrypting", "ready",
                             "cancel", "end"}
  PROVE  JobsMove(t)
  BY DEF JobsMove, NewStatus, At, jobVars

\* A step that sets the status of its job and leaves the other tables alone.
LEMMA StatusMoves ==
  ASSUME TypeOK, NEW t \in Threads, status' = [status EXCEPT ![frame[t].job] = NewStatus(t)],
         frame[t].pc \notin {"commit", "finalize"},
         UNCHANGED <<current, owner, finalized>>,
         dek' = dek \/ dek' = [dek EXCEPT ![frame[t].job] = {}]
  PROVE  JobsMove(t)
  BY DEF JobsMove, At, TypeOK

\* Every step does so to the jobs.
LEMMA StepJobs ==
  ASSUME TypeOK, KeyInv, UniqueOK, RolesOK, NEW t \in Threads, Step(t)
  PROVE  JobsMove(t)
<1>1. CASE PrepareDiscard(t)
  BY <1>1, StatusMoves DEF PrepareDiscard, At, NewStatus
<1>2. CASE PrepareMkdir(t)
  BY <1>2, StillMoves DEF PrepareMkdir, At
<1>3. CASE PrepareCommit(t)
  <2>1. /\ At(t, "commit") /\ NewStatus(t) = "STAGING_INPUTS"
        /\ current' = [current EXCEPT ![Id(t)] = frame[t].job]
        /\ status' = [status EXCEPT ![frame[t].job] = "STAGING_INPUTS"]
        /\ UNCHANGED <<owner, finalized, dek>>
    BY <1>3 DEF PrepareCommit, NewStatus, At
  <2> QED BY <2>1 DEF JobsMove, At, TypeOK
<1>4. CASE AppendDecrypt(t)
  BY <1>4, StillMoves DEF AppendDecrypt, At
<1>5. CASE AppendWrite(t)
  BY <1>5, StillMoves DEF AppendWrite, At
<1>6. CASE AppendAdvance(t)
  BY <1>6 DEF AppendAdvance, At, JobsMove, NewStatus
<1>7. CASE FinalizeOpen(t)
  BY <1>7, StillMoves DEF FinalizeOpen, At
<1>8. CASE FinalizeExtract(t)
  BY <1>8, StillMoves DEF FinalizeExtract, At
<1>9. CASE FinalizeCommit(t)
  <2> DEFINE o == frame[t].job  s == frame[t].slot
  <2>1. /\ At(t, "finalize") /\ o \in Objects
        /\ finalized' = [finalized EXCEPT ![o] = @ \cup {s}]
        /\ dek' = [dek EXCEPT ![o] = @ \ {s}]
        /\ status' = IF finalized[o] \cup {s} = Slots
                       THEN [status EXCEPT ![o] = "VALIDATING_INPUTS"] ELSE status
        /\ UNCHANGED <<current, owner>>
    BY <1>9, Handling DEF FinalizeCommit, At
  <2>2. NewStatus(t) = IF finalized[o] \cup {s} = Slots THEN "VALIDATING_INPUTS" ELSE status[o]
    BY <2>1 DEF NewStatus, At
  <2>3. /\ finalized'[o] = finalized[o] \cup {s} /\ dek'[o] = dek[o] \ {s}
        /\ status'[o] = NewStatus(t)
    BY <2>1, <2>2 DEF TypeOK
  <2>4. \A q \in Objects \ {o} :
          status'[q] = status[q] /\ finalized'[q] = finalized[q] /\ dek'[q] = dek[q]
    BY <2>1 DEF TypeOK
  <2> QED BY <2>1, <2>3, <2>4 DEF JobsMove, At
<1>10. CASE StartGpu(t)
  BY <1>10, StillMoves DEF StartGpu, At
<1>11. CASE StartLaunch(t)
  BY <1>11, StillMoves DEF StartLaunch, At
<1>29. CASE StartRegister(t)
  BY <1>29, StillMoves DEF StartRegister, At
<1>12. CASE StartCommit(t)
  BY <1>12, StatusMoves DEF StartCommit, At, NewStatus
<1>13. CASE MonitorFind(t)
  BY <1>13, StillMoves DEF MonitorFind, At
<1>14. CASE MonitorAttach(t)
  BY <1>14, StillMoves DEF MonitorAttach, At
<1>15. CASE MonitorWait(t)
  BY <1>15, StillMoves DEF MonitorWait, At
<1>16. CASE MonitorEncrypting(t)
  BY <1>16, StatusMoves DEF MonitorEncrypting, At, NewStatus
<1>17. CASE MonitorRead(t)
  BY <1>17, StillMoves DEF MonitorRead, At
<1>18. CASE MonitorSeal(t)
  <2>1. /\ NewStatus(t) = status[frame[t].job]
        /\ UNCHANGED <<current, owner, status, finalized, dek>>
    BY <1>18 DEF MonitorSeal, NewStatus, At
  <2> QED BY <1>18, <2>1 DEF MonitorSeal, JobsMove, At
<1>19. CASE MonitorTidy(t)
  BY <1>19, StillMoves DEF MonitorTidy, At
<1>20. CASE MonitorReady(t)
  BY <1>20, StatusMoves DEF MonitorReady, At, NewStatus
<1>21. CASE CancelMark(t)
  BY <1>21, StatusMoves DEF CancelMark, At, NewStatus
<1>22. CASE CloseNext(t)
  BY <1>22, StillMoves DEF CloseNext, At
<1>23. CASE ClearDeks(t)
  <2>1. status' = [status EXCEPT ![frame[t].job] = NewStatus(t)]
    BY <1>23 DEF ClearDeks, At, NewStatus, TypeOK
  <2> QED BY <1>23, <2>1, StatusMoves DEF ClearDeks, At
<1>24. CASE PopProcess(t)
  BY <1>24, StillMoves DEF PopProcess, At
<1>25. CASE KillProcess(t)
  BY <1>25, StillMoves DEF KillProcess, At
<1>26. CASE LookForDirectory(t)
  BY <1>26, StillMoves DEF LookForDirectory, At
<1>27. CASE WipeDirectory(t)
  BY <1>27, StillMoves DEF WipeDirectory, At
<1>28. CASE EndCleanup(t)
  <2>1. CASE frame[t].final \in Over /\ status' = [status EXCEPT ![frame[t].job] = frame[t].final]
    <3>1. NewStatus(t) = frame[t].final
      BY <1>28, <2>1 DEF EndCleanup, At, NewStatus, Over
    <3> QED BY <1>28, <2>1, <3>1, StatusMoves DEF EndCleanup, At
  <2>2. CASE /\ frame[t].final = "SHUTDOWN"
             /\ status' = [status EXCEPT ![frame[t].job] = IF @ \in Over THEN @ ELSE "FAILED"]
    <3>1. NewStatus(t) = IF status[frame[t].job] \in Over THEN status[frame[t].job] ELSE "FAILED"
      BY <1>28, <2>2 DEF EndCleanup, At, NewStatus
    <3>2. status' = [status EXCEPT ![frame[t].job] = NewStatus(t)]
      BY <2>2, <3>1 DEF TypeOK
    <3> QED BY <1>28, <3>2, StatusMoves DEF EndCleanup, At
  <2> QED BY <1>28, <2>1, <2>2 DEF EndCleanup
<1> QED
  BY <1>1, <1>2, <1>3, <1>4, <1>5, <1>6, <1>7, <1>8, <1>9, <1>10, <1>11, <1>12, <1>13,
     <1>14, <1>15, <1>16, <1>17, <1>18, <1>19, <1>20, <1>21, <1>22, <1>23, <1>24, <1>25,
     <1>26, <1>27, <1>28, <1>29 DEF Step, Cleanup

\* Every step does so to the results and to the workers.
LEMMA StepResults ==
  ASSUME TypeOK, KeyInv, NEW t \in Threads, Step(t)
  PROVE  ResultsMove(t)
<1>1. ASSUME Id(t) \in JobIds, NEW left, NEW kept, Remains(Id(t), left, kept) PROVE ResultsMove(t)
  <2>1. ASSUME NEW id \in JobIds
        PROVE  /\ trained'[id] \in {trained[id], None}
               /\ archived'[id] \in {archived[id], NoOutputs}
               /\ sealed'[id] \in {sealed[id], NoOutputs}
    BY <1>1 DEF Remains, TypeOK
  <2>2. \A out \in Outputs : NoOutputs[out] = None
    BY DEF NoOutputs
  <2> QED BY <2>1, <2>2 DEF ResultsMove
<1>2. CASE MonitorTidy(t) \/ WipeDirectory(t)
  <2>1. Id(t) \in JobIds
    BY <1>2, Holding DEF MonitorTidy, WipeDirectory, At
  <2>2. (\E left, kept : Remains(Id(t), left, kept)) \/ UNCHANGED diskVars
    BY <1>2 DEF MonitorTidy, WipeDirectory, Interrupted
  <2>3. UNCHANGED diskVars => ResultsMove(t)
    BY DEF ResultsMove, diskVars
  <2> QED BY <1>1, <2>1, <2>2, <2>3
<1>3. CASE MonitorRead(t) \/ MonitorSeal(t)
  <2>1. Id(t) \in JobIds /\ frame[t].slot \in Outputs
    BY <1>3, Holding, HoldingOutput DEF MonitorRead, MonitorSeal, At
  <2> DEFINE i == Id(t)  out == frame[t].slot
  <2>2. /\ trained' = trained
        /\ archived' \in {archived, [archived EXCEPT ![i][out] = trained[i]]}
        /\ sealed' \in {sealed, [sealed EXCEPT ![i][out] = archived[i][out]]}
    BY <1>3 DEF MonitorRead, MonitorSeal
  <2>3. ASSUME NEW id \in JobIds, NEW x \in Outputs
        PROVE  /\ archived'[id][x] \in {archived[id][x], trained[id], None}
               /\ sealed'[id][x] \in {sealed[id][x], archived[id][x], None}
    <3>1. CASE id # i
      <4>1. archived'[id] = archived[id] /\ sealed'[id] = sealed[id]
        BY <2>2, <3>1 DEF TypeOK
      <4> QED BY <4>1
    <3>2. CASE id = i
      <4>1. /\ archived'[i] \in {archived[i], [archived[i] EXCEPT ![out] = trained[i]]}
            /\ sealed'[i] \in {sealed[i], [sealed[i] EXCEPT ![out] = archived[i][out]]}
        BY <2>1, <2>2 DEF TypeOK
      <4>2. archived[i] \in [Outputs -> Workers \cup {None}] /\ sealed[i] \in [Outputs -> Workers \cup {None}]
        BY <2>1 DEF TypeOK
      <4> QED BY <2>1, <3>2, <4>1, <4>2
    <3> QED BY <3>1, <3>2
  <2> QED BY <2>2, <2>3 DEF ResultsMove
<1>4. CASE UNCHANGED <<trained, archived, sealed>>
  BY <1>4 DEF ResultsMove
<1> QED
  BY <1>2, <1>3, <1>4 DEF Step, Cleanup, PrepareDiscard, PrepareMkdir, PrepareCommit, AppendDecrypt,
     AppendWrite, AppendAdvance, FinalizeOpen, FinalizeExtract, FinalizeCommit, StartGpu,
     StartLaunch, StartRegister, StartCommit, MonitorFind, MonitorAttach, MonitorWait,
     MonitorEncrypting, MonitorReady, CancelMark, CloseNext, ClearDeks, PopProcess, KillProcess,
     LookForDirectory, EndCleanup, diskVars

LEMMA StepProcs ==
  ASSUME TypeOK, KeyInv, UniqueOK, RolesOK, NEW t \in Threads, Step(t)
  PROVE  ProcsMove(t)
<1>1. CASE StartLaunch(t)
  <2>1. CASE /\ process' = [process EXCEPT ![frame[t].worker] = "running"]
             /\ runs'    = [runs EXCEPT ![frame[t].worker] = frame[t].job]
             /\ Goto(t, "register")
    BY <1>1, <2>1, GotoMoves DEF StartLaunch, ProcsMove, Launches, Continues, At
  <2>2. CASE Fail(t) /\ UNCHANGED <<process, runs>>
    BY <1>1, <2>2, FailMoves DEF StartLaunch, ProcsMove, Launches, Cleans, At
  <2> QED BY <1>1, <2>1, <2>2 DEF StartLaunch
<1>2. CASE PopProcess(t)
  BY <1>2 DEF PopProcess, ProcsMove, Launches, At
<1>3. CASE KillProcess(t)
  BY <1>3 DEF KillProcess, ProcsMove, Launches, At
<1>4. CASE StartRegister(t)
  BY <1>4 DEF StartRegister, ProcsMove, Launches, At
<1>5. CASE /\ frame[t].pc \notin {"launch", "register", "pop", "kill"}
           /\ UNCHANGED procVars
  BY <1>5 DEF ProcsMove, Launches, At, procVars
<1> QED
  BY <1>1, <1>2, <1>3, <1>4, <1>5 DEF Step, Cleanup, PrepareDiscard, PrepareMkdir, PrepareCommit,
     AppendDecrypt, AppendWrite, AppendAdvance, FinalizeOpen, FinalizeExtract, FinalizeCommit,
     StartGpu, StartCommit, MonitorFind, MonitorAttach, MonitorWait, MonitorEncrypting,
     MonitorRead, MonitorSeal, MonitorTidy, MonitorReady, CancelMark, CloseNext, ClearDeks,
     LookForDirectory, WipeDirectory, EndCleanup, At

-----------------------------------------------------------------------------
(* What a request does.                                                     *)

\* t takes a request that concerns the job in the table under id
Begins(t, id) ==
  /\ Admits(t) /\ Known(id)
  /\ \A u \in Threads \ {t} : frame'[u] = frame[u]
  /\ frame'[t].job = current[id]
  /\ UNCHANGED <<jobVars, diskVars, procVars, todo>>
  /\ \/ /\ frame'[t].pc = "decrypt" /\ frame'[t].slot \in Slots /\ t = EventLoop
        /\ frame'[t].slot \notin finalized[current[id]]
        /\ received[current[id]][frame'[t].slot] < Chunks
        /\ status[current[id]] = "STAGING_INPUTS"
        /\ frame'[t].final = "none" /\ frame'[t].worker = None
     \/ /\ Cleans(t, current[id], "FAILED") /\ status[current[id]] = "STAGING_INPUTS" /\ t = EventLoop
     \/ /\ frame'[t].pc = "open" /\ frame'[t].slot \in Slots
        /\ frame'[t].slot \notin finalized[current[id]]
        /\ received[current[id]][frame'[t].slot] = Chunks
        /\ frame'[t].final = "none" /\ frame'[t].worker = None /\ t \in Requests
     \/ /\ frame'[t].pc = "gpu" /\ frame'[t].worker \in Workers /\ t \in Requests
        /\ status[current[id]] = "VALIDATING_INPUTS" /\ finalized[current[id]] = Slots
        /\ process[frame'[t].worker] = "none"
        /\ \A u \in Threads : frame[u].worker # frame'[t].worker
        /\ frame'[t].final = "none"
     \/ /\ frame'[t].pc = "cancel" /\ frame'[t].final = "CANCELLED" /\ frame'[t].worker = None
        /\ status[current[id]] \notin Over /\ t \in Requests
     \/ /\ frame'[t].pc = "pop" /\ frame'[t].final = "COMPLETED" /\ frame'[t].worker = None
        /\ status[current[id]] = "OUTPUT_READY" /\ t \in Requests

\* A request other than prepare_training_job begins so.
LEMMA RequestBegins ==
  ASSUME TypeOK, Request
  PROVE  \/ \E t \in Clients, id \in JobIds : Begins(t, id)
         \/ \E t \in Requests, id \in JobIds, o \in Objects : PrepareOpen(t, id, o)
<1>1. Clients \subseteq Threads /\ Requests \subseteq Clients /\ EventLoop \in Clients
  BY DEF Clients, Threads
<1>2. ASSUME NEW id \in JobIds, NEW s \in Slots, AppendCheck(id, s) PROVE Begins(EventLoop, id)
  <2>1. CASE Become(EventLoop, [Blank("decrypt") EXCEPT !.job = current[id], !.slot = s])
    <3>1. /\ frame'[EventLoop] = [Blank("decrypt") EXCEPT !.job = current[id], !.slot = s]
          /\ \A u \in Threads \ {EventLoop} : frame'[u] = frame[u]
      BY <1>1, <2>1, BecomeMoves
    <3>2. /\ frame'[EventLoop].pc = "decrypt" /\ frame'[EventLoop].job = current[id]
          /\ frame'[EventLoop].slot = s /\ frame'[EventLoop].final = "none"
          /\ frame'[EventLoop].worker = None
      BY <3>1 DEF Blank
    <3> QED BY <1>2, <3>1, <3>2 DEF AppendCheck, Begins
  <2>2. CASE Become(EventLoop, [Blank("clear") EXCEPT !.job = current[id], !.final = "FAILED"])
    <3>1. /\ Cleans(EventLoop, current[id], "FAILED")
          /\ \A u \in Threads \ {EventLoop} : frame'[u] = frame[u]
      BY <1>1, <2>2, CleanMoves, BecomeMoves
    <3>2. frame'[EventLoop].job = current[id]
      BY <3>1 DEF Cleans
    <3> QED BY <1>2, <3>1, <3>2 DEF AppendCheck, Begins
  <2> QED BY <1>2, <2>1, <2>2 DEF AppendCheck
<1>3. ASSUME NEW t \in Requests, NEW id \in JobIds, NEW s \in Slots, FinalizeCheck(t, id, s)
      PROVE  Begins(t, id)
  <2>1. /\ frame'[t] = [Blank("open") EXCEPT !.job = current[id], !.slot = s]
        /\ \A u \in Threads \ {t} : frame'[u] = frame[u]
    BY <1>1, <1>3, BecomeMoves DEF FinalizeCheck
  <2>2. /\ frame'[t].pc = "open" /\ frame'[t].job = current[id]
        /\ frame'[t].slot = s /\ frame'[t].final = "none" /\ frame'[t].worker = None
    BY <2>1 DEF Blank
  <2> QED BY <1>3, <2>1, <2>2 DEF FinalizeCheck, Begins
<1>4. ASSUME NEW t \in Requests, NEW id \in JobIds, NEW p \in Workers, StartCheck(t, id, p)
      PROVE  Begins(t, id)
  <2>1. /\ frame'[t] = [Blank("gpu") EXCEPT !.job = current[id], !.worker = p]
        /\ \A u \in Threads \ {t} : frame'[u] = frame[u]
    BY <1>1, <1>4, BecomeMoves DEF StartCheck
  <2>2. /\ frame'[t].pc = "gpu" /\ frame'[t].job = current[id]
        /\ frame'[t].worker = p /\ frame'[t].final = "none"
    BY <2>1 DEF Blank
  <2> QED BY <1>4, <2>1, <2>2 DEF StartCheck, Begins
<1>5. ASSUME NEW t \in Requests, NEW id \in JobIds, CancelCheck(t, id) PROVE Begins(t, id)
  <2>1. /\ frame'[t] = [Blank("cancel") EXCEPT !.job = current[id], !.final = "CANCELLED"]
        /\ \A u \in Threads \ {t} : frame'[u] = frame[u]
    BY <1>1, <1>5, BecomeMoves DEF CancelCheck
  <2>2. /\ frame'[t].pc = "cancel" /\ frame'[t].job = current[id]
        /\ frame'[t].final = "CANCELLED" /\ frame'[t].worker = None
    BY <2>1 DEF Blank
  <2> QED BY <1>5, <2>1, <2>2 DEF CancelCheck, Begins
<1>6. ASSUME NEW t \in Requests, NEW id \in JobIds, Acknowledge(t, id) PROVE Begins(t, id)
  <2>1. /\ frame'[t] = [Blank("pop") EXCEPT !.job = current[id], !.final = "COMPLETED"]
        /\ \A u \in Threads \ {t} : frame'[u] = frame[u]
    BY <1>1, <1>6, BecomeMoves DEF Acknowledge
  <2>2. /\ frame'[t].pc = "pop" /\ frame'[t].job = current[id]
        /\ frame'[t].final = "COMPLETED" /\ frame'[t].worker = None
    BY <2>1 DEF Blank
  <2> QED BY <1>6, <2>1, <2>2 DEF Acknowledge, Begins
<1> QED BY <1>1, <1>2, <1>3, <1>4, <1>5, <1>6 DEF Request

\* What prepare_training_job begins with.
LEMMA PrepareMoves ==
  ASSUME TypeOK, NEW t \in Requests, NEW id \in JobIds, NEW o \in Objects, PrepareOpen(t, id, o)
  PROVE  /\ frame'[t].job = o /\ frame'[t].final = "PREPARE" /\ frame'[t].pc \in {"pop", "discard"}
         /\ frame'[t].worker = None
         /\ \A u \in Threads \ {t} : frame'[u] = frame[u]
         /\ status'[o] = "opening" /\ owner'[o] = id
         /\ \A q \in Objects \ {o} : status'[q] = status[q] /\ owner'[q] = owner[q] /\ dek'[q] = dek[q]
<1>1. PICK opened \in SUBSET Slots :
        /\ dek' = [dek EXCEPT ![o] = opened]
        /\ Become(t, [Blank(IF opened = Slots THEN "pop" ELSE "discard")
                        EXCEPT !.job = o, !.final = "PREPARE"])
  BY DEF PrepareOpen
<1>2. /\ frame'[t] = [Blank(IF opened = Slots THEN "pop" ELSE "discard")
                        EXCEPT !.job = o, !.final = "PREPARE"]
      /\ \A u \in Threads \ {t} : frame'[u] = frame[u]
  BY <1>1, BecomeMoves DEF Threads
<1>3. /\ frame'[t].job = o /\ frame'[t].final = "PREPARE" /\ frame'[t].pc \in {"pop", "discard"}
      /\ frame'[t].worker = None
  BY <1>2 DEF Blank
<1>4. /\ status'[o] = "opening" /\ owner'[o] = id
      /\ \A q \in Objects \ {o} : status'[q] = status[q] /\ owner'[q] = owner[q] /\ dek'[q] = dek[q]
  BY <1>1 DEF PrepareOpen, TypeOK
<1> QED BY <1>2, <1>3, <1>4

\* close() begins when no request is in flight.
LEMMA CloseMoves ==
  ASSUME TypeOK, CloseBegin
  PROVE  Continues(Closer, "next") /\ Keeps(Closer)
         /\ \A u \in Threads \ {Closer} : frame'[u] = frame[u]
<1>1. Closer \in Threads /\ Become(Closer, [frame[Closer] EXCEPT !.pc = "next"])
  BY DEF CloseBegin, Goto, Threads
<1> QED BY <1>1, BecomeMoves, GotoMoves DEF CloseBegin

-----------------------------------------------------------------------------
(* The object of a job_id is unique.                                        *)

LEMMA RolesNext ==
  ASSUME TypeOK, KeyInv, UniqueOK, RolesOK, [Next]_vars PROVE RolesOK'
<1>1. ASSUME NEW t \in Threads, Step(t) PROVE RolesOK'
  <2>1. Moves(t) /\ Elsewhere(t)
    BY <1>1, StepMoves
  <2>2. ASSUME NEW u \in Threads
        PROVE  /\ frame'[u].pc \in Starting =>
                    u \in Requests /\ frame'[u].worker \in Workers /\ frame'[u].final = "none"
               /\ frame'[u].final \in {"SHUTDOWN", "COMPLETED"} =>
                    frame'[u].pc \in {"clear", "pop", "kill", "look", "wipe", "end"}
    <3>1. CASE u = t
      BY <2>1, <3>1 DEF Moves, Continues, LetsGo, Cleans, Keeps, RolesOK, At, Starting
    <3>2. CASE u # t
      BY <2>1, <3>2 DEF Elsewhere, RolesOK, Starting
    <3> QED BY <3>1, <3>2
  <2> QED BY <2>2 DEF RolesOK, Starting
<1>2. ASSUME NEW t \in Clients, NEW id \in JobIds, Begins(t, id) PROVE RolesOK'
  BY <1>2 DEF Begins, RolesOK, Cleans, Starting
<1>3. ASSUME NEW t \in Requests, NEW id \in JobIds, NEW o \in Objects, PrepareOpen(t, id, o)
      PROVE  RolesOK'
  BY <1>3, PrepareMoves DEF RolesOK, Starting
<1>4. CASE CloseBegin
  BY <1>4, CloseMoves DEF RolesOK, Continues, CloseBegin, At, Threads, Starting
<1>5. CASE frame' = frame
  BY <1>5 DEF RolesOK, Starting
<1> QED
  BY <1>1, <1>2, <1>3, <1>4, <1>5, RequestBegins
  DEF Next, Worker, WorkerWrites, WorkerSucceeds, WorkerFails, Stopped, vars

\* Under the premise that no job_id is prepared twice, the job_id of a new
\* object belongs to no other.
LEMMA FirstPrepare ==
  ASSUME MaxPrepares = 1, NEW t, NEW id, NEW o, PrepareOpen(t, id, o),
         NEW q \in Objects, status[q] # "unused"
  PROVE  owner[q] # id
<1> DEFINE S == {x \in Objects : status[x] # "unused" /\ owner[x] = id}
<1>1. IsFiniteSet(S) /\ Cardinality(S) \in Nat
  BY ObjectsFinite, FS_Subset, FS_CardinalityType
<1>2. Cardinality(S) < 1
  BY DEF PrepareOpen
<1>3. S = {}
  BY <1>1, <1>2, FS_EmptySet
<1> QED BY <1>3

LEMMA UniqueNext ==
  ASSUME TypeOK, KeyInv, UniqueOK, RolesOK, MaxPrepares = 1, [Next]_vars PROVE UniqueOK'
<1>1. ASSUME NEW t \in Threads, Step(t) PROVE UniqueOK'
  <2>1. JobsMove(t)
    BY <1>1, StepJobs
  <2>2. ASSUME NEW o \in Objects, status'[o] # "unused" PROVE status[o] # "unused"
    <3>1. CASE o # frame[t].job
      BY <2>1, <2>2, <3>1 DEF JobsMove
    <3>2. CASE o = frame[t].job
      BY <3>2, NoneDistinct DEF KeyInv, FrameOK
    <3> QED BY <3>1, <3>2
  <2>3. ASSUME NEW id \in JobIds, Known(id)' PROVE owner'[current'[id]] = id
    <3>1. CASE At(t, "commit") /\ id = Id(t)
      <4>1. current'[id] = frame[t].job
        BY <2>1, <3>1 DEF JobsMove, TypeOK
      <4> QED BY <2>1, <3>1, <4>1 DEF JobsMove, Id
    <3>2. CASE ~(At(t, "commit") /\ id = Id(t))
      <4>1. current'[id] = current[id]
        BY <2>1, <3>2 DEF JobsMove, TypeOK
      <4> QED BY <2>1, <2>3, <4>1 DEF JobsMove, UniqueOK, Known
    <3> QED BY <3>1, <3>2
  <2> QED BY <2>1, <2>2, <2>3 DEF UniqueOK, JobsMove
<1>2. ASSUME NEW t \in Requests, NEW id \in JobIds, NEW o \in Objects, PrepareOpen(t, id, o)
      PROVE  UniqueOK'
  <2>1. /\ owner'[o] = id /\ status[o] = "unused" /\ current' = current
        /\ \A q \in Objects \ {o} : status'[q] = status[q] /\ owner'[q] = owner[q]
    <3>1. status[o] = "unused" /\ current' = current
      BY <1>2 DEF PrepareOpen
    <3> QED BY <1>2, <3>1, PrepareMoves
  <2>2. \A q \in Objects : status[q] # "unused" => owner[q] # id
    BY <1>2, FirstPrepare
  <2>3. ASSUME NEW i \in JobIds, Known(i)' PROVE owner'[current'[i]] = i
    <3>1. Known(i) /\ current[i] \in Objects /\ current[i] # o
      BY <2>1, <2>3, KnownPublished DEF Known, Published
    <3> QED BY <2>1, <3>1 DEF UniqueOK
  <2>4. ASSUME NEW q \in Objects, NEW r \in Objects, status'[q] # "unused", status'[r] # "unused",
               owner'[q] = owner'[r]
        PROVE  q = r
    BY <2>1, <2>2, <2>4 DEF UniqueOK
  <2> QED BY <2>3, <2>4 DEF UniqueOK
<1>3. CASE UNCHANGED jobVars
  BY <1>3 DEF UniqueOK, Known, jobVars
<1> QED
  BY <1>1, <1>2, <1>3, RequestBegins
  DEF Next, Worker, WorkerWrites, WorkerSucceeds, WorkerFails, Stopped, vars, CloseBegin, Begins

-----------------------------------------------------------------------------
(* A start has a worker of its own.                                         *)

\* The worker a start is about to launch was never launched before, and is that
\* of no other start.
FreshOK ==
  /\ \A p \in Workers : process[p] = "none" => runs[p] = None
  /\ \A t \in Threads : frame[t].pc \in {"gpu", "launch"} => process[frame[t].worker] = "none"
  /\ \A t, u \in Threads :
       t # u /\ frame[t].pc \in {"gpu", "launch"} /\ frame[u].pc \in {"gpu", "launch"}
         => frame[t].worker # frame[u].worker

LEMMA FreshNext ==
  ASSUME TypeOK, KeyInv, UniqueOK, RolesOK, FreshOK, [Next]_vars PROVE FreshOK'
<1>1. ASSUME NEW t \in Threads, Step(t) PROVE FreshOK'
  <2>1. Moves(t) /\ Elsewhere(t) /\ ProcsMove(t)
    BY <1>1, StepMoves, StepProcs
  <2>2. ASSUME NEW u \in Threads, frame'[u].pc \in {"gpu", "launch"}
        PROVE  /\ frame[u].pc \in {"gpu", "launch"} /\ frame'[u].worker = frame[u].worker
               /\ frame[u].worker \in Workers /\ (u = t => ~Launches(t))
    <3>1. /\ frame[u].pc \in {"gpu", "launch"} /\ frame'[u].worker = frame[u].worker
          /\ u = t => ~Launches(t)
      <4>1. CASE u = t
        BY <2>1, <2>2, <4>1 DEF Moves, Continues, LetsGo, Cleans, Keeps, At, Launches
      <4>2. CASE u # t
        BY <2>1, <2>2, <4>2 DEF Elsewhere
      <4> QED BY <4>1, <4>2
    <3> QED BY <3>1 DEF RolesOK, Starting
  <2>3. ASSUME Launches(t)
        PROVE  \A p \in Workers \ {frame[t].worker} : process'[p] = process[p] /\ runs'[p] = runs[p]
    BY <2>1, <2>3 DEF ProcsMove, TypeOK
  <2>4. ASSUME Launches(t), frame[t].worker \in Workers PROVE process'[frame[t].worker] = "running"
    BY <2>1, <2>4 DEF ProcsMove, TypeOK
  <2>5. ASSUME ~Launches(t)
        PROVE  \A p \in Workers : (process'[p] = "none" <=> process[p] = "none") /\ runs'[p] = runs[p]
    BY <2>1, <2>5 DEF ProcsMove, TypeOK
  <2>6. \A p \in Workers : process'[p] = "none" => runs'[p] = None
    BY <2>3, <2>4, <2>5 DEF FreshOK
  <2>7. ASSUME NEW u \in Threads, frame'[u].pc \in {"gpu", "launch"}
        PROVE  process'[frame'[u].worker] = "none"
    BY <2>2, <2>3, <2>5, <2>7 DEF FreshOK, Launches, At
  <2> QED BY <2>2, <2>6, <2>7 DEF FreshOK
<1>2. ASSUME NEW t \in Clients, NEW id \in JobIds, Begins(t, id) PROVE FreshOK'
  <2>1. /\ UNCHANGED <<process, runs>> /\ \A u \in Threads \ {t} : frame'[u] = frame[u]
        /\ frame'[t].pc # "launch"
        /\ frame'[t].pc = "gpu" => /\ process[frame'[t].worker] = "none"
                                   /\ \A u \in Threads : frame[u].worker # frame'[t].worker
    BY <1>2 DEF Begins, procVars, Cleans
  <2> QED BY <2>1 DEF FreshOK
<1>3. ASSUME NEW t \in Requests, NEW id \in JobIds, NEW o \in Objects, PrepareOpen(t, id, o)
      PROVE  FreshOK'
  <2>1. UNCHANGED procVars
    BY <1>3 DEF PrepareOpen
  <2>2. frame'[t].pc \in {"pop", "discard"} /\ \A u \in Threads \ {t} : frame'[u] = frame[u]
    BY <1>3, PrepareMoves
  <2> QED BY <2>1, <2>2 DEF FreshOK, procVars
<1>4. CASE CloseBegin
  BY <1>4, CloseMoves DEF FreshOK, Continues, CloseBegin, procVars
<1>5. CASE Worker
  <2>1. \A p \in Workers : process'[p] = "none" <=> process[p] = "none"
    BY <1>5 DEF Worker, WorkerWrites, WorkerSucceeds, WorkerFails, TypeOK, procVars
  <2>2. runs' = runs /\ frame' = frame
    BY <1>5 DEF Worker, WorkerWrites, WorkerSucceeds, WorkerFails, procVars
  <2> QED BY <2>1, <2>2 DEF FreshOK, RolesOK, Starting
<1>6. CASE UNCHANGED vars
  BY <1>6 DEF FreshOK, vars, procVars
<1> QED BY <1>1, <1>2, <1>3, <1>4, <1>5, <1>6, RequestBegins DEF Next, Stopped

-----------------------------------------------------------------------------
(* Where results come from.                                                 *)

Monitoring == {"find", "attach", "wait", "encrypting", "read", "seal", "tidy", "ready"}

\* A job whose inputs are complete, or whose start, monitor or acknowledgement
\* is at work, has each input finalized; and finalizing closes the DEK.
CompleteOK ==
  /\ \A o \in Objects : dek[o] \cap finalized[o] = {}
  /\ \A o \in Objects : ~Published(o) => finalized[o] = {}
  /\ \A o \in Objects :
       status[o] \in {"VALIDATING_INPUTS", "RUNNING", "ENCRYPTING_OUTPUTS", "OUTPUT_READY", "COMPLETED"}
         => finalized[o] = Slots
  /\ \A t \in Threads :
       frame[t].pc \in Starting \cup Monitoring \/ frame[t].final = "COMPLETED"
         => finalized[frame[t].job] = Slots

\* p runs, or has run, for an object of id
RanFor(p, id) == runs[p] # None /\ owner[runs[p]] = id

\* Workers run for published objects, and what they leave under a job_id, in the
\* clear or encrypted, was made by a worker of that id.
ResultsOK ==
  /\ \A id \in JobIds :
       /\ trained[id] # None => RanFor(trained[id], id)
       /\ \A out \in Outputs :
            /\ archived[id][out] # None => RanFor(archived[id][out], id)
            /\ sealed[id][out] # None => RanFor(sealed[id][out], id)
  /\ \A p \in Workers : process[p] # "none" => runs[p] # None
  /\ \A p \in Workers : runs[p] # None => Published(runs[p])

\* The object is published after the step.
After(o) == status'[o] \notin {"unused", "opening"}

\* A published object stays so; only prepare_training_job publishes one.
LEMMA StaysPublished ==
  ASSUME TypeOK, KeyInv, NEW t \in Threads, JobsMove(t), NEW o \in Objects
  PROVE  /\ Published(o) => Published(o)'
         /\ Published(o)' => Published(o) \/ (At(t, "commit") /\ o = frame[t].job)
<1>1. FrameOK(frame[t], status, dek)
  BY DEF KeyInv
<1>2. CASE o # frame[t].job
  <2>1. status'[o] = status[o]
    BY <1>2 DEF JobsMove
  <2> QED BY <1>2, <2>1 DEF Published
<1>3. CASE o = frame[t].job
  <2>1. status'[o] = NewStatus(t) /\ o # None
    BY <1>3, NoneDistinct DEF JobsMove
  <2>2. At(t, "end") => frame[t].final # "PREPARE" /\ frame[t].final \in Finals
    BY <1>1, ThreadType DEF FrameOK, At
  <2>3. Published(o) => ~At(t, "discard")
    BY <1>1, <1>3, <2>1 DEF FrameOK, At, Published
  <2>4. ~Published(o) => frame[t].final = "PREPARE" /\ frame[t].pc \in
          {"discard", "pop", "kill", "look", "wipe", "mkdir", "commit"}
    BY <1>1, <1>3, <2>1 DEF FrameOK, Published
  <2> QED BY <1>3, <2>1, <2>2, <2>3, <2>4 DEF NewStatus, At, Published, Finals, Over
<1> QED BY <1>2, <1>3

\* CompleteOK is kept.
LEMMA CompleteNext ==
  ASSUME TypeOK, KeyInv, UniqueOK, RolesOK, CompleteOK, [Next]_vars PROVE CompleteOK'
<1>1. ASSUME NEW t \in Threads, Step(t) PROVE CompleteOK'
  <2> DEFINE o == frame[t].job
  <2>1. Moves(t) /\ Elsewhere(t) /\ JobsMove(t)
    BY <1>1, StepMoves, StepJobs
  <2>2. ASSUME NEW q \in Objects
        PROVE  /\ dek'[q] \subseteq dek[q]
               /\ finalized[q] \subseteq finalized'[q]
               /\ q # o \/ ~At(t, "finalize") => finalized'[q] = finalized[q]
               /\ q = o /\ At(t, "finalize") => finalized'[q] = finalized[q] \cup {frame[t].slot}
               /\ q = o /\ At(t, "finalize") => frame[t].slot \notin dek'[q]
    BY <2>1 DEF JobsMove
  <2>3. \A q \in Objects : dek'[q] \cap finalized'[q] = {}
    BY <2>2 DEF CompleteOK
  <2>4. ASSUME NEW q \in Objects, ~Published(q)' PROVE finalized'[q] = {}
    <3>1. ~Published(q)
      BY <2>1, <2>4, StaysPublished
    <3>2. q # o \/ frame[t].pc # "finalize"
      BY <3>1, Handling
    <3> QED BY <2>1, <2>2, <3>1, <3>2 DEF CompleteOK, JobsMove, At
  <2>5. ASSUME NEW q \in Objects,
               status'[q] \in {"VALIDATING_INPUTS", "RUNNING", "ENCRYPTING_OUTPUTS",
                               "OUTPUT_READY", "COMPLETED"}
        PROVE  finalized'[q] = Slots
    <3>1. CASE status'[q] = status[q]
      <4>1. finalized[q] = Slots /\ finalized'[q] \subseteq Slots
        BY <2>5, <3>1, TypeStep, <1>1 DEF CompleteOK, TypeOK, Next
      <4> QED BY <2>2, <4>1
    <3>2. CASE status'[q] # status[q]
      <4>1. q = o /\ status'[q] = NewStatus(t)
        BY <2>1, <3>2 DEF JobsMove
      <4>2. CASE At(t, "finalize")
        BY <2>2, <2>5, <3>2, <4>1, <4>2 DEF NewStatus, At
      <4>3. CASE frame[t].pc \in {"started", "encrypting", "ready"} \/ frame[t].final = "COMPLETED"
        <5>1. finalized[q] = Slots /\ finalized'[q] \subseteq Slots
          BY <4>1, <4>3, TypeStep, <1>1 DEF CompleteOK, TypeOK, Next, Monitoring, Starting
        <5> QED BY <2>2, <5>1
      <4>4. frame[t].final \in Finals
        BY ThreadType
      <4> QED BY <2>5, <3>2, <4>1, <4>2, <4>3, <4>4 DEF NewStatus, At, Finals, Over
    <3> QED BY <3>1, <3>2
  <2>6. ASSUME NEW u \in Threads,
               frame'[u].pc \in Starting \cup Monitoring \/ frame'[u].final = "COMPLETED"
        PROVE  finalized'[frame'[u].job] = Slots
    <3>1. PICK v \in Threads :
            /\ frame[v].pc \in Starting \cup Monitoring \/ frame[v].final = "COMPLETED"
            /\ frame'[u].job = frame[v].job /\ frame[v].job \in Objects
      <4>1. CASE u # t /\ frame'[u] = frame[u]
        BY <2>6, <4>1, Holding DEF Monitoring, RolesOK, Starting
      <4>2. CASE u # t /\ frame'[u] # frame[u]
        BY <2>1, <4>2, Handling DEF Elsewhere, At, Starting
      <4>3. CASE u = t
        <5>1. /\ frame[t].pc \in Starting \cup Monitoring \/ frame[t].final = "COMPLETED"
              /\ frame'[t].job = frame[t].job
          BY <2>1, <2>6, <4>3 DEF Moves, Continues, LetsGo, Cleans, Monitoring, At, Starting
        <5>2. frame[t].job \in Objects
          BY <5>1, Holding DEF Monitoring, RolesOK, Starting
        <5> QED BY <4>3, <5>1, <5>2
      <4> QED BY <4>1, <4>2, <4>3
    <3>2. finalized[frame[v].job] = Slots /\ finalized'[frame[v].job] \subseteq Slots
      BY <3>1, TypeStep, <1>1 DEF CompleteOK, TypeOK, Next
    <3> QED BY <2>2, <3>1, <3>2
  <2> QED BY <2>3, <2>4, <2>5, <2>6 DEF CompleteOK
<1>2. ASSUME NEW t \in Clients, NEW id \in JobIds, Begins(t, id) PROVE CompleteOK'
  <2>1. current[id] \in Objects /\ UNCHANGED <<dek, finalized, status>>
    BY <1>2, KnownPublished DEF Begins, jobVars
  <2>2. ASSUME NEW u \in Threads,
               frame'[u].pc \in Starting \cup Monitoring \/ frame'[u].final = "COMPLETED"
        PROVE  finalized[frame'[u].job] = Slots
    BY <1>2, <2>1, <2>2 DEF Begins, Cleans, CompleteOK, Monitoring, Starting
  <2> QED BY <2>1, <2>2 DEF CompleteOK, Published
<1>3. ASSUME NEW t \in Requests, NEW id \in JobIds, NEW o \in Objects, PrepareOpen(t, id, o)
      PROVE  CompleteOK'
  <2>1. status[o] = "unused" /\ finalized' = finalized
    BY <1>3 DEF PrepareOpen
  <2>2. finalized[o] = {}
    BY <2>1 DEF CompleteOK, Published
  <2>3. /\ frame'[t].final = "PREPARE" /\ frame'[t].pc \in {"pop", "discard"}
        /\ \A u \in Threads \ {t} : frame'[u] = frame[u]
        /\ status'[o] = "opening"
        /\ \A q \in Objects \ {o} : status'[q] = status[q] /\ dek'[q] = dek[q]
    BY <1>3, PrepareMoves
  <2>4. \A u \in Threads :
           frame'[u].pc \in Starting \cup Monitoring \/ frame'[u].final = "COMPLETED"
             => finalized'[frame'[u].job] = Slots
    BY <2>1, <2>3 DEF CompleteOK, Monitoring, Starting
  <2>5. ASSUME NEW q \in Objects
        PROVE  /\ dek'[q] \cap finalized'[q] = {}
               /\ ~Published(q)' => finalized'[q] = {}
               /\ status'[q] \in {"VALIDATING_INPUTS", "RUNNING", "ENCRYPTING_OUTPUTS",
                                  "OUTPUT_READY", "COMPLETED"} => finalized'[q] = Slots
    BY <2>1, <2>2, <2>3 DEF CompleteOK, Published
  <2> QED BY <2>4, <2>5 DEF CompleteOK
<1>4. CASE CloseBegin
  <2>1. \A u \in Threads :
           /\ frame'[u].pc = frame[u].pc \/ frame'[u].pc = "next"
           /\ frame'[u].job = frame[u].job /\ frame'[u].final = frame[u].final
    BY <1>4, CloseMoves DEF Continues
  <2> QED BY <1>4, <2>1 DEF CompleteOK, CloseBegin, jobVars, Published, Monitoring, Starting
<1>5. CASE UNCHANGED <<jobVars, frame>>
  BY <1>5 DEF CompleteOK, Published, jobVars
<1> QED
  BY <1>1, <1>2, <1>3, <1>4, <1>5, RequestBegins
  DEF Next, Worker, WorkerWrites, WorkerSucceeds, WorkerFails, Stopped, vars

\* A worker that ran for an object goes on to do so, when nobody gives it another
\* object and the published ones stay what they are.
LEMMA ResultsKept ==
  ASSUME TypeOK, ResultsOK,
         \A p \in Workers : runs[p] # None => runs'[p] = runs[p],
         \A o \in Objects : Published(o) => After(o) /\ owner'[o] = owner[o],
         \A p \in Workers : runs[p] = None /\ runs'[p] # None => After(runs'[p]),
         \A p \in Workers : process'[p] # "none" => runs'[p] # None,
         \A id \in JobIds : trained'[id] \in {trained[id], None} \cup {p \in Workers : RanFor(p, id)},
         \A id \in JobIds : \A out \in Outputs :
           /\ archived'[id][out] \in {archived[id][out], trained[id], None}
           /\ sealed'[id][out] \in {sealed[id][out], archived[id][out], None}
  PROVE  ResultsOK'
<1>1. ASSUME NEW p \in Workers, runs[p] # None
      PROVE  runs'[p] = runs[p] /\ After(runs[p]) /\ owner'[runs[p]] = owner[runs[p]]
  <2>1. runs[p] \in Objects /\ Published(runs[p])
    BY <1>1 DEF TypeOK, ResultsOK
  <2> QED BY <1>1, <2>1
<1> DEFINE RansFor(p, id) == runs'[p] # None /\ owner'[runs'[p]] = id
<1>2. ASSUME NEW p \in Workers, NEW id \in JobIds, RanFor(p, id) PROVE RansFor(p, id)
  BY <1>1, <1>2 DEF RanFor
<1> HIDE DEF RansFor
<1>3. ASSUME NEW id \in JobIds
      PROVE  /\ trained[id] \in Workers \cup {None}
             /\ trained[id] # None => RanFor(trained[id], id)
  BY DEF TypeOK, ResultsOK
<1>4. ASSUME NEW id \in JobIds, NEW out \in Outputs
      PROVE  /\ archived[id][out] \in Workers \cup {None} /\ sealed[id][out] \in Workers \cup {None}
             /\ archived[id][out] # None => RanFor(archived[id][out], id)
             /\ sealed[id][out] # None => RanFor(sealed[id][out], id)
  BY DEF TypeOK, ResultsOK
<1>5. \A id \in JobIds : trained'[id] # None => RansFor(trained'[id], id)
  BY <1>2, <1>3
<1>6. ASSUME NEW id \in JobIds, NEW out \in Outputs
      PROVE  /\ archived'[id][out] # None => RansFor(archived'[id][out], id)
             /\ sealed'[id][out] # None => RansFor(sealed'[id][out], id)
  BY <1>2, <1>3, <1>4
<1>7. \A p \in Workers : runs'[p] # None => After(runs'[p])
  BY <1>1
<1> QED BY <1>5, <1>6, <1>7 DEF ResultsOK, RanFor, RansFor, Published, After

\* ResultsOK is kept.
LEMMA ResultsNext ==
  ASSUME TypeOK, KeyInv, UniqueOK, RolesOK, CompleteOK, FreshOK, ResultsOK, [Next]_vars
  PROVE  ResultsOK'
<1>1. ASSUME NEW t \in Threads, Step(t) PROVE ResultsOK'
  <2>1. JobsMove(t) /\ ResultsMove(t) /\ ProcsMove(t)
    BY <1>1, StepJobs, StepResults, StepProcs
  <2>2. \A o \in Objects : Published(o) => After(o) /\ owner'[o] = owner[o]
    BY <2>1, StaysPublished DEF JobsMove, Published, After
  <2>3. CASE Launches(t)
    <3>1. /\ frame[t].worker \in Workers /\ runs[frame[t].worker] = None
          /\ frame[t].job \in Objects /\ Published(frame[t].job) /\ frame[t].job # None
      BY <2>3, Handling, NoneDistinct DEF Launches, At, RolesOK, Starting, FreshOK
    <3>2. \A p \in Workers :
            /\ runs'[p] = IF p = frame[t].worker THEN frame[t].job ELSE runs[p]
            /\ p # frame[t].worker => process'[p] = process[p]
      BY <2>1, <2>3 DEF ProcsMove, TypeOK
    <3>3. \A p \in Workers : process'[p] # "none" => runs'[p] # None
      BY <3>1, <3>2 DEF ResultsOK
    <3> QED BY <2>1, <2>2, <3>1, <3>2, <3>3, ResultsKept DEF ResultsMove
  <2>4. CASE ~Launches(t)
    <3>1. runs' = runs /\ \A p \in Workers : process'[p] # "none" => process[p] # "none"
      BY <2>1, <2>4 DEF ProcsMove, TypeOK
    <3>2. \A p \in Workers : process'[p] # "none" => runs'[p] # None
      BY <3>1 DEF ResultsOK
    <3> QED BY <2>1, <2>2, <3>1, <3>2, ResultsKept DEF ResultsMove
  <2> QED BY <2>3, <2>4
<1>2. ASSUME UNCHANGED <<diskVars, procVars>>,
             \A o \in Objects : Published(o) => After(o) /\ owner'[o] = owner[o]
      PROVE  ResultsOK'
  <2>1. \A p \in Workers : process'[p] # "none" => runs'[p] # None
    BY <1>2 DEF ResultsOK, procVars
  <2> QED BY <1>2, <2>1, ResultsKept DEF diskVars, procVars
<1>3. ASSUME NEW t \in Clients, NEW id \in JobIds, Begins(t, id) PROVE ResultsOK'
  BY <1>2, <1>3 DEF Begins, jobVars, Published, After
<1>4. ASSUME NEW t \in Requests, NEW id \in JobIds, NEW o \in Objects, PrepareOpen(t, id, o)
      PROVE  ResultsOK'
  <2>1. ~Published(o) /\ UNCHANGED <<diskVars, procVars>>
    BY <1>4 DEF PrepareOpen, Published
  <2>2. \A q \in Objects \ {o} : status'[q] = status[q] /\ owner'[q] = owner[q]
    BY <1>4, PrepareMoves
  <2>3. \A q \in Objects : Published(q) => After(q) /\ owner'[q] = owner[q]
    BY <2>1, <2>2 DEF Published, After
  <2> QED BY <1>2, <2>1, <2>3
<1>5. CASE CloseBegin
  BY <1>2, <1>5 DEF CloseBegin, jobVars, Published, After
<1>6. CASE UNCHANGED vars
  BY <1>2, <1>6 DEF vars, jobVars, Published, After
<1>7. ASSUME NEW p \in Workers, WorkerWrites(p) \/ WorkerSucceeds(p) \/ WorkerFails(p)
      PROVE  ResultsOK'
  <2>1. process[p] = "running" /\ runs[p] # None /\ UNCHANGED <<jobVars, runs, archived, sealed>>
    BY <1>7 DEF WorkerWrites, WorkerSucceeds, WorkerFails, ResultsOK, diskVars, procVars
  <2>2. \A w \in Workers : process'[w] # "none" => process[w] # "none"
    BY <1>7, <2>1 DEF WorkerWrites, WorkerSucceeds, WorkerFails, TypeOK, procVars
  <2>3. \A id \in JobIds : trained'[id] \in {trained[id], None} \cup {w \in Workers : RanFor(w, id)}
    BY <1>7, <2>1 DEF WorkerWrites, WorkerSucceeds, WorkerFails, TypeOK, RanFor, diskVars
  <2>4. \A w \in Workers : process'[w] # "none" => runs'[w] # None
    BY <2>1, <2>2 DEF ResultsOK
  <2> QED BY <2>1, <2>3, <2>4, ResultsKept DEF jobVars, Published, After
<1> QED
  BY <1>1, <1>3, <1>4, <1>5, <1>6, <1>7, RequestBegins DEF Next, Worker, Stopped

-----------------------------------------------------------------------------
ResultInv == TypeOK /\ KeyInv /\ UniqueOK /\ RolesOK /\ CompleteOK /\ FreshOK /\ ResultsOK

\* All of it holds initially.
LEMMA ResultInit ==
  ASSUME Init PROVE ResultInv
<1>1. TypeOK /\ KeyInv
  BY InvInit
<1>2. \A t \in Threads : frame[t].pc = "idle" /\ frame[t].final = "none"
  BY DEF Init, Blank
<1>3. UniqueOK
  BY DEF Init, UniqueOK, Known
<1>4. RolesOK
  BY <1>2 DEF RolesOK, Starting
<1>5. CompleteOK
  BY <1>2 DEF Init, CompleteOK, Monitoring, Starting
<1>6. FreshOK
  BY <1>2 DEF Init, FreshOK
<1>7. ResultsOK
  BY DEF Init, ResultsOK, NoOutputs
<1> QED BY <1>1, <1>3, <1>4, <1>5, <1>6, <1>7 DEF ResultInv

\* And in every reachable state, when no job_id is prepared twice.
LEMMA ResultHolds == ASSUME MaxPrepares = 1 PROVE Spec => []ResultInv
<1>1. Init => ResultInv
  BY ResultInit
<1>2. ResultInv /\ [Next]_vars => ResultInv'
  BY TypeStep, KeyInvStep, UniqueNext, RolesNext, CompleteNext, FreshNext, ResultsNext
  DEF ResultInv
<1> QED BY <1>1, <1>2, PTL DEF Spec

\* A job whose result is ready or was acknowledged holds no open DEK: it was
\* started only with every input finalized, and that closes its DEK
\* (service.py finalize_training_input, start_training_job).
THEOREM DeliveredKeysCleared == ASSUME MaxPrepares = 1 PROVE Spec => []DeksClearedWhenDelivered
<1>1. ResultInv => DeksClearedWhenDelivered
  <2> SUFFICES ASSUME ResultInv, NEW id \in JobIds, Known(id),
                      status[current[id]] \in {"OUTPUT_READY", "COMPLETED"}
               PROVE  dek[current[id]] = {}
    BY DEF DeksClearedWhenDelivered
  <2>1. current[id] \in Objects /\ finalized[current[id]] = Slots
    BY KnownPublished DEF ResultInv, CompleteOK
  <2>2. dek[current[id]] \subseteq Slots /\ dek[current[id]] \cap Slots = {}
    BY <2>1 DEF ResultInv, CompleteOK, TypeOK
  <2> QED BY <2>2
<1> QED BY <1>1, ResultHolds, PTL
=============================================================================
