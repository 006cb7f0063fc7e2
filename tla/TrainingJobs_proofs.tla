----------------------- MODULE TrainingJobs_proofs -----------------------
(* Type correctness of TrainingJobs and the clearing of the DEKs, when a    *)
(* job is over and when close() returns, for every set of job_ids, objects, *)
(* workers and threads and every bound.                                     *)
(*                                                                          *)
(* TypeOK and KeyInv are proved inductive together.  A step of a handler    *)
(* changes the local state of one thread and does to the jobs no more than  *)
(* JobsStep says; KeyStep turns this into KeyInv', so that each action is a  *)
(* question about one local state.  Only the three actions of a preparation *)
(* that publish or drop an object (PrepareOpen, PrepareDiscard and          *)
(* PrepareCommit) are argued conjunct by conjunct.                          *)
EXTENDS TrainingJobs, TLAPS

-----------------------------------------------------------------------------
(* Types.                                                                   *)

\* A thread that holds nothing yet has a well-typed local state.
LEMMA BlankType ==
  ASSUME NEW l \in Labels PROVE Blank(l) \in Frame
  BY DEF Blank, Frame, Finals

\* What TypeOK says of the local state of one thread.
LEMMA ThreadType ==
  ASSUME TypeOK, NEW t \in Threads
  PROVE  /\ frame[t] \in Frame
         /\ frame[t].job \in Objects \cup {None}
         /\ frame[t].slot \in Slots \cup Outputs \cup {None}
         /\ frame[t].worker \in Workers \cup {None}
         /\ frame[t].final \in Finals
         /\ frame[t].data \in Seq(Chunk)
         /\ frame[t].made \in 0 .. 3
  BY DEF TypeOK, Frame

\* A thread inside a handler holds a job, and the job has a job_id.
LEMMA Holding ==
  ASSUME TypeOK, KeyInv, NEW t \in Threads,
         frame[t].pc \notin {"idle", "dead", "next", "closed", "aborted"}
  PROVE  frame[t].job \in Objects /\ Id(t) \in JobIds
<1>1. frame[t].job \in Objects
  BY ThreadType DEF KeyInv, FrameOK
<1>2. status[frame[t].job] # "unused"
  BY <1>1 DEF KeyInv, FrameOK, Published
<1> QED BY <1>1, <1>2 DEF KeyInv, Id

\* A thread that handles an input knows which one.
LEMMA HoldingSlot ==
  ASSUME TypeOK, KeyInv, NEW t \in Threads,
         frame[t].pc \in {"decrypt", "write", "advance", "open", "extract", "finalize"}
  PROVE  frame[t].slot \in Slots
  BY ThreadType DEF KeyInv, FrameOK

\* A monitor that encrypts knows which output.
LEMMA HoldingOutput ==
  ASSUME TypeOK, KeyInv, NEW t \in Threads, frame[t].pc \in {"read", "seal"}
  PROVE  frame[t].slot \in Outputs
  BY ThreadType DEF KeyInv, FrameOK

\* Replacing one entry of a table of chunk sequences keeps its type.
LEMMA SlotUpdate ==
  ASSUME NEW f \in [JobIds -> [Slots -> Seq(Chunk)]], NEW id \in JobIds, NEW s \in Slots,
         NEW q \in Seq(Chunk)
  PROVE  [f EXCEPT ![id][s] = q] \in [JobIds -> [Slots -> Seq(Chunk)]]
<1>1. [f[id] EXCEPT ![s] = q] \in [Slots -> Seq(Chunk)]
  OBVIOUS
<1> QED BY <1>1

\* The wiped inputs of a job are well typed.
LEMMA EmptySeq == <<>> \in Seq(Chunk) /\ EmptyInputs \in [Slots -> Seq(Chunk)]
  BY DEF EmptyInputs

\* The same of a table of workers by output.
LEMMA OutputUpdate ==
  ASSUME NEW f \in [JobIds -> [Outputs -> Workers \cup {None}]], NEW id \in JobIds,
         NEW out \in Outputs, NEW p \in Workers \cup {None}
  PROVE  [f EXCEPT ![id][out] = p] \in [JobIds -> [Outputs -> Workers \cup {None}]]
<1>1. [f[id] EXCEPT ![out] = p] \in [Outputs -> Workers \cup {None}]
  OBVIOUS
<1> QED BY <1>1

\* What is on disk has its type.
DiskOK ==
  /\ folders  \in [JobIds -> SUBSET Folders]
  /\ package  \in [JobIds -> [Slots -> Seq(Chunk)]]
  /\ unpacked \in [JobIds -> SUBSET Slots]
  /\ input    \in [JobIds -> [Slots -> Seq(Chunk)]]
  /\ trained  \in [JobIds -> Workers \cup {None}]
  /\ archived \in [JobIds -> [Outputs -> Workers \cup {None}]]
  /\ sealed   \in [JobIds -> [Outputs -> Workers \cup {None}]]

\* What is left of a directory that is being removed is well typed.
LEMMA RemainsType ==
  ASSUME TypeOK, NEW id \in JobIds, NEW left \in SUBSET Folders, NEW kept, Remains(id, left, kept)
  PROVE  DiskOK'
<1>1. EmptyInputs \in [Slots -> Seq(Chunk)] /\ NoOutputs \in [Outputs -> Workers \cup {None}]
  BY EmptySeq DEF NoOutputs
<1>2. folders' \in [JobIds -> SUBSET Folders]
  BY DEF TypeOK, Remains
<1>3. package' \in [JobIds -> [Slots -> Seq(Chunk)]] /\ unpacked' \in [JobIds -> SUBSET Slots]
  BY <1>1 DEF TypeOK, Remains
<1>4. input' \in [JobIds -> [Slots -> Seq(Chunk)]] /\ trained' \in [JobIds -> Workers \cup {None}]
  BY <1>1 DEF TypeOK, Remains
<1>5. archived' \in [JobIds -> [Outputs -> Workers \cup {None}]]
  BY <1>1 DEF TypeOK, Remains
<1>6. sealed' \in [JobIds -> [Outputs -> Workers \cup {None}]]
  BY <1>1 DEF TypeOK, Remains
<1> QED BY <1>2, <1>3, <1>4, <1>5, <1>6 DEF DiskOK

\* So it is when the removal was interrupted half way.
LEMMA InterruptedType ==
  ASSUME TypeOK, NEW t \in Threads, Id(t) \in JobIds, NEW tree \in SUBSET Folders,
         Interrupted(t, tree)
  PROVE  DiskOK'
<1>1. folders[Id(t)] \in SUBSET Folders
  BY DEF TypeOK
<1>2. PICK f \in Touched(t) \cap tree, left \in SUBSET (folders[Id(t)] \cap tree) :
        Remains(Id(t), (folders[Id(t)] \ tree) \cup left \cup {f}, (folders[Id(t)] \ tree) \cup left)
  BY DEF Interrupted
<1>3. (folders[Id(t)] \ tree) \cup left \cup {f} \in SUBSET Folders
  BY <1>1, <1>2
<1> QED BY <1>2, <1>3, RemainsType

\* A thread that takes on a well-typed local state leaves frame well typed.
LEMMA BecomeType ==
  ASSUME TypeOK, NEW t, NEW f \in Frame, Become(t, f)
  PROVE  frame' \in [Threads -> Frame]
  BY DEF TypeOK, Become

\* A step to another label leaves frame well typed.
LEMMA GotoType ==
  ASSUME TypeOK, NEW t \in Threads, NEW l \in Labels, Goto(t, l)
  PROVE  frame' \in [Threads -> Frame]
<1>1. [frame[t] EXCEPT !.pc = l] \in Frame
  BY ThreadType DEF Frame
<1> QED BY <1>1, BecomeType DEF Goto

\* A thread that returns leaves frame well typed.
LEMMA LeaveType ==
  ASSUME TypeOK, NEW t \in Threads, Leave(t)
  PROVE  frame' \in [Threads -> Frame]
<1>1. Rest(t) \in Frame
  BY BlankType DEF Rest, Labels
<1> QED BY <1>1, BecomeType DEF Leave

\* A thread that enters _fail_training_job leaves frame well typed.
LEMMA FailType ==
  ASSUME TypeOK, NEW t \in Threads, Fail(t)
  PROVE  frame' \in [Threads -> Frame]
<1>1. Blank("clear") \in Frame
  BY BlankType DEF Labels
<1>2. [Blank("clear") EXCEPT !.job = frame[t].job, !.final = "FAILED"] \in Frame
  BY <1>1 DEF TypeOK, Frame, Finals, Over
<1> QED BY <1>2, BecomeType DEF Fail

\* A cleanup that raises leaves frame well typed.
LEMMA RaiseType ==
  ASSUME TypeOK, NEW t \in Threads, CleanupRaises(t)
  PROVE  frame' \in [Threads -> Frame]
<1>1. Blank("aborted") \in Frame /\ "discard" \in Labels
  BY BlankType DEF Labels
<1> QED BY <1>1, BecomeType, GotoType, LeaveType DEF CleanupRaises

\* Every step of every thread keeps the types.  KeyInv is needed because a
\* handler indexes the tables by the job and the slot its thread holds.
LEMMA TypeStep ==
  ASSUME TypeOK, KeyInv, [Next]_vars PROVE TypeOK'
<1>1. ASSUME NEW t \in Threads, PrepareDiscard(t) PROVE TypeOK'
  <2>1. frame[t].job \in Objects /\ Id(t) \in JobIds
    BY <1>1, Holding DEF PrepareDiscard, At
  <2>2. frame' \in [Threads -> Frame]
    BY <1>1, LeaveType DEF PrepareDiscard, Labels
  <2>3. dek' \in [Objects -> SUBSET Slots]
    BY <1>1, <2>1, ThreadType DEF TypeOK, PrepareDiscard, jobVars
  <2>4. status' \in [Objects -> Status]
    BY <1>1, <2>1, ThreadType DEF TypeOK, PrepareDiscard, Status, Over, jobVars
  <2> QED BY <1>1, <2>2, <2>3, <2>4 DEF TypeOK, PrepareDiscard, jobVars, diskVars, procVars
<1>2. ASSUME NEW t \in Threads, PrepareMkdir(t) PROVE TypeOK'
  <2>1. frame[t].job \in Objects /\ Id(t) \in JobIds
    BY <1>2, Holding DEF PrepareMkdir, At
  <2>2. frame[t].made # 3 => [frame[t] EXCEPT !.made = @ + 1] \in Frame
    BY ThreadType DEF Frame
  <2>3. frame' \in [Threads -> Frame]
    BY <1>2, <2>2, BecomeType, GotoType DEF PrepareMkdir, Labels
  <2>4. FolderOrder[frame[t].made + 1] \in Folders
    BY ThreadType DEF FolderOrder, Folders
  <2>5. folders \in [JobIds -> SUBSET Folders]
    BY DEF TypeOK
  <2>6. [folders EXCEPT ![Id(t)] = @ \cup {FolderOrder[frame[t].made + 1]}]
           \in [JobIds -> SUBSET Folders]
    BY <2>1, <2>4, <2>5
  <2>7. folders' \in [JobIds -> SUBSET Folders]
    BY <1>2, <2>5, <2>6 DEF PrepareMkdir
  <2> QED BY <1>2, <2>3, <2>7 DEF TypeOK, PrepareMkdir, jobVars, diskVars, procVars
<1>3. ASSUME NEW t \in Threads, PrepareCommit(t) PROVE TypeOK'
  <2>1. frame[t].job \in Objects /\ Id(t) \in JobIds
    BY <1>3, Holding DEF PrepareCommit, At
  <2>2. frame' \in [Threads -> Frame]
    BY <1>3, LeaveType DEF PrepareCommit, Labels
  <2>3. current' \in [JobIds -> Objects \cup {None}]
    BY <1>3, <2>1, ThreadType DEF TypeOK, PrepareCommit, jobVars
  <2>4. status' \in [Objects -> Status]
    BY <1>3, <2>1, ThreadType DEF TypeOK, PrepareCommit, Status, Over, jobVars
  <2> QED BY <1>3, <2>2, <2>3, <2>4 DEF TypeOK, PrepareCommit, jobVars, diskVars, procVars
<1>4. ASSUME NEW t \in Threads, AppendDecrypt(t) PROVE TypeOK'
  <2>1. frame' \in [Threads -> Frame]
    BY <1>4, GotoType, LeaveType, FailType DEF AppendDecrypt, Labels
  <2> QED BY <1>4, <2>1 DEF TypeOK, AppendDecrypt, jobVars, diskVars, procVars
<1>5. ASSUME NEW t \in Threads, AppendWrite(t) PROVE TypeOK'
  <2>1. frame[t].job \in Objects /\ Id(t) \in JobIds /\ frame[t].slot \in Slots
    BY <1>5, Holding, HoldingSlot DEF AppendWrite, At
  <2>2. frame' \in [Threads -> Frame]
    BY <1>5, GotoType, FailType DEF AppendWrite, Labels
  <2>3. package \in [JobIds -> [Slots -> Seq(Chunk)]]
    BY DEF TypeOK
  <2>4. <<frame[t].job, received[frame[t].job][frame[t].slot] + 1>> \in Chunk
    BY <2>1 DEF TypeOK, Chunk
  <2>5. Append(package[Id(t)][frame[t].slot], <<frame[t].job, received[frame[t].job][frame[t].slot] + 1>>) \in Seq(Chunk)
    BY <2>1, <2>3, <2>4
  <2>6. [package EXCEPT ![Id(t)][frame[t].slot] = Append(@, <<frame[t].job, received[frame[t].job][frame[t].slot] + 1>>)] \in [JobIds -> [Slots -> Seq(Chunk)]]
    BY <2>1, <2>3, <2>4, <2>5, SlotUpdate, EmptySeq
  <2>7. \/ package' = [package EXCEPT ![Id(t)][frame[t].slot] = Append(@, <<frame[t].job, received[frame[t].job][frame[t].slot] + 1>>)]
        \/ package' = package
    BY <1>5 DEF AppendWrite
  <2>8. package' \in [JobIds -> [Slots -> Seq(Chunk)]]
    BY <2>3, <2>6, <2>7
  <2> QED BY <1>5, <2>2, <2>8 DEF TypeOK, AppendWrite, jobVars, diskVars, procVars
<1>6. ASSUME NEW t \in Threads, AppendAdvance(t) PROVE TypeOK'
  <2>1. frame[t].job \in Objects /\ Id(t) \in JobIds /\ frame[t].slot \in Slots
    BY <1>6, Holding, HoldingSlot DEF AppendAdvance, At
  <2>2. frame' \in [Threads -> Frame]
    BY <1>6, LeaveType DEF AppendAdvance, Labels
  <2>3. received' \in [Objects -> [Slots -> Nat]]
    BY <1>6, <2>1, ThreadType DEF TypeOK, AppendAdvance, jobVars
  <2> QED BY <1>6, <2>2, <2>3 DEF TypeOK, AppendAdvance, jobVars, diskVars, procVars
<1>7. ASSUME NEW t \in Threads, FinalizeOpen(t) PROVE TypeOK'
  <2>1. frame[t].job \in Objects /\ Id(t) \in JobIds /\ frame[t].slot \in Slots
    BY <1>7, Holding, HoldingSlot DEF FinalizeOpen, At
  <2>2. package[Id(t)][frame[t].slot] \in Seq(Chunk)
    BY <2>1 DEF TypeOK
  <2>3. [frame[t] EXCEPT !.pc = "extract", !.data = package[Id(t)][frame[t].slot]] \in Frame
    BY ThreadType, <2>2 DEF Frame, Labels
  <2>4. frame' \in [Threads -> Frame]
    BY <1>7, <2>3, BecomeType, FailType DEF FinalizeOpen
  <2>5. unpacked \in [JobIds -> SUBSET Slots]
    BY DEF TypeOK
  <2>6. [unpacked EXCEPT ![Id(t)] = @ \cup {frame[t].slot}] \in [JobIds -> SUBSET Slots]
    BY <2>1, <2>5
  <2>7. \/ unpacked' = [unpacked EXCEPT ![Id(t)] = @ \cup {frame[t].slot}]
        \/ unpacked' = unpacked
    BY <1>7 DEF FinalizeOpen
  <2>8. unpacked' \in [JobIds -> SUBSET Slots]
    BY <2>5, <2>6, <2>7
  <2> QED BY <1>7, <2>4, <2>8 DEF TypeOK, FinalizeOpen, jobVars, diskVars, procVars
<1>8. ASSUME NEW t \in Threads, FinalizeExtract(t) PROVE TypeOK'
  <2>1. frame[t].job \in Objects /\ Id(t) \in JobIds /\ frame[t].slot \in Slots
    BY <1>8, Holding, HoldingSlot DEF FinalizeExtract, At
  <2>2. [frame[t] EXCEPT !.pc = "finalize", !.data = <<>>] \in Frame
    BY ThreadType, EmptySeq DEF Frame, Labels
  <2>3. frame' \in [Threads -> Frame]
    BY <1>8, <2>2, BecomeType, FailType DEF FinalizeExtract
  <2>4. folders \in [JobIds -> SUBSET Folders]
    BY DEF TypeOK
  <2>5. [folders EXCEPT ![Id(t)] = @ \cup {"input"}] \in [JobIds -> SUBSET Folders]
    BY <2>1, <2>4 DEF Folders
  <2>6. \/ folders' = [folders EXCEPT ![Id(t)] = @ \cup {"input"}]
        \/ folders' = folders
    BY <1>8 DEF FinalizeExtract
  <2>7. folders' \in [JobIds -> SUBSET Folders]
    BY <2>4, <2>5, <2>6
  <2>8. unpacked \in [JobIds -> SUBSET Slots]
    BY DEF TypeOK
  <2>9. [unpacked EXCEPT ![Id(t)] = @ \cup {frame[t].slot}] \in [JobIds -> SUBSET Slots]
    BY <2>1, <2>8
  <2>10. \/ unpacked' = [unpacked EXCEPT ![Id(t)] = @ \cup {frame[t].slot}]
        \/ unpacked' = unpacked
    BY <1>8 DEF FinalizeExtract
  <2>11. unpacked' \in [JobIds -> SUBSET Slots]
    BY <2>8, <2>9, <2>10
  <2>12. input \in [JobIds -> [Slots -> Seq(Chunk)]]
    BY DEF TypeOK
  <2>13. [input EXCEPT ![Id(t)][frame[t].slot] = frame[t].data] \in [JobIds -> [Slots -> Seq(Chunk)]]
    BY <2>1, <2>12, SlotUpdate, ThreadType
  <2>14. \/ input' = [input EXCEPT ![Id(t)][frame[t].slot] = frame[t].data]
        \/ input' = input
    BY <1>8 DEF FinalizeExtract
  <2>15. input' \in [JobIds -> [Slots -> Seq(Chunk)]]
    BY <2>12, <2>13, <2>14
  <2>16. package \in [JobIds -> [Slots -> Seq(Chunk)]]
    BY DEF TypeOK
  <2>17. [package EXCEPT ![Id(t)][frame[t].slot] = <<>>] \in [JobIds -> [Slots -> Seq(Chunk)]]
    BY <2>1, <2>16, SlotUpdate, EmptySeq
  <2>18. \/ package' = [package EXCEPT ![Id(t)][frame[t].slot] = <<>>]
        \/ package' = package
    BY <1>8 DEF FinalizeExtract
  <2>19. package' \in [JobIds -> [Slots -> Seq(Chunk)]]
    BY <2>16, <2>17, <2>18
  <2> QED BY <1>8, <2>3, <2>7, <2>11, <2>15, <2>19 DEF TypeOK, FinalizeExtract, jobVars, diskVars, procVars
<1>9. ASSUME NEW t \in Threads, FinalizeCommit(t) PROVE TypeOK'
  <2>1. frame[t].job \in Objects /\ Id(t) \in JobIds /\ frame[t].slot \in Slots
    BY <1>9, Holding, HoldingSlot DEF FinalizeCommit, At
  <2>2. frame' \in [Threads -> Frame]
    BY <1>9, LeaveType DEF FinalizeCommit, Labels
  <2>3. finalized' \in [Objects -> SUBSET Slots]
    BY <1>9, <2>1, ThreadType DEF TypeOK, FinalizeCommit, jobVars
  <2>4. dek' \in [Objects -> SUBSET Slots]
    BY <1>9, <2>1, ThreadType DEF TypeOK, FinalizeCommit, jobVars
  <2>5. status' \in [Objects -> Status]
    BY <1>9, <2>1, ThreadType DEF TypeOK, FinalizeCommit, Status, Over, jobVars
  <2> QED BY <1>9, <2>2, <2>3, <2>4, <2>5 DEF TypeOK, FinalizeCommit, jobVars, diskVars, procVars
<1>10. ASSUME NEW t \in Threads, StartGpu(t) PROVE TypeOK'
  <2>1. frame' \in [Threads -> Frame]
    BY <1>10, GotoType, LeaveType DEF StartGpu, Labels
  <2> QED BY <1>10, <2>1 DEF TypeOK, StartGpu, jobVars, diskVars, procVars
<1>11. ASSUME NEW t \in Threads, StartLaunch(t) PROVE TypeOK'
  <2>1. frame[t].job \in Objects /\ Id(t) \in JobIds
    BY <1>11, Holding DEF StartLaunch, At
  <2>2. frame' \in [Threads -> Frame]
    BY <1>11, GotoType, FailType DEF StartLaunch, Labels
  <2>3. process' \in [Workers -> ProcessState]
    BY <1>11, <2>1, ThreadType DEF TypeOK, StartLaunch, ProcessState, procVars
  <2>4. runs' \in [Workers -> Objects \cup {None}]
    BY <1>11, <2>1, ThreadType DEF TypeOK, StartLaunch, procVars
  <2> QED BY <1>11, <2>2, <2>3, <2>4 DEF TypeOK, StartLaunch, jobVars, diskVars, procVars
<1>12. ASSUME NEW t \in Threads, StartCommit(t) PROVE TypeOK'
  <2>1. frame[t].job \in Objects /\ Id(t) \in JobIds
    BY <1>12, Holding DEF StartCommit, At
  <2>2. Blank("idle") \in Frame /\ Blank("find") \in Frame
    BY BlankType DEF Labels
  <2>3. [Blank("find") EXCEPT !.job = frame[t].job] \in Frame
    BY ThreadType, <2>2 DEF Frame
  <2>4. frame' \in [Threads -> Frame]
    BY <1>12, <2>2, <2>3 DEF StartCommit, TypeOK
  <2>5. status' \in [Objects -> Status]
    BY <1>12, <2>1, ThreadType DEF TypeOK, StartCommit, Status, Over, jobVars
  <2> QED BY <1>12, <2>4, <2>5 DEF TypeOK, StartCommit, jobVars, diskVars, procVars
<1>13. ASSUME NEW t \in Threads, MonitorFind(t) PROVE TypeOK'
  <2>1. frame[t].job \in Objects /\ Id(t) \in JobIds
    BY <1>13, Holding DEF MonitorFind, At
  <2>2. current[Id(t)] \in Objects \cup {None}
    BY <2>1 DEF TypeOK
  <2>3. [frame[t] EXCEPT !.job = current[Id(t)], !.pc = "attach"] \in Frame
    BY ThreadType, <2>2 DEF Frame, Labels
  <2>4. frame' \in [Threads -> Frame]
    BY <1>13, <2>3, BecomeType DEF MonitorFind
  <2> QED BY <1>13, <2>4 DEF TypeOK, MonitorFind, jobVars, diskVars, procVars
<1>14. ASSUME NEW t \in Threads, MonitorAttach(t) PROVE TypeOK'
  <2>1. frame[t].job \in Objects /\ Id(t) \in JobIds
    BY <1>14, Holding DEF MonitorAttach, At
  <2>2. registered[Id(t)] \in Workers \cup {None}
    BY <2>1 DEF TypeOK
  <2>3. [frame[t] EXCEPT !.worker = registered[Id(t)], !.pc = "wait"] \in Frame
    BY ThreadType, <2>2 DEF Frame, Labels
  <2>4. frame' \in [Threads -> Frame]
    BY <1>14, <2>3, BecomeType, FailType DEF MonitorAttach
  <2> QED BY <1>14, <2>4 DEF TypeOK, MonitorAttach, jobVars, diskVars, procVars
<1>15. ASSUME NEW t \in Threads, MonitorWait(t) PROVE TypeOK'
  <2>1. frame' \in [Threads -> Frame]
    BY <1>15, GotoType, FailType DEF MonitorWait, Labels
  <2> QED BY <1>15, <2>1 DEF TypeOK, MonitorWait, jobVars, diskVars, procVars
<1>16. ASSUME NEW t \in Threads, MonitorEncrypting(t) PROVE TypeOK'
  <2>1. frame[t].job \in Objects /\ Id(t) \in JobIds
    BY <1>16, Holding DEF MonitorEncrypting, At
  <2>2. [frame[t] EXCEPT !.pc = "read", !.slot = "result-model"] \in Frame
    BY ThreadType DEF Frame, Labels, Outputs
  <2>3. frame' \in [Threads -> Frame]
    BY <1>16, <2>2, BecomeType DEF MonitorEncrypting
  <2>4. status' \in [Objects -> Status]
    BY <1>16, <2>1, ThreadType DEF TypeOK, MonitorEncrypting, Status, Over, jobVars
  <2> QED BY <1>16, <2>3, <2>4 DEF TypeOK, MonitorEncrypting, jobVars, diskVars, procVars
<1>17. ASSUME NEW t \in Threads, MonitorRead(t) PROVE TypeOK'
  <2>1. Id(t) \in JobIds /\ frame[t].slot \in Outputs
    BY <1>17, Holding, HoldingOutput DEF MonitorRead, At
  <2>2. frame' \in [Threads -> Frame]
    BY <1>17, GotoType, FailType DEF MonitorRead, Labels
  <2>3. archived \in [JobIds -> [Outputs -> Workers \cup {None}]] /\ trained[Id(t)] \in Workers \cup {None}
    BY <2>1 DEF TypeOK
  <2>4. [archived EXCEPT ![Id(t)][frame[t].slot] = trained[Id(t)]]
          \in [JobIds -> [Outputs -> Workers \cup {None}]]
    BY <2>1, <2>3, OutputUpdate
  <2>5. \/ archived' = [archived EXCEPT ![Id(t)][frame[t].slot] = trained[Id(t)]]
        \/ archived' = archived
    BY <1>17 DEF MonitorRead
  <2>6. archived' \in [JobIds -> [Outputs -> Workers \cup {None}]]
    BY <2>3, <2>4, <2>5
  <2> QED BY <1>17, <2>2, <2>6 DEF TypeOK, MonitorRead, jobVars, procVars
<1>18. ASSUME NEW t \in Threads, MonitorSeal(t) PROVE TypeOK'
  <2>1. frame[t].job \in Objects /\ Id(t) \in JobIds /\ frame[t].slot \in Outputs
    BY <1>18, Holding, HoldingOutput DEF MonitorSeal, At
  <2>2. /\ [frame[t] EXCEPT !.pc = "read", !.slot = "result-data"] \in Frame
        /\ [frame[t] EXCEPT !.pc = "tidy", !.slot = None] \in Frame
    BY ThreadType DEF Frame, Labels, Outputs
  <2>3. frame' \in [Threads -> Frame]
    BY <1>18, <2>2, BecomeType, FailType DEF MonitorSeal
  <2>4. folders' \in [JobIds -> SUBSET Folders]
    BY <1>18 DEF TypeOK, MonitorSeal, Folders
  <2>5. sealed \in [JobIds -> [Outputs -> Workers \cup {None}]]
          /\ archived[Id(t)][frame[t].slot] \in Workers \cup {None}
    BY <2>1 DEF TypeOK
  <2>6. sealed' \in [JobIds -> [Outputs -> Workers \cup {None}]]
    BY <1>18, <2>1, <2>5, OutputUpdate DEF MonitorSeal
  <2>7. outputs' \in SUBSET Objects
    BY <1>18, <2>1 DEF TypeOK, MonitorSeal
  <2> QED BY <1>18, <2>3, <2>4, <2>6, <2>7 DEF TypeOK, MonitorSeal, procVars
<1>19. ASSUME NEW t \in Threads, MonitorTidy(t) PROVE TypeOK'
  <2>1. frame[t].job \in Objects /\ Id(t) \in JobIds
    BY <1>19, Holding DEF MonitorTidy, At
  <2>2. frame' \in [Threads -> Frame]
    BY <1>19, GotoType, FailType DEF MonitorTidy, Labels
  <2>3. DiskOK'
    <3>1. folders[Id(t)] \cap {"encrypted"} \in SUBSET Folders /\ Folders \ {"encrypted"} \in SUBSET Folders
      BY DEF Folders
    <3>2. UNCHANGED diskVars => DiskOK'
      BY DEF TypeOK, DiskOK, diskVars
    <3> QED BY <1>19, <2>1, <3>1, <3>2, RemainsType, InterruptedType DEF MonitorTidy
  <2> QED BY <1>19, <2>2, <2>3 DEF TypeOK, DiskOK, MonitorTidy, jobVars, procVars
<1>20. ASSUME NEW t \in Threads, MonitorReady(t) PROVE TypeOK'
  <2>1. frame[t].job \in Objects /\ Id(t) \in JobIds
    BY <1>20, Holding DEF MonitorReady, At
  <2>2. frame' \in [Threads -> Frame]
    BY <1>20, LeaveType DEF MonitorReady, Labels
  <2>3. status' \in [Objects -> Status]
    BY <1>20, <2>1, ThreadType DEF TypeOK, MonitorReady, Status, Over, jobVars
  <2> QED BY <1>20, <2>2, <2>3 DEF TypeOK, MonitorReady, jobVars, diskVars, procVars
<1>21. ASSUME NEW t \in Threads, CancelMark(t) PROVE TypeOK'
  <2>1. frame[t].job \in Objects /\ Id(t) \in JobIds
    BY <1>21, Holding DEF CancelMark, At
  <2>2. frame' \in [Threads -> Frame]
    BY <1>21, GotoType DEF CancelMark, Labels
  <2>3. status' \in [Objects -> Status]
    BY <1>21, <2>1, ThreadType DEF TypeOK, CancelMark, Status, Over, jobVars
  <2> QED BY <1>21, <2>2, <2>3 DEF TypeOK, CancelMark, jobVars, diskVars, procVars
<1>22. ASSUME NEW t \in Threads, CloseNext(t) PROVE TypeOK'
  <2>1. Blank("closed") \in Frame /\ Blank("clear") \in Frame
    BY BlankType DEF Labels
  <2>2. ASSUME NEW id \in JobIds PROVE [Blank("clear") EXCEPT !.job = current[id], !.final = "SHUTDOWN"] \in Frame
    BY <2>1 DEF TypeOK, Frame, Finals
  <2>3. frame' \in [Threads -> Frame]
    BY <1>22, <2>1, <2>2, BecomeType DEF CloseNext, TypeOK
  <2>4. todo' \in SUBSET JobIds
    BY <1>22, ThreadType DEF TypeOK, CloseNext
  <2> QED BY <1>22, <2>3, <2>4 DEF TypeOK, CloseNext, jobVars, diskVars, procVars
<1>23. ASSUME NEW t \in Threads, ClearDeks(t) PROVE TypeOK'
  <2>1. frame[t].job \in Objects /\ Id(t) \in JobIds
    BY <1>23, Holding DEF ClearDeks, At
  <2>2. frame' \in [Threads -> Frame]
    BY <1>23, GotoType DEF ClearDeks, Labels
  <2>3. dek' \in [Objects -> SUBSET Slots]
    BY <1>23, <2>1, ThreadType DEF TypeOK, ClearDeks, jobVars
  <2> QED BY <1>23, <2>2, <2>3 DEF TypeOK, ClearDeks, jobVars, diskVars, procVars
<1>24. ASSUME NEW t \in Threads, PopProcess(t) PROVE TypeOK'
  <2>1. frame[t].job \in Objects /\ Id(t) \in JobIds
    BY <1>24, Holding DEF PopProcess, At
  <2>2. registered[Id(t)] \in Workers \cup {None}
    BY <2>1 DEF TypeOK
  <2>3. [frame[t] EXCEPT !.worker = registered[Id(t)], !.pc = "kill"] \in Frame
    BY ThreadType, <2>2 DEF Frame, Labels
  <2>4. frame' \in [Threads -> Frame]
    BY <1>24, <2>3, BecomeType DEF PopProcess
  <2>5. registered' \in [JobIds -> Workers \cup {None}]
    BY <1>24, <2>1, ThreadType DEF TypeOK, PopProcess, procVars
  <2> QED BY <1>24, <2>4, <2>5 DEF TypeOK, PopProcess, jobVars, diskVars, procVars
<1>25. ASSUME NEW t \in Threads, KillProcess(t) PROVE TypeOK'
  <2>1. frame[t].job \in Objects /\ Id(t) \in JobIds
    BY <1>25, Holding DEF KillProcess, At
  <2>2. [frame[t] EXCEPT !.worker = None, !.pc = "look"] \in Frame
    BY ThreadType, EmptySeq DEF Frame, Labels
  <2>3. frame' \in [Threads -> Frame]
    BY <1>25, <2>2, BecomeType DEF KillProcess
  <2>4. process' \in [Workers -> ProcessState]
    BY <1>25, <2>1, ThreadType DEF TypeOK, KillProcess, ProcessState, procVars
  <2> QED BY <1>25, <2>3, <2>4 DEF TypeOK, KillProcess, jobVars, diskVars, procVars
<1>26. ASSUME NEW t \in Threads, LookForDirectory(t) PROVE TypeOK'
  <2>1. frame[t].job \in Objects /\ Id(t) \in JobIds
    BY <1>26, Holding DEF LookForDirectory, At
  <2>2. frame' \in [Threads -> Frame]
    BY <1>26, GotoType DEF LookForDirectory, AfterCleanup, Labels
  <2> QED BY <1>26, <2>2 DEF TypeOK, LookForDirectory, jobVars, diskVars, procVars
<1>27. ASSUME NEW t \in Threads, WipeDirectory(t) PROVE TypeOK'
  <2>1. frame[t].job \in Objects /\ Id(t) \in JobIds
    BY <1>27, Holding DEF WipeDirectory, At
  <2>2. frame' \in [Threads -> Frame]
    BY <1>27, GotoType, RaiseType DEF WipeDirectory, AfterCleanup, Labels
  <2>3. DiskOK'
    <3>1. {} \in SUBSET Folders /\ Folders \in SUBSET Folders
      OBVIOUS
    <3>2. UNCHANGED diskVars => DiskOK'
      BY DEF TypeOK, DiskOK, diskVars
    <3> QED BY <1>27, <2>1, <3>1, <3>2, RemainsType, InterruptedType DEF WipeDirectory
  <2> QED BY <1>27, <2>2, <2>3 DEF TypeOK, DiskOK, WipeDirectory, jobVars, procVars
<1>28. ASSUME NEW t \in Threads, EndCleanup(t) PROVE TypeOK'
  <2>1. frame[t].job \in Objects /\ Id(t) \in JobIds
    BY <1>28, Holding DEF EndCleanup, At
  <2>2. Blank("next") \in Frame
    BY BlankType DEF Labels
  <2>3. frame' \in [Threads -> Frame]
    BY <1>28, <2>2, LeaveType, BecomeType DEF EndCleanup
  <2>4. status' \in [Objects -> Status]
    BY <1>28, <2>1, ThreadType DEF TypeOK, EndCleanup, Status, Over, jobVars
  <2> QED BY <1>28, <2>3, <2>4 DEF TypeOK, EndCleanup, jobVars, diskVars, procVars
<1>29. ASSUME NEW t \in Requests, NEW id \in JobIds, NEW o \in Objects, PrepareOpen(t, id, o)
       PROVE TypeOK'
  <2>1. PICK opened \in SUBSET Slots :
          /\ dek' = [dek EXCEPT ![o] = opened]
          /\ Become(t, [Blank(IF opened = Slots THEN "pop" ELSE "discard")
                          EXCEPT !.job = o, !.final = "PREPARE"])
    BY <1>29 DEF PrepareOpen
  <2>2. Blank(IF opened = Slots THEN "pop" ELSE "discard") \in Frame
    BY BlankType DEF Labels
  <2>3. [Blank(IF opened = Slots THEN "pop" ELSE "discard")
           EXCEPT !.job = o, !.final = "PREPARE"] \in Frame
    BY <2>2 DEF Frame, Finals
  <2>4. frame' \in [Threads -> Frame]
    BY <2>1, <2>3, BecomeType
  <2>5. status' \in [Objects -> Status] /\ owner' \in [Objects -> JobIds \cup {None}]
    BY <1>29 DEF PrepareOpen, TypeOK, Status
  <2>6. dek' \in [Objects -> SUBSET Slots]
    BY <2>1 DEF TypeOK
  <2> QED BY <1>29, <2>4, <2>5, <2>6 DEF TypeOK, PrepareOpen, diskVars, procVars
<1>30. ASSUME NEW id \in JobIds, NEW s \in Slots, AppendCheck(id, s) PROVE TypeOK'
  <2>1. current[id] \in Objects \cup {None}
    BY DEF TypeOK
  <2>2. Blank("decrypt") \in Frame /\ Blank("clear") \in Frame
    BY BlankType DEF Labels
  <2>3. /\ [Blank("decrypt") EXCEPT !.job = current[id], !.slot = s] \in Frame
        /\ [Blank("clear") EXCEPT !.job = current[id], !.final = "FAILED"] \in Frame
    BY <2>1, <2>2 DEF Frame, Finals, Over
  <2>4. frame' \in [Threads -> Frame]
    BY <1>30, <2>3, BecomeType DEF AppendCheck
  <2> QED BY <1>30, <2>4 DEF TypeOK, AppendCheck, jobVars, diskVars, procVars
<1>31. ASSUME NEW t \in Requests, NEW id \in JobIds, NEW s \in Slots, FinalizeCheck(t, id, s)
       PROVE TypeOK'
  <2>1. current[id] \in Objects \cup {None} /\ Blank("open") \in Frame
    BY BlankType DEF TypeOK, Labels
  <2>2. [Blank("open") EXCEPT !.job = current[id], !.slot = s] \in Frame
    BY <2>1 DEF Frame
  <2>3. frame' \in [Threads -> Frame]
    BY <1>31, <2>2, BecomeType DEF FinalizeCheck
  <2> QED BY <1>31, <2>3 DEF TypeOK, FinalizeCheck, jobVars, diskVars, procVars
<1>32. ASSUME NEW t \in Requests, NEW id \in JobIds, NEW p \in Workers, StartCheck(t, id, p)
       PROVE TypeOK'
  <2>1. current[id] \in Objects \cup {None} /\ Blank("gpu") \in Frame
    BY BlankType DEF TypeOK, Labels
  <2>2. [Blank("gpu") EXCEPT !.job = current[id], !.worker = p] \in Frame
    BY <2>1 DEF Frame
  <2>3. frame' \in [Threads -> Frame]
    BY <1>32, <2>2, BecomeType DEF StartCheck
  <2> QED BY <1>32, <2>3 DEF TypeOK, StartCheck, jobVars, diskVars, procVars
<1>33. ASSUME NEW t \in Requests, NEW id \in JobIds, CancelCheck(t, id) PROVE TypeOK'
  <2>1. current[id] \in Objects \cup {None} /\ Blank("cancel") \in Frame
    BY BlankType DEF TypeOK, Labels
  <2>2. [Blank("cancel") EXCEPT !.job = current[id], !.final = "CANCELLED"] \in Frame
    BY <2>1 DEF Frame, Finals, Over
  <2>3. frame' \in [Threads -> Frame]
    BY <1>33, <2>2, BecomeType DEF CancelCheck
  <2> QED BY <1>33, <2>3 DEF TypeOK, CancelCheck, jobVars, diskVars, procVars
<1>34. ASSUME NEW t \in Requests, NEW id \in JobIds, Acknowledge(t, id) PROVE TypeOK'
  <2>1. current[id] \in Objects \cup {None} /\ Blank("pop") \in Frame
    BY BlankType DEF TypeOK, Labels
  <2>2. [Blank("pop") EXCEPT !.job = current[id], !.final = "COMPLETED"] \in Frame
    BY <2>1 DEF Frame, Finals, Over
  <2>3. frame' \in [Threads -> Frame]
    BY <1>34, <2>2, BecomeType DEF Acknowledge
  <2> QED BY <1>34, <2>3 DEF TypeOK, Acknowledge, jobVars, diskVars, procVars
<1>35. ASSUME NEW p \in Workers, WorkerSucceeds(p) PROVE TypeOK'
  <2>1. process' \in [Workers -> ProcessState]
    BY <1>35 DEF TypeOK, WorkerSucceeds, ProcessState
  <2> QED BY <1>35, <2>1 DEF TypeOK, WorkerSucceeds, jobVars, diskVars
<1>36. ASSUME NEW p \in Workers, WorkerFails(p) PROVE TypeOK'
  <2>1. process' \in [Workers -> ProcessState]
    BY <1>36 DEF TypeOK, WorkerFails, ProcessState
  <2> QED BY <1>36, <2>1 DEF TypeOK, WorkerFails, jobVars, diskVars
<1>37. ASSUME NEW p \in Workers, WorkerWrites(p) PROVE TypeOK'
  <2>1. folders' \in [JobIds -> SUBSET Folders] /\ trained' \in [JobIds -> Workers \cup {None}]
    BY <1>37 DEF TypeOK, WorkerWrites, Folders
  <2> QED BY <1>37, <2>1 DEF TypeOK, WorkerWrites, jobVars, procVars
<1>38. ASSUME NEW t \in Threads, StartRegister(t) PROVE TypeOK'
  <2>1. frame' \in [Threads -> Frame]
    BY <1>38, GotoType DEF StartRegister, Labels
  <2>2. registered' \in [JobIds -> Workers \cup {None}]
    BY <1>38, ThreadType DEF TypeOK, StartRegister
  <2> QED BY <1>38, <2>1, <2>2 DEF TypeOK, StartRegister, jobVars, diskVars
<1>39. CASE CloseBegin
  <2>1. frame' \in [Threads -> Frame]
    BY <1>39, GotoType DEF CloseBegin, Labels, Threads
  <2> QED BY <1>39, <2>1 DEF TypeOK, CloseBegin, jobVars, diskVars, procVars
<1>40. CASE UNCHANGED vars
  BY <1>40 DEF TypeOK, vars, jobVars, diskVars, procVars
<1>41. ASSUME NEW t \in Threads, Step(t) PROVE TypeOK'
  BY <1>41, <1>1, <1>2, <1>3, <1>4, <1>5, <1>6, <1>7, <1>8, <1>9, <1>10, <1>11, <1>12, <1>13,
     <1>14, <1>15, <1>16, <1>17, <1>18, <1>19, <1>20, <1>21, <1>22, <1>23, <1>24, <1>25,
     <1>26, <1>27, <1>28, <1>38 DEF Step, Cleanup
<1> QED
  BY <1>29, <1>30, <1>31, <1>32, <1>33, <1>34, <1>35, <1>36, <1>37, <1>39, <1>40, <1>41
  DEF Next, Request, Worker, Stopped

-----------------------------------------------------------------------------
\* What a step that neither publishes nor drops an object may do to the jobs.
JobsStep ==
  /\ UNCHANGED <<current, owner>>
  /\ \A id \in todo' : id \in todo \/ Known(id)
  /\ \A o \in Objects :
       /\ dek'[o] \subseteq dek[o]
       /\ status'[o] # status[o] =>
            /\ Published(o)
            /\ status'[o] \notin {"unused", "opening"}
            /\ status'[o] \in {"FAILED", "CANCELLED"} => dek'[o] = {}

\* What holds of a local state survives such a step of another thread.
LEMMA FrameKept ==
  ASSUME TypeOK, KeyInv, JobsStep, NEW u \in Threads
  PROVE  FrameOK(frame[u], status', dek')
<1>1. FrameOK(frame[u], status, dek) /\ frame[u].job \in Objects \cup {None}
  BY ThreadType DEF KeyInv
<1>2. frame[u].job # None =>
        /\ dek'[frame[u].job] \subseteq dek[frame[u].job]
        /\ status'[frame[u].job] = "opening" <=> status[frame[u].job] = "opening"
  BY <1>1 DEF JobsStep, Published
<1>3. frame[u].job # None /\ status[frame[u].job] \notin {"unused", "opening"}
        => status'[frame[u].job] \notin {"unused", "opening"}
  BY <1>1 DEF JobsStep, Published
<1> QED BY <1>1, <1>2, <1>3 DEF FrameOK

\* The local state f may replace that of thread t.
Replaces(f, t) ==
  /\ FrameOK(f, status', dek')
  /\ IF f.final = "PREPARE"
       THEN frame[t].final = "PREPARE" /\ f.job = frame[t].job
       ELSE f.job \in {None, frame[t].job} \/ Published(f.job)

\* Such a step keeps KeyInv when every local state it changes is replaced by
\* one that satisfies FrameOK and claims no object under preparation.
LEMMA KeySteps ==
  ASSUME TypeOK, KeyInv, JobsStep, frame' \in [Threads -> Frame],
         \A t \in Threads : frame'[t] = frame[t] \/ Replaces(frame'[t], t)
  PROVE  KeyInv'
<1>1. ASSUME NEW u \in Threads
      PROVE frame[u].job \in Objects \cup {None} /\ frame'[u].job \in Objects \cup {None}
  BY ThreadType DEF Frame
<1>4. \A o \in Objects : Published(o) => Published(o)'
  BY DEF JobsStep, Published
<1>5. DeksClearedWhenOver'
  <2> SUFFICES ASSUME NEW o \in Objects, status'[o] \in {"unused", "FAILED", "CANCELLED"}
               PROVE  dek'[o] = {}
    BY DEF DeksClearedWhenOver
  <2>1. CASE status'[o] = status[o]
    BY <2>1 DEF KeyInv, DeksClearedWhenOver, JobsStep
  <2>2. CASE status'[o] # status[o]
    BY <2>2 DEF JobsStep
  <2> QED BY <2>1, <2>2
<1>6. ASSUME NEW id \in JobIds, Known(id)' PROVE Published(current[id])'
  BY <1>4, <1>6 DEF KeyInv, JobsStep, Known, TypeOK
<1>7. ASSUME NEW o \in Objects, status'[o] # "unused" PROVE owner'[o] \in JobIds
  BY <1>7 DEF KeyInv, JobsStep, Published
<1>8. ASSUME NEW o \in Objects, Published(o)' PROVE Known(owner[o])'
  BY <1>8 DEF KeyInv, JobsStep, Published, Known
<1>9. ASSUME NEW u \in Threads PROVE FrameOK(frame[u], status, dek)'
  BY FrameKept DEF Replaces
<1>10. ASSUME NEW u \in Threads, NEW v \in Threads, u # v, frame'[u].final = "PREPARE"
       PROVE  frame'[u].job # frame'[v].job
  <2>1. frame[u].final = "PREPARE" /\ frame'[u].job = frame[u].job
    BY <1>10 DEF Replaces
  <2>2. frame[u].job \in Objects /\ status[frame[u].job] = "opening" /\ frame[u].job # frame[v].job
    BY <1>1, <1>10, <2>1 DEF KeyInv, FrameOK
  <2>3. CASE frame'[v].job \in {None, frame[v].job}
    BY <2>1, <2>2, <2>3, NoneDistinct
  <2>4. CASE Published(frame'[v].job)
    BY <2>1, <2>2, <2>4 DEF Published
  <2>5. CASE frame'[v].final = "PREPARE" /\ frame'[v].job = frame[v].job
    BY <2>1, <2>2, <2>5
  <2> QED BY <2>3, <2>4, <2>5 DEF Replaces
<1>11. \A id \in todo' : Known(id)'
  BY DEF KeyInv, JobsStep, Known
<1> QED BY <1>5, <1>6, <1>7, <1>8, <1>9, <1>10, <1>11 DEF KeyInv

\* The same for a step that changes the local state of one thread.
LEMMA KeyStep ==
  ASSUME TypeOK, KeyInv, JobsStep, NEW t \in Threads, NEW f \in Frame, Become(t, f),
         Replaces(f, t)
  PROVE  KeyInv'
<1>1. /\ frame'[t] = f
      /\ \A u \in Threads \ {t} : frame'[u] = frame[u]
  BY DEF Become, TypeOK
<1> QED BY <1>1, BecomeType, KeySteps

\* A step that leaves the jobs alone is such a step.
LEMMA JobsStill ==
  ASSUME UNCHANGED jobVars, \A id \in todo' : id \in todo \/ Known(id) PROVE JobsStep
  BY DEF JobsStep, jobVars

\* So is one that sets the status of a published job, if its DEKs are cleared
\* when the status is FAILED or CANCELLED.
LEMMA JobsStatus ==
  ASSUME TypeOK, NEW o \in Objects, Published(o), NEW x \in Status,
         x \notin {"unused", "opening"},
         x \in {"FAILED", "CANCELLED"} => dek[o] = {},
         status' = [status EXCEPT ![o] = x],
         UNCHANGED <<current, owner, dek, todo>>
  PROVE  JobsStep
  BY DEF JobsStep, TypeOK

\* A thread in a handler other than prepare_training_job holds a published job.
LEMMA Handling ==
  ASSUME TypeOK, KeyInv, NEW t \in Threads,
         frame[t].pc \notin {"idle", "dead", "next", "closed", "aborted",
                             "discard", "mkdir", "commit", "pop", "kill", "look", "wipe"}
  PROVE  /\ frame[t].job \in Objects
         /\ frame[t].final # "PREPARE"
         /\ Published(frame[t].job)
<1>1. FrameOK(frame[t], status, dek) /\ frame[t].job \in Objects \cup {None}
  BY ThreadType DEF KeyInv
<1> QED BY <1>1 DEF FrameOK, Published

\* A thread may always return.
LEMMA KeyLeave ==
  ASSUME TypeOK, KeyInv, JobsStep, NEW t \in Threads, Leave(t) PROVE KeyInv'
<1>1. Rest(t) \in Frame
  BY BlankType DEF Rest, Labels
<1>2. Rest(t).job = None /\ Rest(t).final = "none" /\ Rest(t).pc \in {"idle", "dead"}
  BY DEF Rest, Blank
<1>3. FrameOK(Rest(t), status', dek')
  BY <1>2 DEF FrameOK
<1>4. Replaces(Rest(t), t)
  BY <1>2, <1>3 DEF Replaces
<1> QED BY <1>1, <1>4, KeyStep DEF Leave

\* A thread that handles a published job may fail it.
LEMMA KeyFail ==
  ASSUME TypeOK, KeyInv, JobsStep, NEW t \in Threads, Fail(t),
         frame[t].job \in Objects, frame[t].final # "PREPARE"
  PROVE  KeyInv'
<1> DEFINE f == [Blank("clear") EXCEPT !.job = frame[t].job, !.final = "FAILED"]
<1>1. Blank("clear") \in Frame
  BY BlankType DEF Labels
<1>2. f \in Frame
  BY <1>1 DEF Frame, Finals, Over
<1>3. f.job = frame[t].job /\ f.final = "FAILED" /\ f.pc = "clear"
  BY DEF Blank
<1>4. FrameOK(frame[t], status', dek') /\ frame[t].job # None
  BY FrameKept, NoneDistinct
<1>5. FrameOK(f, status', dek')
  BY <1>3, <1>4 DEF FrameOK
<1>6. Become(t, f)
  BY DEF Fail
<1>7. Replaces(f, t)
  BY <1>3, <1>5 DEF Replaces
<1> HIDE DEF f
<1> QED BY <1>2, <1>6, <1>7, KeyStep

\* A thread may go to a label at which FrameOK holds of its local state.
LEMMA KeyGoto ==
  ASSUME TypeOK, KeyInv, JobsStep, NEW t \in Threads, NEW l \in Labels, Goto(t, l),
         FrameOK([frame[t] EXCEPT !.pc = l], status', dek')
  PROVE  KeyInv'
<1> DEFINE f == [frame[t] EXCEPT !.pc = l]
<1>1. f \in Frame /\ f.job = frame[t].job /\ f.final = frame[t].final
  BY ThreadType DEF Frame
<1>2. FrameOK(f, status', dek') /\ Become(t, f)
  BY DEF Goto
<1>3. Replaces(f, t)
  BY <1>1, <1>2 DEF Replaces
<1> HIDE DEF f
<1> QED BY <1>1, <1>2, <1>3, KeyStep

\* Between two steps of a handler that belong to neither a cleanup nor a preparation.
LEMMA KeyOn ==
  ASSUME TypeOK, KeyInv, JobsStep, NEW t \in Threads, NEW l \in Labels, Goto(t, l),
         l \notin {"discard", "mkdir", "commit", "pop", "kill", "look", "wipe", "end",
                   "decrypt", "open"},
         l \in {"write", "advance", "extract", "finalize"} => frame[t].slot \in Slots,
         l \in {"read", "seal"} => frame[t].slot \in Outputs,
         frame[t].job \in Objects, frame[t].final # "PREPARE"
  PROVE  KeyInv'
<1>1. FrameOK(frame[t], status', dek') /\ frame[t].job # None /\ frame[t] \in Frame
  BY FrameKept, NoneDistinct, ThreadType
<1>2. /\ [frame[t] EXCEPT !.pc = l].job = frame[t].job
      /\ [frame[t] EXCEPT !.pc = l].final = frame[t].final
      /\ [frame[t] EXCEPT !.pc = l].slot = frame[t].slot
      /\ [frame[t] EXCEPT !.pc = l].pc = l
  BY <1>1 DEF Frame
<1>3. FrameOK([frame[t] EXCEPT !.pc = l], status', dek')
  BY <1>1, <1>2 DEF FrameOK
<1> QED BY <1>3, KeyGoto

\* The same when the thread turns to an output, or is done with the outputs.
LEMMA KeyOnOutput ==
  ASSUME TypeOK, KeyInv, JobsStep, NEW t \in Threads, NEW l \in {"read", "tidy"},
         NEW out \in Outputs \cup {None}, l = "read" => out \in Outputs,
         Become(t, [frame[t] EXCEPT !.pc = l, !.slot = out]),
         frame[t].job \in Objects, frame[t].final # "PREPARE"
  PROVE  KeyInv'
<1> DEFINE f == [frame[t] EXCEPT !.pc = l, !.slot = out]
<1>1. FrameOK(frame[t], status', dek') /\ frame[t].job # None /\ frame[t] \in Frame
  BY FrameKept, NoneDistinct, ThreadType
<1>2. f \in Frame
  BY <1>1 DEF Frame, Labels
<1>3. f.job = frame[t].job /\ f.final = frame[t].final /\ f.slot = out /\ f.pc = l
  BY <1>1 DEF Frame
<1> HIDE DEF f
<1>4. Replaces(f, t)
  BY <1>1, <1>3 DEF FrameOK, Replaces
<1> QED BY <1>2, <1>4, KeyStep DEF f

\* An object of the table is published.
LEMMA KnownPublished ==
  ASSUME TypeOK, KeyInv, NEW id \in JobIds, Known(id)
  PROVE  current[id] \in Objects /\ Published(current[id]) /\ current[id] # None
  BY DEF TypeOK, KeyInv, Known

\* A request may enter a cleanup, or a cancellation, of a job in the table.
LEMMA KeyBegin ==
  ASSUME TypeOK, KeyInv, JobsStep, NEW t \in Threads, NEW o \in Objects, Published(o),
         NEW l \in Labels, NEW x \in Finals, x # "PREPARE",
         l \in {"clear", "cancel"} \/ (l = "pop" /\ x = "COMPLETED"),
         Become(t, [Blank(l) EXCEPT !.job = o, !.final = x])
  PROVE  KeyInv'
<1> DEFINE f == [Blank(l) EXCEPT !.job = o, !.final = x]
<1>1. Blank(l) \in Frame
  BY BlankType
<1>2. f \in Frame
  BY <1>1 DEF Frame
<1>3. f.job = o /\ f.final = x /\ f.pc = l
  BY DEF Blank
<1>4. Published(o)' /\ o # None /\ Become(t, f)
  BY NoneDistinct DEF JobsStep, Published
<1> HIDE DEF f
<1>5. FrameOK(f, status', dek')
  BY <1>3, <1>4 DEF FrameOK, Published
<1>6. Replaces(f, t)
  BY <1>3, <1>5 DEF Replaces
<1> QED BY <1>2, <1>4, <1>6, KeyStep

\* A request may begin to handle an input of a job in the table.
LEMMA KeyBeginSlot ==
  ASSUME TypeOK, KeyInv, JobsStep, NEW t \in Threads, NEW o \in Objects, Published(o),
         NEW l \in Labels, NEW s \in Slots, l \in {"decrypt", "open"},
         Become(t, [Blank(l) EXCEPT !.job = o, !.slot = s])
  PROVE  KeyInv'
<1> DEFINE f == [Blank(l) EXCEPT !.job = o, !.slot = s]
<1>1. Blank(l) \in Frame
  BY BlankType
<1>2. f \in Frame
  BY <1>1 DEF Frame
<1>3. f.job = o /\ f.final = "none" /\ f.pc = l /\ f.slot \in Slots
  BY DEF Blank
<1>4. Published(o)' /\ o # None /\ Become(t, f)
  BY NoneDistinct DEF JobsStep, Published
<1> HIDE DEF f
<1>5. FrameOK(f, status', dek')
  BY <1>3, <1>4 DEF FrameOK, Published
<1>6. Replaces(f, t)
  BY <1>3, <1>5 DEF Replaces
<1> QED BY <1>2, <1>4, <1>6, KeyStep

-----------------------------------------------------------------------------
\* Every step of every thread keeps KeyInv.
LEMMA KeyInvStep ==
  ASSUME TypeOK, KeyInv, [Next]_vars PROVE KeyInv'
<1>1. ASSUME NEW t \in Threads, PrepareDiscard(t) PROVE KeyInv'
  <2> DEFINE o == frame[t].job
  <2>1. frame[t].final = "PREPARE" /\ o \in Objects /\ status[o] = "opening"
    BY <1>1, Holding DEF PrepareDiscard, At, KeyInv, FrameOK
  <2>2. ASSUME NEW u \in Threads \ {t} PROVE frame'[u] = frame[u] /\ frame[u].job # o
    BY <1>1, <2>1 DEF PrepareDiscard, Leave, Become, TypeOK, KeyInv
  <2>3. frame'[t] = Rest(t)
    BY <1>1 DEF PrepareDiscard, Leave, Become, TypeOK
  <2>4. Rest(t).job = None /\ Rest(t).final = "none" /\ Rest(t).pc \in {"idle", "dead"}
    BY DEF Rest, Blank
  <2>5. /\ status' = [status EXCEPT ![o] = "unused"]
        /\ dek' = [dek EXCEPT ![o] = {}]
        /\ UNCHANGED <<current, owner, todo>>
    BY <1>1 DEF PrepareDiscard
  <2>6. ASSUME NEW q \in Objects, q # o
        PROVE status'[q] = status[q] /\ dek'[q] = dek[q]
    BY <2>5, <2>6 DEF TypeOK
  <2>7. status'[o] = "unused" /\ dek'[o] = {}
    BY <2>1, <2>5 DEF TypeOK
  <2> HIDE DEF o
  <2>8. DeksClearedWhenOver'
    BY <2>6, <2>7 DEF KeyInv, DeksClearedWhenOver
  <2>9. ASSUME NEW id \in JobIds, Known(id)' PROVE Published(current[id])'
    <3>1. Known(id) /\ current[id] \in Objects /\ Published(current[id]) /\ current'[id] = current[id]
      BY <2>5, <2>9 DEF Known, KeyInv, TypeOK
    <3>2. current[id] # o
      BY <2>1, <3>1 DEF Published
    <3> QED BY <2>6, <3>1, <3>2 DEF Published
  <2>10. ASSUME NEW q \in Objects, status'[q] # "unused"
         PROVE  owner'[q] \in JobIds /\ (Published(q)' => Known(owner[q])')
    BY <2>5, <2>6, <2>7, <2>10 DEF KeyInv, Published, Known
  <2>11. ASSUME NEW u \in Threads PROVE FrameOK(frame'[u], status', dek')
    <3>1. CASE u = t
      BY <2>3, <2>4, <3>1 DEF FrameOK
    <3>2. CASE u # t
      <4>1. FrameOK(frame[u], status, dek) /\ frame[u].job \in Objects \cup {None}
        BY ThreadType DEF KeyInv
      <4>2. frame'[u] = frame[u] /\ frame[u].job # o
        BY <2>2, <3>2
      <4>3. frame[u].job # None =>
              status'[frame[u].job] = status[frame[u].job] /\ dek'[frame[u].job] = dek[frame[u].job]
        BY <2>6, <4>1, <4>2
      <4> QED BY <4>1, <4>2, <4>3 DEF FrameOK
    <3> QED BY <3>1, <3>2
  <2>12. ASSUME NEW u \in Threads, NEW v \in Threads, u # v, frame'[u].final = "PREPARE"
         PROVE  frame'[u].job # frame'[v].job
    <3>1. u # t /\ frame'[u] = frame[u]
      BY <2>2, <2>3, <2>4, <2>12
    <3>2. frame[u].job # None /\ (v # t => frame[u].job # frame[v].job)
      BY <2>12, <3>1 DEF KeyInv, FrameOK
    <3> QED BY <2>2, <2>3, <2>4, <2>12, <3>1, <3>2
  <2>13. \A id \in todo' : Known(id)'
    BY <2>5 DEF KeyInv, Known
  <2> QED BY <2>8, <2>9, <2>10, <2>11, <2>12, <2>13 DEF KeyInv, Published
<1>2. ASSUME NEW t \in Threads, PrepareMkdir(t) PROVE KeyInv'
  <2>1. JobsStep /\ FrameOK(frame[t], status', dek') /\ frame[t] \in Frame
    BY <1>2, JobsStill, FrameKept, ThreadType DEF PrepareMkdir
  <2>2. frame[t].pc = "mkdir"
    BY <1>2 DEF PrepareMkdir, At
  <2>3. ASSUME NEW l \in {"commit", "discard"}
        PROVE FrameOK([frame[t] EXCEPT !.pc = l], status', dek')
    BY <2>1, <2>2 DEF FrameOK, Frame
  <2>4. CASE Goto(t, "commit") \/ Goto(t, "discard")
    BY <2>1, <2>3, <2>4, KeyGoto DEF Labels
  <2>5. CASE frame[t].made # 3 /\ Become(t, [frame[t] EXCEPT !.made = @ + 1])
    <3> DEFINE f == [frame[t] EXCEPT !.made = @ + 1]
    <3>1. f \in Frame
      BY <2>5, ThreadType DEF Frame
    <3>2. /\ f.pc = frame[t].pc /\ f.job = frame[t].job /\ f.final = frame[t].final
          /\ f.slot = frame[t].slot
      BY <2>1 DEF Frame
    <3>3. frame[t].final = "PREPARE"
      BY <2>1, <2>2 DEF FrameOK
    <3> HIDE DEF f
    <3>4. Replaces(f, t)
      BY <2>1, <3>2, <3>3 DEF Replaces, FrameOK
    <3> QED BY <2>1, <2>5, <3>1, <3>4, KeyStep DEF f
  <2> QED BY <1>2, <2>4, <2>5 DEF PrepareMkdir
<1>3. ASSUME NEW t \in Threads, PrepareCommit(t) PROVE KeyInv'
  <2> DEFINE o == frame[t].job
  <2>1. frame[t].final = "PREPARE" /\ o \in Objects /\ status[o] = "opening" /\ owner[o] \in JobIds
    BY <1>3, Holding DEF PrepareCommit, At, KeyInv, FrameOK
  <2>2. ASSUME NEW u \in Threads \ {t} PROVE frame'[u] = frame[u] /\ frame[u].job # o
    BY <1>3, <2>1 DEF PrepareCommit, Leave, Become, TypeOK, KeyInv
  <2>3. frame'[t] = Rest(t)
    BY <1>3 DEF PrepareCommit, Leave, Become, TypeOK
  <2>4. Rest(t).job = None /\ Rest(t).final = "none" /\ Rest(t).pc \in {"idle", "dead"}
    BY DEF Rest, Blank
  <2>5. /\ current' = [current EXCEPT ![owner[o]] = o]
        /\ status' = [status EXCEPT ![o] = "STAGING_INPUTS"]
        /\ UNCHANGED <<owner, dek, todo>>
    BY <1>3 DEF PrepareCommit, Id
  <2>6. ASSUME NEW q \in Objects, q # o PROVE status'[q] = status[q]
    BY <2>5, <2>6 DEF TypeOK
  <2>7. status'[o] = "STAGING_INPUTS" /\ current'[owner[o]] = o /\ o # None
    BY <2>1, <2>5, NoneDistinct DEF TypeOK
  <2>8. ASSUME NEW id \in JobIds, id # owner[o] PROVE current'[id] = current[id]
    BY <2>5, <2>8 DEF TypeOK
  <2> HIDE DEF o
  <2>9. ASSUME NEW id \in JobIds, Known(id) PROVE Known(id)'
    BY <2>7, <2>8, <2>9 DEF Known
  <2>10. DeksClearedWhenOver'
    BY <2>5, <2>6, <2>7 DEF KeyInv, DeksClearedWhenOver
  <2>11. ASSUME NEW id \in JobIds, Known(id)' PROVE Published(current[id])'
    <3>1. CASE id = owner[o]
      BY <2>7, <3>1 DEF Published
    <3>2. CASE id # owner[o]
      <4>1. Known(id) /\ current[id] \in Objects /\ Published(current[id]) /\ current'[id] = current[id]
        BY <2>8, <2>11, <3>2 DEF Known, KeyInv, TypeOK
      <4>2. current[id] # o
        BY <2>1, <4>1 DEF Published
      <4> QED BY <2>6, <4>1, <4>2 DEF Published
    <3> QED BY <3>1, <3>2
  <2>12. ASSUME NEW q \in Objects, status'[q] # "unused"
         PROVE  owner'[q] \in JobIds /\ (Published(q)' => Known(owner[q])')
    <3>1. owner'[q] \in JobIds
      BY <2>1, <2>5, <2>6, <2>12 DEF KeyInv
    <3>2. CASE owner'[q] = owner[o]
      BY <2>7, <3>1, <3>2 DEF Known
    <3>3. CASE owner'[q] # owner[o]
      BY <2>5, <2>6, <2>9, <2>12, <3>1, <3>3 DEF KeyInv, Published, Known
    <3> QED BY <3>1, <3>2, <3>3
  <2>13. ASSUME NEW u \in Threads PROVE FrameOK(frame'[u], status', dek')
    <3>1. CASE u = t
      BY <2>3, <2>4, <3>1 DEF FrameOK
    <3>2. CASE u # t
      <4>1. FrameOK(frame[u], status, dek) /\ frame[u].job \in Objects \cup {None}
        BY ThreadType DEF KeyInv
      <4>2. frame'[u] = frame[u] /\ frame[u].job # o
        BY <2>2, <3>2
      <4>3. frame[u].job # None =>
              status'[frame[u].job] = status[frame[u].job] /\ dek'[frame[u].job] = dek[frame[u].job]
        BY <2>5, <2>6, <4>1, <4>2
      <4> QED BY <4>1, <4>2, <4>3 DEF FrameOK
    <3> QED BY <3>1, <3>2
  <2>14. ASSUME NEW u \in Threads, NEW v \in Threads, u # v, frame'[u].final = "PREPARE"
         PROVE  frame'[u].job # frame'[v].job
    <3>1. u # t /\ frame'[u] = frame[u]
      BY <2>2, <2>3, <2>4, <2>14
    <3>2. frame[u].job # None /\ (v # t => frame[u].job # frame[v].job)
      BY <2>14, <3>1 DEF KeyInv, FrameOK
    <3> QED BY <2>2, <2>3, <2>4, <2>14, <3>1, <3>2
  <2>15. \A id \in todo' : Known(id)'
    BY <2>5, <2>9 DEF KeyInv, TypeOK
  <2> QED BY <2>10, <2>11, <2>12, <2>13, <2>14, <2>15 DEF KeyInv, Published
<1>4. ASSUME NEW t \in Threads, AppendDecrypt(t) PROVE KeyInv'
  <2>1. JobsStep
    BY <1>4, JobsStill DEF AppendDecrypt
  <2>2. frame[t].job \in Objects /\ frame[t].final # "PREPARE"
    BY <1>4, Handling DEF AppendDecrypt, At
  <2>3. frame[t].slot \in Slots
    BY <1>4, HoldingSlot DEF AppendDecrypt, At
  <2> QED BY <1>4, <2>1, <2>2, <2>3, KeyOn, KeyFail, KeyLeave DEF AppendDecrypt, Labels
<1>5. ASSUME NEW t \in Threads, AppendWrite(t) PROVE KeyInv'
  <2>1. JobsStep
    BY <1>5, JobsStill DEF AppendWrite
  <2>2. frame[t].job \in Objects /\ frame[t].final # "PREPARE"
    BY <1>5, Handling DEF AppendWrite, At
  <2>3. frame[t].slot \in Slots
    BY <1>5, HoldingSlot DEF AppendWrite, At
  <2> QED BY <1>5, <2>1, <2>2, <2>3, KeyOn, KeyFail DEF AppendWrite, Labels
<1>6. ASSUME NEW t \in Threads, AppendAdvance(t) PROVE KeyInv'
  BY <1>6, KeyLeave DEF AppendAdvance, JobsStep
<1>7. ASSUME NEW t \in Threads, FinalizeOpen(t) PROVE KeyInv'
  <2> DEFINE f == [frame[t] EXCEPT !.pc = "extract", !.data = package[Id(t)][frame[t].slot]]
  <2>1. JobsStep /\ frame[t] \in Frame
    BY <1>7, JobsStill, ThreadType DEF FinalizeOpen
  <2>2. frame[t].job \in Objects /\ frame[t].final # "PREPARE" /\ FrameOK(frame[t], status', dek')
    BY <1>7, <2>1, Handling, FrameKept DEF FinalizeOpen, At
  <2>3. Id(t) \in JobIds /\ frame[t].slot \in Slots
    BY <1>7, Holding, HoldingSlot DEF FinalizeOpen, At
  <2>4. package[Id(t)][frame[t].slot] \in Seq(Chunk)
    BY <2>3, EmptySeq DEF TypeOK
  <2>5. /\ f \in Frame /\ f.job = frame[t].job /\ f.final = frame[t].final
        /\ f.slot = frame[t].slot /\ f.pc \in {"extract", "finalize"}
    BY <2>1, <2>4 DEF Frame, Labels
  <2> HIDE DEF f
  <2>6. Replaces(f, t)
    BY <2>2, <2>3, <2>5, NoneDistinct DEF FrameOK, Replaces
  <2>7. CASE Become(t, f)
    BY <2>1, <2>5, <2>6, <2>7, KeyStep
  <2>8. CASE Fail(t)
    BY <2>1, <2>2, <2>8, KeyFail
  <2> QED BY <1>7, <2>7, <2>8 DEF FinalizeOpen, f
<1>8. ASSUME NEW t \in Threads, FinalizeExtract(t) PROVE KeyInv'
  <2> DEFINE f == [frame[t] EXCEPT !.pc = "finalize", !.data = <<>>]
  <2>1. JobsStep /\ frame[t] \in Frame
    BY <1>8, JobsStill, ThreadType DEF FinalizeExtract
  <2>2. frame[t].job \in Objects /\ frame[t].final # "PREPARE" /\ FrameOK(frame[t], status', dek')
    BY <1>8, <2>1, Handling, FrameKept DEF FinalizeExtract, At
  <2>3. Id(t) \in JobIds /\ frame[t].slot \in Slots
    BY <1>8, Holding, HoldingSlot DEF FinalizeExtract, At
  <2>4. <<>> \in Seq(Chunk)
    BY <2>3, EmptySeq DEF TypeOK
  <2>5. /\ f \in Frame /\ f.job = frame[t].job /\ f.final = frame[t].final
        /\ f.slot = frame[t].slot /\ f.pc \in {"extract", "finalize"}
    BY <2>1, <2>4 DEF Frame, Labels
  <2> HIDE DEF f
  <2>6. Replaces(f, t)
    BY <2>2, <2>3, <2>5, NoneDistinct DEF FrameOK, Replaces
  <2>7. CASE Become(t, f)
    BY <2>1, <2>5, <2>6, <2>7, KeyStep
  <2>8. CASE Fail(t)
    BY <2>1, <2>2, <2>8, KeyFail
  <2> QED BY <1>8, <2>7, <2>8 DEF FinalizeExtract, f
<1>9. ASSUME NEW t \in Threads, FinalizeCommit(t) PROVE KeyInv'
  <2>1. frame[t].job \in Objects /\ Published(frame[t].job)
    BY <1>9, Handling DEF FinalizeCommit, At
  <2>2. JobsStep
    BY <1>9, <2>1 DEF FinalizeCommit, JobsStep, TypeOK
  <2> QED BY <1>9, <2>2, KeyLeave DEF FinalizeCommit
<1>10. ASSUME NEW t \in Threads, StartGpu(t) PROVE KeyInv'
  <2>1. JobsStep
    BY <1>10, JobsStill DEF StartGpu
  <2>2. frame[t].job \in Objects /\ frame[t].final # "PREPARE"
    BY <1>10, Handling DEF StartGpu, At
  <2> QED BY <1>10, <2>1, <2>2, KeyOn, KeyLeave DEF StartGpu, Labels
<1>11. ASSUME NEW t \in Threads, StartLaunch(t) PROVE KeyInv'
  <2>1. JobsStep
    BY <1>11, JobsStill DEF StartLaunch
  <2>2. frame[t].job \in Objects /\ frame[t].final # "PREPARE"
    BY <1>11, Handling DEF StartLaunch, At
  <2> QED BY <1>11, <2>1, <2>2, KeyOn, KeyFail DEF StartLaunch, Labels
<1>12. ASSUME NEW t \in Threads, StartCommit(t) PROVE KeyInv'
  <2> DEFINE o == frame[t].job
             p == frame[t].worker
             f == [Blank("find") EXCEPT !.job = o]
  <2>1. o \in Objects /\ Published(o) /\ o # None
    BY <1>12, Handling, NoneDistinct DEF StartCommit, At
  <2>2. /\ status' = [status EXCEPT ![o] = "RUNNING"]
        /\ frame' = [frame EXCEPT ![t] = Blank("idle"), ![p] = f]
        /\ UNCHANGED <<current, owner, dek, todo>>
    BY <1>12 DEF StartCommit
  <2>3. JobsStep
    BY <2>1, <2>2, JobsStatus DEF Status
  <2>4. Blank("idle") \in Frame /\ Blank("find") \in Frame
    BY BlankType DEF Labels
  <2>5. f \in Frame
    BY <2>1, <2>4 DEF Frame
  <2>6. f.pc = "find" /\ f.job = o /\ f.final = "none"
    BY DEF Blank
  <2>7. Blank("idle").pc = "idle" /\ Blank("idle").job = None /\ Blank("idle").final = "none"
    BY DEF Blank
  <2> HIDE DEF f
  <2>8. frame' \in [Threads -> Frame]
    BY <2>2, <2>4, <2>5 DEF TypeOK
  <2>9. status'[o] = "RUNNING"
    BY <2>1, <2>2 DEF TypeOK
  <2>10. ASSUME NEW u \in Threads PROVE Replaces(f, u)
    BY <2>1, <2>6, <2>9 DEF Replaces, FrameOK
  <2>11. ASSUME NEW u \in Threads PROVE Replaces(Blank("idle"), u)
    BY <2>7 DEF Replaces, FrameOK
  <2>12. ASSUME NEW u \in Threads PROVE frame'[u] \in {frame[u], f, Blank("idle")}
    BY <2>2 DEF TypeOK
  <2> QED BY <2>3, <2>8, <2>10, <2>11, <2>12, KeySteps
<1>13. ASSUME NEW t \in Threads, MonitorFind(t) PROVE KeyInv'
  <2> DEFINE f == [frame[t] EXCEPT !.job = current[Id(t)], !.pc = "attach"]
  <2>1. JobsStep /\ frame[t] \in Frame /\ status' = status /\ Become(t, f)
    BY <1>13, JobsStill, ThreadType DEF MonitorFind, jobVars
  <2>2. frame[t].job \in Objects /\ frame[t].final # "PREPARE" /\ Published(frame[t].job)
    BY <1>13, Handling DEF MonitorFind, At
  <2>3. Id(t) \in JobIds /\ Known(Id(t))
    BY <1>13, <2>2, Holding DEF MonitorFind, At, KeyInv, Id
  <2>4. current[Id(t)] \in Objects /\ Published(current[Id(t)]) /\ current[Id(t)] # None
    BY <2>3, KnownPublished
  <2>5. f \in Frame /\ f.job = current[Id(t)] /\ f.final = frame[t].final /\ f.pc = "attach"
    BY <2>1, <2>4 DEF Frame, Labels
  <2> HIDE DEF f
  <2>6. f.job # None /\ Published(f.job) /\ status'[f.job] \notin {"unused", "opening"}
    BY <2>1, <2>4, <2>5 DEF Published
  <2>7. Replaces(f, t)
    BY <2>2, <2>5, <2>6 DEF Replaces, FrameOK
  <2> QED BY <2>1, <2>5, <2>7, KeyStep
<1>14. ASSUME NEW t \in Threads, MonitorAttach(t) PROVE KeyInv'
  <2> DEFINE f == [frame[t] EXCEPT !.worker = registered[Id(t)], !.pc = "wait"]
  <2>1. JobsStep /\ frame[t] \in Frame
    BY <1>14, JobsStill, ThreadType DEF MonitorAttach
  <2>2. /\ frame[t].job \in Objects /\ frame[t].final # "PREPARE"
        /\ FrameOK(frame[t], status', dek') /\ Id(t) \in JobIds
    BY <1>14, <2>1, Handling, Holding, FrameKept DEF MonitorAttach, At
  <2>3. registered[Id(t)] \in Workers \cup {None}
    BY <2>2 DEF TypeOK
  <2>4. f \in Frame /\ f.job = frame[t].job /\ f.final = frame[t].final /\ f.pc = "wait"
    BY <2>1, <2>3 DEF Frame, Labels
  <2> HIDE DEF f
  <2>5. Replaces(f, t)
    BY <2>2, <2>4, NoneDistinct DEF Replaces, FrameOK
  <2>6. CASE Become(t, f)
    BY <2>1, <2>4, <2>5, <2>6, KeyStep
  <2>7. CASE Fail(t)
    BY <2>1, <2>2, <2>7, KeyFail
  <2> QED BY <1>14, <2>6, <2>7 DEF MonitorAttach, f
<1>15. ASSUME NEW t \in Threads, MonitorWait(t) PROVE KeyInv'
  <2>1. JobsStep
    BY <1>15, JobsStill DEF MonitorWait
  <2>2. frame[t].job \in Objects /\ frame[t].final # "PREPARE"
    BY <1>15, Handling DEF MonitorWait, At
  <2> QED BY <1>15, <2>1, <2>2, KeyOn, KeyFail DEF MonitorWait, Labels
<1>16. ASSUME NEW t \in Threads, MonitorEncrypting(t) PROVE KeyInv'
  <2>1. frame[t].job \in Objects /\ frame[t].final # "PREPARE" /\ Published(frame[t].job)
    BY <1>16, Handling DEF MonitorEncrypting, At
  <2>2. JobsStep
    BY <1>16, <2>1, JobsStatus DEF MonitorEncrypting, Status
  <2> QED BY <1>16, <2>1, <2>2, KeyOnOutput DEF MonitorEncrypting, Outputs
<1>17. ASSUME NEW t \in Threads, MonitorRead(t) PROVE KeyInv'
  <2>1. JobsStep
    BY <1>17, JobsStill DEF MonitorRead
  <2>2. frame[t].job \in Objects /\ frame[t].final # "PREPARE"
    BY <1>17, Handling DEF MonitorRead, At
  <2>3. frame[t].slot \in Outputs
    BY <1>17, HoldingOutput DEF MonitorRead, At
  <2> QED BY <1>17, <2>1, <2>2, <2>3, KeyOn, KeyFail DEF MonitorRead, Labels
<1>18. ASSUME NEW t \in Threads, MonitorSeal(t) PROVE KeyInv'
  <2>1. JobsStep
    BY <1>18 DEF MonitorSeal, JobsStep
  <2>2. frame[t].job \in Objects /\ frame[t].final # "PREPARE"
    BY <1>18, Handling DEF MonitorSeal, At
  <2> QED BY <1>18, <2>1, <2>2, KeyOnOutput, KeyFail DEF MonitorSeal, Outputs
<1>19. ASSUME NEW t \in Threads, MonitorTidy(t) PROVE KeyInv'
  <2>1. JobsStep
    BY <1>19, JobsStill DEF MonitorTidy
  <2>2. frame[t].job \in Objects /\ frame[t].final # "PREPARE"
    BY <1>19, Handling DEF MonitorTidy, At
  <2> QED BY <1>19, <2>1, <2>2, KeyOn, KeyFail DEF MonitorTidy, Labels
<1>20. ASSUME NEW t \in Threads, MonitorReady(t) PROVE KeyInv'
  <2>1. frame[t].job \in Objects /\ frame[t].final # "PREPARE" /\ Published(frame[t].job)
    BY <1>20, Handling DEF MonitorReady, At
  <2>2. JobsStep
    BY <1>20, <2>1, JobsStatus DEF MonitorReady, Status
  <2> QED BY <1>20, <2>1, <2>2, KeyLeave DEF MonitorReady, Labels
<1>21. ASSUME NEW t \in Threads, CancelMark(t) PROVE KeyInv'
  <2>1. frame[t].job \in Objects /\ frame[t].final # "PREPARE" /\ Published(frame[t].job)
    BY <1>21, Handling DEF CancelMark, At
  <2>2. JobsStep
    BY <1>21, <2>1, JobsStatus DEF CancelMark, Status
  <2> QED BY <1>21, <2>1, <2>2, KeyOn DEF CancelMark, Labels
<1>22. ASSUME NEW t \in Threads, CloseNext(t) PROVE KeyInv'
  <2>1. JobsStep
    BY <1>22, JobsStill DEF CloseNext
  <2>2. CASE Become(t, Blank("closed"))
    <3>1. Blank("closed") \in Frame
      BY BlankType DEF Labels
    <3>2. Replaces(Blank("closed"), t)
      BY DEF Replaces, FrameOK, Blank
    <3> QED BY <2>1, <2>2, <3>1, <3>2, KeyStep
  <2>3. ASSUME NEW id \in todo,
               Become(t, [Blank("clear") EXCEPT !.job = current[id], !.final = "SHUTDOWN"])
        PROVE  KeyInv'
    <3>1. id \in JobIds /\ Known(id)
      BY DEF KeyInv, TypeOK
    <3>2. current[id] \in Objects /\ Published(current[id])
      BY <3>1, KnownPublished
    <3> QED BY <2>1, <2>3, <3>2, KeyBegin DEF Labels, Finals
  <2> QED BY <1>22, <2>2, <2>3 DEF CloseNext
<1>23. ASSUME NEW t \in Threads, ClearDeks(t) PROVE KeyInv'
  <2>1. frame[t].job \in Objects /\ frame[t].final # "PREPARE"
    BY <1>23, Handling DEF ClearDeks, At
  <2>2. dek' = [dek EXCEPT ![frame[t].job] = {}] /\ UNCHANGED <<current, owner, status, todo>>
    BY <1>23 DEF ClearDeks
  <2>3. JobsStep /\ dek'[frame[t].job] = {}
    BY <2>1, <2>2 DEF JobsStep, TypeOK
  <2>4. FrameOK(frame[t], status', dek') /\ frame[t] \in Frame
    BY <2>3, FrameKept, ThreadType
  <2>5. FrameOK([frame[t] EXCEPT !.pc = "pop"], status', dek')
    BY <2>1, <2>3, <2>4, NoneDistinct DEF FrameOK, Frame
  <2> QED BY <1>23, <2>3, <2>5, KeyGoto DEF ClearDeks, Labels
<1>24. ASSUME NEW t \in Threads, PopProcess(t) PROVE KeyInv'
  <2> DEFINE f == [frame[t] EXCEPT !.worker = registered[Id(t)], !.pc = "kill"]
  <2>1. JobsStep /\ frame[t] \in Frame
    BY <1>24, JobsStill, ThreadType DEF PopProcess
  <2>2. Id(t) \in JobIds /\ FrameOK(frame[t], status', dek') /\ frame[t].pc = "pop"
    BY <1>24, <2>1, Holding, FrameKept DEF PopProcess, At
  <2>3. registered[Id(t)] \in Workers \cup {None}
    BY <2>2 DEF TypeOK
  <2>4. f \in Frame /\ f.job = frame[t].job /\ f.final = frame[t].final /\ f.pc = "kill"
    BY <2>1, <2>3 DEF Frame, Labels
  <2>5. Become(t, f)
    BY <1>24 DEF PopProcess
  <2> HIDE DEF f
  <2>6. Replaces(f, t)
    BY <2>2, <2>4 DEF FrameOK, Replaces
  <2> QED BY <2>1, <2>4, <2>5, <2>6, KeyStep
<1>25. ASSUME NEW t \in Threads, KillProcess(t) PROVE KeyInv'
  <2> DEFINE f == [frame[t] EXCEPT !.worker = None, !.pc = "look"]
  <2>1. JobsStep /\ frame[t] \in Frame
    BY <1>25, JobsStill, ThreadType DEF KillProcess
  <2>2. FrameOK(frame[t], status', dek') /\ frame[t].pc = "kill"
    BY <1>25, <2>1, FrameKept DEF KillProcess, At
  <2>3. f \in Frame /\ f.job = frame[t].job /\ f.final = frame[t].final /\ f.pc = "look"
    BY <2>1 DEF Frame, Labels
  <2>4. Become(t, f)
    BY <1>25 DEF KillProcess
  <2> HIDE DEF f
  <2>5. Replaces(f, t)
    BY <2>2, <2>3 DEF FrameOK, Replaces
  <2> QED BY <2>1, <2>3, <2>4, <2>5, KeyStep
<1>26. ASSUME NEW t \in Threads, LookForDirectory(t) PROVE KeyInv'
  <2>1. JobsStep /\ frame[t] \in Frame
    BY <1>26, JobsStill, ThreadType DEF LookForDirectory
  <2>2. FrameOK(frame[t], status', dek') /\ frame[t].pc = "look"
    BY <1>26, <2>1, FrameKept DEF LookForDirectory, At
  <2>3. /\ FrameOK([frame[t] EXCEPT !.pc = "wipe"], status', dek')
        /\ FrameOK([frame[t] EXCEPT !.pc = AfterCleanup(t)], status', dek')
    BY <2>1, <2>2 DEF FrameOK, Frame, AfterCleanup
  <2> QED BY <1>26, <2>1, <2>3, KeyGoto DEF LookForDirectory, Labels, AfterCleanup
<1>27. ASSUME NEW t \in Threads, WipeDirectory(t) PROVE KeyInv'
  <2>1. JobsStep /\ frame[t] \in Frame
    BY <1>27, JobsStill, ThreadType DEF WipeDirectory
  <2>2. FrameOK(frame[t], status', dek') /\ frame[t].pc = "wipe"
    BY <1>27, <2>1, FrameKept DEF WipeDirectory, At
  <2>3. CASE Goto(t, AfterCleanup(t))
    <3>1. FrameOK([frame[t] EXCEPT !.pc = AfterCleanup(t)], status', dek')
      BY <2>1, <2>2 DEF FrameOK, Frame, AfterCleanup
    <3> QED BY <2>1, <2>3, <3>1, KeyGoto DEF Labels, AfterCleanup
  <2>4. CASE Goto(t, "discard") /\ frame[t].final = "PREPARE"
    <3>1. FrameOK([frame[t] EXCEPT !.pc = "discard"], status', dek')
      BY <2>1, <2>2, <2>4 DEF FrameOK, Frame
    <3> QED BY <2>1, <2>4, <3>1, KeyGoto DEF Labels
  <2>5. CASE Become(t, Blank("aborted"))
    <3>1. Blank("aborted") \in Frame
      BY BlankType DEF Labels
    <3>2. Replaces(Blank("aborted"), t)
      BY DEF Replaces, FrameOK, Blank
    <3> QED BY <2>1, <2>5, <3>1, <3>2, KeyStep
  <2>6. CASE Leave(t)
    BY <2>1, <2>6, KeyLeave
  <2> QED BY <1>27, <2>3, <2>4, <2>5, <2>6 DEF WipeDirectory, CleanupRaises
<1>28. ASSUME NEW t \in Threads, EndCleanup(t) PROVE KeyInv'
  <2> DEFINE o == frame[t].job
  <2>1. o \in Objects /\ Published(o) /\ FrameOK(frame[t], status, dek) /\ frame[t].pc = "end"
    BY <1>28, Handling DEF EndCleanup, At, KeyInv
  <2>2. UNCHANGED <<current, owner, dek, todo>>
    BY <1>28 DEF EndCleanup
  <2>3. CASE frame[t].final \in Over /\ status' = [status EXCEPT ![o] = frame[t].final] /\ Leave(t)
    <3>1. frame[t].final \in {"FAILED", "CANCELLED"} => dek[o] = {}
      BY <2>1 DEF FrameOK
    <3>2. JobsStep
      BY <2>1, <2>2, <2>3, <3>1, JobsStatus DEF Over, Status
    <3> QED BY <2>3, <3>2, KeyLeave
  <2>4. CASE /\ frame[t].final = "SHUTDOWN"
             /\ status' = [status EXCEPT ![o] = IF @ \in Over THEN @ ELSE "FAILED"]
             /\ Become(t, Blank("next"))
    <3>1. dek[o] = {}
      BY <2>1, <2>4 DEF FrameOK
    <3>2. \E x \in Over : status' = [status EXCEPT ![o] = x]
      BY <2>1, <2>4 DEF Over, TypeOK
    <3>3. JobsStep
      BY <2>1, <2>2, <3>1, <3>2, JobsStatus DEF Over, Status
    <3>4. Blank("next") \in Frame
      BY BlankType DEF Labels
    <3>5. Replaces(Blank("next"), t)
      BY DEF Replaces, FrameOK, Blank
    <3> QED BY <2>4, <3>3, <3>4, <3>5, KeyStep
  <2> QED BY <1>28, <2>3, <2>4 DEF EndCleanup
<1>29. ASSUME NEW t \in Requests, NEW id \in JobIds, NEW o \in Objects, PrepareOpen(t, id, o)
       PROVE KeyInv'
  <2>1. t \in Threads /\ status[o] = "unused" /\ o # None
    BY <1>29, NoneDistinct DEF PrepareOpen, Threads
  <2>2. PICK opened \in SUBSET Slots :
          /\ dek' = [dek EXCEPT ![o] = opened]
          /\ Become(t, [Blank(IF opened = Slots THEN "pop" ELSE "discard")
                          EXCEPT !.job = o, !.final = "PREPARE"])
    BY <1>29 DEF PrepareOpen
  <2> DEFINE f == [Blank(IF opened = Slots THEN "pop" ELSE "discard")
                     EXCEPT !.job = o, !.final = "PREPARE"]
  <2>3. f.job = o /\ f.final = "PREPARE" /\ f.pc \in {"pop", "discard"}
    BY DEF Blank
  <2>4. frame'[t] = f /\ \A u \in Threads \ {t} : frame'[u] = frame[u]
    BY <2>1, <2>2 DEF Become, TypeOK
  <2> HIDE DEF f
  <2>5. /\ status' = [status EXCEPT ![o] = "opening"]
        /\ owner' = [owner EXCEPT ![o] = id]
        /\ UNCHANGED <<current, todo>>
    BY <1>29 DEF PrepareOpen
  <2>6. ASSUME NEW q \in Objects, q # o
        PROVE status'[q] = status[q] /\ dek'[q] = dek[q] /\ owner'[q] = owner[q]
    BY <2>2, <2>5, <2>6 DEF TypeOK
  <2>7. status'[o] = "opening" /\ owner'[o] = id
    BY <2>5 DEF TypeOK
  <2>8. DeksClearedWhenOver'
    BY <2>6, <2>7 DEF KeyInv, DeksClearedWhenOver
  <2>9. ASSUME NEW i \in JobIds, Known(i)' PROVE Published(current[i])'
    <3>1. current[i] \in Objects /\ Published(current[i]) /\ current'[i] = current[i]
      BY <2>5, <2>9 DEF Known, KeyInv, TypeOK
    <3>2. current[i] # o
      BY <2>1, <3>1 DEF Published
    <3> QED BY <2>6, <3>1, <3>2 DEF Published
  <2>10. ASSUME NEW q \in Objects, status'[q] # "unused"
         PROVE  owner'[q] \in JobIds /\ (Published(q)' => Known(owner[q])')
    BY <2>5, <2>6, <2>7, <2>10 DEF KeyInv, Published, Known
  <2>11. ASSUME NEW u \in Threads
         PROVE  /\ FrameOK(frame[u], status, dek) /\ frame[u].job \in Objects \cup {None}
                /\ frame[u].job # o
    BY <2>1, ThreadType DEF KeyInv, FrameOK
  <2>12. ASSUME NEW u \in Threads PROVE FrameOK(frame'[u], status', dek')
    <3>1. CASE u = t
      BY <2>1, <2>3, <2>4, <2>7, <3>1 DEF FrameOK
    <3>2. CASE u # t
      <4>1. frame'[u] = frame[u]
        BY <2>4, <3>2
      <4>2. frame[u].job # None =>
              status'[frame[u].job] = status[frame[u].job] /\ dek'[frame[u].job] = dek[frame[u].job]
        BY <2>6, <2>11
      <4> QED BY <2>11, <4>1, <4>2 DEF FrameOK
    <3> QED BY <3>1, <3>2
  <2>13. ASSUME NEW u \in Threads, NEW v \in Threads, u # v, frame'[u].final = "PREPARE"
         PROVE  frame'[u].job # frame'[v].job
    <3>1. CASE u = t
      BY <2>3, <2>4, <2>11, <2>13, <3>1
    <3>2. CASE v = t
      BY <2>3, <2>4, <2>11, <2>13, <3>2
    <3>3. CASE u # t /\ v # t
      BY <2>4, <2>13, <3>3 DEF KeyInv
    <3> QED BY <3>1, <3>2, <3>3
  <2>14. \A i \in todo' : Known(i)'
    BY <2>5 DEF KeyInv, Known
  <2> QED BY <2>8, <2>9, <2>10, <2>12, <2>13, <2>14 DEF KeyInv, Published
<1>30. ASSUME NEW id \in JobIds, NEW s \in Slots, AppendCheck(id, s) PROVE KeyInv'
  <2>1. current[id] \in Objects /\ Published(current[id])
    BY <1>30, KnownPublished DEF AppendCheck
  <2>2. UNCHANGED jobVars /\ UNCHANGED todo
    BY <1>30 DEF AppendCheck
  <2>3. JobsStep /\ EventLoop \in Threads /\ s # None
    BY <2>2, JobsStill, NoneDistinct DEF Threads
  <2>4. CASE Become(EventLoop, [Blank("decrypt") EXCEPT !.job = current[id], !.slot = s])
    BY <2>1, <2>3, <2>4, KeyBeginSlot DEF Labels
  <2>5. CASE Become(EventLoop, [Blank("clear") EXCEPT !.job = current[id], !.final = "FAILED"])
    BY <2>1, <2>3, <2>5, KeyBegin DEF Labels, Finals, Over
  <2> QED BY <1>30, <2>4, <2>5 DEF AppendCheck
<1>31. ASSUME NEW t \in Requests, NEW id \in JobIds, NEW s \in Slots, FinalizeCheck(t, id, s)
       PROVE KeyInv'
  <2>1. current[id] \in Objects /\ Published(current[id])
    BY <1>31, KnownPublished DEF FinalizeCheck
  <2>2. UNCHANGED jobVars /\ UNCHANGED todo
    BY <1>31 DEF FinalizeCheck
  <2>3. JobsStep /\ t \in Threads
    BY <2>2, JobsStill DEF Threads
  <2> QED BY <1>31, <2>1, <2>3, KeyBeginSlot DEF FinalizeCheck, Labels
<1>32. ASSUME NEW t \in Requests, NEW id \in JobIds, NEW p \in Workers, StartCheck(t, id, p)
       PROVE KeyInv'
  <2> DEFINE f == [Blank("gpu") EXCEPT !.job = current[id], !.worker = p]
  <2>1. current[id] \in Objects /\ Published(current[id])
    BY <1>32, KnownPublished DEF StartCheck
  <2>2. UNCHANGED jobVars /\ UNCHANGED todo /\ Become(t, f)
    BY <1>32 DEF StartCheck
  <2>3. JobsStep /\ t \in Threads
    BY <2>2, JobsStill DEF Threads
  <2>4. Blank("gpu") \in Frame
    BY BlankType DEF Labels
  <2>5. f \in Frame
    BY <2>1, <2>4 DEF Frame
  <2>6. f.job = current[id] /\ f.final = "none" /\ f.pc = "gpu"
    BY DEF Blank
  <2> HIDE DEF f
  <2>7. status' = status /\ f.job # None
    BY <2>1, <2>2, <2>6, NoneDistinct DEF jobVars
  <2>8. Replaces(f, t)
    BY <2>1, <2>6, <2>7 DEF Replaces, FrameOK, Published
  <2> QED BY <2>2, <2>3, <2>5, <2>8, KeyStep
<1>33. ASSUME NEW t \in Requests, NEW id \in JobIds, CancelCheck(t, id) PROVE KeyInv'
  <2>1. current[id] \in Objects /\ Published(current[id])
    BY <1>33, KnownPublished DEF CancelCheck
  <2>2. UNCHANGED jobVars /\ UNCHANGED todo
    BY <1>33 DEF CancelCheck
  <2>3. JobsStep /\ t \in Threads
    BY <2>2, JobsStill DEF Threads
  <2> QED BY <1>33, <2>1, <2>3, KeyBegin DEF CancelCheck, Labels, Finals, Over
<1>34. ASSUME NEW t \in Requests, NEW id \in JobIds, Acknowledge(t, id) PROVE KeyInv'
  <2>1. current[id] \in Objects /\ Published(current[id])
    BY <1>34, KnownPublished DEF Acknowledge
  <2>2. UNCHANGED jobVars /\ UNCHANGED todo
    BY <1>34 DEF Acknowledge
  <2>3. JobsStep /\ t \in Threads
    BY <2>2, JobsStill DEF Threads
  <2> QED BY <1>34, <2>1, <2>3, KeyBegin DEF Acknowledge, Labels, Finals, Over
<1>35. ASSUME UNCHANGED <<jobVars, frame>>, \A id \in todo' : id \in todo \/ Known(id)
       PROVE KeyInv'
  <2>1. JobsStep
    BY <1>35, JobsStill
  <2>2. frame' \in [Threads -> Frame]
    BY <1>35 DEF TypeOK
  <2> QED BY <1>35, <2>1, <2>2, KeySteps
<1>36. ASSUME NEW p \in Workers, WorkerWrites(p) \/ WorkerSucceeds(p) \/ WorkerFails(p)
       PROVE KeyInv'
  BY <1>35, <1>36 DEF WorkerWrites, WorkerSucceeds, WorkerFails
<1>37. ASSUME NEW t \in Threads, StartRegister(t) PROVE KeyInv'
  <2>1. JobsStep
    BY <1>37, JobsStill DEF StartRegister
  <2>2. frame[t].job \in Objects /\ frame[t].final # "PREPARE"
    BY <1>37, Handling DEF StartRegister, At
  <2> QED BY <1>37, <2>1, <2>2, KeyOn DEF StartRegister, Labels
<1>38. CASE CloseBegin
  <2>1. JobsStep
    BY <1>38, JobsStill DEF CloseBegin
  <2>2. Closer \in Threads /\ frame[Closer].pc = "idle" /\ Goto(Closer, "next")
    BY <1>38 DEF CloseBegin, Threads, At
  <2>3. FrameOK(frame[Closer], status', dek') /\ frame[Closer] \in Frame
    BY <2>1, <2>2, FrameKept, ThreadType
  <2>4. FrameOK([frame[Closer] EXCEPT !.pc = "next"], status', dek')
    BY <2>2, <2>3 DEF FrameOK, Frame
  <2> QED BY <2>1, <2>2, <2>4, KeyGoto DEF Labels
<1>39. CASE UNCHANGED vars
  BY <1>35, <1>39 DEF vars
<1>40. ASSUME NEW t \in Threads, Step(t) PROVE KeyInv'
  BY <1>40, <1>1, <1>2, <1>3, <1>4, <1>5, <1>6, <1>7, <1>8, <1>9, <1>10, <1>11, <1>12, <1>13,
     <1>14, <1>15, <1>16, <1>17, <1>18, <1>19, <1>20, <1>21, <1>22, <1>23, <1>24, <1>25,
     <1>26, <1>27, <1>28, <1>37 DEF Step, Cleanup
<1> QED
  BY <1>29, <1>30, <1>31, <1>32, <1>33, <1>34, <1>36, <1>38, <1>39, <1>40
  DEF Next, Request, Worker, Stopped

-----------------------------------------------------------------------------
\* Both hold initially.
LEMMA InvInit ==
  ASSUME Init PROVE TypeOK /\ KeyInv
<1>1. Blank("idle") \in Frame
  BY BlankType DEF Labels
<1>2. [s \in Slots |-> <<>>] \in [Slots -> Seq(Chunk)] /\ NoOutputs \in [Outputs -> Workers \cup {None}]
  BY EmptySeq DEF NoOutputs
<1>3. TypeOK
  BY <1>1, <1>2 DEF Init, TypeOK, Status, ProcessState
<1>4. Blank("idle").pc = "idle" /\ Blank("idle").job = None /\ Blank("idle").final = "none"
  BY DEF Blank
<1>5. \A t \in Threads : frame[t] = Blank("idle")
  BY DEF Init
<1>6. \A t \in Threads : FrameOK(frame[t], status, dek)
  BY <1>4, <1>5 DEF FrameOK
<1>7. KeyInv
  BY <1>4, <1>5, <1>6 DEF Init, KeyInv, DeksClearedWhenOver, Known, Published
<1> QED BY <1>3, <1>7

\* Both hold in every reachable state.
LEMMA InvHolds == Spec => [](TypeOK /\ KeyInv)
<1>1. Init => TypeOK /\ KeyInv
  BY InvInit
<1>2. TypeOK /\ KeyInv /\ [Next]_vars => (TypeOK /\ KeyInv)'
  BY TypeStep, KeyInvStep
<1> QED BY <1>1, <1>2, PTL DEF Spec

\* Every variable has its type in every reachable state: in particular no
\* handler looks an input up under a job or a slot it does not hold.
THEOREM TypeCorrect == Spec => []TypeOK
<1>1. TypeOK /\ KeyInv => TypeOK
  OBVIOUS
<1> QED BY <1>1, InvHolds, PTL

\* No job that is reported FAILED or CANCELLED, and no object that was dropped
\* before its publication, keeps an open DEK, whatever the number of jobs,
\* requests in flight and re-preparations (service.py _fail_training_job,
\* cancel_training_job and the except clause of prepare_training_job).
THEOREM KeysCleared == Spec => []DeksClearedWhenOver
<1>1. TypeOK /\ KeyInv => DeksClearedWhenOver
  BY DEF KeyInv
<1> QED BY <1>1, InvHolds, PTL

\* What the handlers rely on without checking it: an object that is not
\* published has one thread, the one that prepares it, and whatever else a
\* thread or the table holds was published and has a job_id that is known
\* (service.py prepare_training_job, which enters the job last).
THEOREM KeysKnown == Spec => []KeyInv
<1>1. TypeOK /\ KeyInv => KeyInv
  OBVIOUS
<1> QED BY <1>1, InvHolds, PTL

-----------------------------------------------------------------------------
(* Shutdown: CloseInv follows close() through the table.  What it has       *)
(* visited is cleared and stays so, because no step but a preparation opens *)
(* a DEK or publishes a job, and no request is left that could prepare one. *)

Visiting == {"clear", "pop", "kill", "look", "wipe", "end"}

\* close() goes from one visit to the next and to its end; nobody else does.
CloserOK ==
  /\ frame[Closer].pc \in {"idle", "next", "closed", "aborted"} \cup Visiting
  /\ frame[Closer].pc \in Visiting => frame[Closer].final = "SHUTDOWN"
  /\ \A t \in Threads \ {Closer} : frame[t].pc # "next" /\ frame[t].final # "SHUTDOWN"
  /\ \A t \in Workers : frame[t].final # "PREPARE"
  /\ frame[Closer].pc = "closed" => todo = {}

\* Once it has begun, no request is in a handler.
Alone ==
  frame[Closer].pc # "idle" => \A t \in Requests \cup {EventLoop} : frame[t].pc = "idle"

\* The jobs that are neither to be visited nor being visited hold no open DEK.
Visited ==
  frame[Closer].pc \notin {"idle", "aborted"} =>
    \A id \in JobIds : Known(id) =>
      \/ id \in todo
      \/ frame[Closer].pc \in Visiting /\ current[id] = frame[Closer].job
      \/ dek[current[id]] = {}

CloseInv == CloserOK /\ Alone /\ Visited

-----------------------------------------------------------------------------
(* What the other threads do to it.                                         *)

\* A local state a thread other than the closer may take on.
Tame(f, t) == f.pc # "next" /\ f.final \in {frame[t].final, "none"} \cup Over

\* A step of such a thread closes keys and opens none, publishes no job unless it
\* prepares one, and changes no other handler's local state.
Effect(t) ==
  /\ frame[t].pc # "idle"
  /\ Tame(frame'[t], t)
  /\ \A u \in Threads \ {t} : frame'[u] = frame[u]
  /\ current' = current \/ frame[t].final = "PREPARE"
  /\ \A o \in Objects : dek'[o] \subseteq dek[o]
  /\ todo' = todo

LEMMA BecomeAt ==
  ASSUME TypeOK, NEW t \in Threads, NEW f, Become(t, f)
  PROVE  frame'[t] = f /\ \A u \in Threads \ {t} : frame'[u] = frame[u]
  BY DEF TypeOK, Become

\* The ways in which a step ends.
LEMMA TameGoto ==
  ASSUME TypeOK, NEW t \in Threads, NEW l, l # "next", Goto(t, l)
  PROVE  Tame(frame'[t], t) /\ \A u \in Threads \ {t} : frame'[u] = frame[u]
<1>1. /\ frame'[t] = [frame[t] EXCEPT !.pc = l]
      /\ \A u \in Threads \ {t} : frame'[u] = frame[u]
  BY BecomeAt DEF Goto
<1> QED BY <1>1, ThreadType DEF Tame, Frame

LEMMA TameLeave ==
  ASSUME TypeOK, NEW t \in Threads, Leave(t)
  PROVE  Tame(frame'[t], t) /\ \A u \in Threads \ {t} : frame'[u] = frame[u]
<1>1. frame'[t] = Rest(t) /\ \A u \in Threads \ {t} : frame'[u] = frame[u]
  BY BecomeAt DEF Leave
<1> QED BY <1>1 DEF Tame, Rest, Blank

LEMMA TameFail ==
  ASSUME TypeOK, NEW t \in Threads, Fail(t)
  PROVE  Tame(frame'[t], t) /\ \A u \in Threads \ {t} : frame'[u] = frame[u]
<1>1. /\ frame'[t] = [Blank("clear") EXCEPT !.job = frame[t].job, !.final = "FAILED"]
      /\ \A u \in Threads \ {t} : frame'[u] = frame[u]
  BY BecomeAt DEF Fail
<1> QED BY <1>1 DEF Tame, Blank, Over

\* Every step but the start of a monitor has this effect.
LEMMA StepEffect ==
  ASSUME TypeOK, KeyInv, NEW t \in Threads, Step(t), ~At(t, "next"), ~At(t, "started"),
         frame[t].final # "SHUTDOWN"
  PROVE  Effect(t)
<1>1. CASE PrepareDiscard(t)
  BY <1>1, TameLeave DEF PrepareDiscard, Effect, At, jobVars, TypeOK
<1>2. CASE PrepareMkdir(t)
  <2> DEFINE f == [frame[t] EXCEPT !.made = @ + 1]
  <2>1. f.pc = frame[t].pc /\ f.final = frame[t].final
    BY ThreadType DEF Frame
  <2>2. (frame[t].pc = "mkdir" /\ Become(t, f)) \/ Goto(t, "commit") \/ Goto(t, "discard")
    BY <1>2 DEF PrepareMkdir, At
  <2>3. Tame(frame'[t], t) /\ \A u \in Threads \ {t} : frame'[u] = frame[u]
    BY <2>1, <2>2, BecomeAt, TameGoto DEF Tame
  <2> QED BY <1>2, <2>3 DEF PrepareMkdir, Effect, At, jobVars
<1>3. CASE PrepareCommit(t)
  <2>1. frame[t].final = "PREPARE"
    BY <1>3 DEF PrepareCommit, At, KeyInv, FrameOK
  <2> QED BY <1>3, <2>1, TameLeave DEF PrepareCommit, Effect, At, jobVars
<1>4. CASE AppendDecrypt(t)
  BY <1>4, TameGoto, TameFail, TameLeave DEF AppendDecrypt, Effect, At, jobVars
<1>5. CASE AppendWrite(t)
  BY <1>5, TameGoto, TameFail DEF AppendWrite, Effect, At, jobVars
<1>6. CASE AppendAdvance(t)
  BY <1>6, TameLeave DEF AppendAdvance, Effect, At, jobVars
<1>7. CASE FinalizeOpen(t)
  <2> DEFINE f == [frame[t] EXCEPT !.pc = "extract", !.data = package[Id(t)][frame[t].slot]]
  <2>1. f.pc # "next" /\ f.final = frame[t].final
    BY ThreadType DEF Frame
  <2>2. Become(t, f) \/ Fail(t)
    BY <1>7 DEF FinalizeOpen
  <2>3. Tame(frame'[t], t) /\ \A u \in Threads \ {t} : frame'[u] = frame[u]
    BY <2>1, <2>2, BecomeAt, TameFail DEF Tame
  <2> QED BY <1>7, <2>3 DEF FinalizeOpen, Effect, At, jobVars
<1>8. CASE FinalizeExtract(t)
  <2> DEFINE f == [frame[t] EXCEPT !.pc = "finalize", !.data = <<>>]
  <2>1. f.pc # "next" /\ f.final = frame[t].final
    BY ThreadType DEF Frame
  <2>2. Become(t, f) \/ Fail(t)
    BY <1>8 DEF FinalizeExtract
  <2>3. Tame(frame'[t], t) /\ \A u \in Threads \ {t} : frame'[u] = frame[u]
    BY <2>1, <2>2, BecomeAt, TameFail DEF Tame
  <2> QED BY <1>8, <2>3 DEF FinalizeExtract, Effect, At, jobVars
<1>9. CASE FinalizeCommit(t)
  BY <1>9, TameLeave DEF FinalizeCommit, Effect, At, jobVars, TypeOK
<1>10. CASE StartGpu(t)
  BY <1>10, TameGoto, TameLeave DEF StartGpu, Effect, At, jobVars
<1>11. CASE StartLaunch(t)
  BY <1>11, TameGoto, TameFail DEF StartLaunch, Effect, At, jobVars
<1>12. CASE MonitorFind(t)
  <2> DEFINE f == [frame[t] EXCEPT !.job = current[Id(t)], !.pc = "attach"]
  <2>1. f.pc # "next" /\ f.final = frame[t].final
    BY ThreadType DEF Frame
  <2>2. Become(t, f)
    BY <1>12 DEF MonitorFind
  <2>3. Tame(frame'[t], t) /\ \A u \in Threads \ {t} : frame'[u] = frame[u]
    BY <2>1, <2>2, BecomeAt, TameFail DEF Tame
  <2> QED BY <1>12, <2>3 DEF MonitorFind, Effect, At, jobVars
<1>13. CASE MonitorAttach(t)
  <2> DEFINE f == [frame[t] EXCEPT !.worker = registered[Id(t)], !.pc = "wait"]
  <2>1. f.pc # "next" /\ f.final = frame[t].final
    BY ThreadType DEF Frame
  <2>2. Become(t, f) \/ Fail(t)
    BY <1>13 DEF MonitorAttach
  <2>3. Tame(frame'[t], t) /\ \A u \in Threads \ {t} : frame'[u] = frame[u]
    BY <2>1, <2>2, BecomeAt, TameFail DEF Tame
  <2> QED BY <1>13, <2>3 DEF MonitorAttach, Effect, At, jobVars
<1>14. CASE MonitorWait(t)
  BY <1>14, TameGoto, TameFail DEF MonitorWait, Effect, At, jobVars
<1>15. CASE MonitorEncrypting(t)
  <2> DEFINE f == [frame[t] EXCEPT !.pc = "read", !.slot = "result-model"]
  <2>1. f.pc # "next" /\ f.final = frame[t].final
    BY ThreadType DEF Frame
  <2>2. Become(t, f)
    BY <1>15 DEF MonitorEncrypting
  <2>3. Tame(frame'[t], t) /\ \A u \in Threads \ {t} : frame'[u] = frame[u]
    BY <2>1, <2>2, BecomeAt DEF Tame
  <2> QED BY <1>15, <2>3 DEF MonitorEncrypting, Effect, At, jobVars
<1>16. CASE MonitorRead(t)
  BY <1>16, TameGoto, TameFail DEF MonitorRead, Effect, At, jobVars
<1>17. CASE MonitorSeal(t)
  <2> DEFINE f == [frame[t] EXCEPT !.pc = "read", !.slot = "result-data"]
             g == [frame[t] EXCEPT !.pc = "tidy", !.slot = None]
  <2>1. f.pc # "next" /\ f.final = frame[t].final /\ g.pc # "next" /\ g.final = frame[t].final
    BY ThreadType DEF Frame
  <2>2. Become(t, f) \/ Become(t, g) \/ Fail(t)
    BY <1>17 DEF MonitorSeal
  <2>3. Tame(frame'[t], t) /\ \A u \in Threads \ {t} : frame'[u] = frame[u]
    BY <2>1, <2>2, BecomeAt, TameFail DEF Tame
  <2> QED BY <1>17, <2>3 DEF MonitorSeal, Effect, At
<1>18. CASE MonitorTidy(t)
  BY <1>18, TameGoto, TameFail DEF MonitorTidy, Effect, At, jobVars
<1>19. CASE MonitorReady(t)
  BY <1>19, TameLeave DEF MonitorReady, Effect, At, jobVars
<1>20. CASE CancelMark(t)
  BY <1>20, TameGoto DEF CancelMark, Effect, At, jobVars
<1>21. CASE ClearDeks(t)
  BY <1>21, TameGoto DEF ClearDeks, Effect, At, jobVars, TypeOK
<1>22. CASE PopProcess(t)
  <2> DEFINE f == [frame[t] EXCEPT !.worker = registered[Id(t)], !.pc = "kill"]
  <2>1. f.pc # "next" /\ f.final = frame[t].final
    BY ThreadType DEF Frame
  <2>2. Become(t, f)
    BY <1>22 DEF PopProcess
  <2>3. Tame(frame'[t], t) /\ \A u \in Threads \ {t} : frame'[u] = frame[u]
    BY <2>1, <2>2, BecomeAt, TameFail DEF Tame
  <2> QED BY <1>22, <2>3 DEF PopProcess, Effect, At, jobVars
<1>23. CASE KillProcess(t)
  <2> DEFINE f == [frame[t] EXCEPT !.worker = None, !.pc = "look"]
  <2>1. f.pc # "next" /\ f.final = frame[t].final
    BY ThreadType DEF Frame
  <2>2. Become(t, f)
    BY <1>23 DEF KillProcess
  <2>3. Tame(frame'[t], t) /\ \A u \in Threads \ {t} : frame'[u] = frame[u]
    BY <2>1, <2>2, BecomeAt, TameFail DEF Tame
  <2> QED BY <1>23, <2>3 DEF KillProcess, Effect, At, jobVars
<1>24. CASE LookForDirectory(t)
  BY <1>24, TameGoto DEF LookForDirectory, Effect, At, jobVars, AfterCleanup
<1>25. CASE WipeDirectory(t)
  BY <1>25, TameGoto, TameLeave DEF WipeDirectory, Effect, At, jobVars, AfterCleanup, CleanupRaises
<1>26. CASE EndCleanup(t)
  BY <1>26, TameLeave DEF EndCleanup, Effect, At, jobVars
<1>27. CASE StartRegister(t)
  BY <1>27, TameGoto DEF StartRegister, Effect, At, jobVars
<1> QED
  BY <1>1, <1>2, <1>3, <1>4, <1>5, <1>6, <1>7, <1>8, <1>9, <1>10, <1>11, <1>12, <1>13, <1>14,
     <1>15, <1>16, <1>17, <1>18, <1>19, <1>20, <1>21, <1>22, <1>23, <1>24, <1>25, <1>26, <1>27
  DEF Step, Cleanup, StartCommit, CloseNext, At

\* A step with this effect keeps the invariant.
LEMMA OtherStep ==
  ASSUME TypeOK, KeyInv, CloseInv, NEW t \in Threads \ {Closer}, Effect(t)
  PROVE  CloseInv'
<1>1. /\ frame[t].final # "SHUTDOWN" /\ frame'[Closer] = frame[Closer]
      /\ Closer \in Threads /\ Closer \notin Requests \cup {EventLoop} \cup Workers
  BY ThreadsDistinct DEF CloseInv, CloserOK, Effect, Threads
<1>2. frame'[t].pc # "next" /\ frame'[t].final # "SHUTDOWN"
  BY <1>1 DEF Effect, Tame, Over
<1>3. t \in Workers => frame'[t].final # "PREPARE"
  BY DEF Effect, Tame, Over, CloseInv, CloserOK
<1>4. CloserOK'
  BY <1>1, <1>2, <1>3 DEF CloserOK, CloseInv, Effect, Threads
<1>5. CASE frame[Closer].pc = "idle"
  BY <1>1, <1>4, <1>5 DEF CloseInv, Alone, Visited
<1>6. CASE frame[Closer].pc # "idle"
  <2>1. t \in Workers
    BY <1>6 DEF CloseInv, Alone, Effect, Threads
  <2>2. current' = current
    BY <2>1 DEF Effect, CloseInv, CloserOK
  <2>3. Alone'
    BY <1>1, <1>6, <2>1, ThreadsDistinct DEF CloseInv, Alone, Effect, Threads
  <2>4. Visited'
    <3> SUFFICES ASSUME frame[Closer].pc # "aborted", NEW id \in JobIds, Known(id)
                 PROVE  \/ id \in todo
                        \/ frame[Closer].pc \in Visiting /\ current[id] = frame[Closer].job
                        \/ dek'[current[id]] = {}
      BY <1>1, <2>2 DEF Visited, Known, Effect
    <3>1. current[id] \in Objects
      BY DEF Known, TypeOK
    <3> QED BY <1>6, <3>1 DEF CloseInv, Visited, Effect
  <2> QED BY <1>4, <2>3, <2>4 DEF CloseInv
<1> QED BY <1>5, <1>6

\* The step of start_training_job that starts a monitor.
LEMMA MonitorBegins ==
  ASSUME TypeOK, KeyInv, CloseInv, NEW t \in Threads \ {Closer}, StartCommit(t)
  PROVE  CloseInv'
<1> DEFINE p == frame[t].worker
           f == [Blank("find") EXCEPT !.job = frame[t].job]
<1>1. /\ \A u \in Threads : frame'[u] \in {frame[u], f, Blank("idle")}
      /\ \A u \in Threads \ {t, p} : frame'[u] = frame[u]
      /\ frame'[t] = Blank("idle") \/ t \in Workers
  BY DEF StartCommit, TypeOK
<1>2. f.pc = "find" /\ f.final = "none" /\ Blank("idle").pc = "idle" /\ Blank("idle").final = "none"
  BY DEF Blank
<1>3. /\ p \in Workers \cup {None} /\ Closer \in Threads
      /\ Closer \notin Requests \cup {EventLoop} \cup Workers
  BY ThreadType, ThreadsDistinct DEF Threads
<1> HIDE DEF f, p
<1>4. frame'[Closer] = frame[Closer] /\ UNCHANGED <<current, dek, todo>>
  BY <1>1, <1>3, NoneDistinct DEF StartCommit
<1>5. CloserOK'
  BY <1>1, <1>2, <1>3, <1>4, NoneDistinct DEF CloseInv, CloserOK, Over, Threads
<1>6. Alone'
  <2> SUFFICES ASSUME frame[Closer].pc # "idle", NEW u \in Requests \cup {EventLoop}
               PROVE  frame'[u].pc = "idle"
    BY <1>4 DEF Alone
  <2>1. frame[u].pc = "idle" /\ u \in Threads /\ u \notin Workers
    BY ThreadsDistinct DEF CloseInv, Alone, Threads
  <2>2. u # p
    BY <1>3, <2>1, NoneDistinct
  <2> QED BY <1>1, <1>2, <2>1, <2>2 DEF Threads
<1>7. Visited'
  BY <1>4 DEF CloseInv, Visited, Known
<1> QED BY <1>5, <1>6, <1>7 DEF CloseInv

-----------------------------------------------------------------------------
(* What close() itself does, and the requests.                              *)

\* A step of close() changes no other local state.
LEMMA CloserMoves ==
  ASSUME TypeOK, CloseInv, frame[Closer].pc # "idle", NEW f, Become(Closer, f),
         f.pc \in {"next", "closed", "aborted"} \cup Visiting,
         f.pc \in Visiting => f.final = "SHUTDOWN", f.pc = "closed" => todo' = {}, Visited'
  PROVE  CloseInv'
<1>1. Closer \in Threads /\ Closer \notin Requests \cup {EventLoop} \cup Workers
  BY ThreadsDistinct DEF Threads
<1>2. frame'[Closer] = f /\ \A u \in Threads \ {Closer} : frame'[u] = frame[u]
  BY <1>1, BecomeAt
<1>3. CloserOK'
  BY <1>1, <1>2 DEF CloserOK, CloseInv, Threads
<1>4. Alone'
  BY <1>1, <1>2 DEF Alone, CloseInv, Threads
<1> QED BY <1>3, <1>4 DEF CloseInv

\* Within a visit the job stays, and no DEK is opened.
LEMMA VisitGoes ==
  ASSUME TypeOK, CloseInv, frame[Closer].pc \in Visiting, NEW f, Become(Closer, f),
         f.pc \in Visiting, f.final = frame[Closer].final, f.job = frame[Closer].job,
         UNCHANGED <<current, todo>>, \A o \in Objects : dek'[o] \subseteq dek[o]
  PROVE  CloseInv'
<1>1. Closer \in Threads
  BY DEF Threads
<1>2. frame'[Closer] = f
  BY <1>1, BecomeAt
<1>3. \A id \in JobIds : Known(id) => current[id] \in Objects
  BY DEF Known, TypeOK
<1>4. Visited'
  BY <1>2, <1>3 DEF CloseInv, Visited, Visiting, Known
<1> QED BY <1>4, CloserMoves DEF CloseInv, CloserOK, Visiting

\* A visit ends when the DEKs of its job are cleared, or by an exception.
LEMMA CloserStep ==
  ASSUME TypeOK, KeyInv, CloseInv, Step(Closer) PROVE CloseInv'
<1>1. /\ Closer \in Threads /\ frame[Closer] \in Frame /\ CloserOK /\ Visited
      /\ FrameOK(frame[Closer], status, dek)
  BY ThreadType DEF CloseInv, KeyInv, Threads
<1>2. CloseNext(Closer) \/ (frame[Closer].pc \in Visiting /\ Cleanup(Closer))
  <2>1. frame[Closer].pc \in {"idle", "next", "closed", "aborted", "clear", "pop", "kill",
                              "look", "wipe", "end"}
    BY <1>1 DEF CloserOK, Visiting
  <2>2. ASSUME \/ PrepareDiscard(Closer) \/ PrepareMkdir(Closer) \/ PrepareCommit(Closer)
               \/ AppendDecrypt(Closer) \/ AppendWrite(Closer) \/ AppendAdvance(Closer)
        PROVE  FALSE
    BY <2>1, <2>2 DEF At, PrepareDiscard, PrepareMkdir, PrepareCommit,
                      AppendDecrypt, AppendWrite, AppendAdvance
  <2>3. ASSUME \/ FinalizeOpen(Closer) \/ FinalizeExtract(Closer) \/ FinalizeCommit(Closer)
               \/ StartGpu(Closer) \/ StartLaunch(Closer) \/ StartRegister(Closer)
               \/ StartCommit(Closer) \/ CancelMark(Closer)
        PROVE  FALSE
    BY <2>1, <2>3 DEF At, FinalizeOpen, FinalizeExtract, FinalizeCommit,
                      StartGpu, StartLaunch, StartRegister, StartCommit, CancelMark
  <2>4. ASSUME \/ MonitorFind(Closer) \/ MonitorAttach(Closer) \/ MonitorWait(Closer)
               \/ MonitorEncrypting(Closer) \/ MonitorRead(Closer) \/ MonitorSeal(Closer)
               \/ MonitorTidy(Closer) \/ MonitorReady(Closer)
        PROVE  FALSE
    BY <2>1, <2>4 DEF At, MonitorFind, MonitorAttach, MonitorWait, MonitorEncrypting,
                      MonitorRead, MonitorSeal, MonitorTidy, MonitorReady
  <2>5. ASSUME ClearDeks(Closer) \/ PopProcess(Closer) \/ KillProcess(Closer)
        PROVE  frame[Closer].pc \in Visiting
    BY <2>5 DEF ClearDeks, PopProcess, KillProcess, At, Visiting
  <2>6. ASSUME LookForDirectory(Closer) \/ WipeDirectory(Closer) \/ EndCleanup(Closer)
        PROVE  frame[Closer].pc \in Visiting
    BY <2>6 DEF LookForDirectory, WipeDirectory, EndCleanup, At, Visiting
  <2>7. CloseNext(Closer) \/ Cleanup(Closer)
    BY <2>2, <2>3, <2>4 DEF Step
  <2> QED BY <2>5, <2>6, <2>7 DEF Cleanup
<1>3. CASE CloseNext(Closer)
  <2>1. frame[Closer].pc = "next" /\ UNCHANGED <<current, dek>>
    BY <1>3 DEF CloseNext, At, jobVars
  <2>2. ASSUME NEW id \in todo, todo' = todo \ {id},
               Become(Closer, [Blank("clear") EXCEPT !.job = current[id], !.final = "SHUTDOWN"])
        PROVE  CloseInv'
    <3> DEFINE f == [Blank("clear") EXCEPT !.job = current[id], !.final = "SHUTDOWN"]
    <3>1. f.pc = "clear" /\ f.job = current[id] /\ f.final = "SHUTDOWN"
      BY DEF Blank
    <3>2. frame'[Closer] = f
      BY <1>1, <2>2, BecomeAt
    <3> HIDE DEF f
    <3>3. Visited'
      BY <1>1, <2>1, <2>2, <3>1, <3>2 DEF Visited, Visiting, Known
    <3> QED BY <2>1, <2>2, <3>1, <3>3, CloserMoves DEF Visiting, f
  <2>3. ASSUME todo = {}, todo' = todo, Become(Closer, Blank("closed"))
        PROVE  CloseInv'
    <3>1. Blank("closed").pc = "closed"
      BY DEF Blank
    <3>2. frame'[Closer] = Blank("closed")
      BY <1>1, <2>3, BecomeAt
    <3>3. Visited'
      BY <1>1, <2>1, <2>3, <3>1, <3>2 DEF Visited, Visiting, Known
    <3> QED BY <2>1, <2>3, <3>1, <3>3, CloserMoves DEF Visiting
  <2> QED BY <1>3, <2>2, <2>3 DEF CloseNext
<1>4. CASE frame[Closer].pc \in Visiting /\ ClearDeks(Closer)
  <2> DEFINE f == [frame[Closer] EXCEPT !.pc = "pop"]
  <2>1. f.pc = "pop" /\ f.job = frame[Closer].job /\ f.final = frame[Closer].final /\ Become(Closer, f)
    BY <1>1, <1>4 DEF Frame, ClearDeks, Goto
  <2>2. UNCHANGED <<current, todo>> /\ \A o \in Objects : dek'[o] \subseteq dek[o]
    BY <1>4 DEF ClearDeks, TypeOK
  <2> HIDE DEF f
  <2> QED BY <1>4, <2>1, <2>2, VisitGoes DEF Visiting
<1>5. CASE frame[Closer].pc \in Visiting /\ PopProcess(Closer)
  <2> DEFINE f == [frame[Closer] EXCEPT !.worker = registered[Id(Closer)], !.pc = "kill"]
  <2>1. f.pc = "kill" /\ f.job = frame[Closer].job /\ f.final = frame[Closer].final /\ Become(Closer, f)
    BY <1>1, <1>5 DEF Frame, PopProcess
  <2>2. UNCHANGED <<current, todo, dek>>
    BY <1>5 DEF PopProcess, jobVars
  <2> HIDE DEF f
  <2> QED BY <1>5, <2>1, <2>2, VisitGoes DEF Visiting
<1>6. CASE frame[Closer].pc \in Visiting /\ KillProcess(Closer)
  <2> DEFINE f == [frame[Closer] EXCEPT !.worker = None, !.pc = "look"]
  <2>1. f.pc = "look" /\ f.job = frame[Closer].job /\ f.final = frame[Closer].final /\ Become(Closer, f)
    BY <1>1, <1>6 DEF Frame, KillProcess
  <2>2. UNCHANGED <<current, todo, dek>>
    BY <1>6 DEF KillProcess, jobVars
  <2> HIDE DEF f
  <2> QED BY <1>6, <2>1, <2>2, VisitGoes DEF Visiting
<1>7. ASSUME frame[Closer].pc \in Visiting, NEW l \in {"wipe", "end"}, Goto(Closer, l),
             UNCHANGED <<current, todo, dek>>
      PROVE  CloseInv'
  <2> DEFINE f == [frame[Closer] EXCEPT !.pc = l]
  <2>1. f.pc = l /\ f.job = frame[Closer].job /\ f.final = frame[Closer].final /\ Become(Closer, f)
    BY <1>1, <1>7 DEF Frame, Goto
  <2> HIDE DEF f
  <2> QED BY <1>7, <2>1, VisitGoes DEF Visiting
<1>8. CASE frame[Closer].pc \in Visiting /\ LookForDirectory(Closer)
  BY <1>1, <1>7, <1>8 DEF LookForDirectory, AfterCleanup, CloserOK, jobVars
<1>9. CASE frame[Closer].pc \in Visiting /\ WipeDirectory(Closer)
  <2>1. UNCHANGED <<current, todo, dek>> /\ frame[Closer].final = "SHUTDOWN"
    BY <1>1, <1>9 DEF WipeDirectory, CloserOK, jobVars
  <2>2. Goto(Closer, "end") \/ Become(Closer, Blank("aborted"))
    BY <1>9, <2>1 DEF WipeDirectory, AfterCleanup, CleanupRaises
  <2>3. CASE Become(Closer, Blank("aborted"))
    <3>1. Blank("aborted").pc = "aborted"
      BY DEF Blank
    <3>2. frame'[Closer] = Blank("aborted")
      BY <1>1, <2>3, BecomeAt
    <3>3. Visited'
      BY <3>1, <3>2 DEF Visited
    <3> QED BY <1>9, <2>3, <3>1, <3>3, CloserMoves DEF Visiting
  <2> QED BY <1>7, <1>9, <2>1, <2>2, <2>3
<1>10. CASE frame[Closer].pc \in Visiting /\ EndCleanup(Closer)
  <2>1. /\ UNCHANGED <<current, todo, dek>> /\ frame[Closer].final = "SHUTDOWN"
        /\ frame[Closer].pc = "end"
    BY <1>1, <1>10 DEF EndCleanup, At, CloserOK
  <2>2. Become(Closer, Blank("next")) /\ dek[frame[Closer].job] = {}
    BY <1>1, <1>10, <2>1 DEF EndCleanup, FrameOK, Over
  <2>3. Blank("next").pc = "next" /\ frame'[Closer] = Blank("next")
    BY <1>1, <2>2, BecomeAt DEF Blank
  <2>4. Visited'
    BY <1>1, <2>1, <2>2, <2>3 DEF Visited, Visiting, Known
  <2> QED BY <2>1, <2>2, <2>3, <2>4, CloserMoves DEF Visiting
<1> QED BY <1>2, <1>3, <1>4, <1>5, <1>6, <1>8, <1>9, <1>10 DEF Cleanup

\* A request is admitted only before close() begins.
LEMMA BeginsBeforeClose ==
  ASSUME TypeOK, CloseInv, NEW t \in Requests \cup {EventLoop}, NEW f, Become(t, f),
         At(Closer, "idle"), f.pc # "next", f.final # "SHUTDOWN"
  PROVE  CloseInv'
<1>1. /\ Closer \in Threads /\ t \in Threads \ {Closer} /\ t \notin Workers
      /\ Closer \notin Workers
  BY ThreadsDistinct DEF Threads
<1>2. frame'[t] = f /\ \A u \in Threads \ {t} : frame'[u] = frame[u]
  BY <1>1, BecomeAt
<1>3. frame[Closer].pc = "idle" /\ frame'[Closer] = frame[Closer]
  BY <1>1, <1>2 DEF At
<1>4. CloserOK'
  <2>1. ASSUME NEW u \in Threads \ {Closer}
        PROVE  frame'[u].pc # "next" /\ frame'[u].final # "SHUTDOWN"
    BY <1>2 DEF CloserOK, CloseInv
  <2>2. ASSUME NEW u \in Workers PROVE frame'[u].final # "PREPARE"
    BY <1>1, <1>2 DEF CloserOK, CloseInv, Threads
  <2> QED BY <1>3, <2>1, <2>2 DEF CloserOK, Visiting
<1> QED BY <1>3, <1>4 DEF CloseInv, Alone, Visited

LEMMA CloseInvStep ==
  ASSUME TypeOK, KeyInv, CloseInv, [Next]_vars PROVE CloseInv'
<1>1. CASE Request
  <2>1. ASSUME NEW t \in Requests, NEW id \in JobIds, NEW o \in Objects, PrepareOpen(t, id, o)
        PROVE  CloseInv'
    <3>1. PICK opened \in SUBSET Slots :
            Become(t, [Blank(IF opened = Slots THEN "pop" ELSE "discard")
                         EXCEPT !.job = o, !.final = "PREPARE"])
      BY <2>1 DEF PrepareOpen
    <3> QED BY <2>1, <3>1, BeginsBeforeClose DEF PrepareOpen, Admits, Blank
  <2>2. ASSUME NEW t \in Requests, NEW id \in JobIds, NEW s \in Slots, FinalizeCheck(t, id, s)
        PROVE  CloseInv'
    BY <2>2, BeginsBeforeClose DEF FinalizeCheck, Admits, Blank
  <2>3. ASSUME NEW t \in Requests, NEW id \in JobIds, NEW p \in Workers, StartCheck(t, id, p)
        PROVE  CloseInv'
    BY <2>3, BeginsBeforeClose DEF StartCheck, Admits, Blank
  <2>4. ASSUME NEW t \in Requests, NEW id \in JobIds, CancelCheck(t, id) PROVE CloseInv'
    BY <2>4, BeginsBeforeClose DEF CancelCheck, Admits, Blank
  <2>5. ASSUME NEW t \in Requests, NEW id \in JobIds, Acknowledge(t, id) PROVE CloseInv'
    BY <2>5, BeginsBeforeClose DEF Acknowledge, Admits, Blank
  <2>6. ASSUME NEW id \in JobIds, NEW s \in Slots, AppendCheck(id, s) PROVE CloseInv'
    BY <2>6, BeginsBeforeClose DEF AppendCheck, Admits, Blank
  <2> QED BY <1>1, <2>1, <2>2, <2>3, <2>4, <2>5, <2>6 DEF Request
<1>2. CASE Worker \/ UNCHANGED vars
  <2>1. UNCHANGED <<current, dek, todo, frame>>
    BY <1>2 DEF Worker, WorkerWrites, WorkerSucceeds, WorkerFails, vars, jobVars
  <2> QED BY <2>1 DEF CloseInv, CloserOK, Alone, Visited, Known
<1>3. CASE CloseBegin
  <2>1. /\ frame[Closer].pc = "idle" /\ Closer \in Threads
        /\ Closer \notin Requests \cup {EventLoop} \cup Workers
        /\ \A t \in Requests \cup {EventLoop} : frame[t].pc = "idle"
    BY <1>3, ThreadsDistinct DEF CloseBegin, At, InFlight, Threads
  <2>2. /\ frame'[Closer].pc = "next"
        /\ \A u \in Threads \ {Closer} : frame'[u] = frame[u]
    BY <1>3, <2>1, BecomeAt, ThreadType DEF CloseBegin, Goto, Frame
  <2>3. CloserOK' /\ Alone'
    BY <2>1, <2>2 DEF CloserOK, CloseInv, Alone, Threads, Visiting
  <2>4. Visited'
    BY <1>3 DEF CloseBegin, Visited, Known, jobVars
  <2> QED BY <2>3, <2>4 DEF CloseInv
<1>4. ASSUME NEW t \in Threads, Step(t) PROVE CloseInv'
  <2>1. CASE t = Closer
    BY <1>4, <2>1, CloserStep
  <2>2. CASE t # Closer
    <3>1. ~At(t, "next") /\ frame[t].final # "SHUTDOWN"
      BY <2>2 DEF CloseInv, CloserOK, At
    <3>2. CASE At(t, "started")
      <4>1. StartCommit(t)
        BY <1>4, <3>2 DEF Step, Cleanup, At, CloseNext, ClearDeks, PopProcess, KillProcess,
           LookForDirectory, WipeDirectory, EndCleanup, PrepareDiscard, PrepareMkdir, PrepareCommit,
           AppendDecrypt, AppendWrite, AppendAdvance, FinalizeOpen, FinalizeExtract, FinalizeCommit,
           StartGpu, StartLaunch, StartRegister, MonitorFind, MonitorAttach, MonitorWait,
           MonitorEncrypting, MonitorRead, MonitorSeal, MonitorTidy, MonitorReady, CancelMark
      <4> QED BY <2>2, <4>1, MonitorBegins
    <3> QED BY <1>4, <2>2, <3>1, <3>2, StepEffect, OtherStep
  <2> QED BY <2>1, <2>2
<1> QED BY <1>1, <1>2, <1>3, <1>4 DEF Next, Stopped

-----------------------------------------------------------------------------
\* When close() has returned, every job of the table has had its DEKs zeroed, for
\* every number of jobs, and whatever monitors failed, finished or wiped meanwhile
\* (service.py close, lines 215-227).
THEOREM ShutdownClears == Spec => []ShutdownClearsKeys
<1>1. Init => CloseInv
  <2> SUFFICES ASSUME Init PROVE CloseInv
    OBVIOUS
  <2>1. Blank("idle").pc = "idle" /\ Blank("idle").final = "none"
    BY DEF Blank
  <2>2. \A t \in Threads : frame[t].pc = "idle" /\ frame[t].final = "none"
    BY <2>1 DEF Init
  <2>3. Closer \in Threads /\ Workers \subseteq Threads
    BY DEF Threads
  <2> QED BY <2>2, <2>3 DEF CloseInv, CloserOK, Alone, Visited, Visiting
<1>2. TypeOK /\ KeyInv /\ CloseInv /\ [Next]_vars => CloseInv'
  BY CloseInvStep
<1>3. TypeOK /\ KeyInv /\ CloseInv => ShutdownClearsKeys
  <2> SUFFICES ASSUME TypeOK, KeyInv, CloseInv, frame[Closer].pc = "closed",
                      NEW id \in JobIds, Known(id)
               PROVE  dek[current[id]] = {}
    BY DEF ShutdownClearsKeys, At
  <2> QED BY DEF CloseInv, CloserOK, Visited, Visiting
<1> QED BY <1>1, <1>2, <1>3, InvHolds, PTL DEF Spec
=============================================================================
