------------------------ MODULE TrainingInputs_proofs ------------------------
(* What lies on the disk of a job: its own inputs, as they were uploaded,   *)
(* until they are trained on or the job is over, and then nothing in the    *)
(* clear.  For every number of jobs, inputs, chunks, workers and threads,   *)
(* as long as the clients send one request at a time and prepare no job_id  *)
(* twice (MaxInFlight = 1, MaxPrepares = 1): how it fails without, the runs *)
(* training_late_extraction (requests that overlap) and training_reused_id  *)
(* (an id that is prepared again) show.                                     *)
(*                                                                          *)
(* The argument turns on SoleHandler: a job whose inputs are not complete,  *)
(* or that has not been started, is in the hands of one thread, so nobody   *)
(* else appends to, extracts from or wipes its directory; and on Meddler: a *)
(* removal that is interrupted leaves plaintext behind only while somebody  *)
(* else is there who will remove it.                                        *)
EXTENDS TrainingWorkers_proofs

-----------------------------------------------------------------------------
(* The first n chunks of an upload.                                         *)

Whole(o, n) == [i \in 1 .. n |-> <<o, i>>]

LEMMA WholeSeq ==
  ASSUME NEW o \in Objects, NEW n \in Nat
  PROVE  Whole(o, n) \in Seq(Chunk) /\ Len(Whole(o, n)) = n
<1>1. Whole(o, n) \in [1 .. n -> Chunk]
  BY DEF Whole, Chunk
<1> QED BY <1>1 DEF Whole

LEMMA WholeEmpty ==
  ASSUME NEW o \in Objects PROVE Whole(o, 0) = <<>>
<1>1. Whole(o, 0) \in Seq(Chunk) /\ Len(Whole(o, 0)) = 0
  BY WholeSeq
<1> QED BY <1>1

LEMMA WholeGrows ==
  ASSUME NEW o \in Objects, NEW n \in Nat
  PROVE  /\ Append(Whole(o, n), <<o, n + 1>>) = Whole(o, n + 1)
         /\ Whole(o, n + 1) # <<>>
<1>0. n + 1 \in Nat
  OBVIOUS
<1>1. /\ Whole(o, n) \in Seq(Chunk) /\ Len(Whole(o, n)) = n
      /\ Whole(o, n + 1) \in Seq(Chunk) /\ Len(Whole(o, n + 1)) = n + 1
      /\ <<o, n + 1>> \in Chunk
  BY <1>0, WholeSeq DEF Chunk
<1> DEFINE a == Append(Whole(o, n), <<o, n + 1>>)
<1>2. a \in Seq(Chunk) /\ Len(a) = n + 1
  BY <1>1
<1>3. ASSUME NEW i \in 1 .. n + 1 PROVE a[i] = Whole(o, n + 1)[i]
  <2>1. Whole(o, n + 1)[i] = <<o, i>>
    BY DEF Whole
  <2>2. CASE i = n + 1
    BY <1>1, <1>2, <2>1, <2>2
  <2>3. CASE i \in 1 .. n
    <3>1. a[i] = Whole(o, n)[i]
      BY <1>1, <2>3
    <3> QED BY <2>1, <2>3, <3>1 DEF Whole
  <2>4. i = n + 1 \/ i \in 1 .. n
    BY <1>0
  <2> QED BY <2>2, <2>3, <2>4
<1>4. a = Whole(o, n + 1)
  BY <1>1, <1>2, <1>3
<1>5. Whole(o, n + 1) # <<>>
  BY <1>1
<1> QED BY <1>4, <1>5

-----------------------------------------------------------------------------
(* The invariants.                                                          *)

Full(o) == Whole(o, Chunks)

Early == {"STAGING_INPUTS", "VALIDATING_INPUTS"}

Appending == {"decrypt", "write", "advance"}

Finalizing == {"open", "extract", "finalize"}

\* What lies in the directory of a job_id lies in the folder it belongs to, and
\* an id that is not known has no data.
FoldersOK ==
  \A id \in JobIds :
    /\ \A s \in Slots : package[id][s] # <<>> => "packages" \in folders[id]
    /\ \A s \in Slots : input[id][s] # <<>> => s \in unpacked[id]
    /\ unpacked[id] # {} => "input" \in folders[id]
    /\ trained[id] # None => "output" \in folders[id]
    /\ \A out \in Outputs : archived[id][out] # None => "output" \in folders[id]
    /\ ~Known(id) => PlaintextGone(id)

InputsOK ==
  \A id \in JobIds : Known(id) =>
    \A s \in Slots : input[id][s] \in {<<>>, Full(current[id])}

\* the package of input s of the job in the table under id holds what was
\* received, unless the input is finalized; a chunk that was written and an
\* archive that was extracted are still to be counted
Kept(id, s) ==
  \/ s \in finalized[current[id]]
  \/ package[id][s] = Uploaded(current[id], s)
  \/ \E t \in Threads : /\ frame[t].job = current[id] /\ frame[t].slot = s
                        /\ frame[t].pc \in {"advance", "finalize"}

\* As long as it has packages, they are what was received.
StagedOK ==
  /\ \A o \in Objects : ~Published(o) => \A s \in Slots : received[o][s] = 0
  /\ \A id \in JobIds :
       Known(id) /\ "packages" \in folders[id] => \A s \in Slots : Kept(id, s)

\* What a thread relies on that handles the inputs of its job, or wipes them.
HandlerOK(t) ==
  LET o == frame[t].job  s == frame[t].slot  id == Id(t) IN
  /\ frame[t].pc \in Appending => s \notin finalized[o] /\ status[o] = "STAGING_INPUTS"
  /\ frame[t].pc = "advance" => package[id][s] = Whole(o, received[o][s] + 1)
  /\ frame[t].pc \in Finalizing => received[o][s] = Chunks
  /\ frame[t].pc \in {"extract", "finalize"} => status[o] \in Early
  /\ frame[t].pc = "extract" => frame[t].data = Full(o)
  /\ frame[t].pc = "end" /\ status[o] \in Early => PlaintextGone(id)

HandlersOK == \A t \in Threads : HandlerOK(t)

\* t will come to the removal of the plaintext of its job
Cleaner(t) ==
  frame[t].pc \in {"cancel", "clear", "pop", "kill", "look", "wipe"} \cup (Monitoring \ {"ready"})

CleanedOK ==
  \A id \in JobIds : Known(id) =>
    \/ PlaintextGone(id)
    \/ status[current[id]] \in Early
    \/ \E t \in Threads : frame[t].job = current[id] /\ Cleaner(t)

\* A worker that runs is being started, watched by its monitor or about to be
\* killed.
AttendedOK ==
  /\ \A p \in Workers : process[p] = "running" =>
       \/ \E t \in Threads : frame[t].worker = p /\ frame[t].pc \in {"kill", "register", "started"}
       \/ frame[p].pc \in {"find", "attach", "wait", "clear", "pop"} /\ frame[p].job = runs[p]
  /\ \A t \in Threads : frame[t].pc = "kill" /\ frame[t].worker # None =>
       runs[frame[t].worker] # None /\ owner[runs[frame[t].worker]] = Id(t)

-----------------------------------------------------------------------------
(* What a step of thread t does to the disk.                                *)

\* i's directory is left alone
Same(i) ==
  /\ folders'[i] = folders[i] /\ package'[i] = package[i] /\ unpacked'[i] = unpacked[i]
  /\ input'[i] = input[i] /\ trained'[i] = trained[i] /\ archived'[i] = archived[i]

GoneAfter(i) ==
  /\ package'[i] = EmptyInputs /\ input'[i] = EmptyInputs
  /\ unpacked'[i] = {} /\ trained'[i] = None /\ archived'[i] = NoOutputs

\* part of it is removed
Torn(i) ==
  /\ package'[i] = EmptyInputs \/ ("packages" \in folders'[i] /\ package'[i] = package[i])
  /\ \/ unpacked'[i] = {} /\ input'[i] = EmptyInputs
     \/ "input" \in folders'[i] /\ unpacked'[i] = unpacked[i] /\ input'[i] = input[i]
  /\ \/ trained'[i] = None /\ archived'[i] = NoOutputs
     \/ "output" \in folders'[i] /\ trained'[i] = trained[i] /\ archived'[i] = archived[i]

\* what t does in the directory of its own job
Writes(t) ==
  LET id == Id(t)  s == frame[t].slot IN
  \/ /\ Same(id) /\ (At(t, "tidy") => frame'[t].pc = "clear")
     /\ frame'[t].pc \notin {"advance", "extract", "finalize"}
     /\ At(t, "look") => (frame'[t].pc = "wipe" <=> folders[id] # {})
     /\ At(t, "wipe") => folders[id] = {} /\ frame'[t].pc # "end"
  \/ /\ At(t, "mkdir") /\ folders[id] \subseteq folders'[id]
     /\ package'[id] = package[id] /\ unpacked'[id] = unpacked[id]
     /\ input'[id] = input[id] /\ trained'[id] = trained[id] /\ archived'[id] = archived[id]
  \/ /\ At(t, "write") /\ frame'[t].pc = "advance" /\ "packages" \in folders[id]
     /\ package'[id] = [package[id] EXCEPT
          ![s] = Append(@, <<frame[t].job, received[frame[t].job][s] + 1>>)]
     /\ folders'[id] = folders[id] /\ unpacked'[id] = unpacked[id]
     /\ input'[id] = input[id] /\ trained'[id] = trained[id] /\ archived'[id] = archived[id]
  \/ /\ At(t, "open") /\ frame'[t].pc = "extract" /\ "input" \in folders[id]
     /\ package[id][s] # <<>> /\ frame'[t].data = package[id][s]
     /\ unpacked'[id] = unpacked[id] \cup {s}
     /\ folders'[id] = folders[id] /\ package'[id] = package[id]
     /\ input'[id] = input[id] /\ trained'[id] = trained[id] /\ archived'[id] = archived[id]
  \/ /\ At(t, "extract") /\ frame'[t].pc \in {"finalize", "clear"}
     /\ folders'[id] = folders[id] \cup {"input"} /\ unpacked'[id] = unpacked[id] \cup {s}
     /\ input'[id] = [input[id] EXCEPT ![s] = frame[t].data]
     /\ trained'[id] = trained[id] /\ archived'[id] = archived[id]
     /\ package'[id] = IF frame'[t].pc = "finalize" THEN [package[id] EXCEPT ![s] = <<>>]
                       ELSE package[id]
  \/ /\ At(t, "read") /\ trained[id] # None /\ frame'[t].pc = "seal"
     /\ folders'[id] = folders[id] /\ package'[id] = package[id] /\ unpacked'[id] = unpacked[id]
     /\ input'[id] = input[id] /\ trained'[id] = trained[id]
  \/ /\ At(t, "seal") /\ folders'[id] = folders[id] \cup {"encrypted"}
     /\ package'[id] = package[id] /\ unpacked'[id] = unpacked[id]
     /\ input'[id] = input[id] /\ trained'[id] = trained[id] /\ archived'[id] = archived[id]
  \/ At(t, "tidy") /\ frame'[t].pc = "ready" /\ "packages" \notin folders'[id] /\ GoneAfter(id)
  \/ At(t, "wipe") /\ frame'[t].pc \in {"end", "mkdir"} /\ folders'[id] = {} /\ GoneAfter(id)
  \/ /\ Torn(id) /\ Touched(t) # {}
     /\ \/ At(t, "tidy") /\ frame'[t].pc = "clear"
        \/ At(t, "wipe") /\ frame'[t].pc \in {"discard", "aborted", "idle", "dead"}

DiskMove(t) ==
  /\ \A i \in JobIds : (frame[t].job = None \/ i # Id(t)) => Same(i)
  /\ received' = IF At(t, "advance")
                   THEN [received EXCEPT ![frame[t].job][frame[t].slot] = @ + 1] ELSE received
  /\ frame[t].job # None => Writes(t)

\* A step of one of the labels at which nothing is written.
LEMMA StillDisk ==
  ASSUME TypeOK, NEW t \in Threads, UNCHANGED <<diskVars, received>>,
         frame[t].pc \notin {"advance", "look", "wipe", "tidy"},
         frame'[t].pc \notin {"advance", "extract", "finalize"}
  PROVE  DiskMove(t)
  BY DEF DiskMove, Writes, Same, At, diskVars

\* What Remains leaves of the directory i, and of the others.
LEMMA RemainsDisk ==
  ASSUME TypeOK, NEW i \in JobIds, NEW left, NEW kept \in SUBSET left, Remains(i, left, kept)
  PROVE  /\ folders'[i] = left /\ Torn(i) /\ \A j \in JobIds \ {i} : Same(j)
         /\ kept \cap {"packages", "input", "output"} = {} => GoneAfter(i)
<1>1. /\ folders'[i] = left
      /\ package'[i] = IF "packages" \in kept THEN package[i] ELSE EmptyInputs
      /\ unpacked'[i] = IF "input" \in kept THEN unpacked[i] ELSE {}
      /\ input'[i] = IF "input" \in kept THEN input[i] ELSE EmptyInputs
      /\ trained'[i] = IF "output" \in kept THEN trained[i] ELSE None
      /\ archived'[i] = IF "output" \in kept THEN archived[i] ELSE NoOutputs
  BY DEF Remains, TypeOK
<1>2. \A j \in JobIds \ {i} : Same(j)
  BY DEF Remains, TypeOK, Same
<1>3. Torn(i)
  BY <1>1 DEF Torn
<1>4. kept \cap {"packages", "input", "output"} = {} => GoneAfter(i)
  BY <1>1 DEF GoneAfter
<1> QED BY <1>1, <1>2, <1>3, <1>4

LEMMA InterruptedDisk ==
  ASSUME TypeOK, NEW t \in Threads, Id(t) \in JobIds, NEW tree, Interrupted(t, tree)
  PROVE  Torn(Id(t)) /\ Touched(t) # {} /\ \A j \in JobIds \ {Id(t)} : Same(j)
<1>1. PICK f, rest, left :
        f \in Touched(t) /\ Remains(Id(t), rest \cup left \cup {f}, rest \cup left)
  BY DEF Interrupted
<1>2. Torn(Id(t)) /\ \A j \in JobIds \ {Id(t)} : Same(j)
  BY <1>1, RemainsDisk
<1> QED BY <1>1, <1>2

LEMMA StepDisk ==
  ASSUME TypeOK, KeyInv, UniqueOK, RolesOK, NEW t \in Threads, Step(t)
  PROVE  DiskMove(t)
<1> DEFINE id == Id(t)  s == frame[t].slot
<1>0. Moves(t) /\ Elsewhere(t)
  BY StepMoves
<1>a. frame[t].pc # "next" => frame[t].job \in Objects /\ frame[t].job # None /\ id \in JobIds
  BY <1>0, Holding, NoneDistinct DEF Moves, At, ReturnsAt, FailsAt
<1>b. frame[t].pc \in {"decrypt", "write", "advance", "open", "extract", "finalize"} => s \in Slots
  BY HoldingSlot
<1>1. CASE /\ UNCHANGED <<diskVars, received>>
           /\ frame[t].pc \notin {"advance", "look", "wipe", "tidy"}
           /\ frame'[t].pc \notin {"advance", "extract", "finalize"}
  BY <1>1, StillDisk
<1>2. CASE PrepareMkdir(t)
  <2>1. /\ At(t, "mkdir")
        /\ UNCHANGED <<received, package, unpacked, input, trained, archived>>
        /\ folders' = folders \/ \E f : folders' = [folders EXCEPT ![id] = @ \cup {f}]
    BY <1>2 DEF PrepareMkdir, jobVars
  <2>2. folders[id] \subseteq folders'[id] /\ \A i \in JobIds \ {id} : folders'[i] = folders[i]
    BY <1>a, <2>1 DEF TypeOK, At
  <2> QED BY <1>a, <2>1, <2>2 DEF DiskMove, Writes, Same, At
<1>3. CASE AppendWrite(t)
  <2> DEFINE c == <<frame[t].job, received[frame[t].job][s] + 1>>
  <2>1. CASE /\ "packages" \in folders[id]
             /\ package' = [package EXCEPT ![id][s] = Append(@, c)]
             /\ Goto(t, "advance")
    <3>1. At(t, "write") /\ UNCHANGED <<received, folders, unpacked, input, trained, archived>>
      BY <1>3 DEF AppendWrite, jobVars
    <3>2. frame'[t].pc = "advance"
      BY <2>1, GotoMoves DEF Continues
    <3>3. /\ package'[id] = [package[id] EXCEPT ![s] = Append(@, c)]
          /\ \A i \in JobIds \ {id} : package'[i] = package[i]
      BY <1>a, <1>b, <2>1, <3>1 DEF TypeOK, At
    <3> QED BY <1>a, <2>1, <3>1, <3>2, <3>3 DEF DiskMove, Writes, Same, At
  <2>2. CASE Fail(t) /\ UNCHANGED package
    <3>1. frame'[t].pc = "clear"
      BY <2>2, FailMoves DEF Cleans
    <3> QED BY <1>1, <1>3, <2>2, <3>1 DEF AppendWrite, jobVars, diskVars, At
  <2> QED BY <1>3, <2>1, <2>2 DEF AppendWrite
<1>4. CASE AppendAdvance(t)
  <2>1. frame'[t].pc \in {"idle", "dead"}
    BY <1>4, LeaveMoves DEF AppendAdvance, LetsGo
  <2> QED BY <1>4, <2>1 DEF AppendAdvance, DiskMove, Writes, Same, At, diskVars
<1>5. CASE FinalizeOpen(t)
  <2>1. CASE /\ package[id][s] # <<>> /\ "input" \in folders[id]
             /\ unpacked' = [unpacked EXCEPT ![id] = @ \cup {s}]
             /\ Become(t, [frame[t] EXCEPT !.pc = "extract", !.data = package[id][s]])
    <3>1. At(t, "open") /\ UNCHANGED <<received, folders, package, input, trained, archived>>
      BY <1>5 DEF FinalizeOpen, jobVars
    <3>2. frame'[t].pc = "extract" /\ frame'[t].data = package[id][s]
      <4> DEFINE d == package[id][s]
      <4>1. Become(t, [frame[t] EXCEPT !.pc = "extract", !.data = d])
        BY <2>1
      <4> HIDE DEF d
      <4>2. frame'[t].pc = "extract" /\ frame'[t].data = d
        BY <4>1, OpenMoves DEF Continues
      <4> QED BY <4>2 DEF d
    <3>3. /\ unpacked'[id] = unpacked[id] \cup {s}
          /\ \A i \in JobIds \ {id} : unpacked'[i] = unpacked[i]
      BY <1>a, <2>1, <3>1 DEF TypeOK, At
    <3> QED BY <1>a, <2>1, <3>1, <3>2, <3>3 DEF DiskMove, Writes, Same, At
  <2>2. CASE Fail(t) /\ UNCHANGED unpacked
    <3>1. frame'[t].pc = "clear"
      BY <2>2, FailMoves DEF Cleans
    <3> QED BY <1>1, <1>5, <2>2, <3>1 DEF FinalizeOpen, jobVars, diskVars, At
  <2> QED BY <1>5, <2>1, <2>2 DEF FinalizeOpen
<1>6. CASE /\ FinalizeExtract(t)
           /\ folders' = [folders EXCEPT ![id] = @ \cup {"input"}]
           /\ unpacked' = [unpacked EXCEPT ![id] = @ \cup {s}]
           /\ input' = [input EXCEPT ![id][s] = frame[t].data]
           /\ \/ /\ package' = [package EXCEPT ![id][s] = <<>>]
                 /\ Become(t, [frame[t] EXCEPT !.pc = "finalize", !.data = <<>>])
              \/ Fail(t) /\ UNCHANGED package
  <2>1. At(t, "extract") /\ UNCHANGED <<received, trained, archived>>
    BY <1>6 DEF FinalizeExtract, jobVars
  <2>2. /\ folders'[id] = folders[id] \cup {"input"} /\ unpacked'[id] = unpacked[id] \cup {s}
        /\ input'[id] = [input[id] EXCEPT ![s] = frame[t].data]
        /\ \A i \in JobIds \ {id} :
             folders'[i] = folders[i] /\ unpacked'[i] = unpacked[i] /\ input'[i] = input[i]
    BY <1>a, <1>b, <1>6, <2>1 DEF TypeOK, At
  <2>3. CASE /\ package' = [package EXCEPT ![id][s] = <<>>]
             /\ Become(t, [frame[t] EXCEPT !.pc = "finalize", !.data = <<>>])
    <3>1. frame'[t].pc = "finalize"
      BY <2>3, OpenMoves DEF Continues
    <3>2. /\ package'[id] = [package[id] EXCEPT ![s] = <<>>]
          /\ \A i \in JobIds \ {id} : package'[i] = package[i]
      BY <1>a, <1>b, <2>1, <2>3 DEF TypeOK, At
    <3> QED BY <1>a, <2>1, <2>2, <3>1, <3>2 DEF DiskMove, Writes, Same, At
  <2>4. CASE Fail(t) /\ UNCHANGED package
    <3>1. frame'[t].pc = "clear"
      BY <2>4, FailMoves DEF Cleans
    <3> QED BY <1>a, <2>1, <2>2, <2>4, <3>1 DEF DiskMove, Writes, Same, At
  <2> QED BY <1>6, <2>3, <2>4
<1>7. CASE MonitorSeal(t)
  <2>1. /\ At(t, "seal") /\ folders' = [folders EXCEPT ![id] = @ \cup {"encrypted"}]
        /\ UNCHANGED <<received, package, unpacked, input, trained, archived>>
    BY <1>7 DEF MonitorSeal
  <2>2. /\ folders'[id] = folders[id] \cup {"encrypted"}
        /\ \A i \in JobIds \ {id} : folders'[i] = folders[i]
    BY <1>a, <2>1 DEF TypeOK, At
  <2> QED BY <1>a, <2>1, <2>2 DEF DiskMove, Writes, Same, At
<1>14. CASE MonitorRead(t)
  <2>1. CASE /\ trained[id] # None /\ archived' = [archived EXCEPT ![id][s] = trained[id]]
             /\ Goto(t, "seal")
    <3>1. At(t, "read") /\ UNCHANGED <<received, folders, package, unpacked, input, trained>>
      BY <1>14 DEF MonitorRead, jobVars
    <3>2. frame'[t].pc = "seal"
      BY <2>1, GotoMoves DEF Continues
    <3>3. \A i \in JobIds \ {id} : archived'[i] = archived[i]
      BY <1>a, <2>1, <3>1 DEF TypeOK, At
    <3> QED BY <1>a, <2>1, <3>1, <3>2, <3>3 DEF DiskMove, Writes, Same, At
  <2>2. CASE Fail(t) /\ UNCHANGED archived
    <3>1. frame'[t].pc = "clear"
      BY <2>2, FailMoves DEF Cleans
    <3> QED BY <1>1, <1>14, <2>2, <3>1 DEF MonitorRead, jobVars, diskVars, At
  <2> QED BY <1>14, <2>1, <2>2 DEF MonitorRead
<1>8. CASE MonitorTidy(t)
  <2> DEFINE stay == folders[id] \cap {"encrypted"}
  <2>0. At(t, "tidy") /\ UNCHANGED received
    BY <1>8 DEF MonitorTidy, jobVars
  <2>1. CASE Remains(id, stay, stay) /\ Goto(t, "ready")
    <3>1. frame'[t].pc = "ready"
      BY <2>1, GotoMoves DEF Continues
    <3>2. /\ folders'[id] = stay /\ \A j \in JobIds \ {id} : Same(j)
          /\ stay \cap {"packages", "input", "output"} = {} => GoneAfter(id)
      <4> HIDE DEF stay
      <4> QED BY <1>a, <2>0, <2>1, RemainsDisk DEF At
    <3> QED BY <1>a, <2>0, <3>1, <3>2 DEF DiskMove, Writes, At
  <2>2. CASE Interrupted(t, Folders \ {"encrypted"}) /\ Fail(t)
    <3>1. frame'[t].pc = "clear"
      BY <2>2, FailMoves DEF Cleans
    <3>2. Torn(id) /\ Touched(t) # {} /\ \A j \in JobIds \ {id} : Same(j)
      BY <1>a, <2>0, <2>2, InterruptedDisk DEF At
    <3> QED BY <1>a, <2>0, <3>1, <3>2 DEF DiskMove, Writes, At
  <2>3. CASE Fail(t) /\ UNCHANGED diskVars
    <3>1. frame'[t].pc = "clear"
      BY <2>3, FailMoves DEF Cleans
    <3> QED BY <1>a, <2>0, <2>3, <3>1 DEF DiskMove, Writes, Same, At, diskVars
  <2> QED BY <1>8, <2>1, <2>2, <2>3 DEF MonitorTidy
<1>9. CASE LookForDirectory(t)
  <2>1. /\ At(t, "look") /\ UNCHANGED <<received, diskVars>>
        /\ Goto(t, IF folders[id] # {} THEN "wipe" ELSE AfterCleanup(t))
    BY <1>9 DEF LookForDirectory, jobVars
  <2>2. /\ frame'[t].pc = IF folders[id] # {} THEN "wipe" ELSE AfterCleanup(t)
        /\ AfterCleanup(t) \in {"mkdir", "end"}
    BY <2>1, GotoMoves DEF Continues, AfterCleanup
  <2> QED BY <1>a, <2>1, <2>2 DEF DiskMove, Writes, Same, At, diskVars
<1>10. CASE WipeDirectory(t)
  <2>0. At(t, "wipe") /\ UNCHANGED received
    BY <1>10 DEF WipeDirectory, jobVars
  <2>1. CASE CleanupRaises(t) /\ ((UNCHANGED diskVars /\ folders[id] = {}) \/ Interrupted(t, Folders))
    <3>1. frame'[t].pc \in {"discard", "aborted", "idle", "dead"}
      BY <2>1, GotoMoves, BlankMoves, LeaveMoves DEF CleanupRaises, Continues, LetsGo
    <3>2. CASE UNCHANGED diskVars /\ folders[id] = {}
      BY <2>0, <3>1, <3>2 DEF DiskMove, Writes, Same, At, diskVars
    <3>3. CASE Interrupted(t, Folders)
      <4>1. Torn(id) /\ Touched(t) # {} /\ \A j \in JobIds \ {id} : Same(j)
        BY <1>a, <2>0, <3>3, InterruptedDisk DEF At
      <4> QED BY <1>a, <2>0, <3>1, <4>1 DEF DiskMove, Writes, At
    <3> QED BY <2>1, <3>2, <3>3
  <2>2. CASE Remains(id, {}, {}) /\ Goto(t, AfterCleanup(t))
    <3>1. frame'[t].pc \in {"mkdir", "end"}
      BY <2>2, GotoMoves DEF Continues, AfterCleanup
    <3>2. folders'[id] = {} /\ GoneAfter(id) /\ \A j \in JobIds \ {id} : Same(j)
      BY <1>a, <2>0, <2>2, RemainsDisk DEF At
    <3> QED BY <1>a, <2>0, <3>1, <3>2 DEF DiskMove, Writes, At
  <2> QED BY <1>10, <2>1, <2>2 DEF WipeDirectory
<1>11. CASE FinalizeExtract(t) /\ Fail(t) /\ UNCHANGED diskVars
  <2>1. frame'[t].pc = "clear"
    BY <1>11, FailMoves DEF Cleans
  <2> QED BY <1>1, <1>11, <2>1 DEF FinalizeExtract, jobVars, At
<1>12. CASE FinalizeExtract(t)
  BY <1>6, <1>11, <1>12 DEF FinalizeExtract, diskVars
<1>13. CASE \/ PrepareDiscard(t) \/ PrepareCommit(t) \/ AppendDecrypt(t) \/ FinalizeCommit(t)
            \/ StartGpu(t) \/ StartLaunch(t) \/ StartRegister(t) \/ StartCommit(t)
            \/ MonitorFind(t) \/ MonitorAttach(t) \/ MonitorWait(t) \/ MonitorEncrypting(t)
            \/ MonitorReady(t) \/ CancelMark(t) \/ CloseNext(t) \/ ClearDeks(t)
            \/ PopProcess(t) \/ KillProcess(t) \/ EndCleanup(t)
  <2>1. /\ UNCHANGED <<diskVars, received>>
        /\ frame[t].pc \in {"discard", "commit", "decrypt", "finalize", "gpu", "launch", "register",
             "started", "find", "attach", "wait", "encrypting", "ready", "cancel", "next", "clear",
             "pop", "kill", "end"}
    BY <1>13 DEF PrepareDiscard, PrepareCommit, AppendDecrypt, FinalizeCommit, StartGpu, StartLaunch,
       StartRegister, StartCommit, MonitorFind, MonitorAttach, MonitorWait, MonitorEncrypting,
       MonitorReady, CancelMark, CloseNext, ClearDeks, PopProcess, KillProcess, EndCleanup,
       At, jobVars
  <2>2. frame'[t].pc \notin {"advance", "extract", "finalize"}
    BY <1>0, <2>1 DEF Moves, Continues, LetsGo, Cleans, At
  <2> QED BY <1>1, <2>1, <2>2
<1> QED
  BY <1>2, <1>3, <1>4, <1>5, <1>7, <1>8, <1>9, <1>10, <1>12, <1>13, <1>14 DEF Step, Cleanup

-----------------------------------------------------------------------------
(* Who handles a job.                                                       *)

DiskInv == FoldersOK /\ InputsOK /\ StagedOK /\ HandlersOK /\ CleanedOK /\ AttendedOK

\* What the proofs take from the invariants of TrainingWorkers_proofs.
LEMMA LifeParts ==
  ASSUME LifeInv
  PROVE  /\ TypeOK /\ KeyInv /\ UniqueOK /\ RolesOK /\ CompleteOK /\ FreshOK /\ ResultsOK
         /\ WorkerInv /\ SerialOK /\ KindsOK /\ StartsOK
         /\ RegisteredOK /\ WorkerUnderControl /\ ExitsOK
  BY DEF LifeInv, WorkerInv, ResultInv

\* A thread that holds a job is at work.
LEMMA HoldsWorking ==
  ASSUME LifeInv, NEW t \in Threads, frame[t].job # None
  PROVE  /\ frame[t].pc \notin Resting /\ frame[t].job \in Objects /\ Id(t) \in JobIds
         /\ status[frame[t].job] # "unused"
<1>1. frame[t].pc \notin Resting
  BY LifeParts DEF KindsOK, Kind
<1>2. frame[t].job \in Objects /\ Id(t) \in JobIds
  BY <1>1, LifeParts, Holding DEF Resting
<1>3. status[frame[t].job] # "unused"
  BY LifeParts DEF KeyInv, FrameOK
<1> QED BY <1>1, <1>2, <1>3

\* A job that is still to be started has no monitor.
LEMMA MonitoredLate ==
  ASSUME LifeInv, NEW p \in Workers, frame[p].job # None
  PROVE  /\ finalized[frame[p].job] = Slots /\ status[frame[p].job] \notin Early
         /\ runs[p] = frame[p].job
<1>1. runs[p] = frame[p].job /\ finalized[frame[p].job] = Slots
  BY LifeParts DEF StartsOK
<1>2. frame[p].pc # "idle"
  BY HoldsWorking, ThreadKinds DEF Resting
<1>3. ~Launched(p, runs[p])
  BY <1>2, LifeParts DEF StartsOK, Launched, Starting
<1>4. status[frame[p].job] \notin Early
  BY <1>1, <1>3, LifeParts DEF StartsOK, Early
<1> QED BY <1>1, <1>4

\* A job that is not started, or whose inputs are not complete, has one handler.
LEMMA SoleHandler ==
  ASSUME LifeInv, NEW t \in Threads, NEW u \in Threads, frame[t].job # None,
         frame[u].job = frame[t].job,
         status[frame[t].job] \in Early \/ finalized[frame[t].job] # Slots
  PROVE  u = t
<1>1. t \notin Workers /\ u \notin Workers
  BY MonitoredLate
<1>2. frame[t].pc # "idle" /\ frame[u].pc # "idle"
  BY HoldsWorking DEF Resting
<1> QED BY <1>1, <1>2, ThreadKinds, LifeParts DEF SerialOK

\* Two published objects under the same job_id are one.
LEMMA SameId ==
  ASSUME LifeInv, NEW t \in Threads, frame[t].job # None, NEW u \in Threads, frame[u].job # None,
         Id(u) = Id(t)
  PROVE  frame[u].job = frame[t].job
  BY HoldsWorking, LifeParts DEF UniqueOK, Id

\* Everything known of a step of t.
StepFacts(t) ==
  /\ Moves(t) /\ Elsewhere(t) /\ JobsMove(t) /\ ProcsMove(t) /\ DiskMove(t)
  /\ At(t, "started") => /\ frame'[frame[t].worker].pc = "find"
                         /\ frame'[frame[t].worker].job = frame[t].job

LEMMA StepAll ==
  ASSUME LifeInv, NEW t \in Threads, Step(t)
  PROVE  StepFacts(t)
<1>1. Moves(t) /\ Elsewhere(t) /\ JobsMove(t) /\ ProcsMove(t) /\ DiskMove(t)
  BY LifeParts, StepMoves, StepJobs, StepProcs, StepDisk
<1>2. ASSUME At(t, "started")
      PROVE  /\ frame'[frame[t].worker].pc = "find"
             /\ frame'[frame[t].worker].job = frame[t].job
  <2>1. StartCommit(t)
    BY <1>2 DEF Step, Cleanup, PrepareDiscard, PrepareMkdir, PrepareCommit, AppendDecrypt,
       AppendWrite, AppendAdvance, FinalizeOpen, FinalizeExtract, FinalizeCommit, StartGpu,
       StartLaunch, StartRegister, MonitorFind, MonitorAttach, MonitorWait, MonitorEncrypting, MonitorSeal,
       MonitorTidy, MonitorRead, MonitorReady, CancelMark, CloseNext, ClearDeks, PopProcess,
       KillProcess, LookForDirectory, WipeDirectory, EndCleanup, At
  <2>2. frame[t].worker \in Workers /\ frame[t].worker \in Threads
    BY <1>2, LifeParts, ThreadKinds DEF RolesOK, Starting, At
  <2>3. frame'[frame[t].worker] = [Blank("find") EXCEPT !.job = frame[t].job]
    BY <2>1, <2>2, LifeParts DEF StartCommit, TypeOK
  <2> QED BY <2>3 DEF Blank
<1> QED BY <1>1, <1>2 DEF StepFacts

\* A step leaves a thread that is at work alone, but the one it moves.
LEMMA OthersAtWork ==
  ASSUME LifeInv, NEW t \in Threads, StepFacts(t), NEW u \in Threads, u # t, frame[u].pc # "idle"
  PROVE  frame'[u] = frame[u]
<1>1. At(t, "started") => frame[frame[t].worker].pc = "idle"
  BY LifeParts DEF StartsOK, Starting, At
<1> QED BY <1>1 DEF StepFacts, Elsewhere

\* And nothing of a job that another thread has to itself is changed.
LEMMA OthersKept ==
  ASSUME LifeInv, NEW t \in Threads, StepFacts(t), NEW u \in Threads, u # t, frame[u].job # None,
         status[frame[u].job] \in Early \/ finalized[frame[u].job] # Slots
  PROVE  /\ frame'[u] = frame[u] /\ owner' = owner /\ Same(Id(u)) /\ Id(u) \in JobIds
         /\ frame[u].job # frame[t].job /\ status'[frame[u].job] = status[frame[u].job]
         /\ finalized'[frame[u].job] = finalized[frame[u].job]
         /\ received'[frame[u].job] = received[frame[u].job]
<1>1. frame'[u] = frame[u] /\ owner' = owner /\ frame[u].job \in Objects /\ Id(u) \in JobIds
  BY HoldsWorking, OthersAtWork DEF Resting, StepFacts, JobsMove
<1>2. frame[u].job # frame[t].job
  BY SoleHandler
<1>3. frame[t].job = None \/ Id(u) # Id(t)
  BY <1>2, SameId
<1>4. Same(Id(u))
  BY <1>1, <1>3 DEF StepFacts, DiskMove
<1>5. received'[frame[u].job] = received[frame[u].job]
  BY <1>1, <1>2, LifeParts DEF StepFacts, DiskMove, TypeOK
<1> QED BY <1>1, <1>2, <1>4, <1>5 DEF StepFacts, JobsMove

\* What is in the table after a step: the object that was there, or the one
\* that is committed under an id that had none.
LEMMA TableMoves ==
  ASSUME LifeInv, NEW t \in Threads, StepFacts(t), NEW i \in JobIds, Known(i)'
  PROVE  \/ /\ At(t, "commit") /\ i = Id(t) /\ ~Known(i) /\ current'[i] = frame[t].job
            /\ frame[t].job \in Objects /\ ~Published(frame[t].job) /\ frame[t].job # None
         \/ Known(i) /\ current'[i] = current[i] /\ current[i] \in Objects /\ Published(current[i])
<1>1. CASE At(t, "commit") /\ i = Id(t)
  <2>1. frame[t].job \in Objects /\ status[frame[t].job] = "opening"
    BY <1>1, LifeParts, Holding DEF KeyInv, FrameOK, At
  <2>2. current'[i] = frame[t].job
    BY <1>1, LifeParts DEF StepFacts, JobsMove, TypeOK
  <2>3. ~Known(i)
    <3> SUFFICES ASSUME Known(i) PROVE FALSE
      OBVIOUS
    <3>1. current[i] \in Objects /\ Published(current[i]) /\ owner[current[i]] = i
      BY LifeParts, KnownPublished DEF UniqueOK
    <3> QED BY <1>1, <2>1, <3>1, LifeParts DEF UniqueOK, Id, Published
  <2> QED BY <1>1, <2>1, <2>2, <2>3, NoneDistinct DEF Published
<1>2. CASE ~(At(t, "commit") /\ i = Id(t))
  <2>1. current'[i] = current[i]
    BY <1>2, LifeParts DEF StepFacts, JobsMove, TypeOK
  <2>2. Known(i)
    BY <2>1 DEF Known
  <2> QED BY <2>1, <2>2, LifeParts, KnownPublished
<1> QED BY <1>1, <1>2

\* The object in the table under the id of a thread is the job of the thread.
LEMMA OwnJob ==
  ASSUME LifeInv, NEW t \in Threads, NEW i \in JobIds, Known(i)
  PROVE  frame[t].job # None /\ i = Id(t) <=> frame[t].job = current[i]
<1>1. current[i] \in Objects /\ Published(current[i]) /\ owner[current[i]] = i /\ current[i] # None
  BY LifeParts, KnownPublished DEF UniqueOK
<1>2. ASSUME frame[t].job # None, i = Id(t) PROVE frame[t].job = current[i]
  BY <1>1, <1>2, HoldsWorking, LifeParts DEF UniqueOK, Id, Published
<1> QED BY <1>1, <1>2 DEF Id

\* A thread in a handler of inputs, or a monitor, has the object in the table.
LEMMA InTable ==
  ASSUME LifeInv, NEW t \in Threads, frame[t].job # None, Published(frame[t].job)
  PROVE  Id(t) \in JobIds /\ Known(Id(t)) /\ current[Id(t)] = frame[t].job
  BY HoldsWorking, LifeParts, Own DEF Id

-----------------------------------------------------------------------------
(* What is known of every directory.                                        *)

\* An id that is known stays known.
LEMMA KnownStays ==
  ASSUME LifeInv, NEW t \in Threads, StepFacts(t), NEW i \in JobIds, Known(i) PROVE Known(i)'
<1>1. CASE At(t, "commit") /\ i = Id(t)
  <2>1. frame[t].job \in Objects
    BY <1>1, LifeParts, Holding DEF At
  <2>2. current'[i] = frame[t].job
    BY <1>1, LifeParts DEF StepFacts, JobsMove, TypeOK
  <2> QED BY <2>1, <2>2, NoneDistinct DEF Known
<1>2. CASE ~(At(t, "commit") /\ i = Id(t))
  <2>1. current'[i] = current[i]
    BY <1>2, LifeParts DEF StepFacts, JobsMove, TypeOK
  <2> QED BY <2>1 DEF Known
<1> QED BY <1>1, <1>2

\* What a step does in a directory: nothing, or what its thread touches.
LEMMA WhereTouched ==
  ASSUME NEW t, StepFacts(t), NEW i \in JobIds
  PROVE  Same(i) \/ (frame[t].job # None /\ i = Id(t) /\ Writes(t))
  BY DEF StepFacts, DiskMove

LEMMA FoldersStep ==
  ASSUME LifeInv, DiskInv, NEW t \in Threads, StepFacts(t) PROVE FoldersOK'
<1> SUFFICES ASSUME NEW i \in JobIds
             PROVE  /\ \A s \in Slots : package'[i][s] # <<>> => "packages" \in folders'[i]
                    /\ \A s \in Slots : input'[i][s] # <<>> => s \in unpacked'[i]
                    /\ unpacked'[i] # {} => "input" \in folders'[i]
                    /\ trained'[i] # None => "output" \in folders'[i]
                    /\ \A out \in Outputs : archived'[i][out] # None => "output" \in folders'[i]
                    /\ ~Known(i)' => PlaintextGone(i)'
  BY DEF FoldersOK
<1>0. /\ \A s \in Slots : package[i][s] # <<>> => "packages" \in folders[i]
      /\ \A s \in Slots : input[i][s] # <<>> => s \in unpacked[i]
      /\ unpacked[i] # {} => "input" \in folders[i]
      /\ trained[i] # None => "output" \in folders[i]
      /\ \A out \in Outputs : archived[i][out] # None => "output" \in folders[i]
      /\ ~Known(i) => PlaintextGone(i)
  BY DEF DiskInv, FoldersOK
<1>1. CASE Same(i)
  <2>1. ~Known(i)' => PlaintextGone(i)'
    <3>1. ~Known(i)' => PlaintextGone(i)
      BY <1>0, KnownStays
    <3> QED BY <1>1, <3>1 DEF Same, PlaintextGone
  <2> QED BY <1>0, <1>1, <2>1 DEF Same
<1>2. CASE GoneAfter(i)
  BY <1>2 DEF GoneAfter, EmptyInputs, NoOutputs, PlaintextGone
<1>3. CASE Torn(i)
  <2>1. ~Known(i)' => PlaintextGone(i)'
    <3>1. ~Known(i)' => PlaintextGone(i)
      BY <1>0, KnownStays
    <3> QED BY <1>3, <3>1 DEF Torn, PlaintextGone
  <2>2. /\ \A s \in Slots : package'[i][s] # <<>> => "packages" \in folders'[i]
        /\ \A s \in Slots : input'[i][s] # <<>> => s \in unpacked'[i]
    BY <1>0, <1>3 DEF Torn, EmptyInputs
  <2>3. /\ unpacked'[i] # {} => "input" \in folders'[i]
        /\ trained'[i] # None => "output" \in folders'[i]
        /\ \A out \in Outputs : archived'[i][out] # None => "output" \in folders'[i]
    BY <1>3 DEF Torn, NoOutputs
  <2> QED BY <2>1, <2>2, <2>3
<1>4. CASE frame[t].job # None /\ i = Id(t) /\ Writes(t)
  <2> DEFINE s0 == frame[t].slot
  <2>0. /\ package[i] \in [Slots -> Seq(Chunk)] /\ input[i] \in [Slots -> Seq(Chunk)]
    BY LifeParts DEF TypeOK
  <2>1. ASSUME frame[t].pc \notin {"discard", "pop", "kill", "look", "wipe", "mkdir", "commit"}
        PROVE  Known(i)'
    <3>1. Published(frame[t].job)
      BY <1>4, <2>1, HoldsWorking, LifeParts, Handling DEF Resting
    <3> QED BY <1>4, <3>1, InTable, KnownStays
  <2>2. CASE /\ At(t, "mkdir") /\ folders[i] \subseteq folders'[i]
             /\ package'[i] = package[i] /\ unpacked'[i] = unpacked[i]
             /\ input'[i] = input[i] /\ trained'[i] = trained[i] /\ archived'[i] = archived[i]
    <3>1. ~Known(i)' => PlaintextGone(i)'
      <4>1. ~Known(i)' => PlaintextGone(i)
        BY <1>0, KnownStays
      <4> QED BY <2>2, <4>1 DEF PlaintextGone
    <3> QED BY <1>0, <2>2, <3>1
  <2>3. CASE /\ At(t, "write") /\ "packages" \in folders[i]
             /\ package'[i] = [package[i] EXCEPT
                  ![s0] = Append(@, <<frame[t].job, received[frame[t].job][s0] + 1>>)]
             /\ folders'[i] = folders[i] /\ unpacked'[i] = unpacked[i]
             /\ input'[i] = input[i] /\ trained'[i] = trained[i] /\ archived'[i] = archived[i]
    BY <1>0, <2>1, <2>3 DEF At
  <2>4. CASE /\ At(t, "open") /\ "input" \in folders[i]
             /\ unpacked'[i] = unpacked[i] \cup {s0}
             /\ folders'[i] = folders[i] /\ package'[i] = package[i]
             /\ input'[i] = input[i] /\ trained'[i] = trained[i] /\ archived'[i] = archived[i]
    BY <1>0, <2>1, <2>4 DEF At
  <2>5. CASE /\ At(t, "extract")
             /\ folders'[i] = folders[i] \cup {"input"} /\ unpacked'[i] = unpacked[i] \cup {s0}
             /\ input'[i] = [input[i] EXCEPT ![s0] = frame[t].data]
             /\ trained'[i] = trained[i] /\ archived'[i] = archived[i]
             /\ package'[i] = IF frame'[t].pc = "finalize" THEN [package[i] EXCEPT ![s0] = <<>>]
                              ELSE package[i]
    <3>1. \A s \in Slots : package'[i][s] # <<>> => package[i][s] # <<>>
      BY <2>0, <2>5
    <3>2. \A s \in Slots : input'[i][s] # <<>> => input[i][s] # <<>> \/ s = s0
      BY <2>0, <2>5
    <3> QED BY <1>0, <2>1, <2>5, <3>1, <3>2 DEF At
  <2>6. CASE /\ At(t, "seal") /\ folders'[i] = folders[i] \cup {"encrypted"}
             /\ package'[i] = package[i] /\ unpacked'[i] = unpacked[i]
             /\ input'[i] = input[i] /\ trained'[i] = trained[i] /\ archived'[i] = archived[i]
    BY <1>0, <2>1, <2>6 DEF At
  <2>7. CASE /\ At(t, "read") /\ trained[i] # None /\ folders'[i] = folders[i]
             /\ package'[i] = package[i] /\ unpacked'[i] = unpacked[i]
             /\ input'[i] = input[i] /\ trained'[i] = trained[i]
    BY <1>0, <2>1, <2>7 DEF At
  <2> QED BY <1>1, <1>2, <1>3, <1>4, <2>2, <2>3, <2>4, <2>5, <2>6, <2>7 DEF Writes
<1> QED BY <1>1, <1>4, WhereTouched

\* What is extracted is the whole upload of the job in the table.
LEMMA InputsStep ==
  ASSUME LifeInv, DiskInv, NEW t \in Threads, StepFacts(t) PROVE InputsOK'
<1> SUFFICES ASSUME NEW i \in JobIds, Known(i)', NEW s \in Slots
             PROVE  input'[i][s] \in {<<>>, Full(current'[i])}
  BY DEF InputsOK, Full, Whole
<1>1. CASE ~Known(i)
  <2>1. At(t, "commit") /\ i = Id(t) /\ frame[t].job # None
    BY <1>1, TableMoves
  <2>2. Same(i)
    BY <2>1, WhereTouched DEF Writes, At
  <2>3. PlaintextGone(i)
    BY <1>1 DEF DiskInv, FoldersOK
  <2> QED BY <2>2, <2>3 DEF Same, PlaintextGone, EmptyInputs
<1>2. CASE Known(i)
  <2>1. current'[i] = current[i]
    BY <1>2, TableMoves
  <2>2. input[i][s] \in {<<>>, Full(current[i])}
    BY <1>2 DEF DiskInv, InputsOK
  <2>3. CASE input'[i] = input[i]
    BY <2>1, <2>2, <2>3
  <2>4. CASE GoneAfter(i) \/ Torn(i)
    BY <2>1, <2>2, <2>4 DEF GoneAfter, Torn, EmptyInputs
  <2>5. CASE /\ frame[t].job # None /\ i = Id(t) /\ At(t, "extract")
             /\ input'[i] = [input[i] EXCEPT ![frame[t].slot] = frame[t].data]
    <3>1. frame[t].data = Full(frame[t].job)
      BY <2>5 DEF DiskInv, HandlersOK, HandlerOK, At
    <3>2. frame[t].job = current[i]
      BY <1>2, <2>5, OwnJob
    <3> DEFINE d == Full(current[i])
    <3>3. input'[i] = [input[i] EXCEPT ![frame[t].slot] = d]
      BY <2>5, <3>1, <3>2
    <3> HIDE DEF d
    <3>4. input'[i][s] \in {input[i][s], d}
      BY <3>3, LifeParts DEF TypeOK
    <3> QED BY <2>1, <2>2, <3>4 DEF d
  <2> QED BY <2>3, <2>4, <2>5, WhereTouched DEF Writes, Same
<1> QED BY <1>1, <1>2

-----------------------------------------------------------------------------
(* What the handlers rely on.                                               *)

\* When a status is that of a job which is still to be started, and was not
\* before, its inputs have been taken in: prepared or finalized.
LEMMA EarlyBefore ==
  ASSUME LifeInv, NEW t \in Threads, StepFacts(t), NEW o \in Objects, status'[o] \in Early
  PROVE  \/ status[o] \in Early /\ (o = frame[t].job => status'[o] = NewStatus(t))
         \/ o = frame[t].job /\ At(t, "commit") /\ status[o] = "opening"
         \/ o = frame[t].job /\ At(t, "finalize")
<1>1. CASE o # frame[t].job
  BY <1>1 DEF StepFacts, JobsMove
<1>2. CASE o = frame[t].job
  <2>1. status'[o] = NewStatus(t) /\ frame[t].final \in Finals
    BY <1>2, LifeParts, ThreadType DEF StepFacts, JobsMove
  <2>2. At(t, "commit") => status[o] = "opening"
    BY <1>2, NoneDistinct, LifeParts DEF KeyInv, FrameOK, At
  <2> QED BY <1>2, <2>1, <2>2 DEF NewStatus, Early, Finals, Over, At
<1> QED BY <1>1, <1>2

\* t at one of these labels relies on nothing.
Carefree == Labels \ (Appending \cup Finalizing \cup {"end"})

LEMMA CarefreeOK ==
  ASSUME NEW u, frame'[u].pc \in Carefree PROVE HandlerOK(u)'
  BY DEF Carefree, HandlerOK, Appending, Finalizing

\* A step leaves alone what the other threads rely on.
LEMMA OthersRely ==
  ASSUME LifeInv, DiskInv, NEW t \in Threads, StepFacts(t), NEW u \in Threads, u # t
  PROVE  HandlerOK(u)'
<1> DEFINE o == frame[u].job  s == frame[u].slot
<1>0. HandlerOK(u)
  BY DEF DiskInv, HandlersOK
<1>1. CASE frame'[u] # frame[u]
  <2>1. frame'[u].pc = "find"
    BY <1>1 DEF StepFacts, Elsewhere
  <2> QED BY <2>1, CarefreeOK DEF Carefree, Labels, Appending, Finalizing
<1>2. CASE frame'[u] = frame[u] /\ o # None /\ (status[o] \in Early \/ finalized[o] # Slots)
  <2>1. /\ Same(Id(u)) /\ owner' = owner /\ Id(u) \in JobIds
        /\ status'[o] = status[o] /\ finalized'[o] = finalized[o] /\ received'[o] = received[o]
    BY <1>2, OthersKept
  <2>2. Id(u)' = Id(u) /\ frame'[u].job = o /\ frame'[u].slot = s /\ frame'[u].pc = frame[u].pc
        /\ frame'[u].data = frame[u].data
    BY <1>2, <2>1 DEF Id
  <2>3. /\ PlaintextGone(Id(u)) => GoneAfter(Id(u))
        /\ package'[Id(u)] = package[Id(u)]
    BY <2>1 DEF Same, PlaintextGone, GoneAfter
  <2> QED BY <1>0, <2>1, <2>2, <2>3
          DEF HandlerOK, PlaintextGone, GoneAfter, EmptyInputs, NoOutputs, Full, Whole
<1>3. CASE frame'[u] = frame[u] /\ (o = None \/ (status[o] \notin Early /\ finalized[o] = Slots))
  <2>1. frame[u].pc \notin Appending \cup Finalizing
    <3>1. CASE o = None
      BY <3>1, LifeParts, Holding, NoneDistinct DEF Appending, Finalizing
    <3>2. CASE o # None /\ status[o] \notin Early /\ finalized[o] = Slots
      <4>1. frame[u].pc \notin Appending \cup {"extract", "finalize"}
        BY <1>0, <3>2 DEF HandlerOK, Early
      <4>2. frame[u].pc # "open"
        BY <3>2, LifeParts, HoldingSlot DEF StartsOK
      <4> QED BY <4>1, <4>2 DEF Finalizing
    <3> QED BY <1>3, <3>1, <3>2
  <2>2. CASE frame[u].pc = "end"
    <3>1. o \in Objects /\ o # None
      BY <2>2, LifeParts, Holding, NoneDistinct
    <3>2. status'[o] \notin Early
      <4>1. SUFFICES ASSUME status'[o] \in Early PROVE FALSE
        OBVIOUS
      <4>2. o = frame[t].job /\ frame[t].pc \in {"commit", "finalize"}
        BY <1>3, <3>1, <4>1, EarlyBefore DEF At
      <4>3. finalized[o] # Slots
        <5>1. CASE frame[t].pc = "commit"
          <6>1. ~Published(o)
            BY <4>2, <5>1, LifeParts DEF KeyInv, FrameOK, Published
          <6> QED BY <3>1, <6>1, LifeParts, InputsDeclared DEF CompleteOK
        <5>2. CASE frame[t].pc = "finalize"
          BY <4>2, <5>2, LifeParts, HoldingSlot DEF StartsOK
        <5> QED BY <4>2, <5>1, <5>2
      <4> QED BY <1>3, <3>1, <4>3
    <3> QED BY <1>3, <2>1, <2>2, <3>2 DEF HandlerOK, Appending, Finalizing
  <2>3. CASE frame[u].pc # "end"
    BY <1>3, <2>1, <2>3 DEF HandlerOK, Appending, Finalizing
  <2> QED BY <2>2, <2>3
<1> QED BY <1>1, <1>2, <1>3

\* An empty directory holds no plaintext.
LEMMA EmptyGone ==
  ASSUME TypeOK, FoldersOK, NEW i \in JobIds, folders[i] = {} PROVE PlaintextGone(i)
<1>1. /\ \A s \in Slots : package[i][s] = <<>>
      /\ unpacked[i] = {} /\ trained[i] = None
      /\ \A out \in Outputs : archived[i][out] = None
  BY DEF FoldersOK
<1>2. \A s \in Slots : input[i][s] = <<>>
  BY <1>1 DEF FoldersOK
<1>3. /\ package[i] \in [Slots -> Seq(Chunk)] /\ input[i] \in [Slots -> Seq(Chunk)]
      /\ archived[i] \in [Outputs -> Workers \cup {None}]
  BY DEF TypeOK
<1>4. archived[i] = NoOutputs
  BY <1>1, <1>3 DEF NoOutputs
<1> QED BY <1>1, <1>2, <1>3, <1>4 DEF PlaintextGone, EmptyInputs

\* While a thread is about to write or to open a package, the package is what
\* was received.
LEMMA PackageKept ==
  ASSUME LifeInv, DiskInv, NEW t \in Threads, frame[t].pc \in {"write", "open"},
         frame[t].slot \notin finalized[frame[t].job], "packages" \in folders[Id(t)]
  PROVE  package[Id(t)][frame[t].slot] = Whole(frame[t].job, received[frame[t].job][frame[t].slot])
<1> DEFINE o == frame[t].job  s == frame[t].slot
<1>1. o \in Objects /\ Published(o) /\ o # None /\ s \in Slots
  BY LifeParts, Handling, HoldingSlot, NoneDistinct
<1>2. Id(t) \in JobIds /\ Known(Id(t)) /\ current[Id(t)] = o
  BY <1>1, InTable
<1>3. Kept(Id(t), s)
  BY <1>1, <1>2 DEF DiskInv, StagedOK
<1>4. ASSUME NEW u \in Threads, frame[u].job = o, frame[u].pc \in {"advance", "finalize"}
      PROVE  FALSE
  BY <1>1, <1>4, SoleHandler
<1>5. package[Id(t)][s] = Uploaded(o, s)
  BY <1>2, <1>3, <1>4 DEF Kept
<1> QED BY <1>5 DEF Uploaded, Whole

\* A step keeps what its own thread relies on next.
LEMMA OwnRelies ==
  ASSUME LifeInv, DiskInv, NEW t \in Threads, StepFacts(t) PROVE HandlerOK(t)'
<1> DEFINE o == frame[t].job  s == frame[t].slot  id == Id(t)
<1>0. HandlerOK(t) /\ Moves(t) /\ owner' = owner
  BY DEF DiskInv, HandlersOK, StepFacts, JobsMove
<1>1. CASE frame'[t].pc \in Carefree
  BY <1>1, CarefreeOK
<1>2. CASE frame'[t].pc \notin Carefree
  <2>1. \/ At(t, "decrypt") /\ Continues(t, "write")
        \/ At(t, "write") /\ Continues(t, "advance")
        \/ At(t, "open") /\ Continues(t, "extract")
        \/ At(t, "extract") /\ Continues(t, "finalize")
        \/ frame[t].pc \in {"look", "wipe"} /\ Continues(t, "end")
    BY <1>0, <1>2 DEF Moves, Continues, LetsGo, Cleans, Carefree, Labels, Appending, Finalizing,
       ReturnsAt, FailsAt
  <2>2. /\ o \in Objects /\ o # None /\ id \in JobIds /\ frame'[t].job = o /\ frame'[t].slot = s
        /\ Id(t)' = id /\ Writes(t)
    BY <1>0, <2>1, LifeParts, Holding, NoneDistinct DEF Continues, At, Id, StepFacts, DiskMove
  <2>3. /\ status'[o] = status[o] /\ finalized'[o] = finalized[o] /\ received' = received
    BY <2>1, <2>2 DEF StepFacts, JobsMove, DiskMove, NewStatus, At
  <2>4. At(t, "decrypt") \/ At(t, "write") \/ At(t, "open") \/ At(t, "extract")
          => s \in Slots /\ Published(o) /\ Known(id) /\ current[id] = o
    BY <2>2, LifeParts, HoldingSlot, Handling, InTable DEF At
  <2>5. CASE At(t, "decrypt") /\ Continues(t, "write")
    BY <1>0, <2>2, <2>3, <2>5 DEF HandlerOK, Continues, At, Appending, Finalizing
  <2>6. CASE At(t, "write") /\ Continues(t, "advance")
    <3>1. s \notin finalized[o] /\ status[o] = "STAGING_INPUTS"
      BY <1>0, <2>6 DEF HandlerOK, At, Appending
    <3>2. /\ "packages" \in folders[id]
          /\ package'[id] = [package[id] EXCEPT ![s] = Append(@, <<o, received[o][s] + 1>>)]
      BY <2>2, <2>6 DEF Writes, Continues, At
    <3>3. package[id][s] = Whole(o, received[o][s]) /\ received[o][s] \in Nat
      <4>1. received[o][s] \in Nat
        BY <2>2, <2>4, <2>6, LifeParts DEF TypeOK
      <4>2. frame[t].pc \in {"write", "open"}
        BY <2>6 DEF At
      <4> QED BY <3>1, <3>2, <4>1, <4>2, PackageKept
    <3>4. package'[id][s] = Append(package[id][s], <<o, received[o][s] + 1>>)
      BY <2>2, <2>4, <2>6, <3>2, LifeParts DEF TypeOK
    <3>5. package'[id][s] = Whole(o, received[o][s] + 1)
      BY <2>2, <3>3, <3>4, WholeGrows
    <3>6. package'[id][s] = Whole(o, received'[o][s] + 1)
      BY <2>3, <3>5
    <3> QED BY <2>2, <2>3, <2>6, <3>1, <3>6 DEF HandlerOK, Continues, Appending, Finalizing, Whole
  <2>7. CASE At(t, "open") /\ Continues(t, "extract")
    <3>1. received[o][s] = Chunks /\ s \notin finalized[o]
      BY <1>0, <2>7, LifeParts DEF HandlerOK, StartsOK, At, Finalizing
    <3>2. /\ package[id][s] # <<>> /\ frame'[t].data = package[id][s] /\ folders'[id] = folders[id]
      BY <2>2, <2>7 DEF Writes, Continues, At
    <3>3. "packages" \in folders[id]
      BY <2>2, <2>4, <2>7, <3>2 DEF DiskInv, FoldersOK
    <3>4. frame'[t].data = Full(o)
      BY <2>7, <3>1, <3>2, <3>3, PackageKept DEF Full, At
    <3>5. status[o] \in Early
      <4>1. ~PlaintextGone(id)
        BY <2>4, <2>7, <3>2 DEF PlaintextGone, EmptyInputs
      <4>2. ASSUME NEW u \in Threads, frame[u].job = o, Cleaner(u) PROVE FALSE
        <5>1. u = t
          BY <2>2, <2>4, <2>7, <3>1, <4>2, SoleHandler
        <5> QED BY <2>7, <4>2, <5>1 DEF Cleaner, Monitoring, At
      <4> QED BY <2>2, <2>4, <2>7, <4>1, <4>2 DEF DiskInv, CleanedOK
    <3> QED BY <2>2, <2>3, <2>7, <3>1, <3>4, <3>5
            DEF HandlerOK, Continues, Appending, Finalizing, Full, Whole
  <2>8. CASE At(t, "extract") /\ Continues(t, "finalize")
    <3>1. received[o][s] = Chunks /\ status[o] \in Early
      BY <1>0, <2>8 DEF HandlerOK, At, Finalizing
    <3> QED BY <2>2, <2>3, <2>8, <3>1 DEF HandlerOK, Continues, Appending, Finalizing
  <2>11. CASE frame[t].pc \in {"look", "wipe"} /\ Continues(t, "end")
    <3>1. CASE At(t, "look")
      <4>1. folders[id] = {} /\ Same(id)
        BY <2>2, <2>11, <3>1 DEF Writes, Continues, At
      <4>2. PlaintextGone(id)
        BY <2>2, <4>1, LifeParts, EmptyGone DEF DiskInv
      <4>3. PlaintextGone(Id(t))'
        BY <2>2, <4>1, <4>2 DEF Same, PlaintextGone
      <4> QED BY <2>11, <4>3 DEF HandlerOK, Continues, Appending, Finalizing
    <3>2. CASE At(t, "wipe")
      <4>1. GoneAfter(id)
        BY <2>2, <2>11, <3>2 DEF Writes, Continues, At
      <4>2. PlaintextGone(Id(t))'
        BY <2>2, <4>1 DEF GoneAfter, PlaintextGone, EmptyInputs, NoOutputs
      <4> QED BY <2>11, <4>2 DEF HandlerOK, Continues, Appending, Finalizing
    <3> QED BY <2>11, <3>1, <3>2 DEF At
  <2> QED BY <2>1, <2>5, <2>6, <2>7, <2>8, <2>11
<1> QED BY <1>1, <1>2

LEMMA HandlersStep ==
  ASSUME LifeInv, DiskInv, NEW t \in Threads, StepFacts(t) PROVE HandlersOK'
<1>1. \A u \in Threads : HandlerOK(u)'
  BY OthersRely, OwnRelies
<1> QED BY <1>1 DEF HandlersOK

-----------------------------------------------------------------------------
(* Who is there besides one that removes a directory.                       *)

\* A worker that runs has a thread that will remove its result, if need be,
\* or its job is just being started.
LEMMA WorkerAttended ==
  ASSUME LifeInv, DiskInv, NEW p \in Workers, process[p] = "running"
  PROVE  /\ runs[p] \in Objects /\ runs[p] # None /\ Published(runs[p])
         /\ owner[runs[p]] \in JobIds /\ Known(owner[runs[p]])
         /\ current[owner[runs[p]]] = runs[p]
         /\ \E u \in Threads :
              /\ frame[u].job = runs[p] /\ frame[u].pc \notin {"tidy", "wipe", "end"}
              /\ status[runs[p]] \in Early \/ Cleaner(u)
<1>1. /\ runs[p] \in Objects /\ runs[p] # None /\ Published(runs[p]) /\ p \in Threads
      /\ AttendedOK
  BY LifeParts, ThreadKinds DEF FreshOK, ResultsOK, TypeOK, DiskInv
<1>2. owner[runs[p]] \in JobIds /\ Known(owner[runs[p]]) /\ current[owner[runs[p]]] = runs[p]
  BY <1>1, LifeParts, Own
<1>3. CASE frame[p].pc \in {"find", "attach", "wait", "clear", "pop"} /\ frame[p].job = runs[p]
  <2>1. Cleaner(p) /\ frame[p].pc \notin {"tidy", "wipe", "end"}
    BY <1>3 DEF Cleaner, Monitoring
  <2> QED BY <1>1, <1>2, <1>3, <2>1
<1>4. ASSUME NEW u \in Threads, frame[u].worker = p, frame[u].pc = "kill"
      PROVE  frame[u].job = runs[p] /\ Cleaner(u)
  <2>1. Id(u) = owner[runs[p]] /\ frame[u].job \in Objects
    BY <1>1, <1>4, LifeParts, Holding, NoneDistinct DEF AttendedOK
  <2> QED BY <1>2, <1>4, <2>1, OwnJob, NoneDistinct DEF Cleaner
<1>5. ASSUME NEW u \in Threads, frame[u].worker = p, frame[u].pc \in {"register", "started"}
      PROVE  frame[u].job = runs[p] /\ status[runs[p]] \in Early
  BY <1>5, LifeParts DEF StartsOK, Starting, Early
<1> QED BY <1>1, <1>2, <1>3, <1>4, <1>5 DEF AttendedOK

\* What makes the removal of a directory fail is another thread on the same job,
\* or a worker of it, and then somebody will come to remove what is left; or the
\* job is still to be started.
LEMMA Meddler ==
  ASSUME LifeInv, DiskInv, NEW t \in Threads, frame[t].job # None,
         frame[t].pc \in {"wipe", "tidy"}, Touched(t) # {}
  PROVE  \E u \in Threads \ {t} :
           frame[u].job = frame[t].job /\ (status[frame[t].job] \in Early \/ Cleaner(u))
<1>1. ASSUME NEW u \in Threads \ {t}, frame[u].job # None, Id(u) = Id(t), Touches(u) # {}
      PROVE  frame[u].job = frame[t].job /\ (status[frame[t].job] \in Early \/ Cleaner(u))
  <2>1. frame[u].job = frame[t].job
    BY <1>1, SameId
  <2>2. frame[u].pc \in {"mkdir", "commit", "register", "write", "extract", "seal", "tidy"}
    BY <1>1 DEF Touches, At
  <2>3. frame[u].pc \notin {"mkdir", "commit"}
    BY <2>1, LifeParts DEF KeyInv, FrameOK
  <2>4. HandlerOK(u)
    BY DEF DiskInv, HandlersOK
  <2>5. frame[u].pc \in {"write", "extract"} => status[frame[t].job] \in Early
    BY <2>1, <2>4 DEF HandlerOK, Appending, Early
  <2>6. frame[u].pc = "register" => status[frame[t].job] \in Early
    BY <2>1, LifeParts DEF StartsOK, Starting, Early
  <2>7. frame[u].pc \in {"seal", "tidy"} => Cleaner(u)
    BY DEF Cleaner, Monitoring
  <2> QED BY <2>1, <2>2, <2>3, <2>5, <2>6, <2>7
<1>2. ASSUME NEW p \in Workers, process[p] = "running", owner[runs[p]] = Id(t)
      PROVE  \E u \in Threads \ {t} :
               frame[u].job = frame[t].job /\ (status[frame[t].job] \in Early \/ Cleaner(u))
  <2>1. PICK u \in Threads : /\ frame[u].job = runs[p] /\ runs[p] # None
                             /\ frame[u].pc \notin {"tidy", "wipe", "end"}
                             /\ status[runs[p]] \in Early \/ Cleaner(u)
    BY <1>2, WorkerAttended
  <2>2. frame[u].job = frame[t].job
    BY <1>2, <2>1, SameId DEF Id
  <2> QED BY <2>1, <2>2
<1> QED BY <1>1, <1>2 DEF Touched

\* So nobody makes it fail while inputs are still to be finalized.
LEMMA NoMeddler ==
  ASSUME LifeInv, DiskInv, NEW t \in Threads, frame[t].job # None,
         frame[t].pc \in {"wipe", "tidy"}, finalized[frame[t].job] # Slots
  PROVE  Touched(t) = {}
  BY Meddler, SoleHandler

-----------------------------------------------------------------------------
(* What was received is kept until somebody cleans up.                      *)

\* Who has written a chunk that is not counted yet, or is about to mark an
\* input, is the one handler of its job.
LEMMA WitnessSole ==
  ASSUME LifeInv, DiskInv, NEW t \in Threads, frame[t].job # None, NEW u \in Threads,
         frame[u].job = frame[t].job, frame[u].pc \in {"advance", "finalize"}
  PROVE  u = t
<1>1. status[frame[u].job] \in Early
  BY DEF DiskInv, HandlersOK, HandlerOK, Early, Appending
<1> QED BY <1>1, SoleHandler

\* Only a monitor reads a result.
LEMMA OnlyMonitors ==
  ASSUME LifeInv, NEW t \in Threads, frame[t].pc \in Monitoring
  PROVE  t \in Workers /\ frame[t].job # None /\ Published(frame[t].job)
<1>1. t \in Workers
  BY LifeParts, ThreadKinds DEF KindsOK, Kind, Monitoring, Cleaning
<1>2. frame[t].job \in Objects /\ Published(frame[t].job)
  BY LifeParts, Handling DEF Monitoring
<1> QED BY <1>1, <1>2, NoneDistinct

\* A thread with the job in the table is not preparing it.
LEMMA NotPreparing ==
  ASSUME LifeInv, NEW t \in Threads, NEW i \in JobIds, Known(i), frame[t].job = current[i]
  PROVE  /\ frame[t].final # "PREPARE" /\ frame[t].pc \notin {"discard", "mkdir", "commit"}
         /\ frame[t].job \in Objects /\ frame[t].job # None /\ i = Id(t)
<1>1. current[i] \in Objects /\ Published(current[i]) /\ current[i] # None
  BY LifeParts, KnownPublished
<1>2. FrameOK(frame[t], status, dek)
  BY LifeParts DEF KeyInv
<1>3. i = Id(t)
  BY <1>1, OwnJob
<1> QED BY <1>1, <1>2, <1>3 DEF FrameOK, Published

\* Nothing was received of an input before its job is published.
LEMMA CountsStep ==
  ASSUME LifeInv, DiskInv, NEW t \in Threads, StepFacts(t)
  PROVE  \A o \in Objects : ~After(o) => \A s \in Slots : received'[o][s] = 0
<1>0. \A o \in Objects : ~Published(o) => \A s \in Slots : received[o][s] = 0
  BY DEF DiskInv, StagedOK
<1>1. \A o \in Objects : Published(o) => After(o)
  <2>1. \A o \in Objects : Published(o) => Published(o)'
    BY LifeParts, StaysPublished DEF StepFacts
  <2> QED BY <2>1 DEF After, Published
<1>2. CASE At(t, "advance")
  <2>1. frame[t].job \in Objects /\ Published(frame[t].job)
    BY <1>2, LifeParts, Handling DEF At
  <2>2. \A o \in Objects \ {frame[t].job} : received'[o] = received[o]
    BY <1>2, <2>1, LifeParts DEF StepFacts, DiskMove, TypeOK
  <2> QED BY <1>0, <1>1, <2>1, <2>2
<1>3. CASE ~At(t, "advance")
  <2>1. received' = received
    BY <1>3 DEF StepFacts, DiskMove
  <2> QED BY <1>0, <1>1, <2>1
<1> QED BY <1>2, <1>3

\* Kept(i, s) of the next state, for the object o that is in the table then.
KeptAfter(i, s, o) ==
  \/ s \in finalized'[o]
  \/ package'[i][s] = Whole(o, received'[o][s])
  \/ \E u \in Threads : /\ frame'[u].job = o /\ frame'[u].slot = s
                        /\ frame'[u].pc \in {"advance", "finalize"}

LEMMA KeptStep ==
  ASSUME LifeInv, DiskInv, NEW t \in Threads, StepFacts(t),
         NEW i \in JobIds, Known(i), "packages" \in folders'[i], NEW s \in Slots
  PROVE  KeptAfter(i, s, current[i])
<1> DEFINE o == current[i]  s0 == frame[t].slot
<1>0. o \in Objects /\ o # None /\ Published(o)
  BY LifeParts, KnownPublished
<1>1. CASE frame[t].job # o
  <2>1. /\ Same(i) /\ finalized'[o] = finalized[o] /\ received'[o] = received[o]
    <3>1. Same(i)
      BY <1>1, OwnJob DEF StepFacts, DiskMove
    <3>2. received'[o] = received[o]
      BY <1>0, <1>1, LifeParts DEF StepFacts, DiskMove, TypeOK
    <3> QED BY <1>0, <1>1, <3>1, <3>2 DEF StepFacts, JobsMove
  <2>2. Kept(i, s)
    BY <2>1 DEF Same, DiskInv, StagedOK
  <2>3. ASSUME NEW u \in Threads, frame[u].job = o, frame[u].pc \in {"advance", "finalize"}
        PROVE  frame'[u] = frame[u]
    BY <1>0, <1>1, <2>3, OthersAtWork
  <2> QED BY <2>1, <2>2, <2>3 DEF Kept, KeptAfter, Same, Uploaded, Whole
<1>2. CASE frame[t].job = o /\ s \in finalized[o]
  BY <1>0, <1>2 DEF KeptAfter, StepFacts, JobsMove
<1>3. CASE frame[t].job = o /\ s \notin finalized[o]
  <2>1. /\ i = Id(t) /\ Writes(t) /\ frame[t].pc \notin {"discard", "mkdir", "commit"}
        /\ HandlerOK(t) /\ frame[t].job # None
    BY <1>0, <1>3, NotPreparing DEF StepFacts, DiskMove, DiskInv, HandlersOK
  <2>2. frame[t].pc \notin {"tidy", "read", "seal"}
    <3>1. frame[t].pc \in Monitoring => finalized[o] = Slots
      BY <1>3, OnlyMonitors, MonitoredLate
    <3> QED BY <1>3, <3>1 DEF Monitoring
  <2>3. "packages" \in folders[i] /\ (At(t, "wipe") => Same(i))
    <3>1. At(t, "wipe") => Touched(t) = {}
      BY <1>3, <2>1, NoMeddler DEF At
    <3> QED BY <2>1, <2>2, <3>1 DEF Writes, Same, At
  <2>4. \/ package[i][s] = Whole(o, received[o][s])
        \/ s = s0 /\ frame[t].pc \in {"advance", "finalize"}
    <3>1. Kept(i, s)
      BY <2>3 DEF DiskInv, StagedOK
    <3>2. ASSUME NEW u \in Threads, frame[u].job = o, frame[u].slot = s,
                 frame[u].pc \in {"advance", "finalize"}
          PROVE  s = s0 /\ frame[t].pc \in {"advance", "finalize"}
      BY <1>3, <2>1, <3>2, WitnessSole
    <3> QED BY <1>3, <3>1, <3>2 DEF Kept, Uploaded, Whole
  <2>5. package[i] \in [Slots -> Seq(Chunk)]
    BY LifeParts DEF TypeOK
  <2>6. CASE At(t, "advance")
    <3>1. /\ s0 \in Slots /\ package[i][s0] = Whole(o, received[o][s0] + 1)
      BY <1>3, <2>1, <2>6, LifeParts, HoldingSlot DEF HandlerOK, Appending, At
    <3>2. Same(i)
      BY <2>1, <2>6 DEF Writes, At
    <3>3. received'[o][s] = IF s = s0 THEN received[o][s] + 1 ELSE received[o][s]
      BY <1>0, <1>3, <2>6, <3>1, LifeParts DEF StepFacts, DiskMove, TypeOK
    <3> QED BY <2>4, <2>6, <3>1, <3>2, <3>3 DEF KeptAfter, Same, At
  <2>7. CASE ~At(t, "advance")
    <3>1. received' = received
      BY <2>7 DEF StepFacts, DiskMove
    <3>2. CASE At(t, "finalize")
      <4>1. Same(i)
        BY <2>1, <3>2 DEF Writes, At
      <4>2. finalized'[o] = finalized[o] \cup {s0}
        BY <1>0, <1>3, <3>2 DEF StepFacts, JobsMove
      <4> QED BY <2>4, <3>1, <4>1, <4>2 DEF KeptAfter, Same
    <3>3. CASE ~At(t, "finalize")
      <4>1. package[i][s] = Whole(o, received[o][s])
        BY <2>4, <2>7, <3>3 DEF At
      <4>2. CASE package'[i] = package[i]
        BY <3>1, <4>1, <4>2 DEF KeptAfter
      <4>3. CASE /\ At(t, "write") /\ frame'[t].pc = "advance"
                 /\ package'[i] = [package[i] EXCEPT ![s0] = Append(@, <<o, received[o][s0] + 1>>)]
        <5>1. frame'[t].job = o /\ frame'[t].slot = s0
          BY <1>3, <4>3 DEF StepFacts, Moves, Continues, LetsGo, Cleans, At, ReturnsAt, FailsAt
        <5>2. s # s0 => package'[i][s] = package[i][s]
          BY <2>5, <4>3
        <5> QED BY <3>1, <4>1, <4>3, <5>1, <5>2 DEF KeptAfter
      <4>4. CASE /\ At(t, "extract") /\ frame'[t].pc \in {"finalize", "clear"}
                 /\ package'[i] = IF frame'[t].pc = "finalize" THEN [package[i] EXCEPT ![s0] = <<>>]
                                  ELSE package[i]
        <5>1. frame'[t].pc = "finalize" => frame'[t].job = o /\ frame'[t].slot = s0
          BY <1>3, <4>4 DEF StepFacts, Moves, Continues, LetsGo, Cleans, At, ReturnsAt, FailsAt
        <5>2. s # s0 => package'[i][s] = package[i][s]
          BY <2>5, <4>4
        <5>3. frame'[t].pc # "finalize" => package'[i][s] = package[i][s]
          BY <4>4
        <5> QED BY <3>1, <4>1, <4>4, <5>1, <5>2, <5>3 DEF KeptAfter
      <4> QED BY <1>3, <2>1, <2>2, <2>3, <4>2, <4>3, <4>4 DEF Writes, Same, At
    <3> QED BY <3>2, <3>3
  <2> QED BY <2>6, <2>7
<1> QED BY <1>1, <1>2, <1>3

LEMMA StagedStep ==
  ASSUME LifeInv, DiskInv, NEW t \in Threads, StepFacts(t) PROVE StagedOK'
<1>1. \A o \in Objects : ~Published(o)' => \A s \in Slots : received'[o][s] = 0
  BY CountsStep DEF After, Published
<1>2. ASSUME NEW i \in JobIds, Known(i)', "packages" \in folders'[i], NEW s \in Slots
      PROVE  Kept(i, s)'
  <2>1. CASE Known(i)
    <3>1. current'[i] = current[i]
      BY <1>2, <2>1, TableMoves
    <3>2. KeptAfter(i, s, current[i])
      BY <1>2, <2>1, KeptStep
    <3> QED BY <3>1, <3>2 DEF Kept, KeptAfter, Uploaded, Whole
  <2>2. CASE ~Known(i)
    <3>1. /\ At(t, "commit") /\ i = Id(t) /\ current'[i] = frame[t].job
          /\ frame[t].job \in Objects /\ ~Published(frame[t].job) /\ frame[t].job # None
      BY <1>2, <2>2, TableMoves
    <3>2. Same(i)
      BY <3>1, WhereTouched DEF Writes, At
    <3>3. PlaintextGone(i)
      BY <2>2 DEF DiskInv, FoldersOK
    <3>4. received'[frame[t].job][s] = 0
      BY <3>1 DEF StepFacts, DiskMove, At, DiskInv, StagedOK
    <3>5. package'[i][s] = <<>>
      BY <3>2, <3>3 DEF Same, PlaintextGone, EmptyInputs
    <3>6. package'[i][s] = Whole(frame[t].job, received'[frame[t].job][s])
      BY <3>1, <3>4, <3>5, WholeEmpty
    <3> QED BY <3>1, <3>6 DEF Kept, Uploaded, Whole
  <2> QED BY <2>1, <2>2
<1> QED BY <1>1, <1>2 DEF StagedOK

-----------------------------------------------------------------------------
(* What is left in the clear is still to be trained on, or somebody is there *)
(* to remove it.                                                            *)

\* A thread that is to remove the plaintext of the job in the table has done so
\* after its step, or still is to, or another one is, or it is still to be started.
LEMMA CleanerStep ==
  ASSUME LifeInv, DiskInv, NEW t \in Threads, StepFacts(t),
         NEW i \in JobIds, Known(i), frame[t].job = current[i], Cleaner(t)
  PROVE  \/ GoneAfter(i)
         \/ frame'[t].job = current[i] /\ Cleaner(t)'
         \/ status[current[i]] \in Early /\ At(t, "wipe")
         \/ \E u \in Threads \ {t} : frame[u].job = current[i] /\ Cleaner(u)
<1>1. /\ i = Id(t) /\ Writes(t) /\ frame[t].final # "PREPARE" /\ frame[t].job # None
      /\ Moves(t)
  BY NotPreparing DEF StepFacts, DiskMove
<1>2. CASE At(t, "tidy")
  <2>1. GoneAfter(i) \/ frame'[t].pc = "clear"
    BY <1>1, <1>2 DEF Writes, At
  <2>2. frame'[t].pc = "clear" => frame'[t].job = frame[t].job
    BY <1>1, <1>2 DEF Moves, Continues, LetsGo, Cleans, At, FailsAt, ReturnsAt
  <2> QED BY <2>1, <2>2 DEF Cleaner
<1>3. CASE frame[t].pc \in {"look", "wipe"} /\ frame'[t].pc # "wipe"
  <2>1. GoneAfter(i) \/ (Same(i) /\ folders[i] = {}) \/ (At(t, "wipe") /\ Touched(t) # {})
    BY <1>1, <1>3 DEF Writes, At
  <2>2. CASE Same(i) /\ folders[i] = {}
    <3>1. PlaintextGone(i)
      BY <2>2, LifeParts, EmptyGone DEF DiskInv
    <3> QED BY <2>2, <3>1 DEF Same, PlaintextGone, GoneAfter
  <2>3. CASE At(t, "wipe") /\ Touched(t) # {}
    BY <1>1, <2>3, Meddler DEF At
  <2> QED BY <2>1, <2>2, <2>3
<1>4. CASE frame[t].pc \in {"look", "wipe"} /\ frame'[t].pc = "wipe"
  <2>1. frame'[t].job = frame[t].job
    BY <1>1, <1>4 DEF Moves, Continues, LetsGo, Cleans, At, FailsAt, ReturnsAt
  <2> QED BY <1>4, <2>1 DEF Cleaner
<1>5. CASE frame[t].pc \notin {"tidy", "look", "wipe"}
  <2>1. frame[t].pc \in {"cancel", "clear", "pop", "kill", "find", "attach", "wait", "encrypting",
                         "read", "seal"}
    BY <1>5 DEF Cleaner, Monitoring
  <2>2. /\ frame'[t].job = frame[t].job
        /\ frame'[t].pc \in {"clear", "pop", "kill", "look", "attach", "wait", "encrypting", "read",
                             "seal", "tidy"}
    BY <1>1, <2>1 DEF Moves, Continues, LetsGo, Cleans, At, FailsAt, ReturnsAt
  <2> QED BY <2>2 DEF Cleaner, Monitoring
<1> QED BY <1>2, <1>3, <1>4, <1>5 DEF At

LEMMA CleanedStep ==
  ASSUME LifeInv, DiskInv, NEW t \in Threads, StepFacts(t) PROVE CleanedOK'
<1> SUFFICES ASSUME NEW i \in JobIds, Known(i)'
             PROVE  \/ PlaintextGone(i)'
                    \/ status'[current'[i]] \in Early
                    \/ \E u \in Threads : frame'[u].job = current'[i] /\ Cleaner(u)'
  BY DEF CleanedOK
<1>a. GoneAfter(i) => PlaintextGone(i)'
  BY DEF GoneAfter, PlaintextGone, EmptyInputs, NoOutputs
<1>1. CASE ~Known(i)
  <2>1. /\ At(t, "commit") /\ current'[i] = frame[t].job /\ frame[t].job \in Objects
    BY <1>1, TableMoves
  <2>2. status'[frame[t].job] = "STAGING_INPUTS"
    BY <2>1 DEF StepFacts, JobsMove, NewStatus, At
  <2> QED BY <2>1, <2>2 DEF Early
<1>2. CASE Known(i)
  <2> DEFINE o == current[i]
  <2>0. current'[i] = o /\ o \in Objects /\ o # None /\ Published(o)
    BY <1>2, TableMoves, LifeParts, KnownPublished
  <2>1. \/ PlaintextGone(i)
        \/ status[o] \in Early
        \/ \E u \in Threads : frame[u].job = o /\ Cleaner(u)
    BY <1>2 DEF DiskInv, CleanedOK
  <2>2. ASSUME NEW u \in Threads, u # t, frame[u].job = o, Cleaner(u)
        PROVE  frame'[u].job = o /\ Cleaner(u)'
    <3>1. frame'[u] = frame[u]
      BY <2>2, OthersAtWork DEF Cleaner, Monitoring
    <3> QED BY <2>2, <3>1 DEF Cleaner
  <2>3. CASE frame[t].job # o
    <3>1. Same(i) /\ status'[o] = status[o]
      BY <1>2, <2>0, <2>3, OwnJob DEF StepFacts, DiskMove, JobsMove
    <3>2. PlaintextGone(i) => PlaintextGone(i)'
      BY <3>1 DEF Same, PlaintextGone
    <3> QED BY <2>0, <2>1, <2>2, <2>3, <3>1, <3>2
  <2>4. CASE frame[t].job = o
    <3>1. /\ i = Id(t) /\ Writes(t) /\ frame[t].pc \notin {"discard", "mkdir", "commit"}
          /\ frame[t].job # None /\ Moves(t) /\ HandlerOK(t) /\ frame[t].final # "PREPARE"
          /\ status'[o] = NewStatus(t)
      BY <1>2, <2>0, <2>4, NotPreparing
      DEF StepFacts, DiskMove, DiskInv, HandlersOK, JobsMove
    <3>2. CASE Cleaner(t)
      <4>1. \/ GoneAfter(i)
            \/ frame'[t].job = o /\ Cleaner(t)'
            \/ status[o] \in Early /\ At(t, "wipe")
            \/ \E u \in Threads \ {t} : frame[u].job = o /\ Cleaner(u)
        BY <1>2, <2>4, <3>2, CleanerStep
      <4>2. At(t, "wipe") => status'[o] = status[o]
        BY <2>4, <3>1 DEF NewStatus, At
      <4> QED BY <1>a, <2>0, <2>2, <4>1, <4>2
    <3>3. CASE ~Cleaner(t) /\ status[o] \in Early
      <4>1. frame[t].pc \notin Monitoring
        BY <2>4, <3>3, OnlyMonitors, MonitoredLate
      <4>2. CASE At(t, "started")
        <5>1. /\ frame[t].worker \in Threads
              /\ frame'[frame[t].worker].pc = "find" /\ frame'[frame[t].worker].job = o
          BY <2>4, <4>2, LifeParts, ThreadKinds DEF StepFacts, RolesOK, Starting, At
        <5> QED BY <2>0, <5>1 DEF Cleaner, Monitoring
      <4>3. CASE At(t, "end")
        <5>1. PlaintextGone(i) /\ Same(i)
          BY <2>4, <3>1, <3>3, <4>3 DEF HandlerOK, Writes, At
        <5> QED BY <5>1 DEF PlaintextGone, Same
      <4>4. CASE ~At(t, "started") /\ ~At(t, "end")
        <5>1. NewStatus(t) \in Early
          BY <2>4, <3>1, <3>3, <4>1, <4>4 DEF NewStatus, Early, At, Cleaner, Monitoring
        <5> QED BY <2>0, <3>1, <5>1
      <4> QED BY <4>2, <4>3, <4>4
    <3>4. CASE ~Cleaner(t) /\ status[o] \notin Early
      <4>1. ASSUME NEW u \in Threads, frame[u].job = o, Cleaner(u)
            PROVE  frame'[u].job = o /\ Cleaner(u)'
        BY <2>2, <3>4, <4>1
      <4>2. CASE PlaintextGone(i)
        <5>1. frame[t].pc \notin {"write", "extract", "tidy", "wipe", "read"}
          BY <2>4, <3>1, <3>4 DEF HandlerOK, Early, Appending, Cleaner, Monitoring
        <5>2. At(t, "open") => Same(i)
          <6>1. At(t, "open") => package[i][frame[t].slot] = <<>>
            BY <4>2, LifeParts, HoldingSlot DEF At, PlaintextGone, EmptyInputs
          <6> QED BY <3>1, <6>1 DEF Writes, At
        <5>3. /\ package'[i] = package[i] /\ unpacked'[i] = unpacked[i] /\ input'[i] = input[i]
              /\ trained'[i] = trained[i] /\ archived'[i] = archived[i]
          BY <3>1, <5>1, <5>2 DEF Writes, Same, At
        <5> QED BY <4>2, <5>3 DEF PlaintextGone
      <4> QED BY <2>0, <2>1, <3>4, <4>1, <4>2
    <3> QED BY <3>2, <3>3, <3>4
  <2> QED BY <2>3, <2>4
<1> QED BY <1>1, <1>2

-----------------------------------------------------------------------------
(* Who attends to a worker.                                                 *)

\* What a step does to the workers: a worker that has an object keeps it, and
\* one that has ended stays so.
LEMMA WorkersMove ==
  ASSUME LifeInv, NEW t \in Threads, StepFacts(t), NEW p \in Workers
  PROVE  /\ runs[p] # None => runs'[p] = runs[p]
         /\ process'[p] = "running" =>
              \/ frame'[t].pc = "register" /\ frame'[t].worker = p
              \/ process[p] = "running" /\ ~(At(t, "kill") /\ frame[t].worker = p)
<1>1. CASE Launches(t)
  <2>1. /\ frame[t].worker \in Workers /\ process[frame[t].worker] = "none"
        /\ runs[frame[t].worker] = None
    BY <1>1, LifeParts DEF Launches, RolesOK, Starting, FreshOK, At
  <2>2. frame'[t].worker = frame[t].worker
    BY <1>1 DEF Launches, StepFacts, Moves, Keeps, Continues, LetsGo, Cleans, At, ReturnsAt, FailsAt
  <2> QED BY <1>1, <2>1, <2>2, LifeParts DEF Launches, StepFacts, ProcsMove, TypeOK, At
<1>2. CASE ~Launches(t)
  <2>1. p # None
    BY NoneDistinct
  <2> QED BY <1>2, <2>1, LifeParts DEF StepFacts, ProcsMove, TypeOK
<1> QED BY <1>1, <1>2

LEMMA AttendedStep ==
  ASSUME LifeInv, DiskInv, NEW t \in Threads, StepFacts(t) PROVE AttendedOK'
<1>0. /\ Moves(t) /\ owner' = owner /\ AttendedOK
      /\ \A p \in Workers : p \in Threads /\ p # None
  BY ThreadKinds, NoneDistinct DEF StepFacts, JobsMove, DiskInv
<1>1. ASSUME NEW p \in Workers, process'[p] = "running"
      PROVE  \/ \E u \in Threads : frame'[u].worker = p /\ frame'[u].pc \in {"kill", "register", "started"}
             \/ frame'[p].pc \in {"find", "attach", "wait", "clear", "pop"}
                /\ frame'[p].job = runs'[p]
  <2>1. CASE frame'[t].pc = "register" /\ frame'[t].worker = p
    BY <2>1
  <2>2. CASE process[p] = "running" /\ ~(At(t, "kill") /\ frame[t].worker = p)
    <3>1. runs[p] # None /\ runs[p] \in Objects /\ runs'[p] = runs[p]
      BY <2>2, LifeParts, WorkersMove DEF FreshOK, ResultsOK, TypeOK
    <3>2. ASSUME NEW u \in Threads, u # t, frame[u].worker = p, frame[u].pc \in {"kill", "register", "started"}
          PROVE  frame'[u].worker = p /\ frame'[u].pc \in {"kill", "register", "started"}
      BY <3>2, OthersAtWork
    <3>3. CASE frame[t].worker = p /\ At(t, "started")
      <4>1. frame'[p].pc = "find" /\ frame'[p].job = frame[t].job
        BY <3>3 DEF StepFacts
      <4>2. runs[p] = frame[t].job
        BY <3>3, LifeParts DEF StartsOK, At
      <4> QED BY <3>1, <4>1, <4>2
    <3>9. CASE frame[t].worker = p /\ At(t, "register")
      <4>1. frame'[t].pc = "started" /\ frame'[t].worker = p
        BY <1>0, <3>9 DEF Moves, Keeps, Continues, LetsGo, Cleans, At, FailsAt, ReturnsAt
      <4> QED BY <4>1
    <3>4. CASE p # t /\ frame[p].pc \in {"find", "attach", "wait", "clear", "pop"}
               /\ frame[p].job = runs[p]
      <4>1. frame'[p] = frame[p]
        BY <1>0, <3>4, OthersAtWork
      <4> QED BY <3>1, <3>4, <4>1
    <3>5. CASE p = t /\ frame[p].pc \in {"find", "attach", "wait", "clear"} /\ frame[p].job = runs[p]
      <4>1. ~(At(t, "wait") /\ process[frame[t].worker] = "ok")
        BY <2>2, <3>5, LifeParts DEF ExitsOK, At
      <4>2. /\ frame'[t].job = frame[t].job
            /\ frame'[t].pc \in {"attach", "wait", "clear", "pop"}
        BY <1>0, <3>5, <4>1 DEF Moves, Continues, LetsGo, Cleans, At, FailsAt, ReturnsAt
      <4> QED BY <3>1, <3>5, <4>2
    <3>6. CASE p = t /\ At(t, "pop") /\ frame[p].job = runs[p]
      <4>1. frame'[t].pc = "kill" /\ frame'[t].worker = registered[owner[runs[p]]]
        BY <1>0, <3>6 DEF Moves, Continues, LetsGo, Cleans, At, FailsAt, ReturnsAt, Id
      <4>2. \/ registered[owner[runs[p]]] = p
            \/ \E u \in Threads : frame[u].worker = p /\ frame[u].pc \in {"register", "kill"}
        BY <2>2, LifeParts DEF WorkerUnderControl
      <4>3. ASSUME NEW u \in Threads, frame[u].worker = p, frame[u].pc \in {"register", "kill"}
            PROVE  frame'[u].worker = p /\ frame'[u].pc \in {"register", "kill"}
        BY <3>6, <4>3, OthersAtWork DEF At
      <4> QED BY <4>1, <4>2, <4>3
    <3>7. \/ \E u \in Threads : frame[u].worker = p /\ frame[u].pc \in {"kill", "register", "started"}
          \/ frame[p].pc \in {"find", "attach", "wait", "clear", "pop"} /\ frame[p].job = runs[p]
      BY <1>0, <2>2 DEF AttendedOK
    <3>8. CASE \E u \in Threads : frame[u].worker = p /\ frame[u].pc \in {"kill", "register", "started"}
      BY <2>2, <3>2, <3>3, <3>8, <3>9 DEF At
    <3> QED BY <3>4, <3>5, <3>6, <3>7, <3>8 DEF At
  <2> QED BY <1>1, <2>1, <2>2, WorkersMove
<1>5. ASSUME NEW u \in Threads, frame'[u].pc = "kill", frame'[u].worker # None
      PROVE  runs'[frame'[u].worker] # None /\ owner'[runs'[frame'[u].worker]] = Id(u)'
  <2>1. CASE u # t
    <3>1. frame'[u] = frame[u]
      BY <1>5, <2>1 DEF StepFacts, Elsewhere
    <3>2. /\ frame[u].worker \in Workers /\ runs[frame[u].worker] # None
          /\ owner[runs[frame[u].worker]] = Id(u)
      BY <1>0, <1>5, <3>1, LifeParts, ThreadType DEF AttendedOK
    <3>3. runs'[frame[u].worker] = runs[frame[u].worker]
      BY <3>2, WorkersMove
    <3> QED BY <1>0, <3>1, <3>2, <3>3 DEF Id
  <2>2. CASE u = t
    <3>1. At(t, "pop") /\ frame'[t].worker = registered[Id(t)] /\ frame'[t].job = frame[t].job
      BY <1>0, <1>5, <2>2 DEF Moves, Continues, LetsGo, Cleans
    <3>2. Id(t) \in JobIds
      BY <3>1, LifeParts, Holding DEF At
    <3>3. /\ registered[Id(t)] \in Workers /\ runs[registered[Id(t)]] # None
          /\ owner[runs[registered[Id(t)]]] = Id(t)
      BY <1>5, <2>2, <3>1, <3>2, LifeParts DEF RegisteredOK
    <3>4. runs'[registered[Id(t)]] = runs[registered[Id(t)]]
      BY <3>3, WorkersMove
    <3> QED BY <1>0, <2>2, <3>1, <3>3, <3>4 DEF Id
  <2> QED BY <2>1, <2>2
<1> QED BY <1>1, <1>5 DEF AttendedOK

-----------------------------------------------------------------------------
(* What happens besides the steps of threads.                               *)

\* A request is taken, or close() begins: nothing changes but the local state
\* of the thread t, and an object that is not published yet.
LEMMA DiskKept ==
  ASSUME LifeInv, DiskInv, NEW t \in Threads, frame[t].pc = "idle",
         UNCHANGED <<diskVars, current, received, finalized, runs, process>>,
         \A u \in Threads \ {t} : frame'[u] = frame[u],
         \A o \in Objects : status[o] # "unused" => status'[o] = status[o] /\ owner'[o] = owner[o],
         \A o \in Objects : status[o] = "unused" => status'[o] \in {"unused", "opening"},
         HandlerOK(t)',
         frame'[t].pc \notin Monitoring, frame'[t].worker # None => frame'[t].pc # "kill"
  PROVE  DiskInv'
<1>0. /\ \A i \in JobIds : Known(i) => current[i] \in Objects /\ status[current[i]] # "unused"
      /\ \A i \in JobIds : Known(i)' <=> Known(i)
      /\ current' = current
  BY LifeParts, KnownPublished DEF Known, Published
<1>1. /\ folders' = folders /\ package' = package /\ unpacked' = unpacked /\ input' = input
      /\ trained' = trained /\ archived' = archived /\ received' = received
      /\ finalized' = finalized /\ runs' = runs /\ process' = process
  BY DEF diskVars
<1>2. \A i \in JobIds : PlaintextGone(i)' <=> PlaintextGone(i)
  BY <1>1 DEF PlaintextGone, EmptyInputs, NoOutputs
<1>3. \A u \in Threads : frame[u].pc # "idle" => u # t /\ frame'[u] = frame[u]
  OBVIOUS
<1>4. FoldersOK'
  BY <1>0, <1>1, <1>2 DEF DiskInv, FoldersOK
<1>5. InputsOK'
  BY <1>0, <1>1 DEF DiskInv, InputsOK, Full, Whole
<1>6. StagedOK'
  <2>1. \A o \in Objects : ~Published(o)' => \A s \in Slots : received'[o][s] = 0
    BY <1>1 DEF DiskInv, StagedOK, Published
  <2>2. ASSUME NEW i \in JobIds, Known(i)', "packages" \in folders'[i], NEW s \in Slots
        PROVE  Kept(i, s)'
    <3>1. Kept(i, s)
      BY <1>0, <1>1, <2>2 DEF DiskInv, StagedOK
    <3>2. ASSUME NEW u \in Threads, frame[u].pc \in {"advance", "finalize"}
          PROVE  frame'[u] = frame[u]
      BY <1>3, <3>2
    <3> QED BY <1>0, <1>1, <3>1, <3>2 DEF Kept, Uploaded, Full, Whole
  <2> QED BY <2>1, <2>2 DEF StagedOK
<1>7. HandlersOK'
  <2>1. ASSUME NEW u \in Threads, u # t PROVE HandlerOK(u)'
    <3>1. HandlerOK(u) /\ frame'[u] = frame[u]
      BY <2>1 DEF DiskInv, HandlersOK
    <3>2. CASE frame[u].job = None
      <4>1. frame[u].pc \in Resting
        BY <3>2, LifeParts, Holding, NoneDistinct DEF Resting
      <4> QED BY <3>1, <4>1 DEF HandlerOK, Resting, Appending, Finalizing
    <3>3. CASE frame[u].job # None
      <4>1. /\ frame[u].job \in Objects /\ Id(u) \in JobIds
            /\ status'[frame[u].job] = status[frame[u].job] /\ Id(u)' = Id(u)
        BY <3>1, <3>3, HoldsWorking DEF Id
      <4> QED BY <1>1, <1>2, <3>1, <4>1 DEF HandlerOK, Full, Whole
    <3> QED BY <3>2, <3>3
  <2> QED BY <2>1 DEF HandlersOK
<1>8. CleanedOK'
  <2> SUFFICES ASSUME NEW i \in JobIds, Known(i)'
               PROVE  \/ PlaintextGone(i)'
                      \/ status'[current'[i]] \in Early
                      \/ \E u \in Threads : frame'[u].job = current'[i] /\ Cleaner(u)'
    BY DEF CleanedOK
  <2>1. \/ PlaintextGone(i)
        \/ status[current[i]] \in Early
        \/ \E u \in Threads : frame[u].job = current[i] /\ Cleaner(u)
    BY <1>0 DEF DiskInv, CleanedOK
  <2>2. ASSUME NEW u \in Threads, Cleaner(u) PROVE frame'[u] = frame[u] /\ Cleaner(u)'
    <3>1. frame'[u] = frame[u]
      BY <1>3, <2>2 DEF Cleaner, Monitoring
    <3> QED BY <2>2, <3>1 DEF Cleaner
  <2> QED BY <1>0, <1>2, <2>1, <2>2
<1>9. AttendedOK'
  <2>0. AttendedOK /\ \A p \in Workers : p \in Threads
    BY ThreadKinds DEF DiskInv
  <2>1. ASSUME NEW p \in Workers, process'[p] = "running"
        PROVE  \/ \E u \in Threads : /\ frame'[u].worker = p
                                  /\ frame'[u].pc \in {"kill", "register", "started"}
               \/ frame'[p].pc \in {"find", "attach", "wait", "clear", "pop"}
                  /\ frame'[p].job = runs'[p]
    <3>1. \/ \E u \in Threads : frame[u].worker = p /\ frame[u].pc \in {"kill", "register", "started"}
          \/ frame[p].pc \in {"find", "attach", "wait", "clear", "pop"} /\ frame[p].job = runs[p]
      BY <1>1, <2>0, <2>1 DEF AttendedOK
    <3>2. ASSUME NEW u \in Threads, frame[u].pc \in {"kill", "register", "started"}
          PROVE  frame'[u] = frame[u]
      BY <1>3, <3>2
    <3>3. frame[p].pc \in {"find", "attach", "wait", "clear", "pop"} => frame'[p] = frame[p]
      BY <1>3, <2>0
    <3> QED BY <1>1, <3>1, <3>2, <3>3
  <2>3. ASSUME NEW u \in Threads, frame'[u].pc = "kill", frame'[u].worker # None
        PROVE  runs'[frame'[u].worker] # None /\ owner'[runs'[frame'[u].worker]] = Id(u)'
    <3>1. u # t /\ frame'[u] = frame[u]
      BY <2>3
    <3>2. /\ frame[u].worker \in Workers /\ runs[frame[u].worker] # None
          /\ owner[runs[frame[u].worker]] = Id(u) /\ frame[u].job \in Objects
          /\ status[frame[u].job] # "unused"
      BY <2>0, <2>3, <3>1, LifeParts, ThreadType, Holding DEF AttendedOK, KeyInv, FrameOK
    <3>3. runs[frame[u].worker] \in Objects /\ status[runs[frame[u].worker]] # "unused"
      BY <3>2, LifeParts, NoneDistinct DEF FreshOK, ResultsOK, TypeOK, Published
    <3> QED BY <1>1, <3>1, <3>2, <3>3 DEF Id
  <2> QED BY <2>1, <2>3 DEF AttendedOK
<1> QED BY <1>4, <1>5, <1>6, <1>7, <1>8, <1>9 DEF DiskInv

\* A worker leaves its result below output/, where somebody will remove it.
LEMMA WorkerDisk ==
  ASSUME LifeInv, DiskInv, NEW p \in Workers,
         WorkerWrites(p) \/ WorkerSucceeds(p) \/ WorkerFails(p)
  PROVE  DiskInv'
<1> DEFINE id == owner[runs[p]]
<1>0. /\ process[p] = "running"
      /\ \A q \in Workers : process'[q] = "running" => process[q] = "running"
      /\ UNCHANGED <<jobVars, package, unpacked, input, archived, registered, runs, frame>>
  BY LifeParts DEF WorkerWrites, WorkerSucceeds, WorkerFails, diskVars, procVars, TypeOK
<1>1. /\ current' = current /\ owner' = owner /\ status' = status /\ received' = received
      /\ finalized' = finalized /\ package' = package /\ unpacked' = unpacked /\ input' = input
      /\ archived' = archived /\ runs' = runs /\ frame' = frame
  BY <1>0 DEF jobVars
<1>2. /\ id \in JobIds /\ Known(id) /\ current[id] = runs[p]
      /\ runs[p] \in Objects /\ runs[p] # None
      /\ \E u \in Threads : /\ frame[u].job = runs[p] /\ frame[u].pc \notin {"tidy", "wipe", "end"}
                            /\ status[runs[p]] \in Early \/ Cleaner(u)
  BY <1>0, WorkerAttended
<1>3. /\ \A i \in JobIds : folders[i] \subseteq folders'[i] /\ folders'[i] \subseteq folders[i] \cup {"output"}
      /\ \A i \in JobIds \ {id} : trained'[i] = trained[i]
      /\ trained'[id] # trained[id] => "output" \in folders'[id]
  <2>1. CASE folders' = folders /\ trained' = trained
    BY <2>1
  <2>2. CASE /\ folders' = [folders EXCEPT ![id] = @ \cup {"output"}]
             /\ trained' = [trained EXCEPT ![id] = p]
    BY <1>2, <2>2, LifeParts DEF TypeOK
  <2> QED BY <2>1, <2>2 DEF WorkerWrites, WorkerSucceeds, WorkerFails, diskVars
<1>4. /\ \A i \in JobIds : Known(i)' <=> Known(i)
      /\ \A i \in JobIds \ {id} : PlaintextGone(i)' <=> PlaintextGone(i)
  BY <1>1, <1>3 DEF Known, PlaintextGone, EmptyInputs, NoOutputs
<1>5. FoldersOK'
  <2>1. ASSUME NEW i \in JobIds
        PROVE  /\ \A s \in Slots : package'[i][s] # <<>> => "packages" \in folders'[i]
               /\ \A s \in Slots : input'[i][s] # <<>> => s \in unpacked'[i]
               /\ unpacked'[i] # {} => "input" \in folders'[i]
               /\ trained'[i] # None => "output" \in folders'[i]
               /\ \A out \in Outputs : archived'[i][out] # None => "output" \in folders'[i]
               /\ ~Known(i)' => PlaintextGone(i)'
    <3>1. /\ \A s \in Slots : package[i][s] # <<>> => "packages" \in folders[i]
          /\ \A s \in Slots : input[i][s] # <<>> => s \in unpacked[i]
          /\ unpacked[i] # {} => "input" \in folders[i]
          /\ trained[i] # None => "output" \in folders[i]
          /\ \A out \in Outputs : archived[i][out] # None => "output" \in folders[i]
          /\ ~Known(i) => PlaintextGone(i)
      BY DEF DiskInv, FoldersOK
    <3>2. trained'[i] # None => "output" \in folders'[i]
      BY <1>3, <3>1
    <3>3. ~Known(i)' => PlaintextGone(i)'
      BY <1>2, <1>4, <3>1
    <3> QED BY <1>1, <1>3, <3>1, <3>2, <3>3
  <2> QED BY <2>1 DEF FoldersOK
<1>6. InputsOK'
  BY <1>1, <1>4 DEF DiskInv, InputsOK, Full, Whole
<1>7. StagedOK'
  <2>1. \A i \in JobIds, s \in Slots : Kept(i, s)' <=> Kept(i, s)
    BY <1>1 DEF Kept, Uploaded, Full, Whole
  <2>2. \A o \in Objects : Published(o)' <=> Published(o)
    BY <1>1 DEF Published
  <2>3. \A i \in JobIds : "packages" \in folders'[i] <=> "packages" \in folders[i]
    BY <1>3
  <2> QED BY <1>1, <1>4, <2>1, <2>2, <2>3 DEF DiskInv, StagedOK
<1>8. HandlersOK'
  <2> SUFFICES ASSUME NEW v \in Threads PROVE HandlerOK(v)'
    BY DEF HandlersOK
  <2>1. HandlerOK(v) /\ Id(v)' = Id(v)
    BY <1>1 DEF DiskInv, HandlersOK, Id
  <2>2. CASE frame[v].job = None
    <3>1. frame[v].pc \in Resting
      BY <2>2, LifeParts, Holding, NoneDistinct DEF Resting
    <3> QED BY <1>1, <3>1 DEF HandlerOK, Resting, Appending, Finalizing
  <2>3. CASE frame[v].job # None
    <3>1. Id(v) \in JobIds
      BY <2>3, HoldsWorking
    <3>2. frame[v].pc = "end" /\ status[frame[v].job] \in Early => Id(v) # id
      <4> SUFFICES ASSUME frame[v].pc = "end", status[frame[v].job] \in Early, Id(v) = id PROVE FALSE
        OBVIOUS
      <4>1. frame[v].job = runs[p]
        BY <1>2, <2>3, OwnJob
      <4>2. PICK u \in Threads : frame[u].job = runs[p] /\ frame[u].pc \notin {"tidy", "wipe", "end"}
        BY <1>2
      <4>3. u = v
        BY <2>3, <4>1, <4>2, SoleHandler
      <4> QED BY <4>2, <4>3
    <3>3. folders[Id(v)] \subseteq folders'[Id(v)]
      BY <1>3, <3>1
    <3> QED BY <1>1, <1>4, <2>1, <3>1, <3>2, <3>3 DEF HandlerOK, Full, Whole
  <2> QED BY <2>2, <2>3
<1>9. CleanedOK'
  <2>1. \A v \in Threads : Cleaner(v)' <=> Cleaner(v)
    BY <1>1 DEF Cleaner
  <2>2. ASSUME NEW i \in JobIds, Known(i)'
        PROVE  \/ PlaintextGone(i)'
               \/ status'[current'[i]] \in Early
               \/ \E v \in Threads : frame'[v].job = current'[i] /\ Cleaner(v)'
    <3>1. CASE i = id
      BY <1>1, <1>2, <2>1, <3>1
    <3>2. CASE i # id
      BY <1>1, <1>4, <2>1, <2>2, <3>2 DEF DiskInv, CleanedOK
    <3> QED BY <3>1, <3>2
  <2> QED BY <2>2 DEF CleanedOK
<1>10. AttendedOK'
  <2>2. \A v \in Threads : Id(v)' = Id(v)
    BY <1>1 DEF Id
  <2> QED BY <1>0, <1>1, <2>2 DEF DiskInv, AttendedOK
<1> QED BY <1>5, <1>6, <1>7, <1>8, <1>9, <1>10 DEF DiskInv

LEMMA DiskNext ==
  ASSUME LifeInv, DiskInv, MaxInFlight = 1, MaxPrepares = 1, [Next]_vars
  PROVE  DiskInv'
<1>0. TypeOK /\ Clients \subseteq Threads /\ Requests \subseteq Clients /\ Closer \in Threads
  BY LifeParts, ThreadKinds
<1>1. ASSUME NEW t \in Threads, Step(t) PROVE DiskInv'
  <2>1. StepFacts(t)
    BY <1>1, StepAll
  <2> QED BY <2>1, FoldersStep, InputsStep, StagedStep, HandlersStep, CleanedStep, AttendedStep
          DEF DiskInv
<1>2. ASSUME NEW t \in Clients, NEW i \in JobIds, Begins(t, i) PROVE DiskInv'
  <2>1. /\ frame[t].pc = "idle" /\ \A u \in Threads \ {t} : frame'[u] = frame[u]
        /\ UNCHANGED <<jobVars, diskVars, procVars>> /\ frame'[t].job = current[i]
    BY <1>2 DEF Begins, Admits, At
  <2>2. /\ frame'[t].pc \in {"decrypt", "clear", "open", "gpu", "cancel", "pop"}
    BY <1>2 DEF Begins, Cleans
  <2>3. HandlerOK(t)'
    <3>1. frame'[t].pc = "decrypt" =>
            frame'[t].slot \notin finalized[current[i]] /\ status[current[i]] = "STAGING_INPUTS"
      BY <1>2 DEF Begins, Cleans
    <3>2. frame'[t].pc = "open" => received[current[i]][frame'[t].slot] = Chunks
      BY <1>2 DEF Begins, Cleans
    <3> QED BY <2>1, <2>2, <3>1, <3>2 DEF HandlerOK, Appending, Finalizing, jobVars
  <2> QED BY <1>0, <2>1, <2>2, <2>3, DiskKept DEF jobVars, procVars, Monitoring
<1>3. ASSUME NEW t \in Requests, NEW i \in JobIds, NEW o \in Objects, PrepareOpen(t, i, o)
      PROVE  DiskInv'
  <2>1. /\ frame[t].pc = "idle" /\ status[o] = "unused"
        /\ UNCHANGED <<current, received, finalized, diskVars, procVars>>
    BY <1>3 DEF PrepareOpen, Admits, At
  <2>2. /\ frame'[t].pc \in {"pop", "discard"} /\ frame'[t].worker = None
        /\ \A u \in Threads \ {t} : frame'[u] = frame[u]
        /\ status'[o] = "opening"
        /\ \A q \in Objects \ {o} : status'[q] = status[q] /\ owner'[q] = owner[q]
    BY <1>0, <1>3, PrepareMoves
  <2>3. HandlerOK(t)'
    BY <2>2 DEF HandlerOK, Appending, Finalizing
  <2>4. /\ \A q \in Objects : status[q] # "unused" => status'[q] = status[q] /\ owner'[q] = owner[q]
        /\ \A q \in Objects : status[q] = "unused" => status'[q] \in {"unused", "opening"}
    BY <2>1, <2>2
  <2> QED BY <1>0, <2>1, <2>2, <2>3, <2>4, DiskKept DEF procVars, Monitoring
<1>4. CASE CloseBegin
  <2>1. /\ frame[Closer].pc = "idle" /\ UNCHANGED <<jobVars, diskVars, procVars>>
        /\ frame'[Closer].pc = "next" /\ \A u \in Threads \ {Closer} : frame'[u] = frame[u]
    BY <1>0, <1>4, CloseMoves DEF CloseBegin, At, Continues
  <2>2. HandlerOK(Closer)'
    BY <2>1 DEF HandlerOK, Appending, Finalizing
  <2> QED BY <1>0, <2>1, <2>2, DiskKept DEF jobVars, procVars, Monitoring
<1>5. CASE Worker
  BY <1>5, WorkerDisk DEF Worker
<1>6. CASE UNCHANGED vars
  <2>1. /\ current' = current /\ owner' = owner /\ status' = status /\ received' = received
        /\ finalized' = finalized /\ folders' = folders /\ package' = package
        /\ unpacked' = unpacked /\ input' = input /\ trained' = trained /\ archived' = archived
        /\ process' = process /\ runs' = runs /\ frame' = frame
    BY <1>6 DEF vars, jobVars, diskVars, procVars
  <2>2. /\ \A i \in JobIds : /\ Known(i)' <=> Known(i)
                             /\ PlaintextGone(i)' <=> PlaintextGone(i)
        /\ \A i \in JobIds, s \in Slots : Kept(i, s)' <=> Kept(i, s)
        /\ \A o \in Objects : Published(o)' <=> Published(o)
        /\ \A u \in Threads : Id(u)' = Id(u)
        /\ \A u \in Threads : Cleaner(u)' <=> Cleaner(u)
    BY <2>1 DEF Known, PlaintextGone, EmptyInputs, NoOutputs, Kept, Full, Whole, Uploaded, Published, Id, Cleaner
  <2>3. FoldersOK' /\ InputsOK'
    BY <2>1, <2>2 DEF DiskInv, FoldersOK, InputsOK, Full, Whole
  <2>4. StagedOK'
    BY <2>1, <2>2 DEF DiskInv, StagedOK
  <2>5. ASSUME NEW u \in Threads PROVE HandlerOK(u)'
    <3>1. HandlerOK(u)
      BY DEF DiskInv, HandlersOK
    <3> QED BY <2>1, <3>1 DEF HandlerOK, Id, PlaintextGone, EmptyInputs, NoOutputs, Full, Whole
  <2>6. CleanedOK' /\ AttendedOK'
    BY <2>1, <2>2 DEF DiskInv, CleanedOK, AttendedOK
  <2> QED BY <2>3, <2>4, <2>5, <2>6 DEF DiskInv, HandlersOK
<1> QED
  BY <1>0, <1>1, <1>2, <1>3, <1>4, <1>5, <1>6, RequestBegins DEF Next, Stopped

LEMMA DiskInit ==
  ASSUME Init PROVE DiskInv
<1>1. /\ \A i \in JobIds : ~Known(i) /\ PlaintextGone(i) /\ folders[i] = {}
      /\ \A o \in Objects : finalized[o] = {} /\ \A s \in Slots : received[o][s] = 0
      /\ \A t \in Threads : frame[t].pc = "idle" /\ frame[t].worker = None
      /\ \A p \in Workers : process[p] = "none"
  BY DEF Init, Blank, Known, PlaintextGone, EmptyInputs, NoOutputs
<1>2. FoldersOK
  BY <1>1 DEF FoldersOK, PlaintextGone, EmptyInputs, NoOutputs
<1>3. InputsOK /\ CleanedOK
  BY <1>1 DEF InputsOK, CleanedOK
<1>4. StagedOK
  BY <1>1 DEF StagedOK
<1>5. HandlersOK
  BY <1>1 DEF HandlersOK, HandlerOK, Appending, Finalizing
<1>6. AttendedOK
  BY <1>1, ThreadKinds DEF AttendedOK
<1> QED BY <1>2, <1>3, <1>4, <1>5, <1>6 DEF DiskInv

\* Both invariants hold in every reachable state of sequential clients.
LEMMA DiskHolds ==
  ASSUME MaxInFlight = 1, MaxPrepares = 1 PROVE Spec => [](LifeInv /\ DiskInv)
<1>1. Init => DiskInv
  BY DiskInit
<1>2. LifeInv /\ DiskInv /\ [Next]_vars => DiskInv'
  BY DiskNext
<1>3. Spec => []LifeInv
  BY LifeHolds
<1> QED BY <1>1, <1>2, <1>3, PTL DEF Spec

\* The inputs a worker reads are the uploads of the job it was launched for,
\* whole and in order, or were wiped; nobody extracts anything else under its
\* job_id meanwhile (service.py finalize_training_input and
\* start_training_job).
THEOREM OwnInputsTrained ==
  ASSUME MaxInFlight = 1, MaxPrepares = 1 PROVE Spec => []TrainsOnOwnInputs
<1>1. LifeInv /\ DiskInv => TrainsOnOwnInputs
  <2> SUFFICES ASSUME LifeInv, DiskInv, NEW p \in Workers, process[p] = "running", NEW s \in Slots
               PROVE  input[owner[runs[p]]][s] \in {<<>>, [i \in 1 .. Chunks |-> <<runs[p], i>>]}
    BY DEF TrainsOnOwnInputs
  <2>1. owner[runs[p]] \in JobIds /\ Known(owner[runs[p]]) /\ current[owner[runs[p]]] = runs[p]
    BY WorkerAttended
  <2> QED BY <2>1 DEF DiskInv, InputsOK, Full, Whole
<1> QED BY <1>1, DiskHolds, PTL

\* plaintextCleaned tells the truth: of a job that is over, or whose result is
\* ready, no package, no input and no result is left in the clear once no
\* thread handles it and no worker runs for it (service.py _training_job_view).
THEOREM PlaintextRemoved ==
  ASSUME MaxInFlight = 1, MaxPrepares = 1 PROVE Spec => []PlaintextCleaned
<1>1. LifeInv /\ DiskInv => PlaintextCleaned
  <2> SUFFICES ASSUME LifeInv, DiskInv, NEW id \in JobIds, Known(id),
                      status[current[id]] \in Over \cup {"OUTPUT_READY"},
                      \A t \in Threads : frame[t].job # None => Id(t) # id
               PROVE  PlaintextGone(id)
    BY DEF PlaintextCleaned
  <2>1. status[current[id]] \notin Early
    BY DEF Over, Early
  <2>2. \A t \in Threads : frame[t].job # current[id]
    BY OwnJob
  <2> QED BY <2>1, <2>2 DEF DiskInv, CleanedOK
<1> QED BY <1>1, DiskHolds, PTL
=============================================================================
