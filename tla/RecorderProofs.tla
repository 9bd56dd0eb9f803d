--------------------------- MODULE RecorderProofs ---------------------------
(***************************************************************************)
(* Proofs about Recorder, for any pad states, any capacity of the queue,   *)
(* sessions of any length and any combination of faults.                   *)
(***************************************************************************)
EXTENDS Recorder, RunLengthProofs

Runs == [state: PadStates, count: 1..(MaxFrames + 1)]

ReaderRuns == rpc \notin Ended
WriterRuns == wpc \notin Ended

(* A run is no longer than what was sampled, and one; what is about to be  *)
(* sampled is a frame that counts.                                         *)
RunBounded ==
  /\ count <= Len(observed) + 1
  /\ rpc = "compare" => Len(observed) < MaxFrames /\ cur \notin RecordCombo

(* Where the two threads are while the listen thread is somewhere.         *)
ThreadsInStep ==
  /\ lpc = "create" \/ (lpc = "idle" /\ ~g_recording) =>
       rpc \in {"none", "created"} /\ wpc \in {"none", "created"}
  /\ lpc = "idle" /\ g_recording =>
       ReaderRuns /\ wpc \in {"dirs", "open", "loop", "exited"}
  /\ lpc = "startRead" => rpc = "created" /\ wpc = "created"
  /\ lpc = "startWrite" => ReaderRuns /\ wpc = "created"
  /\ lpc = "waitRead" => rpc = "exited" \/ ReaderRuns
  /\ lpc = "waitWrite" => rpc = "none"
  /\ lpc \in {"waitRead", "waitWrite"} => wpc = "exited" \/ WriterRuns
  /\ lpc \in {"create", "startRead", "startWrite"} => g_recording
  /\ lpc \in {"waitRead", "waitWrite"} => ~g_recording

(* The writer's file.                                                      *)
FileInStep ==
  /\ lpc = "startWrite" \/ wpc \in {"dirs", "open"} => fileState = "stale"
  /\ wpc \in {"loop", "drain", "join", "final"} => fileState = "open"

(* While nothing but readState fails: where the reader has not published   *)
(* a pair yet, and when the queue is empty and the file closed.            *)
CleanInStep ==
  faults \subseteq {"readState"} =>
    /\ ready = IF rpc = "publish" THEN Len(items) - 1 ELSE Len(items)
    /\ lpc = "idle" /\ ~g_recording => rpc = "none" /\ wpc = "none"
    /\ lpc = "create" => rpc = "none" /\ wpc = "none"
    /\ wpc \in {"none", "exited"} => ~ReaderRuns /\ fileState = "closed"
    /\ lpc = "startRead" => fileState = "closed"
    /\ wpc = "final" => ~ReaderRuns
    /\ wpc \in {"none", "created", "exited"} => items = <<>> \/ lpc = "startWrite"
    /\ rpc = "init" =>
         items = <<>> /\ fileState # "closed" /\ (fileState = "open" => file = <<>>)
    /\ ~crashed

Inv ==
  TypeOK /\ RunBounded /\ ThreadsInStep /\ FileInStep /\ CleanInStep

-----------------------------------------------------------------------------
LEMMA InvInit == Init => Inv
  <1> SUFFICES ASSUME Init PROVE Inv
    OBVIOUS
  <1> USE RecorderAssumption DEF RecorderAssumption, Init
  <1>1. TypeOK
    <2>1. items \in Seq(Runs) /\ file \in Seq(Runs) /\ observed \in Seq(PadStates \ RecordCombo)
      BY EmptyType DEF Q!Init
    <2>2. Len(items) = 0 /\ Len(observed) = 0 /\ ready = 0
      BY DEF Q!Init
    <2>3. got \in [{"writer"} -> Runs \cup {Pair(Neutral, 0)}]
      BY DEF Q!Init
    <2>4. Q!TypeOK
      BY <2>1, <2>2, <2>3 DEF Q!TypeOK, Runs
    <2>5. cur \in PadStates /\ last \in PadStates /\ count \in 1..(MaxFrames + 1)
      OBVIOUS
    <2>6. /\ lpc \in ListenLabels /\ rpc \in ReaderLabels /\ wpc \in WriterLabels
          /\ g_recording \in BOOLEAN /\ crashed \in BOOLEAN
          /\ fileState \in {"stale", "open", "closed"}
      BY DEF ListenLabels, ReaderLabels, WriterLabels, Ended
    <2>7. Len(observed) <= MaxFrames
      BY <2>2
    <2>8. QED BY <2>1, <2>4, <2>5, <2>6, <2>7, Zenon DEF TypeOK, Runs
  <1>2. RunBounded
    BY DEF RunBounded
  <1>3. ThreadsInStep /\ FileInStep /\ CleanInStep
    BY DEF ThreadsInStep, FileInStep, CleanInStep, ReaderRuns, WriterRuns, Ended, Q!Init
  <1>4. QED BY <1>1, <1>2, <1>3 DEF Inv

(* A pair goes in at the end of the queue, or from its front to the file.  *)
LEMMA ListenKeepsTypes ==
  ASSUME TypeOK, UNCHANGED faults, StartRecording \/ StopRecording \/ ListenStep
  PROVE  TypeOK'
  <1> USE DEF TypeOK, Q!TypeOK, ListenLabels, ReaderLabels, WriterLabels, Ended,
              queue, reader, files
  <1>1. CASE StartRecording \/ StopRecording
    BY <1>1 DEF StartRecording, StopRecording, ClearRecording
  <1>2. CASE CreateThreads
    BY <1>2 DEF CreateThreads
  <1>3. CASE CreateFails
    BY <1>3 DEF CreateFails
  <1>4. CASE StartReadThread
    BY <1>4 DEF StartReadThread
  <1>5. CASE StartWriteThread
    BY <1>5 DEF StartWriteThread
  <1>6. CASE StartFails
    BY <1>6 DEF StartFails
  <1>7. CASE WaitRead \/ WaitWrite
    BY <1>7 DEF WaitRead, WaitWrite
  <1>8. QED
    BY <1>1, <1>2, <1>3, <1>4, <1>5, <1>6, <1>7 DEF ListenStep

LEMMA ReadKeepsTypes ==
  ASSUME TypeOK, RunBounded, UNCHANGED faults, ReadStep
  PROVE  TypeOK'
  <1> USE RecorderAssumption
      DEF RecorderAssumption, TypeOK, RunBounded, Q!TypeOK, ListenLabels, ReaderLabels,
          WriterLabels, Ended, queue, reader, files
  <1>1. CASE ReadInit
    BY <1>1, EmptyType DEF ReadInit
  <1>2. CASE ReadCheck
    BY <1>2 DEF ReadCheck
  <1>3. CASE ReadSkip
    BY <1>3 DEF ReadSkip
  <1>4. CASE ReadFrame
    BY <1>4 DEF ReadFrame
  <1>5. CASE Compare
    BY <1>5 DEF Compare
  <1>6. CASE EnqueueRun
    BY <1>6 DEF EnqueueRun, Q!Put, Q!HasSpace, Pair
  <1>7. CASE PublishRun
    BY <1>7 DEF PublishRun, Q!Publish, BeginRun
  <1>8. QED
    BY <1>1, <1>2, <1>3, <1>4, <1>5, <1>6, <1>7 DEF ReadStep

LEMMA WriteKeepsTypes ==
  ASSUME TypeOK, UNCHANGED faults, WriteStep
  PROVE  TypeOK'
  <1> USE RecorderAssumption
      DEF RecorderAssumption, TypeOK, Q!TypeOK, ListenLabels, ReaderLabels,
          WriterLabels, Ended, queue, reader, files
  <1>1. CASE MakeDirs \/ MakeDirsFails
    BY <1>1 DEF MakeDirs, MakeDirsFails
  <1>2. CASE OpenFiles \/ OpenFails
    BY <1>2, EmptyType DEF OpenFiles, OpenFails
  <1>3. CASE WritePair
    <2>1. items \in Seq(Runs) /\ items # <<>> /\ file \in Seq(Runs)
      BY <1>3 DEF WritePair, Q!Take, Runs
    <2>2. Head(items) \in Runs /\ Tail(items) \in Seq(Runs) /\ Len(Tail(items)) = Len(items) - 1
      BY <2>1
    <2>3. items' \in Seq(Runs) /\ Len(items') = Len(items) - 1 /\ file' \in Seq(Runs)
      BY <1>3, <2>1, <2>2 DEF WritePair, Q!Take
    <2>4. got' \in [{"writer"} -> Runs \cup {Pair(Neutral, 0)}]
      BY <1>3, <2>2 DEF WritePair, Q!Take, Runs
    <2>5. QED BY <1>3, <2>3, <2>4 DEF WritePair, Q!Take, Runs
  <1>4. CASE NextPhase
    BY <1>4 DEF NextPhase, NextLoop
  <1>5. CASE CloseFiles
    BY <1>5 DEF CloseFiles, Pair
  <1>6. QED BY <1>1, <1>2, <1>3, <1>4, <1>5 DEF WriteStep

-----------------------------------------------------------------------------
(* The rest of the invariant.                                              *)
Structure == RunBounded /\ ThreadsInStep /\ FileInStep /\ CleanInStep

LEMMA ListenKeepsStructure ==
  ASSUME Inv, ~crashed, UNCHANGED faults, StartRecording \/ StopRecording \/ ListenStep
  PROVE  Structure'
  <1> USE DEF Inv, Structure, RunBounded, ThreadsInStep, FileInStep, CleanInStep, ReaderRuns,
              WriterRuns, Ended, queue, reader, files
  <1>1. CASE StartRecording \/ StopRecording
    BY <1>1 DEF StartRecording, StopRecording, ClearRecording
  <1>2. CASE CreateThreads
    BY <1>2 DEF CreateThreads
  <1>3. CASE CreateFails
    BY <1>3 DEF CreateFails
  <1>4. CASE StartReadThread
    BY <1>4 DEF StartReadThread
  <1>5. CASE StartWriteThread
    BY <1>5 DEF StartWriteThread
  <1>6. CASE StartFails
    BY <1>6 DEF StartFails
  <1>7. CASE WaitRead \/ WaitWrite
    BY <1>7 DEF WaitRead, WaitWrite
  <1>8. QED
    BY <1>1, <1>2, <1>3, <1>4, <1>5, <1>6, <1>7 DEF ListenStep

LEMMA ReadKeepsStructure ==
  ASSUME Inv, ~crashed, UNCHANGED faults, ReadStep
  PROVE  Structure'
  <1> USE RecorderAssumption
      DEF RecorderAssumption, Inv, Structure, TypeOK, RunBounded, ThreadsInStep, FileInStep,
          CleanInStep, ReaderRuns, WriterRuns, ListenLabels, ReaderLabels, WriterLabels,
          Ended, queue, reader, files
  <1>1. CASE ReadInit
    BY <1>1 DEF ReadInit
  <1>2. CASE ReadCheck
    BY <1>2 DEF ReadCheck
  <1>3. CASE ReadSkip
    BY <1>3 DEF ReadSkip
  <1>4. CASE ReadFrame
    BY <1>4 DEF ReadFrame
  <1>5. CASE Compare
    BY <1>5 DEF Compare
  <1>6. CASE EnqueueRun
    BY <1>6 DEF EnqueueRun, Q!TypeOK, Q!Put
  <1>7. CASE PublishRun
    BY <1>7 DEF PublishRun, Q!TypeOK, Q!Publish, BeginRun
  <1>8. QED
    BY <1>1, <1>2, <1>3, <1>4, <1>5, <1>6, <1>7 DEF ReadStep

LEMMA WriteKeepsStructure ==
  ASSUME Inv, ~crashed, UNCHANGED faults, WriteStep
  PROVE  Structure'
  <1> USE DEF Inv, Structure, TypeOK, RunBounded, ThreadsInStep, FileInStep, CleanInStep,
              ReaderRuns, WriterRuns, ListenLabels, ReaderLabels, WriterLabels, Ended, queue,
              reader, files
  <1>1. CASE MakeDirs \/ MakeDirsFails
    BY <1>1 DEF MakeDirs, MakeDirsFails
  <1>2. CASE OpenFiles \/ OpenFails
    BY <1>2 DEF OpenFiles, OpenFails
  <1>3. CASE WritePair
    BY <1>3 DEF WritePair, Q!TypeOK, Q!Take
  <1>4. CASE NextPhase
    BY <1>4 DEF NextPhase, NextLoop
  <1>5. CASE CloseFiles
    BY <1>5 DEF CloseFiles, NoPairLeft, Q!TypeOK
  <1>6. QED BY <1>1, <1>2, <1>3, <1>4, <1>5 DEF WriteStep

LEMMA InvStep == Inv /\ [Next]_vars => Inv'
  <1> SUFFICES ASSUME Inv, [Next]_vars PROVE Inv'
    OBVIOUS
  <1>1. CASE UNCHANGED vars
    BY <1>1 DEF vars, queue, reader, files, Inv, TypeOK, Q!TypeOK, RunBounded, ThreadsInStep,
                FileInStep, CleanInStep, ReaderRuns, WriterRuns
  <1>2. CASE Next
    <2>1. ~crashed /\ UNCHANGED faults /\ TypeOK /\ RunBounded
      BY <1>2 DEF Next, Inv
    <2>2. CASE StartRecording \/ StopRecording \/ ListenStep
      BY <2>1, <2>2, ListenKeepsTypes, ListenKeepsStructure DEF Inv, Structure
    <2>3. CASE ReadStep
      BY <2>1, <2>3, ReadKeepsTypes, ReadKeepsStructure DEF Inv, Structure
    <2>4. CASE WriteStep
      BY <2>1, <2>4, WriteKeepsTypes, WriteKeepsStructure DEF Inv, Structure
    <2>5. QED BY <1>2, <2>2, <2>3, <2>4 DEF Next
  <1>3. QED BY <1>1, <1>2

(* The recorder's inductive invariant holds, over any number of sessions   *)
(* and whatever fails (recorder.c:74-199).                                 *)
THEOREM InvHolds == Spec => []Inv
  <1>1. QED BY InvInit, InvStep, PTL DEF Spec

(* The variables keep their types.  No pair in the queue or in a file has  *)
(* count 0, which playback would turn into 2^32 frames, and no frame of    *)
(* the record combination is taken (recorder.c:62-96, player.c:64-68).     *)
THEOREM TypeCorrect == Spec => []TypeOK
  <1>1. Inv => TypeOK
    BY DEF Inv
  <1>2. QED BY <1>1, InvHolds, PTL

(* What a session finds is what an empty program would give it: its        *)
(* predecessor's threads are closed, its pairs written, its file closed    *)
(* (recorder.c:98-146, 186-199).                                           *)
THEOREM SessionsStartClean == Spec => []StoppedIsClean
  <1>1. Inv => StoppedIsClean
    BY DEF Inv, ThreadsInStep, CleanInStep, StoppedIsClean, ReaderRuns, Ended
  <1>2. QED BY <1>1, InvHolds, PTL

-----------------------------------------------------------------------------
(* The end of a recording                                                  *)

(* What the writer relies on when it waits for the reader: with the flag   *)
(* cleared and the queue found empty, the reader has one run at most to    *)
(* put in it.                                                              *)
RoomInStep ==
  ~crashed =>
    /\ ready = IF rpc = "publish" THEN Len(items) - 1 ELSE Len(items)
    /\ wpc \in {"join", "final"} /\ rpc \in {"read", "compare", "enqueue"} => items = <<>>
    /\ wpc = "final" \/ (wpc = "exited" /\ "mkdir" \notin faults) => rpc \in {"exited", "none"}

(* Every step keeps it.                                                    *)
LEMMA RoomStep ==
  ASSUME Inv, RoomInStep, [Next]_vars
  PROVE  RoomInStep'
  <1> SUFFICES ASSUME ~crashed' PROVE RoomInStep'
    BY DEF RoomInStep
  <1> USE DEF Inv, TypeOK, Q!TypeOK, ThreadsInStep, RoomInStep, ReaderRuns, WriterRuns,
              ListenLabels, ReaderLabels, WriterLabels, Ended, queue, reader, files
  <1>1. CASE UNCHANGED vars
    BY <1>1 DEF vars
  <1>2. CASE ~crashed /\ UNCHANGED faults /\ (StartRecording \/ StopRecording \/ ListenStep)
    <2>1. CASE StartRecording \/ StopRecording
      BY <1>2, <2>1 DEF StartRecording, StopRecording, ClearRecording
    <2>2. CASE CreateThreads \/ CreateFails
      BY <1>2, <2>2 DEF CreateThreads, CreateFails
    <2>3. CASE StartReadThread \/ StartWriteThread \/ StartFails
      BY <1>2, <2>3 DEF StartReadThread, StartWriteThread, StartFails
    <2>4. CASE WaitRead \/ WaitWrite
      BY <1>2, <2>4 DEF WaitRead, WaitWrite
    <2>5. QED BY <1>2, <2>1, <2>2, <2>3, <2>4 DEF ListenStep
  <1>3. CASE ~crashed /\ UNCHANGED faults /\ ReadStep
    <2>1. CASE ReadInit \/ ReadCheck
      BY <1>3, <2>1 DEF ReadInit, ReadCheck
    <2>2. CASE ReadSkip \/ ReadFrame \/ Compare
      BY <1>3, <2>2 DEF ReadSkip, ReadFrame, Compare
    <2>3. CASE EnqueueRun
      BY <1>3, <2>3 DEF EnqueueRun, Q!Put
    <2>4. CASE PublishRun
      BY <1>3, <2>4 DEF PublishRun, Q!Publish
    <2>5. QED BY <1>3, <2>1, <2>2, <2>3, <2>4 DEF ReadStep
  <1>4. CASE ~crashed /\ UNCHANGED faults /\ WriteStep
    <2>1. CASE MakeDirs \/ MakeDirsFails \/ OpenFiles \/ OpenFails
      BY <1>4, <2>1 DEF MakeDirs, MakeDirsFails, OpenFiles, OpenFails
    <2>2. CASE WritePair
      BY <1>4, <2>2 DEF WritePair, Q!Take
    <2>3. CASE NextPhase
      BY <1>4, <2>3 DEF NextPhase, NextLoop, NoPairLeft
    <2>4. CASE CloseFiles
      BY <1>4, <2>4 DEF CloseFiles
    <2>5. QED BY <1>4, <2>1, <2>2, <2>3, <2>4 DEF WriteStep
  <1> HIDE DEF Inv, RoomInStep
  <1>5. QED BY <1>1, <1>2, <1>3, <1>4 DEF Next

(* Whatever fails but the directory, for any capacity of the queue: in     *)
(* stop_recording, with the reader waiting for room, the writer for the    *)
(* reader and the listen thread for both, one of the three can go on       *)
(* (recorder.c:90-93, 118-141, 184-199).                                   *)
THEOREM StopIsNeverStuck == Spec => []StopNeverStuck
  <1>1. Init => RoomInStep
    BY DEF Init, Q!Init, RoomInStep
  <1>2. Inv /\ RoomInStep /\ [Next]_vars => RoomInStep'
    BY RoomStep
  <1>3. Inv /\ RoomInStep => StopNeverStuck
    BY RecorderAssumption
       DEF Inv, TypeOK, ThreadsInStep, RoomInStep, StopNeverStuck, Stopping, ListenerCanGoOn,
           ReaderCanGoOn, WriterCanGoOn, Q!HasSpace, ReaderRuns, WriterRuns, WriterLabels,
           Ended, RecorderAssumption
  <1>4. QED BY <1>1, <1>2, <1>3, InvHolds, PTL DEF Spec

(* The parts of the measure at each label.                                 *)
LEMMA StepCounts ==
  /\ ReaderSteps["read"] = 5 /\ ReaderSteps["compare"] = 4 /\ ReaderSteps["enqueue"] = 3
  /\ ReaderSteps["publish"] = 2 /\ ReaderSteps["init"] = 2 /\ ReaderSteps["check"] = 1
  /\ ReaderSteps["exited"] = 0 /\ ReaderSteps["none"] = 0
  /\ WriterSteps["dirs"] = 6 /\ WriterSteps["open"] = 5 /\ WriterSteps["loop"] = 4
  /\ WriterSteps["drain"] = 3 /\ WriterSteps["join"] = 2 /\ WriterSteps["final"] = 1
  /\ WriterSteps["exited"] = 0 /\ WriterSteps["none"] = 0
  /\ WaitSteps["waitRead"] = 2 /\ WaitSteps["waitWrite"] = 1 /\ WaitSteps["idle"] = 0
  /\ \A l \in ReaderLabels : ReaderSteps[l] \in Nat
  /\ \A l \in WriterLabels : WriterSteps[l] \in Nat
  /\ \A l \in ListenLabels : WaitSteps[l] \in Nat
  BY DEF ReaderSteps, WriterSteps, WaitSteps, ReaderLabels, WriterLabels, ListenLabels, Ended

(* And each step of the three brings the end nearer, so that no more than  *)
(* StopStepsLeft of them are taken before stop_recording returns, for      *)
(* whatever the queue holds when the flag is cleared (recorder.c:83-103,   *)
(* 118-156, 184-199).                                                      *)
THEOREM StopGetsShorter == Spec => StopShortens
  <1>1. ASSUME Inv, [Next]_vars
        PROVE  [Stopping => StopStepsLeft' < StopStepsLeft \/ crashed']_vars
    <2> SUFFICES ASSUME Next, Stopping
                 PROVE  StopStepsLeft' < StopStepsLeft \/ crashed'
      BY <1>1
    <2> DEFINE r == ReaderSteps[rpc]
               w == WriterSteps[wpc]
               k == WaitSteps[lpc]
    <2>1. ~g_recording /\ Len(items) \in Nat
      BY <1>1 DEF Inv, TypeOK, Q!TypeOK, ThreadsInStep, Stopping
    <2>2. r \in Nat /\ w \in Nat /\ k \in Nat /\ PairsToWrite \in Nat
      BY <1>1, <2>1, StepCounts DEF Inv, TypeOK, Stopping, PairsToWrite
    <2>3. r' \in Nat /\ w' \in Nat /\ k' \in Nat /\ PairsToWrite' \in Nat
      BY <1>1, InvStep, StepCounts DEF Inv, TypeOK, Q!TypeOK, PairsToWrite
    <2>4. StopStepsLeft = r + w + PairsToWrite + k /\ StopStepsLeft' = r' + w' + PairsToWrite' + k'
      BY DEF StopStepsLeft
    <2>5. CASE StartRecording \/ StopRecording \/ ListenStep
      <3>1. k' < k /\ r' <= r /\ w' <= w /\ PairsToWrite' = PairsToWrite
        BY <1>1, <2>2, <2>5, StepCounts
           DEF Stopping, StartRecording, StopRecording, ListenStep, CreateThreads, CreateFails,
               StartReadThread, StartWriteThread, StartFails, WaitRead, WaitWrite,
               PairsToWrite, queue, reader
      <3>2. QED BY <2>2, <2>3, <2>4, <3>1
    <2>6. CASE ReadStep
      <3>1. r' < r /\ w' = w /\ k' = k
        BY <2>1, <2>6, StepCounts
           DEF ReadStep, ReadInit, ReadCheck, ReadSkip, ReadFrame, Compare, EnqueueRun, PublishRun
      <3>2. PairsToWrite' <= PairsToWrite
        <4>1. CASE EnqueueRun
          <5>1. Len(items') = Len(items) + 1
            BY <1>1, <4>1 DEF Inv, TypeOK, Q!TypeOK, EnqueueRun, Q!Put
          <5>2. QED BY <2>1, <4>1, <5>1 DEF EnqueueRun, PairsToWrite
        <4>2. CASE ~EnqueueRun
          <5>1. items' = items /\ (rpc' \in {"read", "compare", "enqueue"} =>
                                     rpc \in {"read", "compare", "enqueue"})
            BY <2>1, <2>6, <4>2
               DEF ReadStep, ReadInit, ReadCheck, ReadSkip, ReadFrame, Compare, PublishRun,
                   Q!Publish, queue
          <5>2. QED BY <2>1, <5>1 DEF PairsToWrite
        <4>3. QED BY <4>1, <4>2
      <3>3. QED BY <2>2, <2>3, <2>4, <3>1, <3>2
    <2>7. CASE WriteStep
      <3>1. r' = r /\ k' = k /\ rpc' = rpc
        BY <2>7
           DEF WriteStep, MakeDirs, MakeDirsFails, OpenFiles, OpenFails, WritePair, NextPhase,
               CloseFiles, reader
      <3>2. CASE WritePair
        <4>1. Len(items') = Len(items) - 1 /\ w' = w
          BY <1>1, <3>2 DEF Inv, TypeOK, Q!TypeOK, WritePair, Q!Take
        <4>2. PairsToWrite' < PairsToWrite
          BY <2>1, <3>1, <4>1 DEF PairsToWrite
        <4>3. QED BY <2>2, <2>3, <2>4, <3>1, <4>1, <4>2
      <3>3. CASE ~WritePair
        <4>1. items' = items /\ (w' < w \/ crashed')
          BY <2>1, <2>7, <3>3, StepCounts
             DEF WriteStep, MakeDirs, MakeDirsFails, OpenFiles, OpenFails, NextPhase, NextLoop,
                 CloseFiles, queue
        <4>2. PairsToWrite' = PairsToWrite
          BY <3>1, <4>1 DEF PairsToWrite
        <4>3. QED BY <2>2, <2>3, <2>4, <3>1, <4>1, <4>2
      <3>4. QED BY <3>2, <3>3
    <2>8. QED BY <2>5, <2>6, <2>7 DEF Next
  <1>2. QED BY <1>1, InvHolds, PTL DEF Spec, StopShortens, StopNearer

(* stop_recording returns: its three threads never wait in a circle, and   *)
(* each of their steps brings its end nearer (recorder.c:74-199).          *)
THEOREM StoppingAdvances == Spec => StopAdvances
  BY StopIsNeverStuck, StopGetsShorter, PTL DEF StopAdvances, StopShortens

-----------------------------------------------------------------------------
(* The frames of file, queue and reader.                                   *)
Frames == Expand(Flushed \o items) \o InHand

LEMMA RunsArePairs == Runs \subseteq PairsOf(PadStates)
  BY RecorderAssumption DEF Runs, PairsOf, RecorderAssumption

LEMMA FlushedType ==
  ASSUME TypeOK
  PROVE  Flushed \in Seq(PairsOf(PadStates)) /\ items \in Seq(PairsOf(PadStates))
  <1>1. file \in Seq(Runs) /\ items \in Seq(Runs)
    BY DEF TypeOK, Q!TypeOK, Runs
  <1>2. file \in Seq(PairsOf(PadStates)) /\ items \in Seq(PairsOf(PadStates))
    BY <1>1, RunsArePairs
  <1>3. <<>> \in Seq(PairsOf(PadStates))
    BY EmptyType
  <1>4. file # <<>> => Front(file) \in Seq(PairsOf(PadStates))
    BY <1>2 DEF Front
  <1>5. fileState \in {"stale", "open", "closed"}
    BY DEF TypeOK
  <1>6. QED BY <1>2, <1>3, <1>4, <1>5, Zenon DEF Flushed

LEMMA FramesType ==
  ASSUME TypeOK
  PROVE  /\ Expand(Flushed \o items) \in Seq(PadStates)
         /\ InHand \in Seq(PadStates) /\ Frames \in Seq(PadStates)
  <1>1. Flushed \o items \in Seq(PairsOf(PadStates))
    BY FlushedType
  <1>2. Expand(Flushed \o items) \in Seq(PadStates)
    BY <1>1, ExpandType
  <1>3. cur \in PadStates /\ last \in PadStates /\ count \in Nat
    BY RecorderAssumption DEF TypeOK, RecorderAssumption
  <1>4. Repeat(last, count) \in Seq(PadStates)
    BY <1>3, RepeatType
  <1>5. InHand \in Seq(PadStates)
    BY <1>3, <1>4 DEF InHand
  <1>6. QED BY <1>2, <1>5 DEF Frames

(* Steps that move no frame.                                               *)
LEMMA FramesStay ==
  ASSUME UNCHANGED <<items, file, fileState, last, count, observed>>,
         rpc' = rpc \/ {rpc, rpc'} \subseteq Ended \cup {"check", "read", "compare"},
         rpc = "enqueue" \/ rpc = "publish" => cur' = cur
  PROVE  Frames' = Frames
  <1>1. Flushed' = Flushed
    BY DEF Flushed
  <1>2. InHand' = InHand
    BY DEF InHand, Ended
  <1>3. QED BY <1>1, <1>2 DEF Frames

(* A frame is sampled.                                                     *)
LEMMA CompareAddsFrame ==
  ASSUME TypeOK, Compare
  PROVE  Frames' = Append(Frames, cur)
  <1>1. Flushed' = Flushed /\ items' = items
    BY DEF Compare, Flushed, files, queue
  <1>2. InHand' = Append(InHand, cur)
    <2>1. InHand = Repeat(last, count) /\ count \in Nat
      BY RecorderAssumption DEF Compare, InHand, TypeOK, RecorderAssumption
    <2>2. CASE cur = last
      <3>1. InHand' = Repeat(last, count + 1)
        BY <2>2 DEF Compare, InHand
      <3>2. QED BY <2>1, <2>2, <3>1, RepeatLast
    <2>3. CASE cur # last
      <3>1. InHand' = Append(Repeat(last, count), cur)
        BY <2>3 DEF Compare, InHand
      <3>2. QED BY <2>1, <3>1
    <2>4. QED BY <2>2, <2>3
  <1>3. cur \in PadStates
    BY DEF TypeOK
  <1>4. Expand(Flushed \o items) \o Append(InHand, cur)
        = Append(Expand(Flushed \o items) \o InHand, cur)
    BY <1>3, FramesType
  <1>5. QED BY <1>1, <1>2, <1>4 DEF Frames

(* A run goes to the queue, with all its frames.                           *)
LEMMA EnqueueKeepsFrames ==
  ASSUME TypeOK, EnqueueRun
  PROVE  Frames' = Frames
  <1> DEFINE P == Flushed \o items
             p == Pair(last, count)
             r == Repeat(last, count)
  <1>1. Flushed' = Flushed
    BY DEF EnqueueRun, Flushed, files
  <1>2. items' = Append(items, p) /\ InHand = Append(r, cur) /\ InHand' = <<cur>>
    BY DEF EnqueueRun, Q!Put, InHand
  <1>3. p \in PairsOf(PadStates) /\ p.state = last /\ p.count = count
    BY RecorderAssumption DEF TypeOK, RecorderAssumption, Pair, PairsOf
  <1>4. P \in Seq(PairsOf(PadStates)) /\ Flushed \o Append(items, p) = Append(P, p)
    BY <1>3, FlushedType
  <1>5. Expand(P) \in Seq(PadStates)
    BY FramesType
  <1>6. r \in Seq(PadStates) /\ cur \in PadStates
    BY RepeatType, RecorderAssumption DEF TypeOK, RecorderAssumption
  <1> HIDE DEF P, p
  <1>7. Expand(Append(P, p)) = Expand(P) \o r
    BY <1>3, <1>4, <1>5, ExpandAppend
  <1> HIDE DEF r
  <1>8. (Expand(P) \o r) \o <<cur>> = Expand(P) \o Append(r, cur)
    BY <1>5, <1>6
  <1>9. Frames' = Expand(Append(P, p)) \o <<cur>>
    BY <1>1, <1>2, <1>4 DEF Frames
  <1>10. Frames = Expand(P) \o Append(r, cur)
    BY <1>2 DEF Frames, P
  <1>11. QED BY <1>7, <1>8, <1>9, <1>10, Zenon

LEMMA PublishKeepsFrames ==
  ASSUME TypeOK, PublishRun
  PROVE  Frames' = Frames
  <1>1. Flushed' = Flushed /\ items' = items
    BY DEF PublishRun, Q!Publish, Flushed, files
  <1>2. InHand = <<cur>> /\ InHand' = Repeat(cur, 1)
    BY DEF PublishRun, BeginRun, InHand
  <1>3. QED BY <1>1, <1>2, RepeatOnce DEF Frames

(* A pair goes from the queue to the end of the file, or a file is opened  *)
(* or closed.                                                              *)
LEMMA WriteKeepsFrames ==
  ASSUME Inv, WriteStep
  PROVE  Frames' = Frames
  <1>1. InHand' = InHand
    BY DEF WriteStep, MakeDirs, MakeDirsFails, OpenFiles, OpenFails, WritePair, NextPhase,
           CloseFiles, InHand, reader
  <1>2. CASE MakeDirs \/ MakeDirsFails \/ OpenFails \/ NextPhase
    <2>1. Flushed' = Flushed /\ items' = items
      BY <1>2 DEF MakeDirs, MakeDirsFails, OpenFails, NextPhase, Flushed, files, queue
    <2>2. QED BY <1>1, <2>1 DEF Frames
  <1>3. CASE OpenFiles
    <2>1. Flushed = <<>> /\ Flushed' = <<>> /\ items' = items
      BY <1>3 DEF OpenFiles, Flushed, queue, Inv, FileInStep
    <2>2. QED BY <1>1, <2>1 DEF Frames
  <1>4. CASE WritePair
    <2>1. Flushed = file /\ Flushed' = Append(file, Head(items)) /\ items' = Tail(items)
      BY <1>4 DEF WritePair, Q!Take, Flushed, Inv, FileInStep
    <2>2. items # <<>>
      BY <1>4 DEF WritePair, Q!Take, Inv, TypeOK, Q!TypeOK
    <2>3. file \in Seq(PairsOf(PadStates)) /\ items \in Seq(PairsOf(PadStates))
      BY <2>1, FlushedType DEF Inv
    <2>4. Append(file, Head(items)) \o Tail(items) = file \o items
      BY <2>2, <2>3
    <2>5. QED BY <1>1, <2>1, <2>4 DEF Frames
  <1>5. CASE CloseFiles
    <2>1. PICK s \in Released : file' = Append(file, Pair(s, 1))
      BY <1>5 DEF CloseFiles
    <2>2. file \in Seq(Runs)
      BY DEF Inv, TypeOK, Runs
    <2>3. file' # <<>> /\ Front(file') = file
      BY <2>1, <2>2 DEF Front
    <2>4. Flushed = file /\ Flushed' = file /\ items' = items
      BY <1>5, <2>3 DEF CloseFiles, Flushed, queue, Inv, FileInStep
    <2>5. QED BY <1>1, <2>4 DEF Frames
  <1>6. QED BY <1>2, <1>3, <1>4, <1>5 DEF WriteStep

(* Once the reader has begun, a step adds the frame that is sampled in it, *)
(* or none.                                                                *)
LEMMA FramesStep ==
  ASSUME Inv, Next, ~crashed', rpc # "init", rpc' # "init"
  PROVE  \/ Frames' = Frames /\ observed' = observed
         \/ Frames' = Append(Frames, cur) /\ observed' = Append(observed, cur)
  <1> USE DEF queue, reader, files
  <1>1. CASE StartRecording \/ StopRecording \/ ListenStep
    <2>1. ~StartReadThread
      BY DEF StartReadThread
    <2>2. /\ UNCHANGED <<items, file, fileState, last, count, observed, cur>>
          /\ rpc' = rpc \/ {rpc, rpc'} \subseteq Ended
      BY <1>1, <2>1 DEF StartRecording, StopRecording, ClearRecording, ListenStep, CreateThreads, CreateFails,
                        StartWriteThread, StartFails, WaitRead, WaitWrite, Ended
    <2>3. QED BY <2>2, FramesStay
  <1>2. CASE ReadCheck \/ ReadSkip \/ ReadFrame
    <2>1. /\ UNCHANGED <<items, file, fileState, last, count, observed>>
          /\ {rpc, rpc'} \subseteq Ended \cup {"check", "read", "compare"}
          /\ rpc \notin {"enqueue", "publish"}
      BY <1>2 DEF ReadCheck, ReadSkip, ReadFrame, Ended
    <2>2. QED BY <2>1, FramesStay
  <1>3. CASE Compare
    BY <1>3, CompareAddsFrame DEF Inv, Compare
  <1>4. CASE EnqueueRun
    BY <1>4, EnqueueKeepsFrames DEF Inv, EnqueueRun
  <1>5. CASE PublishRun
    BY <1>5, PublishKeepsFrames DEF Inv, PublishRun
  <1>6. CASE WriteStep
    <2>1. observed' = observed
      BY <1>6 DEF WriteStep, MakeDirs, MakeDirsFails, OpenFiles, OpenFails, WritePair,
                  NextPhase, CloseFiles
    <2>2. QED BY <1>6, <2>1, WriteKeepsFrames
  <1>7. CASE ReadInit
    BY <1>7 DEF ReadInit
  <1>8. QED BY <1>1, <1>2, <1>3, <1>4, <1>5, <1>6, <1>7 DEF Next, ReadStep

(* The reader begins: it has one neutral frame in hand.                    *)
LEMMA ReadInitFrames ==
  ASSUME Inv, ReadInit
  PROVE  /\ Frames' = Expand(Flushed \o items) \o <<Neutral>>
         /\ observed' = <<>>
         /\ faults \subseteq {"readState"} => Frames' = <<Neutral>>
  <1>1. Flushed' = Flushed /\ items' = items /\ observed' = <<>>
    BY DEF ReadInit, Flushed, queue, files
  <1>2. InHand' = Repeat(Neutral, 1)
    BY DEF ReadInit, InHand
  <1>3. Frames' = Expand(Flushed \o items) \o <<Neutral>>
    BY <1>1, <1>2, RepeatOnce DEF Frames
  <1>4. ASSUME faults \subseteq {"readState"} PROVE Frames' = <<Neutral>>
    <2>1. items = <<>> /\ Flushed = <<>>
      BY <1>4 DEF ReadInit, Inv, TypeOK, CleanInStep, Flushed
    <2>2. Flushed \o items = <<>>
      BY <2>1
    <2>3. <<>> \o <<Neutral>> = <<Neutral>>
      OBVIOUS
    <2>4. QED BY <1>3, <2>2, <2>3, ExpandEmpty
  <1>5. QED BY <1>1, <1>3, <1>4

(* It is the only way out of "init" but for closing the thread that runs.  *)
LEMMA InitEnds ==
  ASSUME Inv, Next, ~crashed', rpc = "init", rpc' # "init"
  PROVE  ReadInit
  <1> USE DEF queue, reader, files
  <1>1. CASE StartRecording \/ StopRecording \/ ListenStep
    BY <1>1 DEF StartRecording, StopRecording, ClearRecording, ListenStep, CreateThreads, CreateFails,
                StartReadThread, StartWriteThread, StartFails, WaitRead, WaitWrite, Ended
  <1>2. CASE WriteStep
    BY <1>2 DEF WriteStep, MakeDirs, MakeDirsFails, OpenFiles, OpenFails, WritePair,
                NextPhase, CloseFiles
  <1>3. CASE ReadStep
    BY <1>3 DEF ReadStep, ReadCheck, ReadSkip, ReadFrame, Compare, EnqueueRun, PublishRun
  <1>4. QED BY <1>1, <1>2, <1>3 DEF Next

LEMMA FramesInit ==
  Init => Frames = <<Neutral>> /\ observed = <<>>
  <1> SUFFICES ASSUME Init PROVE Frames = <<Neutral>> /\ observed = <<>>
    OBVIOUS
  <1>1. Flushed = <<>> /\ items = <<>> /\ InHand = Repeat(Neutral, 1) /\ observed = <<>>
    BY DEF Init, Q!Init, Flushed, InHand
  <1>2. Flushed \o items = <<>> /\ <<>> \o <<Neutral>> = <<Neutral>>
    BY <1>1
  <1>3. QED BY <1>1, <1>2, RepeatOnce, ExpandEmpty DEF Frames

(* A recording is what was sampled, frame by frame, in the order it was    *)
(* sampled, behind the one neutral frame that count = 1 stands for: for    *)
(* sessions of any length, any capacity of the queue and every interleaving *)
(* of the threads (recorder.c:54-96, 98-146).                              *)
THEOREM RecordingIsFaithful == Spec => []RecordingFaithful
  <1> DEFINE F == faults \subseteq {"readState"} /\ rpc # "init" =>
                    Frames = <<Neutral>> \o observed
  <1>1. Init => F
    <2>1. <<Neutral>> \o <<>> = <<Neutral>>
      OBVIOUS
    <2>2. QED BY <2>1, FramesInit
  <1>2. Inv /\ Inv' /\ F /\ [Next]_vars => F'
    <2> SUFFICES ASSUME Inv, Inv', F, [Next]_vars, faults' \subseteq {"readState"},
                        rpc' # "init"
                 PROVE  Frames' = <<Neutral>> \o observed'
      OBVIOUS
    <2>1. CASE UNCHANGED vars
      <3>1. Frames' = Frames
        BY <2>1 DEF vars, queue, reader, files, Frames, Flushed, InHand
      <3>2. QED BY <2>1, <3>1 DEF vars, reader
    <2>2. CASE Next
      <3>1. faults \subseteq {"readState"} /\ ~crashed'
        BY <2>2 DEF Next, Inv, CleanInStep
      <3>2. CASE rpc = "init"
        <4>1. Frames' = <<Neutral>> /\ observed' = <<>>
          BY <2>2, <3>1, <3>2, InitEnds, ReadInitFrames
        <4>2. QED BY <4>1
      <3>3. CASE rpc # "init"
        <4>1. Frames = <<Neutral>> \o observed
          BY <3>1, <3>3
        <4>2. CASE Frames' = Frames /\ observed' = observed
          BY <4>1, <4>2
        <4>3. CASE Frames' = Append(Frames, cur) /\ observed' = Append(observed, cur)
          <5>1. observed \in Seq(PadStates) /\ Neutral \in PadStates /\ cur \in PadStates
            BY RecorderAssumption DEF Inv, TypeOK, RecorderAssumption
          <5>2. Append(<<Neutral>> \o observed, cur) = <<Neutral>> \o Append(observed, cur)
            BY <5>1
          <5>3. QED BY <4>1, <4>3, <5>2
        <4> HIDE DEF F
        <4>4. QED BY <2>2, <3>1, <3>3, <4>2, <4>3, FramesStep
      <3>4. QED BY <3>2, <3>3
    <2>3. QED BY <2>1, <2>2
  <1>3. F => RecordingFaithful
    BY DEF RecordingFaithful, Frames
  <1> HIDE DEF F
  <1>4. QED BY <1>1, <1>2, <1>3, InvHolds, PTL DEF Spec

(* Whatever fails, a session's frames are the end of what its file will    *)
(* hold: what an earlier session left in the queue may come before them,   *)
(* nothing comes between or behind (recorder.c:84-91, 106-146).            *)
THEOREM SessionFramesAreKept == Spec => []SessionFramesKept
  <1> DEFINE F == ~crashed /\ rpc # "init" => IsSuffix(<<Neutral>> \o observed, Frames)
  <1>1. Init => F
    <2> SUFFICES ASSUME Init PROVE IsSuffix(<<Neutral>> \o observed, Frames)
      OBVIOUS
    <2>1. <<Neutral>> \o observed = <<Neutral>> /\ Frames = <<>> \o <<Neutral>>
      BY FramesInit
    <2>2. <<Neutral>> \in Seq({Neutral}) /\ <<>> \in Seq({Neutral})
      OBVIOUS
    <2>3. QED BY <2>1, <2>2, ConcatIsSuffix
  <1>2. Inv /\ F /\ [Next]_vars => F'
    <2> SUFFICES ASSUME Inv, F, [Next]_vars, ~crashed', rpc' # "init"
                 PROVE  IsSuffix(<<Neutral>> \o observed', Frames')
      OBVIOUS
    <2>1. CASE UNCHANGED vars
      <3>1. Frames' = Frames
        BY <2>1 DEF vars, queue, reader, files, Frames, Flushed, InHand
      <3>2. QED BY <2>1, <3>1 DEF vars, reader
    <2>2. CASE Next
      <3>1. observed \in Seq(PadStates) /\ Neutral \in PadStates /\ cur \in PadStates
        BY RecorderAssumption DEF Inv, TypeOK, RecorderAssumption
      <3>2. CASE rpc = "init"
        <4>1. Frames' = Expand(Flushed \o items) \o <<Neutral>> /\ observed' = <<>>
          BY <2>2, <3>2, InitEnds, ReadInitFrames
        <4>2. <<Neutral>> \o <<>> = <<Neutral>> /\ <<Neutral>> \in Seq(PadStates)
          BY <3>1
        <4>3. Expand(Flushed \o items) \in Seq(PadStates)
          BY FramesType DEF Inv
        <4>4. QED BY <4>1, <4>2, <4>3, ConcatIsSuffix
      <3>3. CASE rpc # "init"
        <4>1. IsSuffix(<<Neutral>> \o observed, Frames)
          BY <2>2, <3>3 DEF Next
        <4>2. CASE Frames' = Frames /\ observed' = observed
          BY <4>1, <4>2
        <4>3. CASE Frames' = Append(Frames, cur) /\ observed' = Append(observed, cur)
          <5>1. <<Neutral>> \o observed \in Seq(PadStates) /\ Frames \in Seq(PadStates)
            BY <3>1, FramesType DEF Inv
          <5>2. PICK u \in Seq(PadStates) : Frames = u \o (<<Neutral>> \o observed)
            BY <4>1, <5>1, SuffixIs
          <5>3. Append(u \o (<<Neutral>> \o observed), cur)
                = u \o (<<Neutral>> \o Append(observed, cur))
            BY <3>1
          <5>4. <<Neutral>> \o Append(observed, cur) \in Seq(PadStates)
            BY <3>1
          <5>5. IsSuffix(<<Neutral>> \o Append(observed, cur),
                         u \o (<<Neutral>> \o Append(observed, cur)))
            BY <5>4, ConcatIsSuffix
          <5>6. QED BY <4>3, <5>2, <5>3, <5>5
        <4> HIDE DEF F
        <4>4. QED BY <2>2, <3>3, <4>2, <4>3, FramesStep
      <3>4. QED BY <3>2, <3>3
    <2>3. QED BY <2>1, <2>2
  <1>3. F => SessionFramesKept
    BY DEF SessionFramesKept, Frames
  <1> HIDE DEF F
  <1>4. QED BY <1>1, <1>2, <1>3, InvHolds, PTL DEF Spec

-----------------------------------------------------------------------------
(* The service                                                             *)
LEMMA ServiceStep ==
  ASSUME Inv, [Next]_vars, faults \subseteq {"readState"}
  PROVE  Service!Next \/ UNCHANGED Service!vars
  <1> USE DEF Service!vars, ReaderSeen, WriterSeen, Inv, TypeOK, ThreadsInStep, CleanInStep,
              ReaderRuns, WriterRuns, ListenLabels, ReaderLabels, WriterLabels, Ended,
              queue, reader, files
  <1>1. CASE UNCHANGED vars
    BY <1>1 DEF vars
  <1>2. CASE StartRecording
    <2>1. lpc = "idle" /\ ReaderSeen = "none" /\ WriterSeen = "none"
      BY <1>2 DEF StartRecording
    <2>2. lpc' = "create" /\ ReaderSeen' = "starting" /\ WriterSeen' = "starting"
      BY <1>2 DEF StartRecording
    <2>3. ~g_recording /\ g_recording'
      BY <1>2 DEF StartRecording
    <2> HIDE DEF Inv, ReaderSeen, WriterSeen
    <2>4. Service!Start
      BY <2>1, <2>2, <2>3 DEF Service!Start
    <2>5. QED BY <2>4 DEF Service!Next
  <1>3. CASE StopRecording
    BY <1>3 DEF StopRecording, ClearRecording, Service!Next, Service!Stop
  <1>4. CASE ListenStep
    <2>1. ~CreateFails /\ ~StartFails
      BY <1>4 DEF CreateFails, StartFails
    <2>2. CASE WaitRead \/ CreateThreads \/ StartReadThread \/ StartWriteThread
      BY <2>2 DEF WaitRead, CreateThreads, StartReadThread, StartWriteThread
    <2>3. CASE WaitWrite
      BY <2>3 DEF WaitWrite, Service!Next, Service!StopReturns
    <2>4. QED BY <1>4, <2>1, <2>2, <2>3 DEF ListenStep
  <1>5. CASE ReadStep
    <2>1. CASE ReadInit
      BY <2>1 DEF ReadInit, Service!Next, Service!ReadBegins
    <2>2. CASE ReadCheck
      BY <2>2 DEF ReadCheck, Service!Next, Service!ReadEnds
    <2>3. CASE ReadSkip \/ ReadFrame \/ Compare \/ EnqueueRun \/ PublishRun
      BY <2>3 DEF ReadSkip, ReadFrame, Compare, EnqueueRun, PublishRun
    <2>4. QED BY <1>5, <2>1, <2>2, <2>3 DEF ReadStep
  <1>6. CASE WriteStep
    <2>1. CASE OpenFiles
      BY <2>1 DEF OpenFiles, Service!Next, Service!WriteBegins
    <2>2. CASE CloseFiles
      BY <2>2 DEF CloseFiles, Service!Next, Service!WriteEnds
    <2>3. CASE MakeDirs \/ WritePair \/ NextPhase
      BY <2>3 DEF MakeDirs, WritePair, NextPhase, NextLoop
    <2>4. ~MakeDirsFails /\ ~OpenFails
      BY DEF MakeDirsFails, OpenFails
    <2>5. QED BY <1>6, <2>1, <2>2, <2>3, <2>4 DEF WriteStep
  <1>7. QED BY <1>1, <1>2, <1>3, <1>4, <1>5, <1>6 DEF Next

(* To its caller, recorder_switch is the service that PadMacro contains:   *)
(* stop_recording returns when both threads have ended, the writer after   *)
(* the reader (recorder.c:149-199).                                        *)
THEOREM RecorderImplementsService == Spec => ImplementsService
  <1>1. Init => Service!Init
    BY DEF Init, Service!Init, ReaderSeen, WriterSeen
  <1> DEFINE A == faults \subseteq {"readState"} => Service!Next
  <1>2. Inv /\ [Next]_vars => [A]_(Service!vars)
    BY ServiceStep
  <1> HIDE DEF A
  <1>3. QED BY <1>1, <1>2, InvHolds, PTL DEF Spec, ImplementsService, A
=============================================================================
