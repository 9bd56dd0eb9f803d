------------------------------ MODULE Recorder ------------------------------
(***************************************************************************)
(* Recording: sysmodule/source/recorder.c.  Three threads take part: the   *)
(* listen thread, which calls recorder_switch and waits inside it for the  *)
(* other two to end; recordThreadRead, which samples the pad and encodes   *)
(* what it sees as runs; recordThreadWrite, which moves the runs from the  *)
(* queue to the macro files.                                               *)
(*                                                                         *)
(* latest.bin and the time-stamped file get the same writes one after the  *)
(* other from one thread; they are one variable, file.  The queue is the   *)
(* bounded FIFO that HdlsStatePairQueue implements; its init call does     *)
(* nothing after the first session, so what a session leaves in it is      *)
(* there for the next.                                                     *)
(***************************************************************************)
EXTENDS RunLength, FiniteSets

CONSTANTS PadStates,    \* what readState can return
          Neutral,      \* the zeroed state: released, every other field 0 too
          RecordCombo,  \* the states in which all of recorder_btn is pressed
          Released,     \* the states with no button pressed, sticks centred
          MAX_SIZE,     \* capacity of the queue
          MaxFrames,    \* bound: frames sampled in one session
          FaultSets     \* which of AllFaults may happen together

(* What can fail: threadCreate, threadStart, the mkdir calls of            *)
(* ensure_parent_dirs, fopen, and readState.                               *)
AllFaults == {"create", "start", "mkdir", "fopen", "readState"}

ASSUME RecorderAssumption ==
  /\ RecordCombo \subseteq PadStates /\ RecordCombo # {}
  /\ Released \subseteq PadStates \ RecordCombo /\ Neutral \in Released
  /\ MAX_SIZE \in Nat \ {0} /\ MaxFrames \in Nat
  /\ FaultSets # {} /\ FaultSets \subseteq SUBSET AllFaults

VARIABLES
  g_recording,   \* the flag
  lpc,           \* where the listen thread is in recorder_switch
  rpc, wpc,      \* recordThreadRead and recordThreadWrite
  cur,           \* cl and cr: the state read last
  last, count,   \* ll, lr and count: the run being counted
  items, ready, got,  \* the queue; got["writer"] is the writer's pair
  file,          \* the macro files
  fileState,     \* "stale": not opened yet by this session; "open"; "closed"
  crashed,       \* the process was aborted by a memory fault
  faults,        \* what may fail in this behaviour
  observed       \* history: the frames sampled in this session

queue == <<items, ready, got>>
reader == <<rpc, cur, last, count, observed>>
files == <<file, fileState>>
vars == <<g_recording, lpc, wpc, queue, reader, files, crashed, faults>>

Q == INSTANCE BoundedFifo
       WITH Consumers <- {"writer"}, Capacity <- MAX_SIZE,
            Pairs <- [state: PadStates, count: 1..(MaxFrames + 1)],
            NoPair <- Pair(Neutral, 0)

(* "none": no thread object (its stack is not mapped); "created": not yet  *)
(* started; "exited": ended, but not closed.                               *)
Ended == {"none", "created", "exited"}
ReaderLabels == Ended \cup {"init", "check", "read", "compare", "enqueue", "publish"}
WriterLabels == Ended \cup {"dirs", "open", "loop", "drain", "join", "final"}
ListenLabels == {"idle", "create", "startRead", "startWrite", "waitRead", "waitWrite"}

Init ==
  /\ g_recording = FALSE
  /\ lpc = "idle" /\ rpc = "none" /\ wpc = "none"
  /\ cur = Neutral /\ last = Neutral /\ count = 1
  /\ Q!Init
  /\ file = <<>> /\ fileState = "closed"
  /\ crashed = FALSE /\ faults \in FaultSets
  /\ observed = <<>>

-----------------------------------------------------------------------------
(* The listen thread: recorder_switch.  It is the only caller, so          *)
(* g_recorderMutex is never contended and what is done under it is one     *)
(* step.                                                                   *)

StartRecording ==
  /\ lpc = "idle" /\ ~g_recording
  /\ g_recording' = TRUE
  /\ lpc' = "create"
  /\ UNCHANGED <<wpc, queue, reader, files, crashed>>

CreateThreads ==
  /\ lpc = "create" /\ rpc = "none" /\ wpc = "none"
  /\ rpc' = "created" /\ wpc' = "created"
  /\ lpc' = "startRead"
  /\ UNCHANGED <<g_recording, cur, last, count, observed, queue, files, crashed>>

(* threadCreate fails for want of a resource, or because the stack is      *)
(* still mapped for a thread that was never closed.  A thread created by   *)
(* the other call is left as it is.                                        *)
CreateFails ==
  /\ lpc = "create"
  /\ \E okRead, okWrite \in BOOLEAN :
       /\ ~(okRead /\ okWrite)
       /\ rpc # "none" => ~okRead
       /\ wpc # "none" => ~okWrite
       /\ \/ "create" \in faults
          \/ okRead = (rpc = "none") /\ okWrite = (wpc = "none")
       /\ rpc' = IF okRead THEN "created" ELSE rpc
       /\ wpc' = IF okWrite THEN "created" ELSE wpc
  /\ g_recording' = FALSE
  /\ lpc' = "idle"
  /\ UNCHANGED <<cur, last, count, observed, queue, files, crashed>>

StartReadThread ==
  /\ lpc = "startRead"
  /\ rpc' = "init"
  /\ lpc' = "startWrite"
  /\ fileState' = "stale"
  /\ UNCHANGED <<g_recording, wpc, cur, last, count, observed, queue, file, crashed>>

StartWriteThread ==
  /\ lpc = "startWrite"
  /\ wpc' = "dirs"
  /\ lpc' = "idle"
  /\ UNCHANGED <<g_recording, queue, reader, files, crashed>>

(* A threadStart fails: both threads are closed, running or not.           *)
StartFails ==
  /\ "start" \in faults
  /\ lpc \in {"startRead", "startWrite"}
  /\ crashed' = (rpc \notin Ended)
  /\ rpc' = "none" /\ wpc' = "none"
  /\ g_recording' = FALSE
  /\ lpc' = "idle"
  /\ UNCHANGED <<cur, last, count, observed, queue, files>>

LeaveRecording == g_recording' = g_recording

(* g_recording = false                                                     *)
ClearRecording == g_recording' = FALSE

StopRecording ==
  /\ lpc = "idle" /\ g_recording
  /\ ClearRecording
  /\ lpc' = "waitRead"
  /\ UNCHANGED <<wpc, queue, reader, files, crashed>>

WaitRead ==
  /\ lpc = "waitRead" /\ rpc = "exited"
  /\ rpc' = "none"
  /\ lpc' = "waitWrite"
  /\ UNCHANGED <<g_recording, wpc, cur, last, count, observed, queue, files, crashed>>

WaitWrite ==
  /\ lpc = "waitWrite" /\ wpc = "exited"
  /\ wpc' = "none"
  /\ lpc' = "idle"
  /\ UNCHANGED <<g_recording, queue, reader, files, crashed>>

-----------------------------------------------------------------------------
(* recordThreadRead                                                        *)

ReadInit ==
  /\ rpc = "init"
  /\ rpc' = "check"
  /\ cur' = Neutral /\ last' = Neutral /\ count' = 1
  /\ observed' = <<>>
  /\ UNCHANGED <<g_recording, lpc, wpc, queue, files, crashed>>

ReadCheck ==
  /\ rpc = "check"
  /\ rpc' = IF g_recording THEN "read" ELSE "exited"
  /\ UNCHANGED <<g_recording, lpc, wpc, cur, last, count, observed, queue, files, crashed>>

(* readState fails, or the record combination is held: the frame does not  *)
(* count and the loop starts again without sleeping.                       *)
ReadSkip ==
  /\ rpc = "read"
  /\ \/ "readState" \in faults /\ cur' = cur
     \/ cur' \in RecordCombo
  /\ rpc' = "check"
  /\ UNCHANGED <<g_recording, lpc, wpc, last, count, observed, queue, files, crashed>>

ReadFrame ==
  /\ rpc = "read" /\ Len(observed) < MaxFrames
  /\ cur' \in PadStates \ RecordCombo
  /\ rpc' = "compare"
  /\ UNCHANGED <<g_recording, lpc, wpc, last, count, observed, queue, files, crashed>>

(* After the sleep: the frame extends the run or ends it.                  *)
Compare ==
  /\ rpc = "compare"
  /\ observed' = Append(observed, cur)
  /\ IF cur = last
       THEN rpc' = "check" /\ count' = count + 1
       ELSE rpc' = "enqueue" /\ count' = count
  /\ UNCHANGED <<g_recording, lpc, wpc, cur, last, queue, files, crashed>>

EnqueueRun ==
  /\ rpc = "enqueue"
  /\ Q!Put(Pair(last, count))
  /\ rpc' = "publish"
  /\ UNCHANGED <<g_recording, lpc, wpc, cur, last, count, observed, files, crashed>>

KeepRun == last' = last /\ count' = 1
BeginRunAtZero == last' = cur /\ count' = 0

(* count = 1; ll = cl; lr = cr                                             *)
BeginRun == last' = cur /\ count' = 1

PublishRun ==
  /\ rpc = "publish"
  /\ Q!Publish
  /\ BeginRun
  /\ rpc' = "check"
  /\ UNCHANGED <<g_recording, lpc, wpc, cur, observed, files, crashed>>

-----------------------------------------------------------------------------
(* recordThreadWrite                                                       *)

MakeDirs ==
  /\ wpc = "dirs"
  /\ wpc' = "open"
  /\ UNCHANGED <<g_recording, lpc, queue, reader, files, crashed>>

(* The directory cannot be made: the thread ends, nobody else is told.     *)
MakeDirsFails ==
  /\ "mkdir" \in faults
  /\ wpc = "dirs"
  /\ wpc' = "exited"
  /\ UNCHANGED <<g_recording, lpc, queue, reader, files, crashed>>

OpenFiles ==
  /\ wpc = "open"
  /\ file' = <<>> /\ fileState' = "open"
  /\ wpc' = "loop"
  /\ UNCHANGED <<g_recording, lpc, queue, reader, crashed>>

(* fopen returns NULL, which is not checked: the process is aborted at the *)
(* first fwrite, which every session reaches.                              *)
OpenFails ==
  /\ "fopen" \in faults
  /\ wpc = "open"
  /\ crashed' = TRUE
  /\ UNCHANGED <<g_recording, lpc, wpc, queue, reader, files>>

(* TryDequeue succeeds in one of the three loops; the pair is written.     *)
WritePair ==
  /\ wpc \in {"loop", "drain", "final"}
  /\ Q!Take("writer")
  /\ file' = Append(file, Head(items))
  /\ UNCHANGED <<g_recording, lpc, wpc, reader, fileState, crashed>>

AnyPairsLeft == TRUE
NoPairLeft == ready = 0

JoinWithoutDraining ==
  \/ wpc = "loop" /\ ~g_recording /\ wpc' = "join"
  \/ wpc = "join" /\ rpc \in {"exited", "none"} /\ wpc' = "final"

DoesNotJoin ==
  \/ wpc = "loop" /\ ~g_recording /\ wpc' = "drain"
  \/ wpc = "drain" /\ NoPairLeft /\ wpc' = "final"

(* The first loop ends when g_recording is seen to be false; the others    *)
(* end when TryDequeue fails; between them the thread waits for the reader *)
(* (whose object stop_recording may have closed by then).                  *)
NextLoop ==
  \/ wpc = "loop" /\ ~g_recording /\ wpc' = "drain"
  \/ wpc = "drain" /\ NoPairLeft /\ wpc' = "join"
  \/ wpc = "join" /\ rpc \in {"exited", "none"} /\ wpc' = "final"

NextPhase ==
  /\ NextLoop
  /\ UNCHANGED <<g_recording, lpc, queue, reader, files, crashed>>

(* A last pair with buttons and sticks released, then both files are       *)
(* closed.  Its other fields are those of the pair dequeued last, and      *)
(* uninitialised when there was none.                                      *)
CloseFiles ==
  /\ wpc = "final" /\ NoPairLeft
  /\ \E s \in Released : file' = Append(file, Pair(s, 1))
  /\ fileState' = "closed"
  /\ wpc' = "exited"
  /\ UNCHANGED <<g_recording, lpc, queue, reader, crashed>>

-----------------------------------------------------------------------------
ListenStep ==
  \/ CreateThreads \/ CreateFails \/ StartReadThread \/ StartWriteThread
  \/ StartFails \/ WaitRead \/ WaitWrite

ReadStep ==
  \/ ReadInit \/ ReadCheck \/ ReadSkip \/ ReadFrame
  \/ Compare \/ EnqueueRun \/ PublishRun

WriteStep ==
  \/ MakeDirs \/ MakeDirsFails \/ OpenFiles \/ OpenFails
  \/ WritePair \/ NextPhase \/ CloseFiles

Next ==
  /\ ~crashed /\ UNCHANGED faults
  /\ \/ StartRecording \/ StopRecording
     \/ ListenStep \/ ReadStep \/ WriteStep

Spec == Init /\ [][Next]_vars

(* The three threads have the same priority and sleep or block in every    *)
(* round of their loops, so none is kept from running.  The user need not  *)
(* press the combination again: StartRecording and StopRecording may never *)
(* happen.                                                                 *)
FairSpec ==
  /\ Spec
  /\ WF_vars(~crashed /\ UNCHANGED faults /\ ListenStep)
  /\ WF_vars(~crashed /\ UNCHANGED faults /\ ReadStep)
  /\ WF_vars(~crashed /\ UNCHANGED faults /\ WriteStep)

-----------------------------------------------------------------------------
(* Type invariant.  What matters in it: no pair in the queue or in a file  *)
(* has count 0, which the player's loops `do ... while (--statePair.count)'*)
(* (player.c:64-68) would run 2^32 times, and no frame of the record       *)
(* combination is ever taken.                                              *)
TypeOK ==
  /\ g_recording \in BOOLEAN /\ crashed \in BOOLEAN /\ faults \in FaultSets
  /\ lpc \in ListenLabels /\ rpc \in ReaderLabels /\ wpc \in WriterLabels
  /\ cur \in PadStates /\ last \in PadStates /\ count \in 1..(MaxFrames + 1)
  /\ Q!TypeOK
  /\ file \in Seq([state: PadStates, count: 1..(MaxFrames + 1)])
  /\ fileState \in {"stale", "open", "closed"}
  /\ observed \in Seq(PadStates \ RecordCombo) /\ Len(observed) <= MaxFrames

(* The runs of this session that are in the file already, without the pair *)
(* that closes it.                                                         *)
Flushed == CASE fileState = "stale"  -> <<>>
             [] fileState = "open"   -> file
             [] fileState = "closed" -> IF file = <<>> THEN <<>> ELSE Front(file)

(* What the reader has sampled and not yet put in the queue.               *)
InHand == CASE rpc = "enqueue" -> Append(Repeat(last, count), cur)
            [] rpc = "publish" -> <<cur>>
            [] OTHER           -> Repeat(last, count)

(* The recording is the frames that were sampled, once each and in order,  *)
(* after one neutral frame that nobody sampled (count starts at 1): file,  *)
(* queue and the run in hand always add up to it, through every            *)
(* interleaving of the three threads and from one session to the next, as  *)
(* long as nothing but readState fails.                                    *)
RecordingFaithful ==
  faults \subseteq {"readState"} /\ rpc # "init" =>
    Expand(Flushed \o items) \o InHand = <<Neutral>> \o observed

(* Whatever fails, the frames of this session are the end of what the file *)
(* will hold: a session whose writer gave up early leaves its pairs in the *)
(* queue, and the next file begins with them, but nothing is lost between  *)
(* or behind.                                                              *)
SessionFramesKept ==
  ~crashed /\ rpc # "init" =>
    IsSuffix(<<Neutral>> \o observed, Expand(Flushed \o items) \o InHand)

(* When recorder_switch is not running and nothing is being recorded, the  *)
(* last session has ended completely: both threads are closed, the queue   *)
(* is empty and the file is closed, so the next session starts clean.  A   *)
(* thread that cannot be created or started, or a directory that cannot be *)
(* made, leaves something behind.                                          *)
StoppedIsClean ==
  lpc = "idle" /\ ~g_recording /\ faults \subseteq {"readState"} =>
    rpc = "none" /\ wpc = "none" /\ items = <<>> /\ fileState = "closed"

(* stop_recording returns: neither of its waits is for ever, although the  *)
(* writer waits for the reader and the reader may wait for the writer to   *)
(* make room in the queue.  It is so whatever fails but the directory:     *)
(* then the writer ends alone and the reader may wait for room for ever.   *)
StopCompletes ==
  (lpc = "waitRead" /\ "mkdir" \notin faults) ~> (lpc = "idle" \/ crashed)

(* Why it returns, without reference to fairness.  First, there is always  *)
(* a thread that can go on: the three never wait for each other in a       *)
(* circle, whatever fails but the directory.                               *)
Stopping == lpc \in {"waitRead", "waitWrite"}
ListenerCanGoOn ==
  (lpc = "waitRead" /\ rpc = "exited") \/ (lpc = "waitWrite" /\ wpc = "exited")
ReaderCanGoOn == rpc \notin Ended /\ (rpc = "enqueue" => Q!HasSpace)
WriterCanGoOn == wpc \notin Ended /\ (wpc = "join" => rpc \in {"exited", "none"})
StopNeverStuck ==
  Stopping /\ ~crashed /\ "mkdir" \notin faults =>
    ListenerCanGoOn \/ ReaderCanGoOn \/ WriterCanGoOn

(* Second, each of their steps brings the end nearer: there are no more    *)
(* left than the reader's on its way to the exit, the writer's from loop   *)
(* to loop, one for every pair that is in the queue or about to be, and    *)
(* the listen thread's two.                                                *)
ReaderSteps == [read |-> 5, compare |-> 4, enqueue |-> 3, publish |-> 2, init |-> 2,
                check |-> 1, exited |-> 0, created |-> 0, none |-> 0]
WriterSteps == [dirs |-> 6, open |-> 5, loop |-> 4, drain |-> 3, join |-> 2, final |-> 1,
                exited |-> 0, created |-> 0, none |-> 0]
WaitSteps ==
  [l \in ListenLabels |-> IF l = "waitRead" THEN 2 ELSE IF l = "waitWrite" THEN 1 ELSE 0]
PairsToWrite == Len(items) + IF rpc \in {"read", "compare", "enqueue"} THEN 1 ELSE 0
StopStepsLeft == ReaderSteps[rpc] + WriterSteps[wpc] + PairsToWrite + WaitSteps[lpc]
StopNearer == Stopping => StopStepsLeft' < StopStepsLeft \/ crashed'
StopShortens == [][StopNearer]_vars

(* Both together: while stop_recording waits no step leaves everybody      *)
(* waiting, and each brings its end nearer.                                *)
StopAdvances == [][StopNeverStuck' /\ StopNearer]_vars

-----------------------------------------------------------------------------
(* The threads as recorder_switch's caller sees them: start_recording and  *)
(* the threads' creation are one step to it.                               *)
ReaderSeen ==
  IF lpc \in {"create", "startRead"} \/ rpc = "init" THEN "starting"
  ELSE IF lpc = "waitWrite" \/ rpc = "exited"        THEN "exited"
  ELSE IF rpc = "none"                               THEN "none" ELSE "running"
WriterSeen ==
  IF lpc \in {"create", "startRead", "startWrite"} \/ wpc \in {"dirs", "open"} THEN "starting"
  ELSE IF wpc \in {"loop", "drain", "join", "final"} THEN "writing" ELSE wpc

Service == INSTANCE RecorderService
             WITH stopping <- lpc \in {"waitRead", "waitWrite"},
                  recr <- ReaderSeen, recw <- WriterSeen

(* Recording implements the service that PadMacro builds on: queue, runs,  *)
(* files and the three loops of the writer are nobody else's business,     *)
(* unless a thread or a directory cannot be made.                          *)
ImplementsService ==
  /\ Service!Init
  /\ [][faults \subseteq {"readState"} => Service!Next]_(Service!vars)
=============================================================================
