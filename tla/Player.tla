------------------------------- MODULE Player -------------------------------
(***************************************************************************)
(* Playback: sysmodule/source/player.c.  Three threads take part: the      *)
(* listen thread, which calls start_play when it sees a macro's buttons;   *)
(* playThreadRead, which moves the pairs of the macro file to the queue;   *)
(* and playThreadWrite, which injects each pair as often as its count      *)
(* says.  Unlike the recorder's, nobody waits for these two threads: the   *)
(* reader clears g_playing when it reaches the end of the file, and the    *)
(* next start_play closes what it finds.  (stop_playing has no caller.)    *)
(*                                                                         *)
(* The queue is the bounded FIFO that HdlsStatePairQueue implements.       *)
(***************************************************************************)
EXTENDS RunLength, FiniteSets

CONSTANTS Macros,    \* the macro files that can be played, as pairs; <<>>
                     \* also stands for a file that cannot be opened
          Neutral,   \* the state in the writer's buffer before its first pair
          MAX_SIZE,  \* capacity of the queue
          Faults     \* which of AllFaults may happen

AllFaults == {"create", "start"}

MacroPairs == UNION {{m[i] : i \in DOMAIN m} : m \in Macros}

(* A count of 0 would make `do ... while (--statePair.count)' run until    *)
(* the int overflows.  Recorder!TypeOK shows that no recording has one.    *)
ASSUME PlayerAssumption ==
  /\ Macros # {}
  /\ \A m \in Macros : m \in Seq(MacroPairs)
  /\ \A p \in MacroPairs : p = Pair(p.state, p.count) /\ p.count \in Nat \ {0}
  /\ MAX_SIZE \in Nat \ {0}
  /\ Faults \subseteq AllFaults

VARIABLES
  g_playing,          \* the flag
  lpc,                \* where the listen thread is in start_play
  macro, pos,         \* the file, and how many of its pairs are in the queue
                      \* or past it
  rpc, wpc,           \* playThreadRead and playThreadWrite
  phase,              \* which of its three loops the writer is in
  left,               \* statePair.count of the writer
  items, ready, got,  \* the queue; got["writer"] is the writer's statePair
  crashed,            \* the process was aborted by a memory fault
  injected,           \* history: the frames injected since start_play
  failed              \* history: a thread could not be created or started

queue == <<items, ready, got>>
outcome == <<crashed, failed>>
writer == <<wpc, phase, left, injected>>
vars == <<g_playing, lpc, macro, pos, rpc, writer, queue, outcome>>

Q == INSTANCE BoundedFifo
       WITH Consumers <- {"writer"}, Capacity <- MAX_SIZE,
            Pairs <- MacroPairs, NoPair <- Pair(Neutral, 0)

(* "none": the thread object was closed, or never made; "created": not yet *)
(* started; "exited": ended, but not closed.                               *)
Ended == {"none", "created", "exited"}
ReaderLabels == Ended \cup {"init", "check", "enqueue", "publish", "clear", "exiting"}
WriterLabels == Ended \cup {"init", "next", "play", "join"}
ListenLabels == {"idle", "create", "startRead", "startWrite"}

Init ==
  /\ g_playing = FALSE
  /\ lpc = "idle" /\ rpc = "none" /\ wpc = "none"
  /\ macro \in Macros /\ pos = 0
  /\ phase = "loop" /\ left = 0
  /\ Q!Init
  /\ crashed = FALSE
  /\ injected = <<>> /\ failed = FALSE

-----------------------------------------------------------------------------
(* The listen thread: start_play.  g_playerMutex is never contended, so    *)
(* what is done under it is one step.                                      *)

(* Threads of an earlier playback are closed, which unmaps their stacks:   *)
(* one that still runs faults.                                             *)
StartPlay(m) ==
  /\ lpc = "idle" /\ ~g_playing
  /\ crashed' = (rpc \notin Ended \/ wpc \notin Ended)
  /\ rpc' = "none" /\ wpc' = "none"
  /\ g_playing' = TRUE
  /\ lpc' = "create"
  /\ macro' = m /\ pos' = 0 /\ injected' = <<>>
  /\ UNCHANGED <<phase, left, queue, failed>>

CreateThreads ==
  /\ lpc = "create"
  /\ rpc' = "created" /\ wpc' = "created"
  /\ lpc' = "startRead"
  /\ UNCHANGED <<g_playing, macro, pos, phase, left, injected, queue, outcome>>

(* One of the threadCreate calls fails, or both: g_playing stays set.      *)
CreateFails ==
  /\ "create" \in Faults
  /\ lpc = "create"
  /\ \/ rpc' = "none" /\ wpc' \in {"none", "created"}
     \/ rpc' = "created" /\ wpc' = "none"
  /\ lpc' = "idle"
  /\ failed' = TRUE
  /\ UNCHANGED <<g_playing, macro, pos, phase, left, injected, queue, crashed>>

StartReadThread ==
  /\ lpc = "startRead"
  /\ rpc' = "init"
  /\ lpc' = "startWrite"
  /\ UNCHANGED <<g_playing, macro, pos, writer, queue, outcome>>

StartWriteThread ==
  /\ lpc = "startWrite"
  /\ wpc' = "init"
  /\ lpc' = "idle"
  /\ UNCHANGED <<g_playing, macro, pos, rpc, phase, left, injected, queue, outcome>>

(* A threadStart fails: both threads are closed, running or not, and       *)
(* g_playing stays as it is.                                               *)
StartFails ==
  /\ "start" \in Faults
  /\ lpc \in {"startRead", "startWrite"}
  /\ crashed' = (rpc \notin Ended)
  /\ rpc' = "none" /\ wpc' = "none"
  /\ lpc' = "idle"
  /\ failed' = TRUE
  /\ UNCHANGED <<g_playing, macro, pos, phase, left, injected, queue>>

-----------------------------------------------------------------------------
(* playThreadRead, with player_play_file_with inlined.                     *)

ReadInit ==
  /\ rpc = "init"
  /\ rpc' = "check"
  /\ UNCHANGED <<g_playing, lpc, macro, pos, writer, queue, outcome>>

ReadPair ==
  /\ rpc = "check" /\ g_playing /\ pos < Len(macro)
  /\ rpc' = "enqueue"
  /\ UNCHANGED <<g_playing, lpc, macro, pos, writer, queue, outcome>>

ReadEnd ==
  /\ rpc = "check" /\ (~g_playing \/ pos = Len(macro))
  /\ rpc' = "clear"
  /\ UNCHANGED <<g_playing, lpc, macro, pos, writer, queue, outcome>>

EnqueuePair ==
  /\ rpc = "enqueue"
  /\ Q!Put(macro[pos + 1])
  /\ pos' = pos + 1
  /\ rpc' = "publish"
  /\ UNCHANGED <<g_playing, lpc, macro, writer, outcome>>

PublishPair ==
  /\ rpc = "publish"
  /\ Q!Publish
  /\ rpc' = "check"
  /\ UNCHANGED <<g_playing, lpc, macro, pos, writer, outcome>>

LeavePlaying == g_playing' = g_playing

(* g_playing = false                                                       *)
ResetPlaying == g_playing' = FALSE

ClearPlaying ==
  /\ rpc = "clear"
  /\ ResetPlaying
  /\ rpc' = "exiting"
  /\ UNCHANGED <<lpc, macro, pos, writer, queue, outcome>>

ReadExit ==
  /\ rpc = "exiting"
  /\ rpc' = "exited"
  /\ UNCHANGED <<g_playing, lpc, macro, pos, writer, queue, outcome>>

-----------------------------------------------------------------------------
(* playThreadWrite                                                         *)

WriteInit ==
  /\ wpc = "init"
  /\ wpc' = "next" /\ phase' = "loop"
  /\ UNCHANGED <<g_playing, lpc, macro, pos, rpc, left, injected, queue, outcome>>

(* TryDequeue succeeds in one of the three loops.                          *)
TakePair ==
  /\ wpc = "next"
  /\ Q!Take("writer")
  /\ left' = Head(items).count
  /\ wpc' = "play"
  /\ UNCHANGED <<g_playing, lpc, macro, pos, rpc, phase, injected, outcome>>

AgainBeforeDecrement == left # 0

(* while (--statePair.count)                                               *)
Again == left - 1 # 0

PlayFrame ==
  /\ wpc = "play"
  /\ injected' = Append(injected, got["writer"].state)
  /\ left' = left - 1
  /\ wpc' = IF Again THEN "play" ELSE "next"
  /\ UNCHANGED <<g_playing, lpc, macro, pos, rpc, phase, queue, outcome>>

AnyPairsLeft == TRUE
NoPairLeft == ready = 0

(* The first loop ends when g_playing is seen to be false, the other two   *)
(* when TryDequeue fails.                                                  *)
NextLoop ==
  /\ wpc = "next"
  /\ \/ phase = "loop" /\ ~g_playing /\ phase' = "drain" /\ wpc' = "next"
     \/ phase = "drain" /\ NoPairLeft /\ phase' = "final" /\ wpc' = "join"
     \/ phase = "final" /\ NoPairLeft /\ phase' = "final" /\ wpc' = "exited"
  /\ UNCHANGED <<g_playing, lpc, macro, pos, rpc, left, injected, queue, outcome>>

(* threadWaitForExit(&g_playThreadRead)                                    *)
JoinReader ==
  /\ wpc = "join" /\ rpc \in {"exited", "none"}
  /\ wpc' = "next"
  /\ UNCHANGED <<g_playing, lpc, macro, pos, rpc, phase, left, injected, queue, outcome>>

-----------------------------------------------------------------------------
ListenStep ==
  \/ CreateThreads \/ CreateFails \/ StartReadThread \/ StartWriteThread \/ StartFails

ReadStep ==
  \/ ReadInit \/ ReadPair \/ ReadEnd \/ EnqueuePair \/ PublishPair
  \/ ClearPlaying \/ ReadExit

WriteStep == WriteInit \/ TakePair \/ PlayFrame \/ NextLoop \/ JoinReader

Next ==
  /\ ~crashed
  /\ \/ \E m \in Macros : StartPlay(m)
     \/ ListenStep \/ ReadStep \/ WriteStep

Spec == Init /\ [][Next]_vars

-----------------------------------------------------------------------------
(* Type invariant.  What matters in it: the writer never counts below 0,   *)
(* from where it would not come back (player.c:64-68).                     *)
TypeOK ==
  /\ g_playing \in BOOLEAN /\ crashed \in BOOLEAN /\ failed \in BOOLEAN
  /\ lpc \in ListenLabels /\ rpc \in ReaderLabels /\ wpc \in WriterLabels
  /\ macro \in Macros /\ pos \in 0..Len(macro)
  /\ phase \in {"loop", "drain", "final"} /\ left \in Nat
  /\ Q!TypeOK
  /\ \A i \in DOMAIN injected : injected[i] \in {p.state : p \in MacroPairs}

(* Frames injected, being injected, and waiting in the queue.              *)
Played ==
  LET inHand == IF wpc = "play" THEN Repeat(got["writer"].state, left) ELSE <<>>
  IN  injected \o inHand \o Expand(items)

(* What has gone through the queue since start_play is the beginning of    *)
(* the macro, frame by frame: nothing is lost, repeated or left over from  *)
(* the playback before, although the reader stops when the file ends and   *)
(* nobody waits for the writer.  Once a thread has failed to start, a      *)
(* macro may come after pairs of the one before, but is whole from there.  *)
(* A writer that ends has injected all of it: none of its three loops is   *)
(* left too early.                                                         *)
Follows(frames, pairs) ==
  IF failed THEN IsSuffix(Expand(pairs), frames) ELSE frames = Expand(pairs)
PlayedFaithful ==
  ~crashed => /\ Follows(Played, SubSeq(macro, 1, pos))
              /\ wpc = "exited" => Follows(injected, macro)

(* A playback that start_play has begun comes to its end.                  *)
PlaybackEnds ==
  (lpc = "create") ~> (crashed \/ failed \/ (rpc = "exited" /\ wpc = "exited"))

(* Why it does, without reference to fairness.  First, until a thread has  *)
(* failed to start, there is always one that can go on: the writer waits   *)
(* in its first loop only for a reader that still reads or is about to     *)
(* clear the flag, and the reader for room only while the writer takes     *)
(* pairs.                                                                  *)
Playing == lpc # "idle" \/ rpc \notin Ended \/ wpc \notin Ended
ReaderCanGoOn == rpc \notin Ended /\ (rpc = "enqueue" => Q!HasSpace)
WriterCanGoOn ==
  /\ wpc \notin Ended
  /\ wpc = "next" => ready > 0 \/ phase # "loop" \/ ~g_playing
  /\ wpc = "join" => rpc \in {"exited", "none"}
PlaybackNeverStuck ==
  Playing /\ ~crashed /\ ~failed => lpc # "idle" \/ ReaderCanGoOn \/ WriterCanGoOn

(* Second, each of their steps brings the end nearer: there are no more    *)
(* left than the listen thread's, the reader's on the rest of the file and *)
(* on its way to the exit, the writer's from loop to loop, one for every   *)
(* pair that it has not taken and one for every frame not injected.        *)
StartSteps == [create |-> 3, startRead |-> 2, startWrite |-> 1, idle |-> 0]
ReaderSteps == [none |-> 4, created |-> 4, init |-> 4, publish |-> 4, check |-> 3,
                enqueue |-> 2, clear |-> 2, exiting |-> 1, exited |-> 0]
WriterSteps ==
  CASE wpc \in {"none", "created", "init"}       -> 5
    [] wpc \in {"next", "play"} /\ phase = "loop"  -> 4
    [] wpc \in {"next", "play"} /\ phase = "drain" -> 3
    [] wpc = "join"                              -> 2
    [] wpc \in {"next", "play"} /\ phase = "final" -> 1
    [] wpc = "exited"                            -> 0
PairsToRead == Len(macro) - pos
PairsToTake == PairsToRead + Len(items)
FramesToPlay == Len(Expand(macro)) - Len(injected)
StepsLeft ==
  StartSteps[lpc] + ReaderSteps[rpc] + 3 * PairsToRead + WriterSteps + PairsToTake + FramesToPlay
PlaybackNearer == Playing => StepsLeft' \in 0..(StepsLeft - 1) \/ crashed' \/ failed'
PlaybackShortens == [][PlaybackNearer]_vars

(* Both together: until a playback has ended no step leaves its threads    *)
(* waiting for each other, and each brings its end nearer.                 *)
PlaybackAdvances == [][PlaybackNeverStuck' /\ PlaybackNearer]_vars

-----------------------------------------------------------------------------
(* The threads as start_play's caller sees them: their creation is part of *)
(* it, and the reader is done when it has cleared the flag.                *)
ReaderSeen ==
  IF lpc \in {"create", "startRead"} \/ rpc = "init" THEN "starting"
  ELSE IF rpc \in {"exiting", "exited"}              THEN "exited"
  ELSE IF rpc = "none"                               THEN "none" ELSE "reading"
WriterSeen ==
  IF lpc = "idle" /\ wpc \in {"none", "exited"} THEN wpc ELSE "running"

Service == INSTANCE PlayerService WITH playr <- ReaderSeen, playw <- WriterSeen

(* Playback implements the service that PadMacro builds on, until a thread *)
(* cannot be created or started.                                           *)
ImplementsService ==
  /\ Service!Init
  /\ [][~failed' => Service!Next]_(Service!vars)
=============================================================================
