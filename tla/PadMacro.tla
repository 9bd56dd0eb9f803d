------------------------------ MODULE PadMacro ------------------------------
(***************************************************************************)
(* The service as a whole: sysmodule/source/main.c, common.c, config.c,    *)
(* controller.c and the LED.  The main thread loads the configuration,     *)
(* starts the listen thread, serves requests (a reload or the exit) and    *)
(* shuts down.  The listen thread polls the pad and plays, records or does *)
(* nothing.  Recorder and player are reduced to what the two threads see   *)
(* of them: their flags, whether their threads run and what these do with  *)
(* the path, the macro files and the LED.  Recorder and Player have the    *)
(* rest, the failures of their threads included.                           *)
(*                                                                         *)
(* All threads have priority 49 on core 3 (config.json), where another     *)
(* thread of that priority runs only when one blocks.  What is done        *)
(* between two calls that may block is therefore one step: a poll from the *)
(* moment readState has returned, the parsing of the file that was read.   *)
(***************************************************************************)
EXTENDS Naturals, Sequences, FiniteSets

CONSTANTS Buttons,  \* the bits of a button mask
          Paths,    \* the paths a configuration can name
          Latest,   \* LATEST_MACRO_PATH
          Freed,    \* where a path points after its memory was freed
          Configs   \* what config.ini may say

(* A mask is a set of buttons; the empty one is 0.  The frame rates are    *)
(* left out.                                                               *)
Masks == SUBSET Buttons
PadConfig == [recordButtonMask: Masks, playLatestButtonMask: Masks,
              recorderEnable: BOOLEAN, playerEnable: BOOLEAN,
              macros: Seq([mask: Masks, path: Paths])]

ASSUME PadMacroAssumption ==
  /\ Configs \subseteq PadConfig
  /\ Latest \notin Paths /\ Freed \notin Paths /\ Latest # Freed

VARIABLES
  mpc,          \* where the main thread is
  g_config,     \* the configuration in memory, s_macros included
  initialized,  \* the controller's work buffer is attached
  exiting,      \* the listen thread's flag: TRUE until it is to exit
  lpc,          \* where the listen thread is
  pad,          \* the buttons that the last successful poll has seen
  g_recording, recr, recw,   \* the recorder's flag, reader and writer
  g_playing, playr, playw,   \* the player's flag, reader and writer
  path,         \* the argument of the player's reader
  led,          \* the pattern shown
  crashed,      \* the process was aborted by a memory fault
  loaded        \* history: what the last complete loadConfig has left

recorder == <<g_recording, recr, recw>>
player == <<g_playing, playr, playw>>
main == <<mpc, initialized, exiting, loaded>>
vars == <<main, g_config, lpc, pad, recorder, player, path, led, crashed>>

(* No thread, or one that has ended.                                       *)
Ended == {"none", "exited"}
MainLabels == {"boot", "booting", "attach", "start", "serve", "reloading",
               "exit", "release", "join", "led", "done", "fatal"}

Default == [recordButtonMask |-> {}, playLatestButtonMask |-> {},
            recorderEnable |-> FALSE, playerEnable |-> FALSE, macros |-> <<>>]

Init ==
  /\ mpc = "boot" /\ initialized = FALSE /\ exiting = TRUE
  /\ g_config = Default /\ loaded = Default
  /\ lpc = "none" /\ pad = {}
  /\ g_recording = FALSE /\ recr = "none" /\ recw = "none"
  /\ g_playing = FALSE /\ playr = "none" /\ playw = "none"
  /\ path = Latest /\ led = "off"
  /\ crashed = FALSE

-----------------------------------------------------------------------------
(* The configuration                                                       *)

EnablesAfterReset == [Default EXCEPT !.recorderEnable = g_config.recorderEnable,
                                     !.playerEnable = g_config.playerEnable]

AfterReset == Default

(* reset_state: the paths in s_macros are freed, one that was handed to    *)
(* the player included.                                                    *)
ResetState ==
  /\ g_config' = AfterReset
  /\ path' = IF path \in Paths THEN Freed ELSE path

(* maskMatch: the first entry all of whose buttons are pressed.            *)
Matching(c, pressed) == {i \in DOMAIN c.macros : c.macros[i].mask \subseteq pressed}
FirstMatch(c, pressed) ==
  CHOOSE i \in Matching(c, pressed) : \A j \in Matching(c, pressed) : i <= j
MaskMatch(c, pressed) == c.macros[FirstMatch(c, pressed)].path

-----------------------------------------------------------------------------
(* The main thread                                                         *)

(* loadConfig, in padMacroInitialize or for CMD_UPDATE_CONF, as far as the *)
(* fopen and fread that may block.                                         *)
BeginLoad ==
  /\ mpc \in {"boot", "serve"}
  /\ ResetState
  /\ mpc' = IF mpc = "boot" THEN "booting" ELSE "reloading"
  /\ UNCHANGED <<initialized, exiting, loaded, lpc, pad, recorder, player, led, crashed>>

(* The rest of it.  The file may say anything, or not be readable, which   *)
(* leaves the configuration reset and is ignored by both callers.          *)
EndLoad ==
  /\ mpc \in {"booting", "reloading"}
  /\ g_config' \in Configs \cup {g_config}
  /\ loaded' = g_config'
  /\ mpc' = IF mpc = "booting" THEN "attach" ELSE "serve"
  /\ UNCHANGED <<initialized, exiting, lpc, pad, recorder, player, path, led, crashed>>

(* controllerInitialize, whose failure is ignored too.                     *)
AttachController ==
  /\ mpc = "attach"
  /\ initialized' \in BOOLEAN
  /\ mpc' = "start"
  /\ UNCHANGED <<exiting, loaded, g_config, lpc, pad, recorder, player, path, led, crashed>>

StartListenThread ==
  /\ mpc = "start"
  /\ \/ mpc' = "serve" /\ lpc' = "check"
     \/ mpc' = "fatal" /\ lpc' = lpc   \* R_ASSERT(padMacroInitialize())
  /\ UNCHANGED <<initialized, exiting, loaded, g_config, pad, recorder, player, path, led, crashed>>

(* CMD_EXIT ends IpcThread.                                                *)
ExitRequest ==
  /\ mpc = "serve"
  /\ mpc' = "exit"
  /\ UNCHANGED <<initialized, exiting, loaded, g_config, lpc, pad, recorder, player, path, led, crashed>>

StillRunning == TRUE
StopListening == FALSE

(* padMacroExit: the flag and freeConfig, controllerExit (which leaves     *)
(* initialized set if it fails), the wait for the listen thread, the LED.  *)
FreeConfig ==
  /\ mpc = "exit"
  /\ exiting' = StopListening
  /\ ResetState
  /\ mpc' = "release"
  /\ UNCHANGED <<initialized, loaded, lpc, pad, recorder, player, led, crashed>>

ReleaseController ==
  /\ mpc = "release"
  /\ initialized' \in {FALSE, initialized}
  /\ mpc' = "join"
  /\ UNCHANGED <<exiting, loaded, g_config, lpc, pad, recorder, player, path, led, crashed>>

JoinListenThread ==
  /\ mpc = "join" /\ lpc = "exited"
  /\ mpc' = "led" /\ lpc' = "none"
  /\ UNCHANGED <<initialized, exiting, loaded, g_config, pad, recorder, player, path, led, crashed>>

LedOff ==
  /\ mpc = "led"
  /\ led' = "off"
  /\ mpc' = "done"
  /\ UNCHANGED <<initialized, exiting, loaded, g_config, lpc, pad, recorder, player, path, crashed>>

-----------------------------------------------------------------------------
(* The listen thread                                                       *)

CheckExiting ==
  /\ lpc = "check"
  /\ lpc' = IF exiting THEN "poll" ELSE "exited"
  /\ UNCHANGED <<main, g_config, pad, recorder, player, path, led, crashed>>

EnabledOnly(c) == c.playerEnable /\ ~g_playing
EnabledUnlessRecording(c) == c.playerEnable /\ ~g_recording

(* What the conditions of the two playing branches share.                  *)
MayPlay(c) == c.playerEnable /\ ~g_recording /\ ~g_playing

PlaysLatest(c, pressed) == MayPlay(c) /\ c.playLatestButtonMask \subseteq pressed
PlaysMacro(c, pressed) ==
  MayPlay(c) /\ ~PlaysLatest(c, pressed) /\ Matching(c, pressed) # {}
Switches(c, pressed) ==
  /\ ~PlaysLatest(c, pressed) /\ ~PlaysMacro(c, pressed)
  /\ c.recorderEnable /\ c.recordButtonMask \subseteq pressed
  /\ ~g_playing

(* readState succeeds, with some button pressed.                           *)
Pressing(pressed) ==
  /\ lpc = "poll" /\ initialized
  /\ pressed # {} /\ pad' = pressed

(* start_play: closes what is left of the playback before; a writer that   *)
(* still runs loses its stack.  Then the listen thread sleeps.             *)
StartPlay(p) ==
  /\ crashed' = (playw = "running")
  /\ g_playing' = TRUE
  /\ playr' = "starting" /\ playw' = "running"
  /\ path' = p
  /\ lpc' = "check"
  /\ UNCHANGED <<main, g_config, recorder, led>>

PlayLatest(pressed) ==
  /\ Pressing(pressed) /\ PlaysLatest(g_config, pressed)
  /\ StartPlay(Latest)

PlayMacro(pressed) ==
  /\ Pressing(pressed) /\ PlaysMacro(g_config, pressed)
  /\ StartPlay(MaskMatch(g_config, pressed))

(* recorder_switch: start_recording.                                       *)
StartRecording(pressed) ==
  /\ Pressing(pressed) /\ Switches(g_config, pressed) /\ ~g_recording
  /\ g_recording' = TRUE
  /\ recr' = "starting" /\ recw' = "starting"
  /\ lpc' = "check"
  /\ UNCHANGED <<main, g_config, player, path, led, crashed>>

(* g_recording = false                                                     *)
ResetRecording == g_recording' = FALSE

(* recorder_switch: stop_recording, which waits for both threads.          *)
StopRecording(pressed) ==
  /\ Pressing(pressed) /\ Switches(g_config, pressed) /\ g_recording
  /\ ResetRecording
  /\ lpc' = "stopping"
  /\ UNCHANGED <<main, g_config, recr, recw, player, path, led, crashed>>

ReaderEnded == recr = "exited"
ThreadsEnded == recr = "exited" /\ recw = "exited"

StopReturns ==
  /\ lpc = "stopping" /\ ThreadsEnded
  /\ recr' = "none" /\ recw' = "none"
  /\ lpc' = "check"
  /\ UNCHANGED <<main, g_config, pad, g_recording, player, path, led, crashed>>

(* readState fails, nothing is pressed, or what is pressed asks for        *)
(* nothing that may be done now.                                           *)
NothingToDo ==
  /\ lpc = "poll"
  /\ \/ pad' = pad
     \/ /\ initialized
        /\ pad' \in Masks
        /\ pad' # {} => ~(\/ PlaysLatest(g_config, pad') \/ PlaysMacro(g_config, pad')
                          \/ Switches(g_config, pad'))
  /\ lpc' = "check"
  /\ UNCHANGED <<main, g_config, recorder, player, path, led, crashed>>

-----------------------------------------------------------------------------
(* Recorder                                                                *)

(* setLedPattern(LED_PATTERN_SOLID)                                        *)
RecordReadBegins ==
  /\ recr = "starting"
  /\ recr' = "running" /\ led' = "solid"
  /\ UNCHANGED <<main, g_config, lpc, pad, g_recording, recw, player, path, crashed>>

KeepLed == led' = led

(* setLedPattern(LED_PATTERN_OFF)                                          *)
ResetLed == led' = "off"

RecordReadEnds ==
  /\ recr = "running" /\ ~g_recording
  /\ recr' = "exited" /\ ResetLed
  /\ UNCHANGED <<main, g_config, lpc, pad, g_recording, recw, player, path, crashed>>

(* fopen                                                                   *)
RecordWriteBegins ==
  /\ recw = "starting"
  /\ recw' = "writing"
  /\ UNCHANGED <<main, g_config, lpc, pad, g_recording, recr, player, path, led, crashed>>

(* fclose, after the reader has ended                                      *)
RecordWriteEnds ==
  /\ recw = "writing" /\ ~g_recording /\ recr \in Ended
  /\ recw' = "exited"
  /\ UNCHANGED <<main, g_config, lpc, pad, g_recording, recr, player, path, led, crashed>>

-----------------------------------------------------------------------------
(* Player                                                                  *)

(* setLedPattern(LED_PATTERN_BREATHING), which may block before the path   *)
(* is used.                                                                *)
PlayReadBegins ==
  /\ playr = "starting"
  /\ playr' = "opening" /\ led' = "breathing"
  /\ UNCHANGED <<main, g_config, lpc, pad, recorder, g_playing, playw, path, crashed>>

OpenMacro ==
  /\ playr = "opening"
  /\ playr' = "reading"
  /\ UNCHANGED <<main, g_config, lpc, pad, recorder, g_playing, playw, path, led, crashed>>

(* fclose, g_playing = false and the end of the thread.                    *)
PlayReadEnds ==
  /\ playr = "reading"
  /\ playr' = "exited" /\ g_playing' = FALSE
  /\ UNCHANGED <<main, g_config, lpc, pad, recorder, playw, path, led, crashed>>

PlayWriteEnds ==
  /\ playw = "running" /\ ~g_playing /\ playr \in Ended
  /\ playw' = "exited" /\ ResetLed
  /\ UNCHANGED <<main, g_config, lpc, pad, recorder, g_playing, playr, path, crashed>>

-----------------------------------------------------------------------------
MainStep ==
  \/ EndLoad \/ AttachController \/ StartListenThread
  \/ FreeConfig \/ ReleaseController \/ JoinListenThread \/ LedOff

Choose(pressed) ==
  \/ PlayLatest(pressed) \/ PlayMacro(pressed)
  \/ StartRecording(pressed) \/ StopRecording(pressed)

ListenStep ==
  \/ CheckExiting \/ StopReturns \/ NothingToDo
  \/ \E pressed \in Masks : Choose(pressed)

RecordStep ==
  RecordReadBegins \/ RecordReadEnds \/ RecordWriteBegins \/ RecordWriteEnds

PlayStep == PlayReadBegins \/ OpenMacro \/ PlayReadEnds \/ PlayWriteEnds

(* The process ends with its main thread.                                  *)
Alive == ~crashed /\ mpc \notin {"done", "fatal"}

Next ==
  /\ Alive
  /\ \/ BeginLoad \/ ExitRequest
     \/ MainStep \/ ListenStep \/ RecordStep \/ PlayStep

Spec == Init /\ [][Next]_vars

(* Every thread sleeps or blocks in every round of its loop, so none is    *)
(* kept from running; Recorder!StopCompletes and Player!PlaybackEnds       *)
(* justify that recorder and player come to their ends.  No request need   *)
(* ever come.                                                              *)
FairSpec ==
  /\ Spec
  /\ WF_vars(Alive /\ MainStep)
  /\ WF_vars(Alive /\ ListenStep)
  /\ WF_vars(Alive /\ (RecordReadBegins \/ RecordReadEnds))
  /\ WF_vars(Alive /\ (RecordWriteBegins \/ RecordWriteEnds))
  /\ WF_vars(Alive /\ (PlayReadBegins \/ OpenMacro \/ PlayReadEnds))
  /\ WF_vars(Alive /\ PlayWriteEnds)

-----------------------------------------------------------------------------
(* Type invariant.  What matters in it: the listen thread waits only for a *)
(* recording whose flag it has cleared, so that the threads it waits for   *)
(* can see it.                                                             *)
TypeOK ==
  /\ mpc \in MainLabels /\ initialized \in BOOLEAN /\ exiting \in BOOLEAN
  /\ g_config \in Configs \cup {Default} /\ loaded \in Configs \cup {Default}
  /\ lpc \in {"none", "check", "poll", "stopping", "exited"} /\ pad \in Masks
  /\ recr \in {"none", "starting", "running", "exited"}
  /\ recw \in {"none", "starting", "writing", "exited"}
  /\ playr \in {"none", "starting", "opening", "reading", "exited"}
  /\ playw \in {"none", "running", "exited"}
  /\ g_recording \in BOOLEAN /\ g_playing \in BOOLEAN /\ crashed \in BOOLEAN
  /\ path \in Paths \cup {Latest, Freed} /\ led \in {"off", "solid", "breathing"}
  /\ lpc = "stopping" => ~g_recording

RecorderActive == recr \notin Ended \/ recw \notin Ended
ReadingMacro == playr \notin Ended

(* No macro file is read while a recording's threads run, the tail that    *)
(* stop_recording waits for included: latest.bin is never played before it *)
(* is complete (common.c:17, 23 and 29 against recorder.c:184-199).        *)
RecordingExcludesReading == ~(RecorderActive /\ ReadingMacro)

(* A playback or a recording starts, and a recording stops, only for       *)
(* buttons that the configuration loaded last gives it, with it enabled:   *)
(* never between the reset and the end of a reload, when the masks are 0   *)
(* and match every press.                                                  *)
OnlyAsConfigured ==
  [][/\ g_playing' /\ ~g_playing =>
          /\ loaded.playerEnable
          /\ loaded.playLatestButtonMask \subseteq pad' \/ Matching(loaded, pad') # {}
     /\ g_recording' # g_recording =>
          loaded.recorderEnable /\ loaded.recordButtonMask \subseteq pad']_vars

(* With no thread of recorder or player left, the LED is off, although     *)
(* four threads set it.                                                    *)
LedOffWhenQuiet ==
  ~RecorderActive /\ ~ReadingMacro /\ playw # "running" => led = "off"

(* The service exits when it is told to, whatever the listen thread is in  *)
(* the middle of.                                                          *)
ExitCompletes == (mpc = "exit") ~> (mpc = "done" \/ crashed)

(* Why it does, without reference to fairness.  Once it has told the       *)
(* listen thread to stop, there is always a thread that can go on: the     *)
(* main thread waits for the listen thread, which waits for the recorder's *)
(* two, and for these only when it has cleared their flag.                 *)
Stopped == mpc \in {"release", "join", "led"}
RecorderCanGoOn ==
  \/ recr = "starting" \/ (recr = "running" /\ ~g_recording)
  \/ recw = "starting" \/ (recw = "writing" /\ ~g_recording /\ recr \in Ended)
ExitNeverStuck ==
  Stopped /\ Alive =>
    \/ mpc # "join" \/ lpc \in {"check", "poll", "exited"}
    \/ lpc = "stopping" /\ ThreadsEnded
    \/ RecorderCanGoOn

(* And no more steps are left than the threads' on their way to the end,   *)
(* with one more thing that the listen thread may have been about to       *)
(* start.                                                                  *)
MainSteps == [release |-> 3, join |-> 2, led |-> 1, done |-> 0]
ListenSteps == [poll |-> 6, stopping |-> 2, check |-> 1, exited |-> 0, none |-> 0]
RecorderSteps == [starting |-> 2, running |-> 1, writing |-> 1, exited |-> 0, none |-> 0]
PlayerSteps ==
  [starting |-> 3, opening |-> 2, reading |-> 1, running |-> 1, exited |-> 0, none |-> 0]
ExitStepsLeft ==
  MainSteps[mpc] + ListenSteps[lpc] + RecorderSteps[recr] + RecorderSteps[recw]
    + PlayerSteps[playr] + PlayerSteps[playw]
ExitNearer == Stopped => ExitStepsLeft' < ExitStepsLeft \/ crashed'
ExitShortens == [][ExitNearer]_vars

(* Both together: in padMacroExit no step, of whichever thread, leaves     *)
(* everybody waiting, and each brings its end nearer.                      *)
ExitAdvances == [][ExitNeverStuck' /\ ExitNearer]_vars

(* config.h:28 says of the path that maskMatch gives out that it is valid  *)
(* until the next load: it is not used afterwards.                         *)
PathValidWhenUsed == playr = "opening" => path # Freed

-----------------------------------------------------------------------------
(* The inductive invariant of PadMacroProofs.                              *)

(* The player's flag is set exactly while its reader runs, and the writer  *)
(* never ends before the reader, with which it is made.                    *)
PlayerFlag ==
  /\ g_playing <=> playr \notin Ended
  /\ g_playing => playw = "running"
  /\ playr = "none" <=> playw = "none"

(* The recorder's threads exist while its flag is set or stop_recording    *)
(* waits for them; the listen thread sees to it that no macro is read then *)
(* and starts no other recording.  They are made and closed together.      *)
RecorderFlag ==
  /\ recr # "none" \/ recw # "none" => g_recording \/ lpc = "stopping"
  /\ recr = "none" <=> recw = "none"
  /\ g_recording \/ lpc = "stopping" => ~g_playing

(* Where the LED is on, a thread is left that will turn it off.            *)
LedHasOwner == led # "off" => recr = "running" \/ playw = "running"

(* The configuration is the one loaded last, or reset.                     *)
WholeConfig == g_config \in {loaded, Default}

(* The listen thread is not there before it is started.                    *)
NotStarted == mpc \in {"boot", "booting", "attach", "start"} => lpc = "none"

(* All of it: what the flags say of the threads, whatever is interleaved.  *)
Inv == TypeOK /\ NotStarted /\ PlayerFlag /\ RecorderFlag /\ LedHasOwner /\ WholeConfig

-----------------------------------------------------------------------------
RecorderPart == INSTANCE RecorderService WITH stopping <- lpc = "stopping"
PlayerPart == INSTANCE PlayerService
                WITH playr <- IF playr = "opening" THEN "starting" ELSE playr

(* What the listen thread does to recorder and player, and what their      *)
(* threads do, is what Recorder and Player implement: start_recording is   *)
(* never called before the threads of the last recording were closed, nor  *)
(* start_play before the last macro was read.                              *)
UsesRecorder == RecorderPart!Spec
UsesPlayer == PlayerPart!Spec
=============================================================================
