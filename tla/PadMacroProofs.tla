--------------------------- MODULE PadMacroProofs ---------------------------
(***************************************************************************)
(* Proofs about PadMacro, for any buttons, paths and configurations: what  *)
(* the flags of recorder and player promise about their threads, that only *)
(* what is configured starts, that the exit gets on, and that recorder and *)
(* player are used as they allow.                                          *)
(***************************************************************************)
EXTENDS PadMacro, WellFoundedInduction, TLAPS

-----------------------------------------------------------------------------
(* Lemmas about the configuration                                          *)

(* A reset configuration is one that could have been read.                 *)
LEMMA DefaultIsConfig == Default \in PadConfig
  BY DEF Default, PadConfig, Masks

(* maskMatch returns one of the paths of the configuration.                *)
LEMMA MaskMatchIsPath ==
  ASSUME NEW c \in PadConfig, NEW pressed, Matching(c, pressed) # {}
  PROVE  MaskMatch(c, pressed) \in Paths
  <1>0. ASSUME NEW S, NEW s \in Seq(S), NEW i \in DOMAIN s PROVE s[i] \in S
    BY <1>0
  <1> DEFINE M == Matching(c, pressed)
  <1>1. c.macros \in Seq([mask: Masks, path: Paths])
    BY DEF PadConfig
  <1>2. M \subseteq DOMAIN c.macros /\ M \subseteq Nat
    BY <1>1 DEF Matching
  <1>3. PICK x \in M : \A y \in M : ~(<<y, x>> \in OpToRel(<, Nat))
    BY <1>2, WFMin, NatLessThanWellFounded
  <1>4. \A y \in M : ~(y < x)
    BY <1>2, <1>3 DEF OpToRel
  <1>5. \A y \in M : x <= y
    BY <1>2, <1>4
  <1>6. FirstMatch(c, pressed) \in M
    BY <1>5 DEF FirstMatch
  <1>7. c.macros[FirstMatch(c, pressed)] \in [mask: Masks, path: Paths]
    BY <1>1, <1>2, <1>6, <1>0
  <1>8. \A r \in [mask: Masks, path: Paths] : r.path \in Paths
    OBVIOUS
  <1>9. QED BY <1>7, <1>8 DEF MaskMatch

-----------------------------------------------------------------------------
(* Initially.                                                              *)
LEMMA InvInit == Init => Inv
  BY DefaultIsConfig
     DEF Init, Inv, TypeOK, NotStarted, PlayerFlag, RecorderFlag, LedHasOwner, WholeConfig,
         Ended, Masks, MainLabels

(* Every configuration in memory is one that could have been read.         *)
LEMMA ConfigTyped == Inv => g_config \in PadConfig
  BY DefaultIsConfig, PadMacroAssumption DEF Inv, TypeOK, PadMacroAssumption

(* The main thread's steps.                                                *)
LEMMA MainKeepsInv == Inv /\ (BeginLoad \/ ExitRequest \/ MainStep) => Inv'
  <1> SUFFICES ASSUME Inv, BeginLoad \/ ExitRequest \/ MainStep PROVE Inv'
    OBVIOUS
  <1> USE DEF Inv, TypeOK, NotStarted, PlayerFlag, RecorderFlag, LedHasOwner,
              WholeConfig, Ended, MainLabels, main, recorder, player
  <1>1. CASE BeginLoad
    BY <1>1 DEF BeginLoad, ResetState, AfterReset
  <1>2. CASE ExitRequest
    BY <1>2 DEF ExitRequest
  <1>3. CASE EndLoad
    BY <1>3 DEF EndLoad
  <1>4. CASE AttachController
    BY <1>4 DEF AttachController
  <1>5. CASE StartListenThread
    BY <1>5 DEF StartListenThread
  <1>6. CASE FreeConfig
    <2>1. exiting' \in BOOLEAN
      BY <1>6 DEF FreeConfig, StopListening
    <2>2. QED BY <1>6, <2>1 DEF FreeConfig, ResetState, AfterReset
  <1>7. CASE ReleaseController
    <2>1. initialized' \in BOOLEAN
      BY <1>7 DEF ReleaseController
    <2>2. mpc' = "join" /\ UNCHANGED <<exiting, loaded, g_config, lpc, pad, recorder,
                                      player, path, led, crashed>>
      BY <1>7 DEF ReleaseController
    <2>3. QED BY <2>1, <2>2
  <1>8. CASE JoinListenThread
    BY <1>8 DEF JoinListenThread
  <1>9. CASE LedOff
    BY <1>9 DEF LedOff
  <1>10. QED
    BY <1>1, <1>2, <1>3, <1>4, <1>5, <1>6, <1>7, <1>8, <1>9 DEF MainStep

(* What a poll may start or stop.                                          *)
LEMMA ChooseKeepsInv == \A pressed \in Masks : Inv /\ Choose(pressed) => Inv'
  <1> SUFFICES ASSUME NEW pressed \in Masks, Inv, Choose(pressed) PROVE Inv'
    OBVIOUS
  <1> USE DEF Inv, TypeOK, NotStarted, PlayerFlag, RecorderFlag, LedHasOwner,
              WholeConfig, Ended, MainLabels, main, recorder, player, Pressing
  <1>1. CASE PlayLatest(pressed)
    BY <1>1 DEF PlayLatest, StartPlay, PlaysLatest, MayPlay
  <1>2. CASE PlayMacro(pressed)
    <2>1. MaskMatch(g_config, pressed) \in Paths
      BY <1>2, ConfigTyped, MaskMatchIsPath DEF PlayMacro, PlaysMacro
    <2>2. QED BY <1>2, <2>1 DEF PlayMacro, StartPlay, PlaysMacro, MayPlay
  <1>3. CASE StartRecording(pressed)
    BY <1>3 DEF StartRecording, Switches
  <1>4. CASE StopRecording(pressed)
    <2>1. ~g_recording' /\ g_recording' \in BOOLEAN
      BY <1>4 DEF StopRecording, ResetRecording
    <2>2. QED BY <1>4, <2>1 DEF StopRecording, Switches
  <1>5. QED BY <1>1, <1>2, <1>3, <1>4 DEF Choose

(* The listen thread's other steps.                                        *)
LEMMA ListenKeepsInv == Inv /\ ListenStep => Inv'
  <1> SUFFICES ASSUME Inv, ListenStep PROVE Inv'
    OBVIOUS
  <1> USE DEF Inv, TypeOK, NotStarted, PlayerFlag, RecorderFlag, LedHasOwner,
              WholeConfig, Ended, MainLabels, main, recorder, player
  <1>1. CASE CheckExiting
    BY <1>1 DEF CheckExiting
  <1>2. CASE StopReturns
    BY <1>2 DEF StopReturns, ThreadsEnded
  <1>3. CASE NothingToDo
    BY <1>3 DEF NothingToDo
  <1>4. CASE \E pressed \in Masks : Choose(pressed)
    BY <1>4, ChooseKeepsInv
  <1>5. QED BY <1>1, <1>2, <1>3, <1>4 DEF ListenStep

(* The threads of recorder and player.                                     *)
LEMMA ServiceKeepsInv == Inv /\ (RecordStep \/ PlayStep) => Inv'
  <1> SUFFICES ASSUME Inv, RecordStep \/ PlayStep PROVE Inv'
    OBVIOUS
  <1> USE DEF Inv, TypeOK, NotStarted, PlayerFlag, RecorderFlag, LedHasOwner,
              WholeConfig, Ended, MainLabels, main, recorder, player
  <1>1. CASE RecordReadBegins
    BY <1>1 DEF RecordReadBegins
  <1>2. CASE RecordReadEnds
    BY <1>2 DEF RecordReadEnds, ResetLed
  <1>3. CASE RecordWriteBegins
    BY <1>3 DEF RecordWriteBegins
  <1>4. CASE RecordWriteEnds
    BY <1>4 DEF RecordWriteEnds
  <1>5. CASE PlayReadBegins
    BY <1>5 DEF PlayReadBegins
  <1>6. CASE OpenMacro
    BY <1>6 DEF OpenMacro
  <1>7. CASE PlayReadEnds
    <2>1. ~g_playing' /\ g_playing' \in BOOLEAN
      BY <1>7 DEF PlayReadEnds
    <2>2. QED BY <1>7, <2>1 DEF PlayReadEnds
  <1>8. CASE PlayWriteEnds
    BY <1>8 DEF PlayWriteEnds, ResetLed
  <1>9. QED
    BY <1>1, <1>2, <1>3, <1>4, <1>5, <1>6, <1>7, <1>8 DEF RecordStep, PlayStep

(* Every step.                                                             *)
LEMMA InvStep == Inv /\ [Next]_vars => Inv'
  <1> SUFFICES ASSUME Inv, [Next]_vars PROVE Inv'
    OBVIOUS
  <1>1. CASE UNCHANGED vars
    BY <1>1 DEF Inv, TypeOK, NotStarted, PlayerFlag, RecorderFlag, LedHasOwner, WholeConfig, Ended,
                vars, main, recorder, player
  <1>2. CASE Next
    BY <1>2, MainKeepsInv, ListenKeepsInv, ServiceKeepsInv DEF Next
  <1>3. QED BY <1>1, <1>2

-----------------------------------------------------------------------------
(* The inductive invariant holds in every behaviour.                       *)
THEOREM InvHolds == Spec => []Inv
  <1>1. QED BY InvInit, InvStep, PTL DEF Spec

(* The service's variables keep their types, and the listen thread waits   *)
(* only for a recording whose flag is clear (recorder.c:184-199).          *)
THEOREM TypeCorrect == Spec => []TypeOK
  <1>1. Inv => TypeOK
    BY DEF Inv
  <1>2. QED BY <1>1, InvHolds, PTL

(* No macro file is read while a recording's threads run (common.c:17-33). *)
THEOREM RecordingNeverMeetsReading == Spec => []RecordingExcludesReading
  <1>1. Inv => RecordingExcludesReading
    BY DEF Inv, PlayerFlag, RecorderFlag, Ended, RecordingExcludesReading,
           RecorderActive, ReadingMacro
  <1>2. QED BY <1>1, InvHolds, PTL

(* With nothing recorded or played, the LED is off (recorder.c:101,        *)
(* player.c:91).                                                           *)
THEOREM LedIsOffWhenQuiet == Spec => []LedOffWhenQuiet
  <1>1. Inv => LedOffWhenQuiet
    BY DEF Inv, LedHasOwner, LedOffWhenQuiet, RecorderActive, Ended
  <1>2. QED BY <1>1, InvHolds, PTL

(* A playback starts only for buttons of the configuration loaded last.    *)
LEMMA PlaysAsConfigured ==
  ASSUME Inv, NEW pressed \in Masks, PlayLatest(pressed) \/ PlayMacro(pressed)
  PROVE  /\ loaded.playerEnable
         /\ loaded.playLatestButtonMask \subseteq pad' \/ Matching(loaded, pad') # {}
         /\ g_recording' = g_recording
  <1>1. MayPlay(g_config)
    BY DEF PlayLatest, PlayMacro, PlaysLatest, PlaysMacro
  <1>2. ~Default.playerEnable
    BY DEF Default
  <1>3. g_config = loaded
    BY <1>1, <1>2 DEF MayPlay, Inv, WholeConfig
  <1>4. pad' = pressed
    BY DEF PlayLatest, PlayMacro, Pressing
  <1>5. g_config.playLatestButtonMask \subseteq pressed \/ Matching(g_config, pressed) # {}
    BY DEF PlayLatest, PlayMacro, PlaysLatest, PlaysMacro
  <1>6. g_recording' = g_recording
    BY DEF PlayLatest, PlayMacro, StartPlay, recorder
  <1>7. QED BY <1>1, <1>3, <1>4, <1>5, <1>6 DEF MayPlay

(* The same of a recording, which starts or stops.                         *)
LEMMA SwitchesAsConfigured ==
  ASSUME Inv, NEW pressed \in Masks, StartRecording(pressed) \/ StopRecording(pressed)
  PROVE  /\ loaded.recorderEnable /\ loaded.recordButtonMask \subseteq pad'
         /\ g_playing' = g_playing
  <1>1. Switches(g_config, pressed)
    BY DEF StartRecording, StopRecording
  <1>2. ~Default.recorderEnable
    BY DEF Default
  <1>3. g_config = loaded
    BY <1>1, <1>2 DEF Switches, Inv, WholeConfig
  <1>4. pad' = pressed
    BY DEF StartRecording, StopRecording, Pressing
  <1>5. g_playing' = g_playing
    BY DEF StartRecording, StopRecording, player
  <1>6. QED BY <1>1, <1>3, <1>4, <1>5 DEF Switches

(* No other step starts a playback or touches the recorder's flag.         *)
LEMMA OthersStartNothing ==
  \/ BeginLoad \/ ExitRequest \/ MainStep \/ RecordStep \/ PlayStep
  \/ CheckExiting \/ StopReturns \/ NothingToDo
  => g_recording' = g_recording /\ ~(g_playing' /\ ~g_playing)
  <1> USE DEF recorder, player
  <1>1. CASE BeginLoad \/ ExitRequest \/ MainStep
    BY <1>1 DEF BeginLoad, ExitRequest, MainStep, EndLoad, AttachController,
                StartListenThread, FreeConfig, ReleaseController, JoinListenThread, LedOff
  <1>2. CASE RecordStep
    BY <1>2 DEF RecordStep, RecordReadBegins, RecordReadEnds, RecordWriteBegins,
                RecordWriteEnds
  <1>3. CASE PlayStep
    BY <1>3 DEF PlayStep, PlayReadBegins, OpenMacro, PlayReadEnds, PlayWriteEnds
  <1>4. CASE CheckExiting \/ StopReturns \/ NothingToDo
    BY <1>4 DEF CheckExiting, StopReturns, NothingToDo
  <1>5. QED BY <1>1, <1>2, <1>3, <1>4

(* What is started and stopped is what the configuration loaded last asks  *)
(* for, whenever a reload comes (config.c:24-30 and 82-140, common.c:17-34). *)
THEOREM StartsAsConfigured == Spec => OnlyAsConfigured
  <1> DEFINE A == /\ g_playing' /\ ~g_playing =>
                        /\ loaded.playerEnable
                        /\ \/ loaded.playLatestButtonMask \subseteq pad'
                           \/ Matching(loaded, pad') # {}
                  /\ g_recording' # g_recording =>
                        loaded.recorderEnable /\ loaded.recordButtonMask \subseteq pad'
  <1>1. Inv /\ [Next]_vars => [A]_vars
    <2> SUFFICES ASSUME Inv, Next PROVE A
      OBVIOUS
    <2>1. CASE \E pressed \in Masks : Choose(pressed)
      BY <2>1, PlaysAsConfigured, SwitchesAsConfigured DEF Choose
    <2>2. CASE ~\E pressed \in Masks : Choose(pressed)
      BY <2>2, OthersStartNothing DEF Next, ListenStep
    <2>3. QED BY <2>1, <2>2
  <1>2. QED BY <1>1, InvHolds, PTL DEF Spec, OnlyAsConfigured

-----------------------------------------------------------------------------
(* The exit                                                                *)

(* The flag stays as padMacroExit set it, the listen thread is there until *)
(* it was waited for, and so are the threads that it waits for.            *)
ExitInStep ==
  /\ Stopped => ~exiting
  /\ mpc \in {"serve", "reloading", "exit", "release", "join"} => lpc # "none"
  /\ g_recording \/ lpc = "stopping" => recr # "none"

(* Every step keeps it.                                                    *)
LEMMA ExitInStepKept == Inv /\ ExitInStep /\ [Next]_vars => ExitInStep'
  <1> SUFFICES ASSUME Inv, ExitInStep, [Next]_vars PROVE ExitInStep'
    OBVIOUS
  <1> USE DEF ExitInStep, Stopped, main, recorder, player
  <1>1. CASE UNCHANGED vars
    BY <1>1 DEF vars
  <1>2. CASE BeginLoad \/ ExitRequest \/ MainStep
    <2>1. UNCHANGED <<g_recording, recr, recw>>
      BY <1>2 DEF BeginLoad, ExitRequest, MainStep, EndLoad, AttachController,
                  StartListenThread, FreeConfig, ReleaseController, JoinListenThread, LedOff
    <2>2. CASE BeginLoad
      BY <2>1, <2>2 DEF BeginLoad
    <2>3. CASE ExitRequest
      BY <2>1, <2>3 DEF ExitRequest
    <2>4. CASE EndLoad
      BY <2>1, <2>4 DEF EndLoad
    <2>5. CASE AttachController
      BY <2>1, <2>5 DEF AttachController
    <2>6. CASE StartListenThread
      <3>1. (mpc' = "serve" /\ lpc' = "check") \/ mpc' = "fatal"
        BY <2>6 DEF StartListenThread
      <3>2. lpc # "stopping" /\ lpc' # "stopping"
        BY <2>6 DEF StartListenThread, Inv, NotStarted
      <3>3. g_recording' = g_recording
        BY <2>1
      <3>4. g_recording \/ lpc = "stopping" => recr # "none"
        OBVIOUS
      <3>5. g_recording' \/ lpc' = "stopping" => recr' # "none"
        BY <2>1, <3>2, <3>3, <3>4
      <3>6. QED BY <3>1, <3>5
    <2>7. CASE FreeConfig
      <3>1. mpc = "exit" /\ mpc' = "release" /\ lpc' = lpc
        BY <2>7 DEF FreeConfig
      <3>2. ~exiting'
        BY <2>7 DEF FreeConfig, StopListening
      <3>3. QED BY <2>1, <3>1, <3>2
    <2>8. CASE ReleaseController
      <3>1. mpc = "release" /\ mpc' = "join" /\ lpc' = lpc
        BY <2>8 DEF ReleaseController
      <3>2. exiting' = exiting
        BY <2>8 DEF ReleaseController
      <3>3. QED BY <2>1, <3>1, <3>2
    <2>9. CASE JoinListenThread
      BY <2>1, <2>9 DEF JoinListenThread
    <2>10. CASE LedOff
      BY <2>1, <2>10 DEF LedOff
    <2>11. QED
      BY <1>2, <2>2, <2>3, <2>4, <2>5, <2>6, <2>7, <2>8, <2>9, <2>10 DEF MainStep
  <1>3. CASE ListenStep
    BY <1>3 DEF ListenStep, CheckExiting, StopReturns, NothingToDo, Choose, PlayLatest,
                PlayMacro, StartPlay, StartRecording, StopRecording, ResetRecording, Pressing,
                Inv, RecorderFlag, TypeOK
  <1>4. CASE RecordStep \/ PlayStep
    BY <1>4 DEF RecordStep, RecordReadBegins, RecordReadEnds, RecordWriteBegins,
                RecordWriteEnds, PlayStep, PlayReadBegins, OpenMacro, PlayReadEnds,
                PlayWriteEnds
  <1>5. QED BY <1>1, <1>2, <1>3, <1>4 DEF Next

(* So it holds throughout.                                                 *)
LEMMA ExitInStepHolds == Spec => []ExitInStep
  <1>1. Init => ExitInStep
    BY DEF Init, ExitInStep, Stopped
  <1>2. QED BY <1>1, ExitInStepKept, InvHolds, PTL DEF Spec

(* When padMacroExit waits for the listen thread, and that for the threads *)
(* of a recording, one of them can go on (common.c:10-42, 65-79,           *)
(* recorder.c:184-199).                                                    *)
THEOREM ExitIsNeverStuck == Spec => []ExitNeverStuck
  <1>1. Inv /\ ExitInStep => ExitNeverStuck
    BY DEF Inv, TypeOK, RecorderFlag, ExitInStep, ExitNeverStuck, Stopped, RecorderCanGoOn,
           ThreadsEnded, Ended
  <1>2. QED BY <1>1, InvHolds, ExitInStepHolds, PTL

ExitStepsTyped ==
  /\ MainSteps[mpc] \in Nat /\ ListenSteps[lpc] \in Nat
  /\ RecorderSteps[recr] \in Nat /\ RecorderSteps[recw] \in Nat
  /\ PlayerSteps[playr] \in Nat /\ PlayerSteps[playw] \in Nat

(* The parts of the measure are natural numbers.                           *)
LEMMA ExitStepCounts ==
  ASSUME Inv, Stopped \/ mpc = "done"
  PROVE  ExitStepsTyped
  BY DEF Inv, TypeOK, Stopped, ExitStepsTyped, MainSteps, ListenSteps, RecorderSteps,
         PlayerSteps

(* And every step of the service's threads brings the end nearer: no more  *)
(* than ExitStepsLeft are taken before padMacroExit returns, whatever the  *)
(* listen thread was in the middle of and whatever is pressed (common.c:   *)
(* 10-42, 65-79).                                                          *)
THEOREM ExitGetsShorter == Spec => ExitShortens
  <1>1. ASSUME Inv, ExitInStep, [Next]_vars
        PROVE  [Stopped => ExitStepsLeft' < ExitStepsLeft \/ crashed']_vars
    <2> SUFFICES ASSUME Next, Stopped, ~crashed'
                 PROVE  ExitStepsLeft' < ExitStepsLeft
      BY <1>1
    <2>1. ExitStepsTyped
      BY <1>1, ExitStepCounts
    <2>2. ~BeginLoad /\ ~ExitRequest
      BY DEF BeginLoad, ExitRequest, Stopped
    <2>3. CASE MainStep
      <3>1. \/ mpc = "release" /\ mpc' = "join" /\ lpc' = lpc
            \/ mpc = "join" /\ mpc' = "led" /\ lpc = "exited" /\ lpc' = "none"
            \/ mpc = "led" /\ mpc' = "done" /\ lpc' = lpc
        <4>1. ReleaseController \/ JoinListenThread \/ LedOff
          BY <2>3, Zenon DEF MainStep, EndLoad, AttachController, StartListenThread, FreeConfig,
                             Stopped
        <4>2. QED BY <4>1 DEF ReleaseController, JoinListenThread, LedOff
      <3>2. /\ MainSteps[mpc'] < MainSteps[mpc] /\ MainSteps[mpc'] \in Nat
            /\ ListenSteps[lpc'] = ListenSteps[lpc]
        BY <3>1 DEF MainSteps, ListenSteps
      <3>3. UNCHANGED <<recr, recw, playr, playw>>
        BY <2>3 DEF MainStep, EndLoad, AttachController, StartListenThread, FreeConfig,
                    ReleaseController, JoinListenThread, LedOff, recorder, player
      <3>4. QED BY <2>1, <3>2, <3>3 DEF ExitStepsLeft, ExitStepsTyped
    <2>4. CASE ListenStep
      <3>1. mpc' = mpc
        BY <2>4 DEF ListenStep, CheckExiting, StopReturns, NothingToDo, Choose, PlayLatest,
                    PlayMacro, StartPlay, StartRecording, StopRecording, main
      <3>2. CASE CheckExiting \/ NothingToDo \/ \E pressed \in Masks : StopRecording(pressed)
        <4>1. ListenSteps[lpc'] < ListenSteps[lpc] /\ ListenSteps[lpc'] \in Nat
          BY <1>1, <3>2 DEF CheckExiting, NothingToDo, StopRecording, Pressing, ExitInStep,
                            ListenSteps
        <4>2. UNCHANGED <<recr, recw, playr, playw>>
          BY <3>2 DEF CheckExiting, NothingToDo, StopRecording, recorder, player
        <4>3. QED BY <2>1, <3>1, <4>1, <4>2 DEF ExitStepsLeft, ExitStepsTyped
      <3>3. CASE StopReturns
        BY <2>1, <3>1, <3>3
           DEF StopReturns, ThreadsEnded, player, ExitStepsLeft, ExitStepsTyped, ListenSteps,
               RecorderSteps
      <3>4. CASE \E pressed \in Masks : StartRecording(pressed)
        <4>1. recr = "none" /\ recw = "none"
          BY <1>1, <3>4 DEF StartRecording, Pressing, Inv, TypeOK, RecorderFlag
        <4>2. /\ lpc = "poll" /\ lpc' = "check" /\ recr' = "starting" /\ recw' = "starting"
              /\ UNCHANGED <<playr, playw>>
          BY <3>4 DEF StartRecording, Pressing, player
        <4>3. QED BY <2>1, <3>1, <4>1, <4>2
                  DEF ExitStepsLeft, ExitStepsTyped, ListenSteps, RecorderSteps
      <3>5. CASE \E pressed \in Masks : PlayLatest(pressed) \/ PlayMacro(pressed)
        <4>1. playr \in Ended /\ playw \in Ended
          BY <1>1, <3>5 DEF PlayLatest, PlayMacro, PlaysLatest, PlaysMacro, MayPlay, StartPlay,
                            Inv, TypeOK, PlayerFlag, Ended
        <4>2. /\ lpc = "poll" /\ lpc' = "check" /\ playr' = "starting" /\ playw' = "running"
              /\ UNCHANGED <<recr, recw>>
          BY <3>5 DEF PlayLatest, PlayMacro, StartPlay, Pressing, recorder
        <4>3. QED BY <2>1, <3>1, <4>1, <4>2
                  DEF ExitStepsLeft, ExitStepsTyped, ListenSteps, PlayerSteps, Ended
      <3>6. QED BY <2>4, <3>2, <3>3, <3>4, <3>5 DEF ListenStep, Choose
    <2>5. CASE RecordStep
      <3>1. UNCHANGED <<mpc, lpc, playr, playw>>
        BY <2>5 DEF RecordStep, RecordReadBegins, RecordReadEnds, RecordWriteBegins,
                    RecordWriteEnds, main, player
      <3>2. \/ recw' = recw /\ RecorderSteps[recr'] < RecorderSteps[recr]
                 /\ RecorderSteps[recr'] \in Nat
            \/ recr' = recr /\ RecorderSteps[recw'] < RecorderSteps[recw]
                 /\ RecorderSteps[recw'] \in Nat
        BY <2>5 DEF RecordStep, RecordReadBegins, RecordReadEnds, RecordWriteBegins,
                    RecordWriteEnds, RecorderSteps
      <3>3. QED BY <2>1, <3>1, <3>2 DEF ExitStepsLeft, ExitStepsTyped
    <2>6. CASE PlayStep
      <3>1. UNCHANGED <<mpc, lpc, recr, recw>>
        BY <2>6 DEF PlayStep, PlayReadBegins, OpenMacro, PlayReadEnds, PlayWriteEnds, main,
                    recorder
      <3>2. \/ playw' = playw /\ PlayerSteps[playr'] < PlayerSteps[playr]
                 /\ PlayerSteps[playr'] \in Nat
            \/ playr' = playr /\ PlayerSteps[playw'] < PlayerSteps[playw]
                 /\ PlayerSteps[playw'] \in Nat
        BY <2>6 DEF PlayStep, PlayReadBegins, OpenMacro, PlayReadEnds, PlayWriteEnds,
                    PlayerSteps
      <3>3. QED BY <2>1, <3>1, <3>2 DEF ExitStepsLeft, ExitStepsTyped
    <2>7. QED BY <2>2, <2>3, <2>4, <2>5, <2>6 DEF Next
  <1>2. QED BY <1>1, InvHolds, ExitInStepHolds, PTL DEF Spec, ExitShortens, ExitNearer

(* padMacroExit completes: some thread can go on, and each step of any     *)
(* thread brings the end nearer (common.c:66-79).                          *)
THEOREM ExitingAdvances == Spec => ExitAdvances
  BY ExitIsNeverStuck, ExitGetsShorter, PTL DEF ExitAdvances, ExitShortens

-----------------------------------------------------------------------------
(* PadMacro contains the services that Recorder and Player implement.      *)

(* Every step is a step of the recorder's service or leaves it alone.      *)
LEMMA RecorderPartStep ==
  Inv /\ [Next]_vars => [RecorderPart!Next]_(RecorderPart!vars)
  <1> SUFFICES ASSUME Inv, [Next]_vars
               PROVE  RecorderPart!Next \/ UNCHANGED RecorderPart!vars
    OBVIOUS
  <1> USE DEF recorder, main, Inv, TypeOK, RecorderFlag, RecorderPart!vars
  <1>1. CASE UNCHANGED vars
    BY <1>1 DEF vars
  <1>2. CASE BeginLoad \/ ExitRequest \/ MainStep
    BY <1>2 DEF BeginLoad, ExitRequest, MainStep, EndLoad, AttachController, NotStarted,
                StartListenThread, FreeConfig, ReleaseController, JoinListenThread, LedOff
  <1>3. CASE RecordStep
    BY <1>3 DEF RecordStep, RecordReadBegins, RecordReadEnds, RecordWriteBegins,
                RecordWriteEnds, Ended, RecorderPart!Next, RecorderPart!ReadBegins,
                RecorderPart!ReadEnds, RecorderPart!WriteBegins, RecorderPart!WriteEnds
  <1>4. CASE PlayStep \/ CheckExiting \/ NothingToDo
    BY <1>4 DEF PlayStep, PlayReadBegins, OpenMacro, PlayReadEnds, PlayWriteEnds,
                CheckExiting, NothingToDo
  <1>5. CASE StopReturns
    BY <1>5 DEF StopReturns, ThreadsEnded, RecorderPart!Next, RecorderPart!StopReturns
  <1>6. ASSUME NEW pressed \in Masks, Choose(pressed)
        PROVE  RecorderPart!Next \/ UNCHANGED RecorderPart!vars
    <2>1. CASE PlayLatest(pressed) \/ PlayMacro(pressed)
      BY <2>1 DEF PlayLatest, PlayMacro, StartPlay, Pressing
    <2>2. CASE StartRecording(pressed)
      BY <2>2 DEF StartRecording, Pressing, RecorderPart!Next, RecorderPart!Start
    <2>3. CASE StopRecording(pressed)
      BY <2>3 DEF StopRecording, ResetRecording, Pressing, RecorderPart!Next,
                  RecorderPart!Stop
    <2>4. QED BY <1>6, <2>1, <2>2, <2>3 DEF Choose
  <1>7. QED BY <1>1, <1>2, <1>3, <1>4, <1>5, <1>6 DEF Next, ListenStep

(* start_recording is called only after both threads of the last recording *)
(* were closed, and they end in the order that Recorder gives them         *)
(* (recorder.c:36-40, 158-199; common.c:29-35).                            *)
THEOREM RecorderUsedAsPromised == Spec => UsesRecorder
  <1>1. Init => RecorderPart!Init
    BY DEF Init, RecorderPart!Init
  <1>2. QED
    BY <1>1, RecorderPartStep, InvHolds, PTL DEF Spec, UsesRecorder, RecorderPart!Spec

(* Every step is a step of the player's service or leaves it alone.        *)
LEMMA PlayerPartStep ==
  Inv /\ [Next]_vars => [PlayerPart!Next]_(PlayerPart!vars)
  <1> SUFFICES ASSUME Inv, [Next]_vars
               PROVE  PlayerPart!Next \/ UNCHANGED PlayerPart!vars
    OBVIOUS
  <1> USE DEF player, main, Inv, TypeOK, PlayerFlag, Ended, PlayerPart!vars
  <1>1. CASE UNCHANGED vars
    BY <1>1 DEF vars
  <1>2. CASE BeginLoad \/ ExitRequest \/ MainStep
    BY <1>2 DEF BeginLoad, ExitRequest, MainStep, EndLoad, AttachController,
                StartListenThread, FreeConfig, ReleaseController, JoinListenThread, LedOff
  <1>3. CASE RecordStep \/ CheckExiting \/ NothingToDo \/ StopReturns
    BY <1>3 DEF RecordStep, RecordReadBegins, RecordReadEnds, RecordWriteBegins,
                RecordWriteEnds, CheckExiting, NothingToDo, StopReturns
  <1>4. CASE Alive /\ PlayStep
    BY <1>4 DEF PlayStep, PlayReadBegins, OpenMacro, PlayReadEnds, PlayWriteEnds, Alive,
                PlayerPart!Next, PlayerPart!ReadBegins, PlayerPart!ReadEnds,
                PlayerPart!WriteEnds
  <1>5. ASSUME NEW pressed \in Masks, Alive, Choose(pressed)
        PROVE  PlayerPart!Next \/ UNCHANGED PlayerPart!vars
    <2>1. CASE PlayLatest(pressed) \/ PlayMacro(pressed)
      BY <1>5, <2>1 DEF PlayLatest, PlayMacro, StartPlay, PlaysLatest, PlaysMacro, MayPlay,
                        Alive, PlayerPart!Next, PlayerPart!Start
    <2>2. CASE StartRecording(pressed) \/ StopRecording(pressed)
      BY <2>2 DEF StartRecording, StopRecording
    <2>3. QED BY <1>5, <2>1, <2>2 DEF Choose
  <1>6. QED BY <1>1, <1>2, <1>3, <1>4, <1>5 DEF Next, ListenStep

(* start_play is called only after the reader of the last playback has     *)
(* cleared the flag (player.c:49-50, 110-138; common.c:17-28).             *)
THEOREM PlayerUsedAsPromised == Spec => UsesPlayer
  <1>1. Init => PlayerPart!Init
    BY DEF Init, PlayerPart!Init
  <1>2. QED
    BY <1>1, PlayerPartStep, InvHolds, PTL DEF Spec, UsesPlayer, PlayerPart!Spec
=============================================================================
