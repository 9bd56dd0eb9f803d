------------------------------- MODULE Injection -------------------------------
(***************************************************************************)
(* The player on the pads: what playThreadWrite plays (Player) goes        *)
(* through writeState (Controller) while the listen thread goes on polling *)
(* with readState, also during a playback (common.c:12-14), and pads come  *)
(* and go.                                                                 *)
(***************************************************************************)
EXTENDS Player, Controller

CONSTANT MaxMoves  \* bound: how often a pad comes or goes

ASSUME InjectionAssumption ==
  MaxMoves \in Nat /\ Readers = {"listen"} /\ States = {p.state : p \in MacroPairs}

VARIABLES moves,  \* see MaxMoves
          raced   \* history: a frame was written during this playback with a
                  \* dump on its way to the same work buffer

allVars == <<vars, controllerVars, moves, raced>>

InjectionInit == Init /\ ControllerInit /\ moves = 0 /\ raced = FALSE

Applying == Contains(requests, "apply")

(* playThreadWrite is in writeState until its request was served.          *)
Inject ==
  /\ PlayFrame
  /\ WriteState(got["writer"].state)
  /\ raced' = (raced \/ requests # <<>>)
  /\ UNCHANGED moves

PlayerStep ==
  /\ \/ ReadStep
     \/ ~Applying /\ (WriteInit \/ TakePair \/ NextLoop \/ JoinReader)
     \/ "listen" \notin reading /\ ListenStep
  /\ UNCHANGED <<controllerVars, moves, raced>>

(* The listen thread's poll has seen a macro's buttons on some pad.        *)
Begin(m) ==
  /\ "listen" \notin reading /\ stateList # <<NoEntry, NoEntry>>
  /\ StartPlay(m)
  /\ raced' = FALSE
  /\ UNCHANGED <<controllerVars, moves>>

Poll ==
  /\ \/ lpc = "idle" /\ CallReadState("listen")
     \/ ReadState("listen") \/ ReadFails("listen")
  /\ UNCHANGED <<vars, moves, raced>>

Serve == (ServeDump \/ ServeApply) /\ UNCHANGED <<vars, moves, raced>>

PadMoves(d) ==
  /\ moves < MaxMoves /\ moves' = moves + 1
  /\ MovePad(d)
  /\ UNCHANGED <<vars, raced>>

InjectionNext ==
  /\ ~crashed
  /\ \/ Inject \/ PlayerStep \/ Poll \/ Serve
     \/ \E m \in Macros : Begin(m)
     \/ \E d \in Devices : PadMoves(d)

(* As in Recorder, no thread is kept from running; hiddbg serves what it   *)
(* is asked.  Nobody has to press a macro's buttons, or to move a pad.     *)
InjectionSpec ==
  /\ InjectionInit /\ [][InjectionNext]_allVars
  /\ WF_allVars(~crashed /\ ListenStep /\ PlayerStep)
  /\ WF_allVars(~crashed /\ ReadStep /\ PlayerStep)
  /\ WF_allVars(~crashed /\ (Inject \/ (WriteStep /\ PlayerStep)))
  /\ WF_allVars(~crashed /\ Serve)
  /\ WF_allVars(~crashed /\ "listen" \in reading /\ Poll)

-----------------------------------------------------------------------------
(* Type invariant of both parts.                                           *)
InjectionTypeOK ==
  TypeOK /\ ControllerTypeOK /\ moves \in 0..MaxMoves /\ raced \in BOOLEAN

(* A macro that ends with an empty pair, as every recording does           *)
(* (recorder.c:142-150), leaves no pad holding one of its frames, whatever *)
(* pads came and went during the playback and although the list that the   *)
(* frames are written to is replaced by every poll.  Only a frame that is  *)
(* put in the work buffer while a dump is on its way may be lost there,    *)
(* the last one included.                                                  *)
NoFrameSticks ==
  (/\ wpc = "exited" /\ ~Applying /\ ~raced /\ ~failed
   /\ macro # <<>> /\ Last(macro).state = Neutral)
    => \A d \in Devices : input[d].state \in {Own, Neutral}
==============================================================================
