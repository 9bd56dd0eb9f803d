-------------------------------- MODULE LedUsers --------------------------------
(***************************************************************************)
(* NotifLed under its callers: the recorder's reader, which shows SOLID    *)
(* while it reads (recorder.c), the player, whose reader shows BREATHING   *)
(* and whose writer turns the LED off after it (player.c), and the main    *)
(* thread, which turns it off at the exit (common.c).                      *)
(***************************************************************************)
EXTENDS NotifLed

CONSTANT MaxMoves  \* bound: how often a pad comes, goes or changes its npad

ASSUME LedUsersAssumption ==
  /\ MaxMoves \in Nat
  /\ Threads = {"rec", "play", "main"} /\ {"solid", "breathing"} \subseteq Patterns

VARIABLES
  rec,   \* the recorder: in setLedPattern, reading, stopping
  play,  \* the player: its reader, then its writer
  main,  \* the main thread
  moves  \* see MaxMoves

users == <<rec, play, main>>
userVars == <<ledVars, users, moves>>

UsersInit ==
  /\ LedInit
  /\ rec = "none" /\ play = "none" /\ main = "serve"
  /\ moves = 0

-----------------------------------------------------------------------------
(* The listen thread starts and stops things until it has seen the exit    *)
(* flag, and waits in stop_recording until the reader has ended.           *)
Listens == main \in {"serve", "exit"} /\ rec # "off"

(* g_playing is clear from the moment the player's reader ends.            *)
StartRecording ==
  /\ Listens /\ rec = "none" /\ play \in {"none", "writing", "off"}
  /\ rec' = "solid" /\ SetLedPattern("rec", "solid")
  /\ UNCHANGED <<play, main, moves>>

StopRecording ==
  /\ Listens /\ rec = "reading"
  /\ rec' = "off" /\ SetLedPattern("rec", "off")
  /\ UNCHANGED <<play, main, moves>>

(* Not while a writer of before runs: Player has that case.                *)
StartPlaying ==
  /\ Listens /\ rec = "none" /\ play = "none"
  /\ play' = "breathing" /\ SetLedPattern("play", "breathing")
  /\ UNCHANGED <<rec, main, moves>>

(* The reader's end, and the writer's.                                     *)
EndReading ==
  /\ play = "reading"
  /\ play' = "writing"
  /\ UNCHANGED <<ledVars, rec, main, moves>>

EndWriting ==
  /\ play = "writing"
  /\ play' = "off" /\ SetLedPattern("play", "off")
  /\ UNCHANGED <<rec, main, moves>>

(* padMacroExit, which waits for the listen thread.                        *)
Exit ==
  /\ main = "serve"
  /\ main' = "exit"
  /\ UNCHANGED <<ledVars, rec, play, moves>>

ExitLed ==
  /\ main = "exit" /\ Listens
  /\ main' = "led" /\ SetLedPattern("main", "off")
  /\ UNCHANGED <<rec, play, moves>>

(* Back from setLedPattern.                                                *)
RecorderResumes ==
  /\ Resume("rec")
  /\ rec' = IF rec = "solid" THEN "reading" ELSE "none"
  /\ UNCHANGED <<play, main, moves>>

PlayerResumes ==
  /\ Resume("play")
  /\ play' = IF play = "breathing" THEN "reading" ELSE "none"
  /\ UNCHANGED <<rec, main, moves>>

MainResumes ==
  /\ Resume("main")
  /\ main' = "done"
  /\ UNCHANGED <<rec, play, moves>>

PadMoves(p) ==
  /\ moves < MaxMoves /\ moves' = moves + 1
  /\ \E n \in 0..MAX_PADS : MovePad(p, n)
  /\ UNCHANGED users

Led(t) == LedStep(t) /\ UNCHANGED <<users, moves>>

UsersNext ==
  /\ main # "done"
  /\ \/ StartRecording \/ StopRecording \/ StartPlaying \/ EndReading \/ EndWriting
     \/ Exit \/ ExitLed
     \/ RecorderResumes \/ PlayerResumes \/ MainResumes
     \/ \E t \in Threads : Led(t)
     \/ \E p \in Pads : PadMoves(p)

UsersSpec == UsersInit /\ [][UsersNext]_userVars

-----------------------------------------------------------------------------
UsersTypeOK ==
  /\ LedTypeOK
  /\ rec \in {"none", "solid", "reading", "off"}
  /\ play \in {"none", "breathing", "reading", "writing", "off"}
  /\ main \in {"serve", "exit", "led", "done"} /\ moves \in 0..MaxMoves

LedPads == Attached \cap HasLed
Idle == rec = "none" /\ play = "none"

(* What setLedPattern leaves, as long as no two calls have overlapped and  *)
(* no pad moved meanwhile: a pad with an LED is found if there is one, and *)
(* shows what was asked for; the others are dark.  A call that has         *)
(* retried, because the pad was gone, has turned the new pad off instead.  *)
Shows(pattern) ==
  /\ padId \in LedPads
  /\ \A p \in LedPads : lit[p] = IF p = padId THEN pattern ELSE "off"
Judged(t) ==
  call[t].pc = "returned" /\ t \notin moved /\ ~overlapped /\ LedPads # {}
LedShown ==
  \A t \in Threads :
    Judged(t) => Shows(IF call[t].retry THEN "off" ELSE call[t].type)

(* As long as no two calls have ever overlapped: with neither recorder nor *)
(* player at work, or after the exit, no LED is lit, whatever pads came    *)
(* and went: none is forgotten when another one is found.  When two calls  *)
(* have overlapped in initPad, one may be (notifled.c:45): the second call *)
(* sends the pattern of the first to another pad.                          *)
DarkWhenIdle ==
  (Idle \/ main = "done") /\ ~overlapped => \A p \in LedPads : lit[p] = "off"

(* notifled.c:82 says of the retry that the pad may have been disconnected *)
(* and that it is looked for and tried again: the pattern that was asked   *)
(* for would be on the pad that is found.                                  *)
RetryShowsPattern ==
  \A t \in Threads : Judged(t) => Shows(call[t].type)
==============================================================================
