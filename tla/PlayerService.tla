---------------------------- MODULE PlayerService ----------------------------
(* What the player promises the rest of the service, whatever its queue and *)
(* the macro file do: the flag is set from start_play until the reader has  *)
(* read the file; the writer goes on alone and ends after it, and nobody    *)
(* waits for it.  Player implements it as long as its threads can be made,  *)
(* and PadMacro contains it.                                                *)
VARIABLES g_playing,     \* the flag
          playr, playw,  \* the two threads
          crashed        \* a thread that still ran was closed

vars == <<g_playing, playr, playw, crashed>>

Init ==
  /\ g_playing = FALSE /\ crashed = FALSE
  /\ playr = "none" /\ playw = "none"

Start ==
  /\ ~crashed /\ ~g_playing /\ playr \in {"none", "exited"}
  /\ crashed' = (playw = "running")
  /\ g_playing' = TRUE
  /\ playr' = "starting" /\ playw' = "running"

ReadBegins ==
  /\ playr = "starting" /\ playr' = "reading"
  /\ UNCHANGED <<g_playing, playw, crashed>>

(* The end of the file, and of the time in which nothing else may start.    *)
ReadEnds ==
  /\ playr = "reading" /\ playr' = "exited"
  /\ g_playing' = FALSE
  /\ UNCHANGED <<playw, crashed>>

WriteEnds ==
  /\ playw = "running" /\ playr = "exited" /\ ~g_playing
  /\ playw' = "exited"
  /\ UNCHANGED <<g_playing, playr, crashed>>

Next == ~crashed /\ (Start \/ ReadBegins \/ ReadEnds \/ WriteEnds)

Spec == Init /\ [][Next]_vars
==============================================================================
