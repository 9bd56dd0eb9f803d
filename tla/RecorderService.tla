--------------------------- MODULE RecorderService ---------------------------
(* What the recorder promises the rest of the service, whatever its queue   *)
(* and its files do: recorder_switch starts two threads or stops them, and  *)
(* when it has stopped them both have ended, the writer after the reader.   *)
(* Recorder implements it as long as its threads can be made, and PadMacro  *)
(* contains it: what PadMacro leaves out of the recorder is left out        *)
(* rightly.                                                                 *)
VARIABLES g_recording, \* the flag
          stopping,    \* recorder_switch waits in stop_recording
          recr, recw   \* the two threads

vars == <<g_recording, stopping, recr, recw>>

Init ==
  /\ g_recording = FALSE /\ stopping = FALSE
  /\ recr = "none" /\ recw = "none"

Start ==
  /\ ~g_recording /\ ~stopping
  /\ recr = "none" /\ recw = "none"
  /\ g_recording' = TRUE
  /\ recr' = "starting" /\ recw' = "starting"
  /\ UNCHANGED stopping

Stop ==
  /\ g_recording /\ ~stopping
  /\ g_recording' = FALSE /\ stopping' = TRUE
  /\ UNCHANGED <<recr, recw>>

StopReturns ==
  /\ stopping /\ recr = "exited" /\ recw = "exited"
  /\ stopping' = FALSE
  /\ recr' = "none" /\ recw' = "none"
  /\ UNCHANGED g_recording

ReadBegins ==
  /\ recr = "starting" /\ recr' = "running"
  /\ UNCHANGED <<g_recording, stopping, recw>>

ReadEnds ==
  /\ recr = "running" /\ ~g_recording
  /\ recr' = "exited"
  /\ UNCHANGED <<g_recording, stopping, recw>>

WriteBegins ==
  /\ recw = "starting" /\ recw' = "writing"
  /\ UNCHANGED <<g_recording, stopping, recr>>

WriteEnds ==
  /\ recw = "writing" /\ recr = "exited" /\ ~g_recording
  /\ recw' = "exited"
  /\ UNCHANGED <<g_recording, stopping, recr>>

Next ==
  \/ Start \/ Stop \/ StopReturns
  \/ ReadBegins \/ ReadEnds \/ WriteBegins \/ WriteEnds

Spec == Init /\ [][Next]_vars
==============================================================================
