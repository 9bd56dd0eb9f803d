----------------------------- MODULE MCRecorder -----------------------------
(* Instances of Recorder for TLC: the constants are given their values in  *)
(* the .cfg files.                                                         *)
EXTENDS Recorder
=============================================================================
