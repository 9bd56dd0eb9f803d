---------------------------- MODULE MCIpcServer ----------------------------
(* Instances of IpcServer for TLC.                                         *)
EXTENDS IpcServer
=============================================================================
