----------------------------- MODULE MCPairQueue -----------------------------
(* Instances of HdlsStatePairQueue for TLC: the constants are given their   *)
(* values in the .cfg file.                                                 *)
EXTENDS HdlsStatePairQueue
==============================================================================
