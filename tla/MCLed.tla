-------------------------------- MODULE MCLed --------------------------------
(* Instances of LedUsers for TLC.                                           *)
EXTENDS LedUsers

CONSTANTS p1, p2, p3  \* pads

MCThreads == {"rec", "play", "main"}
MCPatterns == {"off", "solid", "breathing"}
==============================================================================
