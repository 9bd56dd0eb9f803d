---------------------------- MODULE MCPadMacro ----------------------------
(* Instances of PadMacro for TLC.                                           *)
EXTENDS PadMacro

CONSTANTS A, B,  \* buttons
          p, q   \* paths

Macro(mask, file) == [mask |-> mask, path |-> file]

(* One configuration in which the combinations overlap, one that only       *)
(* plays, one with the recorder enabled and its mask left at 0.             *)
MCConfigs ==
  {[recordButtonMask |-> {A}, playLatestButtonMask |-> {A, B},
    recorderEnable |-> TRUE, playerEnable |-> TRUE,
    macros |-> <<Macro({B}, p)>>],
   [recordButtonMask |-> {A}, playLatestButtonMask |-> {B},
    recorderEnable |-> FALSE, playerEnable |-> TRUE,
    macros |-> <<Macro({A, B}, p), Macro({A}, q)>>],
   [recordButtonMask |-> {}, playLatestButtonMask |-> {},
    recorderEnable |-> TRUE, playerEnable |-> FALSE, macros |-> <<>>]}
=============================================================================
