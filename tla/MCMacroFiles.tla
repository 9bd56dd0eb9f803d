---------------------------- MODULE MCMacroFiles ----------------------------
(* Instances of MacroFiles, and with it of Store, for TLC.                  *)
EXTENDS MacroFiles

CONSTANTS f1, f2,  \* files
          s        \* what a pair holds

Run == Pair(s, 1)
MCContents == {<<>>, <<Run>>, <<Run, Run>>}
MCServed == [f \in {f1, f2} |-> IF f = f1 THEN <<Run, Run>> ELSE <<Run>>]
MCEmpty == <<>>
=============================================================================
