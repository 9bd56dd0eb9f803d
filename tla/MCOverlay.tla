----------------------------- MODULE MCOverlay -----------------------------
(* Instances of Overlay for TLC: the constants are given their values in    *)
(* the .cfg files.                                                          *)
EXTENDS Overlay

(* Which settings of section [pad] these are makes no difference.           *)
PadSymmetry == Permutations(Pads)
=============================================================================
