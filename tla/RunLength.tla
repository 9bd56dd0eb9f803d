------------------------------ MODULE RunLength ------------------------------
(***************************************************************************)
(* The macro file format: a sequence of HdlsStatePair, each a pad state    *)
(* and the number of frames it is held (common/HdlsStatePairQueue.h:12-17).*)
(* Left and right halves of a pair are one value here: the program always  *)
(* reads, compares, stores and writes them together.                       *)
(***************************************************************************)
EXTENDS Naturals, Sequences, SequencesExt

Pair(s, n) == [state |-> s, count |-> n]

(* The same state for n frames.                                            *)
Repeat(s, n) == [i \in 1..n |-> s]

(* The frames a sequence of pairs stands for.                              *)
Expand(pairs) ==
  FlattenSeq([i \in DOMAIN pairs |-> Repeat(pairs[i].state, pairs[i].count)])
==============================================================================
