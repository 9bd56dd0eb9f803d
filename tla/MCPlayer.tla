------------------------------ MODULE MCPlayer ------------------------------
(* Instances of Player for TLC.                                             *)
EXTENDS Injection

CONSTANTS n, a, b  \* pad states; n is neutral

(* A file that cannot be opened, and one that does not fit in the queue;    *)
(* the latter ends as recordings do.                                        *)
MCMacros == {<<>>, <<Pair(a, 1), Pair(b, 2), Pair(n, 1)>>}
MCReaders == {"listen"}
=============================================================================
