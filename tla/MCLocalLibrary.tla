---------------------------- MODULE MCLocalLibrary ----------------------------
(* Two processes on one plain library; the processes are interchangeable.   *)
EXTENDS LocalLibrary, TLC

CONSTANTS h1, h2, b1, b2

TwoHosts == {h1, h2}
TwoBytes == {b1, b2}
Symmetry == Permutations(TwoHosts) \cup Permutations(TwoBytes)
=============================================================================
