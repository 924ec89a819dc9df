---------------------------- MODULE MCFileEntry ----------------------------
(* Two exporters, one target that is also the selected file, and as many    *)
(* temporary names as given.                                                *)
EXTENDS FileEntry, TLC

CONSTANT a

Target == {"target"}
TargetAndTemps == {"target"} \cup Temps
TwoChunks == <<a, a>>
Symmetry == Permutations(Writers) \cup Permutations(Temps)
=============================================================================
