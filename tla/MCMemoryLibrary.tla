--------------------------- MODULE MCMemoryLibrary ---------------------------
(***************************************************************************)
(* Instances of MemoryLibrary.                                             *)
(***************************************************************************)
EXTENDS MemoryLibrary, TLC

MemorySymmetry ==
    Permutations(Lineages) \cup Permutations(Proposals) \cup Permutations(Memories)
      \cup Permutations(MemoryLineages)
=============================================================================
