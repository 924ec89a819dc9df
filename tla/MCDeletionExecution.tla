------------------------- MODULE MCDeletionExecution -------------------------
(***************************************************************************)
(* Instances of DeletionExecution: three of the ten components (one that   *)
(* erases, one that retains, the minimal audit) and one clock reading.     *)
(***************************************************************************)
EXTENDS DeletionExecution, TLC

MCErasing == {1}

ExecutionSymmetry ==
    Permutations(Hosts) \cup Permutations(Requests) \cup Permutations(Objects)
=============================================================================
