---------------------------- MODULE MCSourceVault ----------------------------
(***************************************************************************)
(* A small library: s1 is the first version in lineage l1, s2 and s3 are   *)
(* competing updates of it.                                                *)
(***************************************************************************)
EXTENDS SourceVault

CONSTANTS s1, s2, s3, l1

MCLineage == [s \in Sources |-> l1]
MCSupersedes == [s \in Sources |-> IF s = s1 THEN NoSource ELSE s1]
MCBody == [s \in Sources |-> IF s = s1 THEN 1 ELSE 2]
=============================================================================
