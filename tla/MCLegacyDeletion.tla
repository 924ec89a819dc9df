-------------------------- MODULE MCLegacyDeletion --------------------------
(* One source with a memory record that supersedes another one.             *)
EXTENDS LegacyDeletion, TLC

CONSTANTS p1, p2, m1, m2

TwoRecords == m1 :> p1 @@ m2 :> p2
OneSupersession == {<<m2, m1>>}
=============================================================================
