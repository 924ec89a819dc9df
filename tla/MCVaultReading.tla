--------------------------- MODULE MCVaultReading ---------------------------
(* Two processes, two sources and one trouble of each kind.                 *)
EXTENDS VaultReading

AllTrouble == [k \in Kinds |-> 1]
=============================================================================
