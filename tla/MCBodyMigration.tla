--------------------------- MODULE MCBodyMigration ---------------------------
(***************************************************************************)
(* Two sources of one library: every combination of active sources and of  *)
(* sources whose deletion had begun, with and without a residual body.     *)
(***************************************************************************)
EXTENDS BodyMigration
=============================================================================
