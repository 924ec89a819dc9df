---------------------------- MODULE MCDesktopHost ----------------------------
(***************************************************************************)
(* One host on its own library, from the plaintext library through its     *)
(* migration to the encrypted one.                                         *)
(***************************************************************************)
EXTENDS DesktopHost
==============================================================================
