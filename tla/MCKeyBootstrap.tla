---------------------------- MODULE MCKeyBootstrap ----------------------------
(***************************************************************************)
(* Two processes under the same profile, and one on another device that    *)
(* shares the library directory.                                           *)
(***************************************************************************)
EXTENDS KeyBootstrap

CONSTANTS h3, p1, p2

TwoDevices == [h \in Hosts |-> IF h = h3 THEN p2 ELSE p1]
=============================================================================
