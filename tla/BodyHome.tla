------------------------------- MODULE BodyHome -------------------------------
(***************************************************************************)
(* What the migration of the inline bodies promises, without files, rows   *)
(* or checkpoints: every body is moved from the database into an object,   *)
(* it is never without a home, it never moves back, and the library is     *)
(* declared ready only when the last body has left the database.           *)
(***************************************************************************)
CONSTANT Sources

VARIABLES home,     \* where the body of each source can be read
          ready     \* the library is declared migrated

Homes == {"nowhere", "inline", "both", "object"}

(* A source without a body was deleted before the migration.                *)
HomeInit ==
    /\ home \in [Sources -> {"nowhere", "inline"}]
    /\ ready = FALSE

Publish(s) ==
    /\ home[s] = "inline"
    /\ home' = [home EXCEPT ![s] = "both"]
    /\ UNCHANGED ready

Retire(s) ==
    /\ home[s] = "both"
    /\ home' = [home EXCEPT ![s] = "object"]
    /\ UNCHANGED ready

DeclareReady ==
    /\ \A s \in Sources : home[s] \in {"nowhere", "object"}
    /\ ready' = TRUE
    /\ UNCHANGED home

HomeNext ==
    \/ \E s \in Sources : Publish(s) \/ Retire(s)
    \/ DeclareReady

HomeSpec == HomeInit /\ [][HomeNext]_<<home, ready>>
=============================================================================
