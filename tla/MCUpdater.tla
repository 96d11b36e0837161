----------------------------- MODULE MCUpdater -----------------------------
(***************************************************************************)
(* Values of the constants of Updater for TLC.                             *)
(***************************************************************************)
EXTENDS Updater

\* A firmware package, an application package and a combined one.
EveryBundle == {{"fw"}, {"app"}, {"fw", "app"}}
=============================================================================
