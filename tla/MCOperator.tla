----------------------------- MODULE MCOperator -----------------------------
(***************************************************************************)
(* Values of the constants of Operator for TLC.                            *)
(***************************************************************************)
EXTENDS Operator

EveryBundle == {{"fw"}, {"app"}, {"fw", "app"}}
=============================================================================
