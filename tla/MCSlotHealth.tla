---------------------------- MODULE MCSlotHealth ----------------------------
(***************************************************************************)
(* Values of the constants of SlotHealth for TLC.                          *)
(***************************************************************************)
EXTENDS SlotHealth

EveryBundle == {{"fw"}, {"app"}, {"fw", "app"}}
=============================================================================
