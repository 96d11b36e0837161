---------------------------- MODULE MCSerialLog ----------------------------
(***************************************************************************)
(* Values of the constants of SerialLog for TLC.                           *)
(***************************************************************************)
EXTENDS SerialLog

CONSTANTS t1, t2
=============================================================================
