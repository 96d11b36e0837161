--------------------------- MODULE MCCommandLine ---------------------------
(***************************************************************************)
(* Values of the constants of CommandLine for TLC.                         *)
(***************************************************************************)
EXTENDS CommandLine

\* Up to two actions, with and without each modifier, and the unknown flag.
UpToTwo ==
    {{a, b} \cup m : a \in ActionFlags, b \in ActionFlags,
                     m \in SUBSET {"update_type", "debug"}}
    \cup SUBSET {"update_type", "debug", "help"}
=============================================================================
