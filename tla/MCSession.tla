----------------------------- MODULE MCSession -----------------------------
(***************************************************************************)
(* Values of the constants of Session for TLC.                             *)
(***************************************************************************)
EXTENDS Session, TLC

\* Any process may play the part of any other.
Symmetry == Permutations(Procs)
=============================================================================
