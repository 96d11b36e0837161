---------------------------- MODULE MCOvertaken ----------------------------
(***************************************************************************)
(* Values of the constants of Overtaken for TLC.                           *)
(***************************************************************************)
EXTENDS Overtaken, TLC

\* Any process may play the part of any other.
Symmetry == Permutations(Procs)

\* Two sizes, so that the size of one package can be taken for the other's.
SomeSizes == [q \in Packages |-> IF q = "firmware" THEN 1 ELSE 2]
=============================================================================
