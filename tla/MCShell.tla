------------------------------- MODULE MCShell -------------------------------
(***************************************************************************)
(* Two guests and an admin on one tab.                                     *)
(***************************************************************************)
EXTENDS Shell

Symmetry == Permutations(Profiles)
====
