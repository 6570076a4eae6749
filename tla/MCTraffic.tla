------------------------------ MODULE MCTraffic ------------------------------
(***************************************************************************)
(* Two loops on one guest; the page is left and opened again once.         *)
(***************************************************************************)
EXTENDS Traffic

Symmetry == Permutations(Lanes)
====
