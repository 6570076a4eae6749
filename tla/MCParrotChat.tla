---------------------------- MODULE MCParrotChat ----------------------------
(***************************************************************************)
(* One guest, three messages, two posts at once; the parrot remembers two  *)
(* turns, so that the third is one too many.                               *)
(***************************************************************************)
EXTENDS ParrotChat
====
