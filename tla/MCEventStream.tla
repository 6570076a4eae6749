---------------------------- MODULE MCEventStream ----------------------------
(***************************************************************************)
(* A page with the two streams StrictMode opens and a third to reconnect,  *)
(* two events of an airport, a guest or the admin, lists of three events,  *)
(* one fault. The violation opens the page twice.                          *)
(***************************************************************************)
EXTENDS EventStream
====
