------------------------------- MODULE MCBeach -------------------------------
(***************************************************************************)
(* Visitor v1 goes to three activities, so that two calls at once cannot   *)
(* fill the table with v1's bookings, and meets v2 at one with one place.  *)
(***************************************************************************)
EXTENDS Beach

MCInputs == {<<"surf", "v1">>, <<"yoga", "v1">>, <<"tour", "v1">>, <<"surf", "v2">>,
             <<NoId, "v1">>, <<"surf", NoId>>}
MCCapacity == [a \in Activities |-> IF a = "tour" THEN 2 ELSE 1]
====
