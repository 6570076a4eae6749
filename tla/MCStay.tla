------------------------------- MODULE MCStay -------------------------------
(***************************************************************************)
(* One guest, three activities, of which one costs more, and two           *)
(* reservations: one pays for all activities, one for the cheaper ones.    *)
(***************************************************************************)
EXTENDS Stay

MCCost == [a \in Activities |-> IF a = "surf" THEN 2 ELSE 1]
MCRate == [t \in Rooms |-> IF t = "STANDARD" THEN 1 ELSE 2]
MCPackage == [r \in Reservations |->
    IF r = "r1" THEN [room_type |-> "SUITE", check_in_day |-> 0, check_out_day |-> 2]
                ELSE [room_type |-> "STANDARD", check_in_day |-> 1, check_out_day |-> 1]]
====
