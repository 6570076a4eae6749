------------------------------- MODULE MCHotel -------------------------------
(***************************************************************************)
(* Two rooms for two guests each, and stays that overlap by one night. Two *)
(* more bodies are refused: for its days, and for the size of the party.   *)
(***************************************************************************)
EXTENDS Hotel, TLC

Body(id, party, count, from, to) ==
    [guest_id |-> id, party_guest_ids |-> party, room_type |-> "STANDARD",
     guest_count |-> count, check_in_day |-> from, check_out_day |-> to]

MCType == [r \in Rooms |-> "STANDARD"]
MCCapacity == [r \in Rooms |-> 2]
MCBodies == {Body("g1", {}, 1, 0, 2), Body("g1", {"g1", "g2"}, 2, 1, 3),
             Body("g1", {}, 1, 2, 2), Body("g1", {}, 3, 0, 2)}
MCSymmetry == Permutations(Calls)
====
