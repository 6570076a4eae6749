------------------------------ MODULE MCAirport ------------------------------
(***************************************************************************)
(* Passport control with two gates and four request bodies: non-EU guests  *)
(* of every rank, who can all meet at one gate, and an EU guest, who can   *)
(* spill over. One guest id registers twice.                               *)
(***************************************************************************)
EXTENDS Airport

Body(id, passport, prio, dis) ==
    [guest_id |-> id, passport_type |-> passport, priority |-> prio, disability |-> dis]

MCGuests == {"g1", "g2"}
MCInputs == {Body("g1", "non-EU", "standard", FALSE),
             Body("g2", "non-EU", "fast", FALSE),
             Body("g2", "non-EU", "standard", TRUE),
             Body("g1", "EU", "standard", FALSE)}
====
