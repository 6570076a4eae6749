-------------------------------- MODULE Hotel --------------------------------
(***************************************************************************)
(* Reservations (src/services/hotel): NestJS handlers over the tables of   *)
(* rooms and reservations. Every await is a point where other calls run;   *)
(* each Prisma call is a transaction of its own, and no constraint of the  *)
(* schema keeps two reservations of a room apart.                          *)
(***************************************************************************)
EXTENDS Integers, FiniteSetsExt

CONSTANTS
    Rooms,            \* 1..n, in the order of their ids
    Type,             \* column type
    Capacity,         \* column capacity
    Guests,           \* guest ids
    Travellers,       \* the guests who pass the airport, the others did so before
    Bodies,           \* bodies of POST /reservation that pass the pipe
    Days,             \* simulation days
    Calls,            \* HTTP calls in progress at once
    MaxReservations   \* bound: rows created

CreateReservationDto ==
    [guest_id : Guests,
     party_guest_ids : SUBSET Guests,   \* {}: the field is absent
     room_type : {"STANDARD", "DELUXE", "SUITE"},
     guest_count : Nat \ {0}, check_in_day : Int, check_out_day : Int]

ASSUME HotelAssumption ==
    /\ IsFiniteSet(Rooms) /\ Rooms \subseteq Nat
    /\ Type \in [Rooms -> {"STANDARD", "DELUXE", "SUITE"}]
    /\ Capacity \in [Rooms -> Nat]
    /\ IsFiniteSet(Guests) /\ Travellers \subseteq Guests
    /\ Bodies \subseteq CreateReservationDto
    /\ Days \subseteq Int
    /\ IsFiniteSet(Calls) /\ Calls # {}
    /\ MaxReservations \in Nat

Reservations == 1 .. MaxReservations
NoBody == [guest_id |-> "none"]

VARIABLES
    \* Tables reservation and reservation_guest; rows are never deleted.
    status,       \* "none" (no row), "CONFIRMED" or "CANCELLED"
    reserved,     \* the body it was made from
    room,         \* room_id, 0 when there is no row
    \* What GET /arrivals/<guest> of the airport finds.
    arrival,      \* "not_started", "queued" (or "processing") or "processed"
    \* The calls.
    pc,           \* where the call stands
    body,         \* create: its body
    asked,        \* create: guests whose airport lookup is not back yet
    blocked,      \* create: a lookup said "not processed"
    scan,         \* create: rooms not yet looked at
    target,       \* the room create found; the reservation cancel works on
    \* History.
    confirmations, cancellations,   \* events published for a reservation
    unknown,      \* create: guests whose lookup failed
    uncleared,     \* create: guests not cleared ever since the call began
    freeSince     \* create: rooms that were free ever since the call began

tables == <<status, reserved, room>>
locals == <<body, asked, blocked, scan, target, unknown>>
events == <<confirmations, cancellations>>
vars == <<tables, arrival, pc, locals, events, uncleared, freeSince>>

----------------------------------------------------------------------------
capacityGuestCount(b) ==
    IF b.party_guest_ids = {} THEN b.guest_count ELSE Cardinality(b.party_guest_ids)

partyGuestIds(b) ==
    IF b.party_guest_ids = {} THEN {b.guest_id} ELSE b.party_guest_ids

wellFormed(b) ==
    /\ b.check_out_day > b.check_in_day
    /\ b.guest_id \in partyGuestIds(b)

roomsOf(b) == {r \in Rooms : Type[r] = b.room_type}
largeEnough(b) == {r \in roomsOf(b) : capacityGuestCount(b) <= Capacity[r]}

\* The WHERE of the count: confirmed reservations of the room that overlap.
overlapping(r, from, to) ==
    {x \in Reservations :
        /\ status[x] = "CONFIRMED" /\ room[x] = r
        /\ reserved[x].check_in_day < to
        /\ reserved[x].check_out_day > from}

free(r, b) == overlapping(r, b.check_in_day, b.check_out_day) = {}

\* GET /rooms: the reservations that cover the day.
occupying(r, day) ==
    {x \in Reservations :
        /\ status[x] = "CONFIRMED" /\ room[x] = r
        /\ reserved[x].check_in_day <= day
        /\ reserved[x].check_out_day > day}

----------------------------------------------------------------------------
Init ==
    /\ status = [x \in Reservations |-> "none"]
    /\ reserved = [x \in Reservations |-> NoBody]
    /\ room = [x \in Reservations |-> 0]
    /\ arrival = [g \in Guests |-> IF g \in Travellers THEN "not_started" ELSE "processed"]
    /\ pc = [s \in Calls |-> "idle"]
    /\ body = [s \in Calls |-> NoBody]
    /\ asked = [s \in Calls |-> {}]
    /\ blocked = [s \in Calls |-> FALSE]
    /\ scan = [s \in Calls |-> {}]
    /\ target = [s \in Calls |-> 0]
    /\ confirmations = [x \in Reservations |-> 0]
    /\ cancellations = [x \in Reservations |-> 0]
    /\ unknown = [s \in Calls |-> {}]
    /\ uncleared = [s \in Calls |-> {}]
    /\ freeSince = [s \in Calls |-> {}]

(***************************************************************************)
(* create                                                                  *)
(***************************************************************************)

\* The checks before the first await, then all lookups are sent at once.
Create(s, b) ==
    /\ pc[s] = "idle"
    /\ body' = [body EXCEPT ![s] = b]
    /\ pc' = [pc EXCEPT ![s] = IF wellFormed(b) THEN "airport" ELSE "rejected"]
    /\ asked' = [asked EXCEPT ![s] = IF wellFormed(b) THEN partyGuestIds(b) ELSE {}]
    /\ UNCHANGED <<tables, arrival, blocked, scan, target, unknown, events>>

\* Mutant: only the lookup of the guest who pays counts.
AirportAnswersForPayer(s, g) ==
    /\ pc[s] = "airport"
    /\ g \in asked[s]
    /\ asked' = [asked EXCEPT ![s] = @ \ {g}]
    /\ blocked' = [blocked EXCEPT ![s] = @ \/ (arrival[g] # "processed" /\ g = body[s].guest_id)]
    /\ UNCHANGED <<tables, arrival, pc, body, scan, target, unknown, events>>

\* hasGuestClearedProcessing: the airport answers 200 also for a guest it has
\* never seen.
AirportAnswers(s, g) ==
    /\ pc[s] = "airport"
    /\ g \in asked[s]
    /\ asked' = [asked EXCEPT ![s] = @ \ {g}]
    /\ blocked' = [blocked EXCEPT ![s] = @ \/ arrival[g] # "processed"]
    /\ UNCHANGED <<tables, arrival, pc, body, scan, target, unknown, events>>

\* The airport is down, or answers with an error: null, which blocks no one.
AirportFails(s, g) ==
    /\ pc[s] = "airport"
    /\ g \in asked[s]
    /\ asked' = [asked EXCEPT ![s] = @ \ {g}]
    /\ unknown' = [unknown EXCEPT ![s] = @ \cup {g}]
    /\ UNCHANGED <<tables, arrival, pc, body, blocked, scan, target, events>>

\* All lookups are back; the rooms of the type are read. The capacity check
\* refuses when no room of the type is large enough.
FindRooms(s) ==
    /\ pc[s] = "airport"
    /\ asked[s] = {}
    /\ pc' = [pc EXCEPT ![s] =
                IF blocked[s] \/ largeEnough(body[s]) = {} THEN "rejected" ELSE "scan"]
    /\ scan' = [scan EXCEPT ![s] = IF pc'[s] = "scan" THEN largeEnough(body[s]) ELSE {}]
    /\ UNCHANGED <<tables, arrival, body, asked, blocked, target, unknown, events>>

\* Mutants: the last room is not looked at; a room is taken unseen.
CountOverlapsSkipLast(s) ==
    /\ pc[s] = "scan"
    /\ \E r \in scan[s] :
        /\ \A q \in scan[s] : r <= q
        /\ scan' = [scan EXCEPT ![s] = IF free(r, body[s]) THEN {} ELSE @ \ {r}]
        /\ target' = [target EXCEPT ![s] = IF free(r, body[s]) THEN r ELSE 0]
        /\ pc' = [pc EXCEPT ![s] = IF free(r, body[s]) THEN "insert"
                                   ELSE IF Cardinality(scan[s]) <= 2 THEN "full" ELSE "scan"]
    /\ UNCHANGED <<tables, arrival, body, asked, blocked, unknown, events>>
CountOverlapsUnseen(s) ==
    /\ pc[s] = "scan"
    /\ \E r \in scan[s] :
        /\ \A q \in scan[s] : r <= q
        /\ scan' = [scan EXCEPT ![s] = {}]
        /\ target' = [target EXCEPT ![s] = r]
        /\ pc' = [pc EXCEPT ![s] = "insert"]
    /\ UNCHANGED <<tables, arrival, body, asked, blocked, unknown, events>>

\* One turn of the loop over the rooms: its count is one query.
CountOverlaps(s) ==
    /\ pc[s] = "scan"
    /\ \E r \in scan[s] :
        /\ \A q \in scan[s] : r <= q
        /\ \/ /\ free(r, body[s])
              /\ pc' = [pc EXCEPT ![s] = "insert"]
              /\ scan' = [scan EXCEPT ![s] = {}]
              /\ target' = [target EXCEPT ![s] = r]
           \/ /\ ~free(r, body[s])
              /\ pc' = [pc EXCEPT ![s] = IF scan[s] = {r} THEN "full" ELSE "scan"]
              /\ scan' = [scan EXCEPT ![s] = @ \ {r}]
              /\ UNCHANGED target
    /\ UNCHANGED <<tables, arrival, body, asked, blocked, unknown, events>>

\* The row is written whatever happened to the room since.
Insert(s) ==
    /\ pc[s] = "insert"
    /\ \E x \in Reservations :
        /\ status[x] = "none" /\ \A y \in Reservations : y < x => status[y] # "none"
        /\ status' = [status EXCEPT ![x] = "CONFIRMED"]
        /\ reserved' = [reserved EXCEPT ![x] = body[s]]
        /\ room' = [room EXCEPT ![x] = target[s]]
        /\ target' = [target EXCEPT ![s] = x]
    /\ pc' = [pc EXCEPT ![s] = "confirm"]
    /\ body' = [body EXCEPT ![s] = NoBody]
    /\ unknown' = [unknown EXCEPT ![s] = {}]
    /\ UNCHANGED <<arrival, asked, blocked, scan, events>>

\* publishHotelEvent tries once and swallows every failure.
PublishConfirmed(s) ==
    /\ pc[s] = "confirm"
    /\ pc' = [pc EXCEPT ![s] = "ok"]
    /\ confirmations' = [confirmations EXCEPT ![target[s]] = @ + 1]
    /\ target' = [target EXCEPT ![s] = 0]
    /\ UNCHANGED <<tables, arrival, body, asked, blocked, scan, unknown, cancellations>>

(***************************************************************************)
(* cancel                                                                  *)
(***************************************************************************)
\* Mutant: a reservation cancelled before is cancelled again.
CancelAgain(s, x) ==
    /\ pc[s] = "idle"
    /\ target' = [target EXCEPT ![s] = x]
    /\ pc' = [pc EXCEPT ![s] = IF status[x] = "none" THEN "rejected" ELSE "update"]
    /\ UNCHANGED <<tables, arrival, body, asked, blocked, scan, unknown, events>>

Cancel(s, x) ==
    /\ pc[s] = "idle"
    /\ target' = [target EXCEPT ![s] = x]
    /\ pc' = [pc EXCEPT ![s] = CASE status[x] = "none" -> "rejected"
                                 [] status[x] = "CANCELLED" -> "ok"
                                 [] OTHER -> "update"]
    /\ UNCHANGED <<tables, arrival, body, asked, blocked, scan, unknown, events>>

UpdateCancelled(s) ==
    /\ pc[s] = "update"
    /\ pc' = [pc EXCEPT ![s] = "cancelled"]
    /\ status' = [status EXCEPT ![target[s]] = "CANCELLED"]
    /\ UNCHANGED <<reserved, room, arrival, locals, events>>

PublishCancelled(s) ==
    /\ pc[s] = "cancelled"
    /\ pc' = [pc EXCEPT ![s] = "ok"]
    /\ cancellations' = [cancellations EXCEPT ![target[s]] = @ + 1]
    /\ target' = [target EXCEPT ![s] = 0]
    /\ UNCHANGED <<tables, arrival, body, asked, blocked, scan, unknown, confirmations>>

Answer(s) ==
    /\ pc[s] \in {"ok", "full", "rejected"}
    /\ pc' = [pc EXCEPT ![s] = "idle"]
    /\ body' = [body EXCEPT ![s] = NoBody]
    /\ blocked' = [blocked EXCEPT ![s] = FALSE]
    /\ target' = [target EXCEPT ![s] = 0]
    /\ unknown' = [unknown EXCEPT ![s] = {}]
    /\ UNCHANGED <<tables, arrival, asked, scan, events>>

(***************************************************************************)
(* The airport: a guest registers, also again, and is processed.           *)
(***************************************************************************)
Register(g) ==
    /\ arrival[g] # "queued"
    /\ arrival' = [arrival EXCEPT ![g] = "queued"]
    /\ UNCHANGED <<tables, pc, locals, events>>

Process(g) ==
    /\ arrival[g] = "queued"
    /\ arrival' = [arrival EXCEPT ![g] = "processed"]
    /\ UNCHANGED <<tables, pc, locals, events>>

----------------------------------------------------------------------------
creating(s) == pc[s] \in {"airport", "scan", "insert", "full"}

\* What was so in every state since the call began.
History ==
    /\ uncleared' = [s \in Calls |->
         IF ~creating(s)' THEN {}
         ELSE {g \in partyGuestIds(body'[s]) :
                 arrival'[g] # "processed" /\ (pc[s] = "idle" \/ g \in uncleared[s])}]
    /\ freeSince' = [s \in Calls |->
         IF ~creating(s)' THEN {}
         ELSE {r \in largeEnough(body'[s]) :
                 free(r, body[s])' /\ (pc[s] = "idle" \/ r \in freeSince[s])}]

Step(s) ==
    \/ \E b \in Bodies : Create(s, b)
    \/ \E g \in Guests : AirportAnswers(s, g) \/ AirportFails(s, g)
    \/ FindRooms(s) \/ CountOverlaps(s) \/ Insert(s) \/ PublishConfirmed(s)
    \/ \E x \in Reservations : Cancel(s, x)
    \/ UpdateCancelled(s) \/ PublishCancelled(s) \/ Answer(s)

Next ==
    /\ \/ \E s \in Calls : Step(s)
       \/ \E g \in Travellers : Register(g) \/ Process(g)
    /\ History

Spec == Init /\ [][Next]_vars

----------------------------------------------------------------------------
(***************************************************************************)
(* Properties                                                              *)
(***************************************************************************)

\* The type of the state.
TypeOK ==
    /\ status \in [Reservations -> {"none", "CONFIRMED", "CANCELLED"}]
    /\ reserved \in [Reservations -> CreateReservationDto \cup {NoBody}]
    /\ room \in [Reservations -> Rooms \cup {0}]
    /\ arrival \in [Guests -> {"not_started", "queued", "processed"}]
    /\ pc \in [Calls -> {"idle", "airport", "scan", "insert", "confirm",
                         "update", "cancelled", "ok", "full", "rejected"}]
    /\ body \in [Calls -> CreateReservationDto \cup {NoBody}]
    /\ asked \in [Calls -> SUBSET Guests]
    /\ blocked \in [Calls -> BOOLEAN]
    /\ scan \in [Calls -> SUBSET Rooms]
    /\ target \in [Calls -> Nat]
    /\ confirmations \in [Reservations -> Nat]
    /\ cancellations \in [Reservations -> Nat]
    /\ unknown \in [Calls -> SUBSET Guests]
    /\ uncleared \in [Calls -> SUBSET Guests]
    /\ freeSince \in [Calls -> SUBSET Rooms]

\* The calls that found the room free on the day and have yet to write.
holders(r, day) ==
    {s \in Calls : /\ pc[s] = "insert" /\ target[s] = r
                   /\ body[s].check_in_day <= day /\ day < body[s].check_out_day}

\* The count and the insert are two transactions, so two parties can get one
\* room for one night; but never more parties than there are calls in
\* progress at once. One call at a time never shares a room.
SharedRoomBound ==
    \A r \in Rooms, day \in Days :
        Cardinality(occupying(r, day)) + Cardinality(holders(r, day)) <= Cardinality(Calls)

\* "No available rooms" is true: no room that is large enough was free from
\* the call's beginning to its end, whatever was cancelled or booked while
\* the loop waited for its counts.
FullIsTrue == \A s \in Calls : pc[s] = "full" => freeSince[s] = {}

\* No room for a party of which one guest was not through passport control at
\* any time of the call, except where the lookup of that guest failed (the
\* lookups of a party run at once, and an airport that is down blocks no one).
PartyHasCleared ==
    \A s \in Calls : pc[s] \in {"scan", "insert"} => uncleared[s] \subseteq unknown[s]

\* Two cancels that both read "CONFIRMED" both publish; but no more than the
\* calls in progress at once, and never for a room that is still booked.
CancelledEvents ==
    \A x \in Reservations :
        /\ cancellations[x] > 0 => status[x] = "CANCELLED"
        /\ cancellations[x]
             + Cardinality({s \in Calls : pc[s] \in {"update", "cancelled"} /\ target[s] = x})
             <= Cardinality(Calls)
====
