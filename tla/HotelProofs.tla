----------------------------- MODULE HotelProofs -----------------------------
(***************************************************************************)
(* Proofs about Hotel, for any rooms, guests, bodies, days and calls.      *)
(***************************************************************************)
EXTENDS Hotel, FiniteSetTheorems, TLAPS

\* Where a call stands decides what it works on.
Path ==
    \A s \in Calls :
        /\ creating(s) => body[s] \in CreateReservationDto
        /\ pc[s] = "insert" => target[s] \in Rooms
        /\ pc[s] \in {"confirm", "update", "cancelled"} => target[s] \in Reservations
        /\ pc[s] = "update" => status[target[s]] # "none"
        /\ pc[s] = "cancelled" => status[target[s]] = "CANCELLED"

\* A row has a body.
RowInv == \A x \in Reservations : status[x] # "none" => reserved[x] \in CreateReservationDto

\* What a loop over the rooms has yet to look at.
ScanInv ==
    \A s \in Calls :
        /\ pc[s] = "scan" => freeSince[s] \subseteq scan[s]
        /\ pc[s] = "full" => freeSince[s] = {}

\* What the lookups of a party have yet to say.
LookupInv ==
    \A s \in Calls :
        /\ pc[s] = "idle" => unknown[s] = {} /\ blocked[s] = FALSE
        /\ pc[s] = "airport" /\ ~blocked[s] => uncleared[s] \subseteq asked[s] \cup unknown[s]

IInv ==
    /\ TypeOK /\ Path /\ RowInv
    /\ SharedRoomBound /\ CancelledEvents
    /\ ScanInv /\ LookupInv /\ PartyHasCleared

----------------------------------------------------------------------------
(***************************************************************************)
(* Types                                                                   *)
(***************************************************************************)
LEMMA PartyOfBody ==
    ASSUME NEW b \in CreateReservationDto
    PROVE  partyGuestIds(b) \subseteq Guests
  BY DEF partyGuestIds, CreateReservationDto

LEMMA ConstantFacts ==
    /\ Rooms \subseteq Nat /\ Reservations \subseteq Nat
    /\ Bodies \subseteq CreateReservationDto
    /\ Travellers \subseteq Guests
    /\ IsFiniteSet(Calls) /\ Cardinality(Calls) \in Nat
    /\ IsFiniteSet(Reservations)
<1>1. IsFiniteSet(Reservations)
  BY HotelAssumption, FS_Interval DEF Reservations
<1>2. Cardinality(Calls) \in Nat
  BY HotelAssumption, FS_CardinalityType
<1>. QED
  BY <1>1, <1>2, HotelAssumption DEF Reservations

\* The type of everything but the history of calls.
CoreType ==
    /\ status \in [Reservations -> {"none", "CONFIRMED", "CANCELLED"}]
    /\ reserved \in [Reservations -> CreateReservationDto \cup {NoBody}]
    /\ room \in [Reservations -> Rooms \cup {0}]
    /\ arrival \in [Guests -> {"not_started", "queued", "processed"}]
    /\ pc \in [Calls -> {"idle", "airport", "scan", "insert", "confirm",
                         "update", "cancelled", "ok", "full", "rejected"}]
    /\ body \in [Calls -> CreateReservationDto \cup {NoBody}]
    /\ asked \in [Calls -> SUBSET Guests]
    /\ blocked \in [Calls -> BOOLEAN]
    /\ scan \in [Calls -> SUBSET Rooms]
    /\ target \in [Calls -> Nat]
    /\ confirmations \in [Reservations -> Nat]
    /\ cancellations \in [Reservations -> Nat]
    /\ unknown \in [Calls -> SUBSET Guests]

LEMMA TypeSplit ==
    TypeOK <=> CoreType /\ uncleared \in [Calls -> SUBSET Guests] /\ freeSince \in [Calls -> SUBSET Rooms]
  BY DEF TypeOK, CoreType

LEMMA CoreStep ==
    ASSUME CoreType, Path, Next
    PROVE  CoreType'
<1>. USE ConstantFacts DEF CoreType, tables, locals, events
<1>1. ASSUME NEW s \in Calls, Step(s) PROVE CoreType'
  <2>1. ASSUME NEW b \in Bodies, Create(s, b) PROVE CoreType'
    <3>1. partyGuestIds(b) \subseteq Guests
      BY <2>1, PartyOfBody
    <3>. QED
      BY <2>1, <3>1 DEF Create
  <2>2. ASSUME NEW g \in Guests, AirportAnswers(s, g) \/ AirportFails(s, g) PROVE CoreType'
    <3>1. CASE AirportAnswers(s, g)
      <4>1. (blocked[s] \/ arrival[g] # "processed") \in BOOLEAN
        OBVIOUS
      <4>2. blocked' \in [Calls -> BOOLEAN]
        BY <3>1, <4>1 DEF AirportAnswers
      <4>. QED
        BY <3>1, <4>2 DEF AirportAnswers
    <3>2. CASE AirportFails(s, g)
      BY <3>2 DEF AirportFails
    <3>. QED
      BY <2>2, <3>1, <3>2
  <2>3. CASE FindRooms(s)
    <3>1. largeEnough(body[s]) \subseteq Rooms
      BY DEF largeEnough, roomsOf
    <3>. QED
      BY <2>3, <3>1 DEF FindRooms
  <2>4. CASE CountOverlaps(s)
    BY <2>4 DEF CountOverlaps
  <2>5. CASE Insert(s)
    BY <2>5 DEF Insert, Path, creating
  <2>6. CASE PublishConfirmed(s)
    BY <2>6 DEF PublishConfirmed, Path
  <2>7. ASSUME NEW x \in Reservations, Cancel(s, x) PROVE CoreType'
    BY <2>7 DEF Cancel
  <2>8. CASE UpdateCancelled(s)
    BY <2>8 DEF UpdateCancelled, Path
  <2>9. CASE PublishCancelled(s)
    BY <2>9 DEF PublishCancelled, Path
  <2>10. CASE Answer(s)
    BY <2>10 DEF Answer
  <2>. QED
    BY <1>1, <2>1, <2>2, <2>3, <2>4, <2>5, <2>6, <2>7, <2>8, <2>9, <2>10 DEF Step
<1>2. ASSUME NEW g \in Travellers, Register(g) \/ Process(g) PROVE CoreType'
  BY <1>2 DEF Register, Process
<1>. QED
  BY <1>1, <1>2 DEF Next

----------------------------------------------------------------------------
(***************************************************************************)
(* Where calls stand, and rows                                             *)
(***************************************************************************)
LEMMA PathStep ==
    ASSUME CoreType, Path, RowInv, Next
    PROVE  Path' /\ RowInv'
<1>. USE ConstantFacts DEF CoreType, Path, RowInv, creating, tables, locals, events
<1>1. ASSUME NEW s \in Calls, Step(s) PROVE Path' /\ RowInv'
  <2>1. ASSUME NEW b \in Bodies, Create(s, b) PROVE Path' /\ RowInv'
    BY <2>1 DEF Create
  <2>2. ASSUME NEW g \in Guests, AirportAnswers(s, g) \/ AirportFails(s, g) PROVE Path' /\ RowInv'
    BY <2>2 DEF AirportAnswers, AirportFails
  <2>3. CASE FindRooms(s)
    BY <2>3 DEF FindRooms
  <2>4. CASE CountOverlaps(s)
    BY <2>4 DEF CountOverlaps
  <2>5. CASE Insert(s)
    <3>1. PICK x \in Reservations :
            /\ status[x] = "none"
            /\ status' = [status EXCEPT ![x] = "CONFIRMED"]
            /\ reserved' = [reserved EXCEPT ![x] = body[s]]
            /\ target' = [target EXCEPT ![s] = x]
      BY <2>5 DEF Insert
    <3>2. pc[s] = "insert" /\ pc' = [pc EXCEPT ![s] = "confirm"] /\ body' = [body EXCEPT ![s] = NoBody]
      BY <2>5 DEF Insert
    <3>3. RowInv'
      BY <3>1, <3>2
    <3>4. Path'
      BY <3>1, <3>2
    <3>. QED
      BY <3>3, <3>4
  <2>6. CASE PublishConfirmed(s)
    BY <2>6 DEF PublishConfirmed
  <2>7. ASSUME NEW x \in Reservations, Cancel(s, x) PROVE Path' /\ RowInv'
    BY <2>7 DEF Cancel
  <2>8. CASE UpdateCancelled(s)
    BY <2>8 DEF UpdateCancelled
  <2>9. CASE PublishCancelled(s)
    BY <2>9 DEF PublishCancelled
  <2>10. CASE Answer(s)
    BY <2>10 DEF Answer
  <2>. QED
    BY <1>1, <2>1, <2>2, <2>3, <2>4, <2>5, <2>6, <2>7, <2>8, <2>9, <2>10 DEF Step
<1>2. ASSUME NEW g \in Travellers, Register(g) \/ Process(g) PROVE Path' /\ RowInv'
  BY <1>2 DEF Register, Process
<1>. QED
  BY <1>1, <1>2 DEF Next

LEMMA TypeStep ==
    ASSUME TypeOK, Path, RowInv, Next
    PROVE  TypeOK'
<1>1. CoreType' /\ Path'
  BY TypeSplit, CoreStep, PathStep
<1>2. uncleared' \in [Calls -> SUBSET Guests]
  <2>1. \A s \in Calls : creating(s)' => partyGuestIds(body'[s]) \subseteq Guests
    BY <1>1, PartyOfBody DEF Path
  <2>. QED
    BY <2>1 DEF Next, History
<1>3. freeSince' \in [Calls -> SUBSET Rooms]
  BY DEF Next, History, largeEnough, roomsOf
<1>. QED
  BY <1>1, <1>2, <1>3 DEF TypeOK, CoreType

----------------------------------------------------------------------------
(***************************************************************************)
(* The history of a call                                                   *)
(***************************************************************************)

\* While a call goes on, what was so in every state only becomes less.
LEMMA HistoryShrinks ==
    ASSUME Next, NEW s \in Calls, creating(s)'
    PROVE  /\ uncleared'[s] \subseteq partyGuestIds(body'[s])
           /\ \A g \in uncleared'[s] : arrival'[g] # "processed"
           /\ freeSince'[s] \subseteq largeEnough(body'[s])
           /\ \A r \in freeSince'[s] : free(r, body[s])'
           /\ pc[s] # "idle" => uncleared'[s] \subseteq uncleared[s] /\ freeSince'[s] \subseteq freeSince[s]
<1>1. uncleared'[s] = {g \in partyGuestIds(body'[s]) :
                 arrival'[g] # "processed" /\ (pc[s] = "idle" \/ g \in uncleared[s])}
  BY DEF Next, History
<1>2. freeSince'[s] = {r \in largeEnough(body'[s]) :
                 free(r, body[s])' /\ (pc[s] = "idle" \/ r \in freeSince[s])}
  BY DEF Next, History
<1>. QED
  BY <1>1, <1>2

\* What a step does to the locals of a call that the lookups and the loop use.
LEMMA ScanStep ==
    ASSUME TypeOK, ScanInv, Next
    PROVE  ScanInv'
<1>. SUFFICES ASSUME NEW t \in Calls
              PROVE  /\ pc'[t] = "scan" => freeSince'[t] \subseteq scan'[t]
                     /\ pc'[t] = "full" => freeSince'[t] = {}
  BY DEF ScanInv
<1>. USE DEF TypeOK, tables, locals, events
<1>1. CASE pc'[t] = pc[t] /\ scan'[t] = scan[t]
  BY <1>1, HistoryShrinks DEF creating, ScanInv
<1>2. ASSUME NEW s \in Calls, Step(s), ~(pc'[t] = pc[t] /\ scan'[t] = scan[t])
      PROVE  /\ pc'[t] = "scan" => freeSince'[t] \subseteq scan'[t]
             /\ pc'[t] = "full" => freeSince'[t] = {}
  <2>1. CASE FindRooms(s)
    <3>1. t = s /\ (pc'[t] = "scan" => scan'[t] = largeEnough(body[t])) /\ pc'[t] # "full" /\ body' = body
      BY <1>2, <2>1 DEF FindRooms
    <3>2. pc'[t] = "scan" => freeSince'[t] \subseteq largeEnough(body'[t])
      BY HistoryShrinks DEF creating
    <3>. QED
      BY <3>1, <3>2
  <2>2. CASE CountOverlaps(s)
    <3>1. t = s /\ pc[t] = "scan"
      BY <1>2, <2>2 DEF CountOverlaps
    <3>2. PICK r \in scan[t] :
            \/ pc'[t] = "insert"
            \/ /\ ~free(r, body[t])
               /\ scan'[t] = scan[t] \ {r}
               /\ pc'[t] = "full" => scan[t] = {r}
      BY <2>2, <3>1 DEF CountOverlaps
    <3>3. ~free(r, body[t]) => ~free(r, body[t])'
      BY <2>2 DEF CountOverlaps, free, overlapping
    <3>4. pc'[t] \in {"scan", "full"} => freeSince'[t] \subseteq freeSince[t] /\ \A q \in freeSince'[t] : free(q, body[t])'
      BY <3>1, HistoryShrinks DEF creating
    <3>5. freeSince[t] \subseteq scan[t]
      BY <3>1 DEF ScanInv
    <3>. QED
      BY <3>2, <3>3, <3>4, <3>5
  <2>3. ASSUME pc'[t] \in {"scan", "full"}, ~FindRooms(s), ~CountOverlaps(s) PROVE FALSE
    BY <1>2, <2>3 DEF Step, Create, AirportAnswers, AirportFails, Insert, PublishConfirmed, Cancel,
       UpdateCancelled, PublishCancelled, Answer
  <2>. QED
    BY <2>1, <2>2, <2>3
<1>3. ASSUME NEW g \in Travellers, Register(g) \/ Process(g) PROVE pc'[t] = pc[t] /\ scan'[t] = scan[t]
  BY <1>3 DEF Register, Process
<1>. QED
  BY <1>1, <1>2, <1>3 DEF Next

LEMMA LookupStep ==
    ASSUME TypeOK, LookupInv, PartyHasCleared, Next
    PROVE  LookupInv' /\ PartyHasCleared'
<1>. DEFINE Told(t) ==
       /\ pc'[t] = "idle" => unknown'[t] = {} /\ blocked'[t] = FALSE
       /\ pc'[t] = "airport" /\ ~blocked'[t] => uncleared'[t] \subseteq asked'[t] \cup unknown'[t]
       /\ pc'[t] \in {"scan", "insert"} => uncleared'[t] \subseteq unknown'[t]
<1>. SUFFICES ASSUME NEW t \in Calls PROVE Told(t)
  BY DEF LookupInv, PartyHasCleared
<1>. USE DEF TypeOK, tables, locals, events
<1>1. CASE pc'[t] = pc[t] /\ blocked'[t] = blocked[t] /\ asked'[t] = asked[t] /\ unknown'[t] = unknown[t]
  BY <1>1, HistoryShrinks DEF creating, LookupInv, PartyHasCleared
<1>2. ASSUME NEW s \in Calls, Step(s) PROVE Told(t)
  <2>1. CASE t # s
    <3>1. pc'[t] = pc[t] /\ blocked'[t] = blocked[t] /\ asked'[t] = asked[t] /\ unknown'[t] = unknown[t]
      BY <1>2, <2>1 DEF Step, Create, AirportAnswers, AirportFails, FindRooms, CountOverlaps, Insert,
         PublishConfirmed, Cancel, UpdateCancelled, PublishCancelled, Answer
    <3>. QED
      BY <1>1, <3>1
  <2>2. ASSUME t = s, NEW b \in Bodies, Create(s, b) PROVE Told(t)
    <3>1. /\ pc'[t] \in {"airport", "rejected"} /\ body'[t] = b
          /\ pc'[t] = "airport" => asked'[t] = partyGuestIds(b)
      BY <2>2 DEF Create
    <3>2. pc'[t] = "airport" => uncleared'[t] \subseteq partyGuestIds(body'[t])
      BY HistoryShrinks DEF creating
    <3>. QED
      BY <3>1, <3>2
  <2>3. ASSUME t = s, NEW g \in Guests, AirportAnswers(s, g) PROVE Told(t)
    <3>1. /\ pc[t] = "airport" /\ pc'[t] = "airport" /\ asked'[t] = asked[t] \ {g}
          /\ blocked'[t] = (blocked[t] \/ arrival[g] # "processed")
          /\ arrival' = arrival /\ unknown' = unknown
      BY <2>3 DEF AirportAnswers
    <3>2. uncleared'[t] \subseteq uncleared[t] /\ \A q \in uncleared'[t] : arrival'[q] # "processed"
      BY <3>1, HistoryShrinks DEF creating
    <3>. QED
      BY <3>1, <3>2 DEF LookupInv
  <2>4. ASSUME t = s, NEW g \in Guests, AirportFails(s, g) PROVE Told(t)
    <3>1. /\ pc[t] = "airport" /\ pc'[t] = "airport" /\ asked'[t] = asked[t] \ {g}
          /\ blocked' = blocked /\ unknown'[t] = unknown[t] \cup {g}
      BY <2>4 DEF AirportFails
    <3>2. uncleared'[t] \subseteq uncleared[t]
      BY <3>1, HistoryShrinks DEF creating
    <3>. QED
      BY <3>1, <3>2 DEF LookupInv
  <2>5. CASE t = s /\ FindRooms(s)
    <3>1. /\ pc[t] = "airport" /\ asked[t] = {} /\ pc'[t] \in {"rejected", "scan"}
          /\ pc'[t] = "scan" => ~blocked[t]
          /\ unknown' = unknown
      BY <2>5 DEF FindRooms
    <3>2. pc'[t] = "scan" => uncleared'[t] \subseteq uncleared[t]
      BY <3>1, HistoryShrinks DEF creating
    <3>. QED
      BY <3>1, <3>2 DEF LookupInv
  <2>6. CASE t = s /\ CountOverlaps(s)
    <3>1. /\ pc[t] = "scan" /\ pc'[t] \in {"insert", "full", "scan"}
          /\ unknown' = unknown
      BY <2>6 DEF CountOverlaps
    <3>2. uncleared'[t] \subseteq uncleared[t]
      BY <3>1, HistoryShrinks DEF creating
    <3>. QED
      BY <3>1, <3>2 DEF PartyHasCleared
  <2>7. CASE t = s /\ (Insert(s) \/ PublishConfirmed(s) \/ UpdateCancelled(s) \/ PublishCancelled(s)
                       \/ \E x \in Reservations : Cancel(s, x))
    BY <2>7 DEF Insert, PublishConfirmed, Cancel, UpdateCancelled, PublishCancelled
  <2>8. CASE t = s /\ Answer(s)
    BY <2>8 DEF Answer
  <2>. QED
    BY <1>2, <2>1, <2>2, <2>3, <2>4, <2>5, <2>6, <2>7, <2>8 DEF Step
<1>3. ASSUME NEW g \in Travellers, Register(g) \/ Process(g) PROVE Told(t)
  BY <1>1, <1>3 DEF Register, Process
<1>. QED
  BY <1>2, <1>3 DEF Next

----------------------------------------------------------------------------
(***************************************************************************)
(* Cancellations                                                           *)
(***************************************************************************)
cancelling(x) == {s \in Calls : pc[s] \in {"update", "cancelled"} /\ target[s] = x}

LEMMA CancellingFinite ==
    ASSUME NEW x \in Reservations
    PROVE  /\ IsFiniteSet(cancelling(x)) /\ Cardinality(cancelling(x)) \in Nat
           /\ IsFiniteSet(cancelling(x)') /\ Cardinality(cancelling(x)') \in Nat
           /\ Cardinality(cancelling(x)') <= Cardinality(Calls)
<1>1. cancelling(x) \subseteq Calls /\ cancelling(x)' \subseteq Calls
  BY DEF cancelling
<1>. QED
  BY <1>1, ConstantFacts, FS_Subset, FS_CardinalityType

\* A step that publishes nothing: as long as the row is confirmed, calls may
\* join; afterwards nobody does.
LEMMA CancelledStep ==
    ASSUME TypeOK, Path, CancelledEvents, Next
    PROVE  CancelledEvents'
<1>. USE DEF TypeOK
<1>. DEFINE Fine(x) ==
       /\ cancellations'[x] > 0 => status'[x] = "CANCELLED"
       /\ cancellations'[x] + Cardinality(cancelling(x)') <= Cardinality(Calls)
<1>. SUFFICES ASSUME NEW x \in Reservations PROVE Fine(x)
  BY DEF CancelledEvents, cancelling
<1>0. /\ cancellations[x] > 0 => status[x] = "CANCELLED"
      /\ cancellations[x] + Cardinality(cancelling(x)) <= Cardinality(Calls)
  BY DEF CancelledEvents, cancelling
<1>1. ASSUME cancellations' = cancellations,
             status[x] = "CANCELLED" => status'[x] = "CANCELLED",
             status[x] # "CANCELLED" \/ cancelling(x)' \subseteq cancelling(x)
      PROVE  Fine(x)
  <2>1. CASE status[x] # "CANCELLED"
    <3>1. cancellations'[x] = 0
      BY <1>0, <1>1, <2>1
    <3>. QED
      BY <3>1, CancellingFinite, ConstantFacts
  <2>2. CASE status[x] = "CANCELLED"
    <3>1. Cardinality(cancelling(x)') <= Cardinality(cancelling(x))
      BY <1>1, <2>2, CancellingFinite, FS_Subset
    <3>. QED
      BY <1>0, <1>1, <2>2, <3>1, CancellingFinite, ConstantFacts
  <2>. QED
    BY <2>1, <2>2
<1>2. ASSUME NEW s \in Calls, PublishCancelled(s) PROVE Fine(x)
  <2>1. /\ pc[s] = "cancelled" /\ target[s] \in Reservations /\ status[target[s]] = "CANCELLED"
        /\ pc'[s] = "ok" /\ status' = status
        /\ cancellations' = [cancellations EXCEPT ![target[s]] = @ + 1]
        /\ \A t \in Calls \ {s} : pc'[t] = pc[t] /\ target'[t] = target[t]
    BY <1>2 DEF PublishCancelled, Path, tables
  <2>2. cancelling(x)' = cancelling(x) \ {s}
    BY <2>1 DEF cancelling
  <2>3. CASE target[s] = x
    <3>1. s \in cancelling(x)
      BY <2>1, <2>3 DEF cancelling
    <3>2. Cardinality(cancelling(x)') = Cardinality(cancelling(x)) - 1
      BY <2>2, <3>1, CancellingFinite, FS_RemoveElement
    <3>3. cancellations'[x] = cancellations[x] + 1
      BY <2>1, <2>3
    <3>. QED
      BY <1>0, <2>1, <2>3, <3>2, <3>3, CancellingFinite, ConstantFacts
  <2>4. CASE target[s] # x
    <3>1. cancellations'[x] = cancellations[x]
      BY <2>1, <2>4
    <3>2. Cardinality(cancelling(x)') <= Cardinality(cancelling(x))
      BY <2>2, CancellingFinite, FS_Subset
    <3>. QED
      BY <1>0, <2>1, <3>1, <3>2, CancellingFinite, ConstantFacts
  <2>. QED
    BY <2>3, <2>4
<1>3. ASSUME NEW s \in Calls, Step(s), ~PublishCancelled(s) PROVE Fine(x)
  <2>1. CASE \E y \in Reservations : Cancel(s, y)
    <3>1. PICK y \in Reservations : Cancel(s, y)
      BY <2>1
    <3>2. cancellations' = cancellations /\ status' = status
      BY <3>1 DEF Cancel, tables, events
    <3>3. status[x] = "CANCELLED" => cancelling(x)' \subseteq cancelling(x)
      BY <3>1 DEF Cancel, cancelling
    <3>. QED
      BY <1>1, <3>2, <3>3
  <2>2. CASE UpdateCancelled(s)
    <3>1. cancellations' = cancellations /\ (status[x] = "CANCELLED" => status'[x] = "CANCELLED")
      BY <2>2 DEF UpdateCancelled, events
    <3>2. cancelling(x)' \subseteq cancelling(x)
      BY <2>2 DEF UpdateCancelled, locals, cancelling
    <3>. QED
      BY <1>1, <3>1, <3>2
  <2>3. CASE Insert(s)
    <3>1. cancellations' = cancellations /\ (status[x] = "CANCELLED" => status'[x] = "CANCELLED")
      BY <2>3 DEF Insert, events
    <3>2. cancelling(x)' \subseteq cancelling(x)
      BY <2>3 DEF Insert, cancelling
    <3>. QED
      BY <1>1, <3>1, <3>2
  <2>4. CASE \/ \E b \in Bodies : Create(s, b)
             \/ \E g \in Guests : AirportAnswers(s, g) \/ AirportFails(s, g)
             \/ FindRooms(s) \/ CountOverlaps(s) \/ PublishConfirmed(s) \/ Answer(s)
    <3>1. cancellations' = cancellations /\ status' = status
      BY <2>4 DEF Create, AirportAnswers, AirportFails, FindRooms, CountOverlaps, PublishConfirmed,
         Answer, tables, events
    <3>2. cancelling(x)' \subseteq cancelling(x)
      BY <2>4 DEF Create, AirportAnswers, AirportFails, FindRooms, CountOverlaps, PublishConfirmed,
         Answer, cancelling
    <3>. QED
      BY <1>1, <3>1, <3>2
  <2>. QED
    BY <1>3, <2>1, <2>2, <2>3, <2>4 DEF Step
<1>4. ASSUME NEW g \in Travellers, Register(g) \/ Process(g) PROVE Fine(x)
  <2>1. cancellations' = cancellations /\ status' = status /\ pc' = pc /\ target' = target
    BY <1>4 DEF Register, Process, tables, locals, events
  <2>. QED
    BY <1>1, <2>1 DEF cancelling
<1>. QED
  BY <1>2, <1>3, <1>4 DEF Next

----------------------------------------------------------------------------
(***************************************************************************)
(* Rooms                                                                   *)
(***************************************************************************)
LEMMA RoomSets ==
    ASSUME NEW r \in Rooms, NEW day \in Days
    PROVE  /\ IsFiniteSet(occupying(r, day)) /\ Cardinality(occupying(r, day)) \in Nat
           /\ IsFiniteSet(holders(r, day)) /\ Cardinality(holders(r, day)) \in Nat
           /\ IsFiniteSet(occupying(r, day)') /\ Cardinality(occupying(r, day)') \in Nat
           /\ IsFiniteSet(holders(r, day)') /\ Cardinality(holders(r, day)') \in Nat
           /\ Cardinality(holders(r, day)') <= Cardinality(Calls)
<1>1. /\ occupying(r, day) \subseteq Reservations /\ occupying(r, day)' \subseteq Reservations
      /\ holders(r, day) \subseteq Calls /\ holders(r, day)' \subseteq Calls
  BY DEF occupying, holders
<1>. QED
  BY <1>1, ConstantFacts, FS_Subset, FS_CardinalityType

\* A room that is free for a stay is free on every day of it.
LEMMA FreeEachDay ==
    ASSUME TypeOK, RowInv, NEW r \in Rooms, NEW b \in CreateReservationDto, free(r, b),
           NEW day \in Days, b.check_in_day <= day, day < b.check_out_day
    PROVE  occupying(r, day) = {}
<1>1. day \in Int /\ b.check_in_day \in Int /\ b.check_out_day \in Int
  BY HotelAssumption DEF CreateReservationDto
<1>2. ASSUME NEW x \in occupying(r, day) PROVE FALSE
  <2>1. /\ x \in Reservations /\ status[x] = "CONFIRMED" /\ room[x] = r
        /\ reserved[x].check_in_day <= day /\ reserved[x].check_out_day > day
    BY <1>2 DEF occupying
  <2>2. reserved[x] \in CreateReservationDto
    BY <2>1 DEF RowInv
  <2>3. reserved[x].check_in_day \in Int /\ reserved[x].check_out_day \in Int
    BY <2>2 DEF CreateReservationDto
  <2>4. reserved[x].check_in_day < b.check_out_day /\ reserved[x].check_out_day > b.check_in_day
    BY <1>1, <2>1, <2>3
  <2>5. x \in overlapping(r, b.check_in_day, b.check_out_day)
    BY <2>1, <2>4 DEF overlapping
  <2>. QED
    BY <2>5 DEF free
<1>. QED
  BY <1>2

LEMMA RemoveOne ==
    ASSUME NEW S, IsFiniteSet(S), NEW e \in S
    PROVE  Cardinality(S \ {e}) = Cardinality(S) - 1
  BY FS_RemoveElement

\* The count answers for the parties and the calls that hold the room together:
\* a call becomes a holder only where there is no party, and turns from a holder
\* into a party.
LEMMA SharedStep ==
    ASSUME TypeOK, Path, RowInv, SharedRoomBound, Next
    PROVE  SharedRoomBound'
<1>. USE DEF TypeOK
<1>. SUFFICES ASSUME NEW r \in Rooms, NEW day \in Days
              PROVE  Cardinality(occupying(r, day)') + Cardinality(holders(r, day)') <= Cardinality(Calls)
  BY DEF SharedRoomBound
<1>. DEFINE O == occupying(r, day)
            H == holders(r, day)
            Fine == Cardinality(O') + Cardinality(H') <= Cardinality(Calls)
<1>0. Cardinality(O) + Cardinality(H) <= Cardinality(Calls)
  BY DEF SharedRoomBound
<1>1. ASSUME O' \subseteq O, H' \subseteq H PROVE Fine
  <2>1. Cardinality(O') <= Cardinality(O) /\ Cardinality(H') <= Cardinality(H)
    BY <1>1, RoomSets, FS_Subset
  <2>. QED
    BY <1>0, <2>1, RoomSets, ConstantFacts
<1>2. ASSUME NEW s \in Calls, CountOverlaps(s) PROVE Fine
  <2>1. PICK q \in scan[s] :
          \/ /\ free(q, body[s])
             /\ pc' = [pc EXCEPT ![s] = "insert"]
             /\ target' = [target EXCEPT ![s] = q]
          \/ /\ pc'[s] # "insert" /\ \A t \in Calls \ {s} : pc'[t] = pc[t]
             /\ target' = target
    BY <1>2 DEF CountOverlaps
  <2>2. O' = O /\ body' = body /\ body[s] \in CreateReservationDto /\ pc[s] = "scan"
    BY <1>2 DEF CountOverlaps, occupying, tables, Path, creating
  <2>3. CASE s \in H'
    <3>1. q = r /\ free(r, body[s]) /\ body[s].check_in_day <= day /\ day < body[s].check_out_day
      BY <2>1, <2>2, <2>3 DEF holders
    <3>2. O = {}
      BY <2>2, <3>1, FreeEachDay
    <3>3. Cardinality(O') = 0
      BY <2>2, <3>2, FS_EmptySet
    <3>. QED
      BY <3>3, RoomSets, ConstantFacts
  <2>4. CASE s \notin H'
    <3>1. H' \subseteq H
      BY <2>1, <2>2, <2>4 DEF holders
    <3>. QED
      BY <1>1, <2>2, <3>1
  <2>. QED
    BY <2>3, <2>4
<1>3. ASSUME NEW s \in Calls, Insert(s) PROVE Fine
  <2>1. PICK x \in Reservations :
          /\ status[x] = "none"
          /\ status' = [status EXCEPT ![x] = "CONFIRMED"]
          /\ reserved' = [reserved EXCEPT ![x] = body[s]]
          /\ room' = [room EXCEPT ![x] = target[s]]
          /\ target' = [target EXCEPT ![s] = x]
    BY <1>3 DEF Insert
  <2>2. /\ pc[s] = "insert" /\ pc' = [pc EXCEPT ![s] = "confirm"]
        /\ body' = [body EXCEPT ![s] = NoBody] /\ body[s] \in CreateReservationDto
    BY <1>3 DEF Insert, Path, creating
  <2>3. H' = H \ {s}
    BY <2>1, <2>2 DEF holders
  <2>4. O' \subseteq O \cup {x}
    BY <2>1 DEF occupying
  <2>5. CASE s \in H
    <3>1. Cardinality(H') = Cardinality(H) - 1
      <4>1. IsFiniteSet(H)
        BY RoomSets
      <4>2. Cardinality(H \ {s}) = Cardinality(H) - 1
        BY <2>5, <4>1, RemoveOne
      <4>. QED
        BY <2>3, <4>2
    <3>2. /\ IsFiniteSet(O \cup {x})
          /\ \/ Cardinality(O \cup {x}) = Cardinality(O)
             \/ Cardinality(O \cup {x}) = Cardinality(O) + 1
      BY RoomSets, FS_AddElement
    <3>3. Cardinality(O') <= Cardinality(O \cup {x})
      BY <2>4, <3>2, FS_Subset
    <3>. QED
      BY <1>0, <3>1, <3>2, <3>3, RoomSets, ConstantFacts
  <2>6. CASE s \notin H
    <3>1. x \notin O'
      BY <2>1, <2>2, <2>6 DEF occupying, holders, CreateReservationDto
    <3>. QED
      BY <1>1, <2>3, <2>4, <3>1
  <2>. QED
    BY <2>5, <2>6
<1>4. ASSUME NEW s \in Calls, Step(s), ~CountOverlaps(s), ~Insert(s) PROVE Fine
  <2>1. CASE UpdateCancelled(s)
    <3>1. O' \subseteq O
      BY <2>1 DEF UpdateCancelled, occupying
    <3>2. H' \subseteq H
      BY <2>1 DEF UpdateCancelled, locals, holders
    <3>. QED
      BY <1>1, <3>1, <3>2
  <2>2. CASE \/ \E b \in Bodies : Create(s, b)
             \/ \E g \in Guests : AirportAnswers(s, g) \/ AirportFails(s, g)
             \/ \E x \in Reservations : Cancel(s, x)
             \/ FindRooms(s) \/ PublishConfirmed(s) \/ PublishCancelled(s) \/ Answer(s)
    <3>1. O' = O
      BY <2>2 DEF Create, AirportAnswers, AirportFails, FindRooms, Cancel, PublishConfirmed,
         PublishCancelled, Answer, tables, occupying
    <3>2. H' \subseteq H
      BY <2>2 DEF Create, AirportAnswers, AirportFails, FindRooms, Cancel, PublishConfirmed,
         PublishCancelled, Answer, holders
    <3>. QED
      BY <1>1, <3>1, <3>2
  <2>. QED
    BY <1>4, <2>1, <2>2 DEF Step
<1>5. ASSUME NEW g \in Travellers, Register(g) \/ Process(g) PROVE Fine
  <2>1. O' = O /\ H' = H
    BY <1>5 DEF Register, Process, tables, locals, occupying, holders
  <2>. QED
    BY <1>1, <2>1
<1>. QED
  BY <1>2, <1>3, <1>4, <1>5 DEF Next

----------------------------------------------------------------------------
LEMMA InitOK == Init => IInv
<1>. SUFFICES ASSUME Init PROVE IInv
  OBVIOUS
<1>1. TypeOK /\ Path /\ RowInv /\ ScanInv /\ LookupInv /\ PartyHasCleared
  BY DEF Init, TypeOK, Path, RowInv, ScanInv, LookupInv, PartyHasCleared, creating
<1>2. SharedRoomBound
  <2>. SUFFICES ASSUME NEW r \in Rooms, NEW day \in Days
                PROVE  Cardinality(occupying(r, day)) + Cardinality(holders(r, day)) <= Cardinality(Calls)
    BY DEF SharedRoomBound
  <2>1. occupying(r, day) = {} /\ holders(r, day) = {}
    BY DEF Init, occupying, holders
  <2>. QED
    BY <2>1, FS_EmptySet, ConstantFacts
<1>3. CancelledEvents
  <2>. SUFFICES ASSUME NEW x \in Reservations
                PROVE  cancellations[x] = 0 /\ cancelling(x) = {}
    BY FS_EmptySet, ConstantFacts DEF CancelledEvents, cancelling
  <2>. QED
    BY DEF Init, cancelling
<1>. QED
  BY <1>1, <1>2, <1>3 DEF IInv

LEMMA NextOK == IInv /\ [Next]_vars => IInv'
<1>. SUFFICES ASSUME IInv, [Next]_vars PROVE IInv'
  OBVIOUS
<1>1. CASE Next
  BY <1>1, TypeStep, PathStep, TypeSplit, SharedStep, CancelledStep, ScanStep, LookupStep DEF IInv
<1>2. CASE UNCHANGED vars
  <2>1. TypeOK' /\ Path' /\ RowInv' /\ ScanInv' /\ LookupInv' /\ PartyHasCleared'
    BY <1>2 DEF IInv, vars, tables, locals, events, TypeOK, Path, RowInv, ScanInv, LookupInv,
       PartyHasCleared, creating
  <2>2. SharedRoomBound' /\ CancelledEvents'
    BY <1>2 DEF IInv, vars, tables, locals, events, SharedRoomBound, CancelledEvents, occupying, holders
  <2>. QED
    BY <2>1, <2>2 DEF IInv
<1>. QED
  BY <1>1, <1>2

\* The tables, the calls and their history have their types.
THEOREM TypeCorrect == Spec => []TypeOK
<1>1. IInv => TypeOK
  BY DEF IInv
<1>. QED
  BY InitOK, NextOK, <1>1, PTL DEF Spec

\* However many create calls race, a room has no more parties for a night than
\* there are calls in progress at once; one call at a time never shares a room.
THEOREM RoomsAreShared == Spec => []SharedRoomBound
<1>1. IInv => SharedRoomBound
  BY DEF IInv
<1>. QED
  BY InitOK, NextOK, <1>1, PTL DEF Spec

\* "No available rooms" is true of the whole time of the call.
THEOREM FullIsAlwaysTrue == Spec => []FullIsTrue
<1>1. IInv => FullIsTrue
  BY DEF IInv, ScanInv, FullIsTrue
<1>. QED
  BY InitOK, NextOK, <1>1, PTL DEF Spec

\* A party gets a room only when each guest was cleared at some time of the call
\* or could not be looked up.
THEOREM PartiesHaveCleared == Spec => []PartyHasCleared
<1>1. IInv => PartyHasCleared
  BY DEF IInv
<1>. QED
  BY InitOK, NextOK, <1>1, PTL DEF Spec

\* Cancellations are announced after the row says so, at most once per call in
\* progress.
THEOREM CancellationsAreAnnounced == Spec => []CancelledEvents
<1>1. IInv => CancelledEvents
  BY DEF IInv
<1>. QED
  BY InitOK, NextOK, <1>1, PTL DEF Spec
====
