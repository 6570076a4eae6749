------------------------------- MODULE Traffic -------------------------------
(***************************************************************************)
(* The traffic generator of the map page (src/frontend/src/features/       *)
(* simulation): loops that take a random guest, read how far the guest has *)
(* come, call the services and note the new stage when they have answered. *)
(* A loop's steps are separated by its awaits, so loops interleave, also   *)
(* on one guest. The simulated guests have static ids, so the generators   *)
(* of all browsers call for the same guests. The services answer each call *)
(* in one step here.                                                       *)
(***************************************************************************)
EXTENDS Integers, SequencesExt

CONSTANTS
    Guests,             \* syntheticGuests
    Activities,         \* the beach's activities
    NoId,               \* null
    Lanes,              \* the CONCURRENT_GUESTS loops of a generator
    MaxMounts,          \* bound: times the map page is mounted
    MaxReservations,    \* bound: reservations made
    MaxUnderWay         \* bound: steps under way at once, of all mounts

ASSUME TrafficAssumption ==
    /\ IsFiniteSet(Guests) /\ NoId \notin Nat \cup Activities \cup Guests
    /\ IsFiniteSet(Lanes) /\ MaxMounts \in Nat \ {0}
    /\ MaxReservations \in Nat /\ MaxUnderWay \in Nat

Loops == (1 .. MaxMounts) \X Lanes
New == [stage |-> "new", reservationId |-> NoId, activityId |-> NoId]
Off == [at |-> "off", guest |-> NoId, state |-> New]
Timer == [Off EXCEPT !.at = "timer"]

VARIABLES
    arrival,    \* airport: each guest's newest arrival
    confirmed,  \* hotel: each guest's reservations, by check_in_day descending
    issued,     \* hotel: reservation ids given out
    booking,    \* beach: each guest's activity
    states,     \* guestStatesRef of the mounted page
    mount,      \* mounts of the map page so far
    running,    \* runningRef of the last mount
    loop,       \* where each loop is, its guest and the state it has read
    given,      \* history: the reservations each guest was ever given
    disturbed   \* history: guests who were acted for from elsewhere since they
                \* were last noted as new: two steps were under way at once, or a
                \* reservation or an activity was taken by a call not under way here

services == <<arrival, confirmed, issued, booking, given>>
mounts == <<mount, running>>
vars == <<services, states, mounts, loop, disturbed>>

----------------------------------------------------------------------------
(***************************************************************************)
(* What the calls do to the services                                       *)
(***************************************************************************)
postArrival(g) ==
    /\ arrival' = [arrival EXCEPT ![g] = "queued"]
    /\ UNCHANGED <<confirmed, issued, booking, given>>

\* The new reservation may be before or after those there are.
postReservation(g) ==
    /\ issued < MaxReservations
    /\ \E i \in 1 .. Len(confirmed[g]) + 1 :
         confirmed' = [confirmed EXCEPT ![g] = InsertAt(@, i, issued + 1)]
    /\ issued' = issued + 1
    /\ given' = [given EXCEPT ![g] = @ \cup {issued + 1}]
    /\ UNCHANGED <<arrival, booking>>

bookActivity(g, a) ==
    /\ booking' = [booking EXCEPT ![g] = a]
    /\ UNCHANGED <<arrival, confirmed, issued, given>>

cancelActivity(g, a) ==
    /\ booking' = [booking EXCEPT ![g] = IF @ = a THEN NoId ELSE @]
    /\ UNCHANGED <<arrival, confirmed, issued, given>>

cancelReservation(g, r) ==
    LET at == {i \in 1 .. Len(confirmed[g]) : confirmed[g][i] = r} IN
    /\ confirmed' = [confirmed EXCEPT ![g] = IF at = {} THEN @ ELSE RemoveAt(@, CHOOSE i \in at : TRUE)]
    /\ UNCHANGED <<arrival, issued, booking, given>>

\* getReservationByGuest
Active(g) == IF confirmed[g] = <<>> THEN NoId ELSE Head(confirmed[g])

----------------------------------------------------------------------------
(***************************************************************************)
(* The loops                                                               *)
(***************************************************************************)

\* Mutant: a loop goes on after its page is gone.
ScheduleAlways(l) == Timer

\* scheduleNext, of the loop's own mount.
scheduleNext(l) == IF running /\ l[1] = mount THEN Timer ELSE Off

\* The loop waits for a call.
Await(l, at) == loop' = [loop EXCEPT ![l].at = at] /\ UNCHANGED <<states, disturbed>>

\* No loop but l has a step of the guest under way.
Alone(l, g) == \A k \in Loops \ {l} : loop[k].guest # g

\* The step is over, with a new state or without; the loop goes on. A step of
\* an earlier mount sets the states of that mount.
setState(l, state) ==
    LET g == loop[l].guest IN
    /\ loop' = [loop EXCEPT ![l] = scheduleNext(l)]
    /\ states' = IF l[1] = mount THEN [states EXCEPT ![g] = state] ELSE states
    /\ disturbed' = IF l[1] = mount /\ state = New /\ Alone(l, g) THEN disturbed \ {g} ELSE disturbed

Done(l) == loop' = [loop EXCEPT ![l] = scheduleNext(l)] /\ UNCHANGED <<states, disturbed>>

----------------------------------------------------------------------------
(***************************************************************************)
(* A step: the timer fires, the guest and the action are drawn             *)
(***************************************************************************)

\* What a guest at a stage may do, by the first call made. (A guest with a room
\* may also do nothing: the loop's next timer is set.)
FirstCall == {<<"new", "arrive">>, <<"arrived", "hotel: arrival?">>,
              <<"hotel_booked", "beach: reservation?">>,
              <<"beach_booked", "cancel all">>, <<"beach_booked", "cancel activity">>}

Begin(l, g, at) ==
    /\ loop[l].at = "timer"
    /\ Cardinality({k \in Loops : loop[k].guest # NoId}) < MaxUnderWay
    /\ loop' = [loop EXCEPT ![l] = [at |-> at, guest |-> g, state |-> states[g]]]
    /\ disturbed' = IF Alone(l, g) THEN disturbed ELSE disturbed \cup {g}
    /\ UNCHANGED <<services, states, mounts>>

runGuestStep(l, g, choice) ==
    /\ choice[1] = states[g].stage
    /\ Begin(l, g, choice[2])

\* The call of a step is answered, or fails; a call that fails may have had its
\* effect on the services or not (or will have it later, see Elsewhere).
Call(l, at, effect, then, failure) ==
    /\ loop[l].at = at
    /\ \/ effect /\ then
       \/ effect /\ failure
       \/ UNCHANGED services /\ failure
    /\ UNCHANGED mounts

Read(l, at, then, failure) == Call(l, at, UNCHANGED services, then, failure)

arrive(l) ==
    Call(l, "arrive", postArrival(loop[l].guest), setState(l, [New EXCEPT !.stage = "arrived"]), Done(l))

----------------------------------------------------------------------------
(***************************************************************************)
(* bookHotel                                                               *)
(***************************************************************************)
HotelBooked(l, r) == setState(l, [New EXCEPT !.stage = "hotel_booked", !.reservationId = r])

\* Found, or not found: the step is over.
Existing(l) == IF Active(loop[l].guest) # NoId THEN HotelBooked(l, Active(loop[l].guest)) ELSE Done(l)

CheckArrival(l) ==
    Read(l, "hotel: arrival?",
         IF arrival[loop[l].guest] = "processed" THEN Await(l, "hotel: reservation?") ELSE Done(l),
         Await(l, "hotel: recover"))

CheckReservation(l) ==
    Read(l, "hotel: reservation?",
         IF Active(loop[l].guest) # NoId THEN Existing(l) ELSE Await(l, "hotel: post"),
         Await(l, "hotel: recover"))

Reserve(l) ==
    Call(l, "hotel: post", postReservation(loop[l].guest), HotelBooked(l, issued + 1), Await(l, "hotel: recover"))

\* Mutant: a reservation that failed is taken for the one there is to come.
RecoverNothing(l) ==
    Read(l, "hotel: recover", HotelBooked(l, Active(loop[l].guest)), Done(l))

\* The call has failed; the reservation may be there nevertheless.
Recover(l) ==
    Read(l, "hotel: recover", Existing(l), Done(l))

----------------------------------------------------------------------------
(***************************************************************************)
(* bookRandomActivity, cancelBeachActivity, cancelHotelReservation         *)
(***************************************************************************)
BeachBooked(l, a) == setState(l, [loop[l].state EXCEPT !.stage = "beach_booked", !.activityId = a])

\* The reservation is looked up, the visitor is checked in.
CheckBeach(l) ==
    Read(l, "beach: reservation?",
         IF Active(loop[l].guest) = NoId THEN Done(l) ELSE Await(l, "beach: booked?"),
         Done(l))

\* The booking is looked up; none may be available.
CheckBooking(l) ==
    LET b == booking[loop[l].guest] IN
    Read(l, "beach: booked?",
         \/ b # NoId /\ BeachBooked(l, b)
         \/ b = NoId /\ (Await(l, "beach: post") \/ Done(l)),
         Done(l))

Book(l, a) ==
    Call(l, "beach: post", bookActivity(loop[l].guest, a), BeachBooked(l, a), Done(l))

\* The step goes on when the call has ended, with an answer or with an error.
Cancel(l, at, effect, then) == Call(l, at, effect, then, then)

Cancelled(l) == cancelActivity(loop[l].guest, loop[l].state.activityId)

cancelBeachActivity(l) ==
    Cancel(l, "cancel activity", Cancelled(l),
           setState(l, [New EXCEPT !.stage = "hotel_booked", !.reservationId = loop[l].state.reservationId]))

cancelAll(l) == Cancel(l, "cancel all", Cancelled(l), Await(l, "cancel reservation"))

cancelHotelReservation(l) ==
    Cancel(l, "cancel reservation", cancelReservation(loop[l].guest, loop[l].state.reservationId),
           setState(l, New))

----------------------------------------------------------------------------
(***************************************************************************)
(* askParrot                                                               *)
(***************************************************************************)

\* A chat is asked for (in the cooldown, and when chats are off, it is not, and
\* the step is over).
askParrot(l, g) ==
    /\ states[g].stage # "new"
    /\ Begin(l, g, "chatting")

ChatEnds(l) ==
    /\ loop[l].at = "chatting"
    /\ Done(l)
    /\ UNCHANGED <<services, mounts>>

----------------------------------------------------------------------------
(***************************************************************************)
(* The page, the airport and the other browsers                            *)
(***************************************************************************)

\* The timers are cleared; a step under way goes on.
Unmount ==
    /\ running
    /\ running' = FALSE
    /\ loop' = [l \in Loops |-> IF loop[l].at = "timer" THEN Off ELSE loop[l]]
    /\ UNCHANGED <<services, states, mount, disturbed>>

\* A new page starts with new guests, whatever the services know of them.
Mount ==
    /\ ~running /\ mount < MaxMounts
    /\ running' = TRUE
    /\ mount' = mount + 1
    /\ states' = [g \in Guests |-> New]
    /\ loop' = [l \in Loops |-> IF l[1] = mount' THEN Timer ELSE loop[l]]
    /\ disturbed' = {g \in disturbed : \E l \in Loops : loop[l].guest = g}
    /\ UNCHANGED services

Land(g) ==
    /\ arrival[g] = "queued"
    /\ arrival' = [arrival EXCEPT ![g] = "processed"]
    /\ UNCHANGED <<confirmed, issued, booking, given, states, mounts, loop, disturbed>>

\* A reservation or the activity of the guest is gone.
Taken(g) ==
    \/ ~(ToSet(confirmed[g]) \subseteq ToSet(confirmed'[g]))
    \/ booking[g] # NoId /\ booking'[g] # booking[g]

\* A call that is not under way here has its effect: one of the generator of
\* another browser, which has the same guests, or one of this generator that
\* failed here before it was applied.
Elsewhere(g) ==
    /\ \/ postArrival(g)
       \/ /\ arrival[g] # "none"
          /\ \/ postReservation(g)
             \/ \E a \in Activities : bookActivity(g, a) \/ cancelActivity(g, a)
             \/ \E r \in ToSet(confirmed[g]) : cancelReservation(g, r)
    /\ disturbed' = IF Taken(g) THEN disturbed \cup {g} ELSE disturbed
    /\ UNCHANGED <<states, mounts, loop>>

Init ==
    /\ arrival = [g \in Guests |-> "none"] /\ confirmed = [g \in Guests |-> <<>>]
    /\ issued = 0 /\ booking = [g \in Guests |-> NoId]
    /\ states = [g \in Guests |-> New]
    /\ mount = 1 /\ running = TRUE
    /\ loop = [l \in Loops |-> IF l[1] = 1 THEN Timer ELSE Off]
    /\ given = [g \in Guests |-> {}] /\ disturbed = {}

Step(l) ==
    \/ arrive(l) \/ ChatEnds(l)
    \/ CheckArrival(l) \/ CheckReservation(l) \/ Reserve(l) \/ Recover(l)
    \/ CheckBeach(l) \/ CheckBooking(l) \/ \E a \in Activities : Book(l, a)
    \/ cancelBeachActivity(l) \/ cancelAll(l) \/ cancelHotelReservation(l)

Next ==
    \/ \E l \in Loops :
        \/ \E g \in Guests :
            \/ \E choice \in FirstCall : runGuestStep(l, g, choice)
            \/ askParrot(l, g)
        \/ Step(l)
    \/ \E g \in Guests : Land(g) \/ Elsewhere(g)
    \/ Unmount \/ Mount

Spec == Init /\ [][Next]_vars

----------------------------------------------------------------------------
(***************************************************************************)
(* Properties                                                              *)
(***************************************************************************)

\* What the generator has noted of a guest of whom no step is under way. The
\* reservation is one the hotel has given to this guest, whatever failed and
\* whoever else acts for the guest. And it is still there, and the activity is
\* the guest's at the beach, unless the guest was disturbed since it was last
\* new: two steps at once, or another browser or a call given up here that took
\* it away. Neither a call that fails after its effect, nor a cancellation whose
\* failure is ignored, nor a page left and opened again makes the two disagree.
\* (A guest noted as "hotel_booked" whose reservation is gone has no way on
\* until a reservation is made for it elsewhere.)
StageAgrees ==
    \A g \in Guests :
        (\A l \in Loops : loop[l].guest # g) =>
            /\ states[g].stage \in {"hotel_booked", "beach_booked"} =>
                   states[g].reservationId \in IF g \in disturbed THEN given[g] ELSE ToSet(confirmed[g])
            /\ states[g].stage = "beach_booked" /\ g \notin disturbed => states[g].activityId = booking[g]

\* The generator has all its loops while the page is there, whatever fails,
\* and each loop of a page that is gone ends with the step it is in.
LoopsKept ==
    \A l \in Loops :
        /\ running /\ l[1] = mount => loop[l] # Off
        /\ ~(running /\ l[1] = mount) => loop[l] # Timer
====
