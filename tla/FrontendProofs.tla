--------------------------- MODULE FrontendProofs ---------------------------
(***************************************************************************)
(* Proofs about the web client. First about Traffic: the loops of the      *)
(* traffic generator neither die nor outlive their page, and what is noted *)
(* of a guest is true of the services until somebody else acts for it, for *)
(* any number of loops, guests, mounts and other browsers. Then            *)
(* about Shell: the session of a tab is consistent and calls act for the   *)
(* guest who made them, for any number of guests and any length of the     *)
(* history; the quest guide never leads to a zone that is closed to the    *)
(* guest.                                                                  *)
(***************************************************************************)
EXTENDS Traffic, Shell, SequenceTheorems, TLAPS

\* A loop is a record of three fields, of which the first says where it is.
LoopType ==
    /\ loop = [l \in Loops |-> loop[l]]
    /\ \A l \in Loops :
        loop[l] = [at |-> loop[l].at, guest |-> loop[l].guest, state |-> loop[l].state]

LoopsInv == LoopType /\ LoopsKept

\* Where a loop waits for a call.
Waits == {"arrive", "hotel: arrival?", "hotel: reservation?", "hotel: post", "hotel: recover",
          "beach: reservation?", "beach: booked?", "beach: post",
          "cancel activity", "cancel all", "cancel reservation", "chatting"}

\* One loop takes a step: it waits for a call, or its step is over.
Moves(l) ==
    /\ UNCHANGED <<mount, running>>
    /\ \/ \E at \in Waits : loop' = [loop EXCEPT ![l].at = at]
       \/ \E at \in Waits : \E g, st : loop' = [loop EXCEPT ![l] = [at |-> at, guest |-> g, state |-> st]]
       \/ loop' = [loop EXCEPT ![l] = scheduleNext(l)]

----------------------------------------------------------------------------
\* A loop that waits is neither off nor at its timer.
LEMMA WaitsAreSteps ==
    ASSUME NEW at \in Waits, NEW g, NEW st
    PROVE  [at |-> at, guest |-> g, state |-> st] \notin {Off, Timer}
<1>1. Off.at = "off" /\ Timer.at = "timer"
  BY DEF Off, Timer
<1>2. at # "off" /\ at # "timer"
  BY DEF Waits
<1>. QED
  BY <1>1, <1>2

\* A step of a loop keeps the loops.
LEMMA MovesOK ==
    ASSUME LoopsInv, NEW l \in Loops, Moves(l)
    PROVE  LoopsInv'
<1>. DEFINE Goes(r) == /\ loop' = [loop EXCEPT ![l] = r]
                       /\ r = [at |-> r.at, guest |-> r.guest, state |-> r.state]
                       /\ r = scheduleNext(l) \/ r \notin {Off, Timer}
<1>1. PICK r : Goes(r)
  <2>1. ASSUME NEW at \in Waits, loop' = [loop EXCEPT ![l].at = at] PROVE \E r : Goes(r)
    <3>. DEFINE q == [at |-> at, guest |-> loop[l].guest, state |-> loop[l].state]
    <3>1. [loop[l] EXCEPT !.at = at] = q
      BY DEF LoopsInv, LoopType
    <3>2. loop' = [loop EXCEPT ![l] = q]
      BY <2>1, <3>1
    <3>3. Goes(q)
      BY <3>2, WaitsAreSteps
    <3>. QED
      BY <3>3
  <2>2. ASSUME NEW at \in Waits, NEW g, NEW st,
               loop' = [loop EXCEPT ![l] = [at |-> at, guest |-> g, state |-> st]]
        PROVE  \E r : Goes(r)
    <3>1. Goes([at |-> at, guest |-> g, state |-> st])
      BY <2>2, WaitsAreSteps
    <3>. QED
      BY <3>1
  <2>3. CASE loop' = [loop EXCEPT ![l] = scheduleNext(l)]
    <3>1. Goes(scheduleNext(l))
      BY <2>3 DEF scheduleNext, Timer, Off
    <3>. QED
      BY <3>1
  <2>. QED
    BY <2>1, <2>2, <2>3 DEF Moves
<1>2. mount' = mount /\ running' = running
  BY DEF Moves
<1>3. Off # Timer
  BY DEF Off, Timer
<1>4. LoopType'
  BY <1>1 DEF LoopsInv, LoopType
<1>5. ASSUME NEW k \in Loops
      PROVE  /\ running' /\ k[1] = mount' => loop'[k] # Off
             /\ ~(running' /\ k[1] = mount') => loop'[k] # Timer
  <2>1. CASE k = l
    BY <1>1, <1>2, <1>3, <2>1 DEF scheduleNext, LoopsInv, LoopType
  <2>2. CASE k # l
    BY <1>1, <1>2, <2>2 DEF LoopsInv, LoopType, LoopsKept
  <2>. QED
    BY <2>1, <2>2
<1>. QED
  BY <1>4, <1>5 DEF LoopsInv, LoopsKept

\* What the answers to a call do to the loop.
LEMMA AwaitMoves ==
    ASSUME NEW l \in Loops, NEW at \in Waits, Await(l, at), UNCHANGED <<mount, running>>
    PROVE  Moves(l)
  BY DEF Await, Moves

LEMMA SetStateMoves ==
    ASSUME NEW l \in Loops, NEW st, setState(l, st), UNCHANGED <<mount, running>>
    PROVE  Moves(l)
  BY DEF setState, Moves

LEMMA DoneMoves ==
    ASSUME NEW l \in Loops, Done(l), UNCHANGED <<mount, running>>
    PROVE  Moves(l)
  BY DEF Done, Moves

\* Every step of a guest is a step of one loop.
LEMMA StepMoves ==
    ASSUME NEW l \in Loops, Step(l)
    PROVE  Moves(l)
<1>. USE DEF Call, Read, Waits, mounts
<1>1. CASE arrive(l)
  BY <1>1, SetStateMoves, DoneMoves DEF arrive
<1>2. CASE ChatEnds(l)
  BY <1>2, DoneMoves DEF ChatEnds
<1>3. CASE CheckArrival(l)
  BY <1>3, AwaitMoves, DoneMoves DEF CheckArrival
<1>4. CASE CheckReservation(l)
  BY <1>4, AwaitMoves, SetStateMoves, DoneMoves DEF CheckReservation, Existing, HotelBooked
<1>5. CASE Reserve(l)
  BY <1>5, AwaitMoves, SetStateMoves DEF Reserve, HotelBooked
<1>6. CASE Recover(l)
  BY <1>6, SetStateMoves, DoneMoves DEF Recover, Existing, HotelBooked
<1>7. CASE CheckBeach(l)
  BY <1>7, AwaitMoves, DoneMoves DEF CheckBeach
<1>8. CASE CheckBooking(l)
  BY <1>8, AwaitMoves, SetStateMoves, DoneMoves DEF CheckBooking, BeachBooked
<1>9. ASSUME NEW a \in Activities, Book(l, a) PROVE Moves(l)
  BY <1>9, SetStateMoves, DoneMoves DEF Book, BeachBooked
<1>10. CASE cancelBeachActivity(l)
  BY <1>10, SetStateMoves DEF cancelBeachActivity, Cancel
<1>11. CASE cancelAll(l)
  BY <1>11, AwaitMoves DEF cancelAll, Cancel
<1>12. CASE cancelHotelReservation(l)
  BY <1>12, SetStateMoves DEF cancelHotelReservation, Cancel
<1>. QED
  BY <1>1, <1>2, <1>3, <1>4, <1>5, <1>6, <1>7, <1>8, <1>9, <1>10, <1>11, <1>12 DEF Step

\* The timer fires and a step begins.
LEMMA BeginMoves ==
    ASSUME NEW l \in Loops, NEW g, NEW at \in Waits, Begin(l, g, at)
    PROVE  Moves(l)
  BY DEF Begin, Moves, mounts

\* Mounting and unmounting the page.
LEMMA PageOK == ASSUME LoopsInv, Mount \/ Unmount PROVE LoopsInv'
<1>. USE DEF LoopsInv, LoopType, LoopsKept
<1>0. /\ Off = [at |-> "off", guest |-> NoId, state |-> New]
      /\ Timer = [at |-> "timer", guest |-> NoId, state |-> New]
  BY DEF Off, Timer
<1>1. CASE Mount
  BY <1>0, <1>1 DEF Mount
<1>2. CASE Unmount
  BY <1>0, <1>2 DEF Unmount
<1>. QED
  BY <1>1, <1>2

\* Every step keeps the loops.
LEMMA LoopsNext == LoopsInv /\ [Next]_vars => LoopsInv'
<1>. SUFFICES ASSUME LoopsInv, [Next]_vars PROVE LoopsInv'
  OBVIOUS
<1>1. ASSUME NEW l \in Loops, NEW g \in Guests, NEW choice \in FirstCall, runGuestStep(l, g, choice)
      PROVE  LoopsInv'
  <2>1. choice[2] \in {"arrive", "hotel: arrival?", "beach: reservation?", "cancel all", "cancel activity"}
    <3>1. CASE choice = <<"new", "arrive">>
      BY <3>1
    <3>2. CASE choice = <<"arrived", "hotel: arrival?">>
      BY <3>2
    <3>3. CASE choice = <<"hotel_booked", "beach: reservation?">>
      BY <3>3
    <3>4. CASE choice = <<"beach_booked", "cancel all">>
      BY <3>4
    <3>5. CASE choice = <<"beach_booked", "cancel activity">>
      BY <3>5
    <3>. QED
      BY <3>1, <3>2, <3>3, <3>4, <3>5 DEF FirstCall
  <2>2. choice[2] \in Waits
    BY <2>1 DEF Waits
  <2>. QED
    BY <1>1, <2>2, BeginMoves, MovesOK DEF runGuestStep
<1>2. ASSUME NEW l \in Loops, NEW g \in Guests, askParrot(l, g) PROVE LoopsInv'
  <2>1. "chatting" \in Waits
    BY DEF Waits
  <2>. QED
    BY <1>2, <2>1, BeginMoves, MovesOK DEF askParrot
<1>3. ASSUME NEW l \in Loops, Step(l) PROVE LoopsInv'
  BY <1>3, StepMoves, MovesOK
<1>4. ASSUME UNCHANGED <<mount, running, loop>> PROVE LoopsInv'
  BY <1>4 DEF LoopsInv, LoopType, LoopsKept
<1>5. ASSUME NEW g \in Guests, Land(g) PROVE LoopsInv'
  BY <1>4, <1>5 DEF Land, mounts
<1>6. ASSUME NEW g \in Guests, Elsewhere(g) PROVE LoopsInv'
  BY <1>4, <1>6 DEF Elsewhere, mounts
<1>7. CASE Mount \/ Unmount
  BY <1>7, PageOK
<1>8. CASE UNCHANGED vars
  BY <1>4, <1>8 DEF vars, mounts
<1>. QED
  BY <1>1, <1>2, <1>3, <1>5, <1>6, <1>7, <1>8 DEF Next

LEMMA LoopsStart == Init => LoopsInv
  BY DEF Init, LoopsInv, LoopType, LoopsKept, Off, Timer

\* A page has all its loops and a page that is gone has none that waits for its
\* timer, for any number of loops and mounts and whichever calls fail.
THEOREM LoopsAreKept == Spec => []LoopsKept
<1>1. LoopsInv => LoopsKept
  BY DEF LoopsInv
<1>. QED
  BY LoopsStart, LoopsNext, <1>1, PTL DEF Spec

----------------------------------------------------------------------------
(***************************************************************************)
(* What the generator has noted of a guest. While one step of the guest is *)
(* under way, the state it has read is still the guest's state, or the     *)
(* page was opened again and the guest is new; and where the step waits    *)
(* says which part of that state is still true of the services.            *)
(***************************************************************************)
StateType == [stage : {"new", "arrived", "hotel_booked", "beach_booked"},
              reservationId : Nat \cup {NoId}, activityId : Activities \cup {NoId}]

\* The stage st is true of the reservations c and the activity b.
Holds(st, c, b) ==
    /\ st.stage \in {"hotel_booked", "beach_booked"} => st.reservationId \in ToSet(c)
    /\ st.stage = "beach_booked" => st.activityId = b /\ b # NoId

\* ... as far as a step that waits at a call needs it.
Fits(at, st, c, b) ==
    /\ at \in {"arrive", "hotel: arrival?", "hotel: reservation?", "hotel: post", "hotel: recover"} =>
         st.stage \in {"new", "arrived"}
    /\ at \in {"beach: reservation?", "beach: booked?", "beach: post"} =>
         st.stage = "hotel_booked" /\ st.reservationId \in ToSet(c)
    /\ at \in {"cancel activity", "cancel all"} => st.reservationId \in ToSet(c)
    /\ at = "chatting" => Holds(st, c, b)

TrafficType ==
    /\ confirmed \in [Guests -> Seq(Nat)] /\ issued \in Nat
    /\ booking \in [Guests -> Activities \cup {NoId}]
    /\ states \in [Guests -> StateType]
    /\ loop \in [Loops -> [at : Waits \cup {"off", "timer"}, guest : Guests \cup {NoId},
                           state : StateType]]
    /\ \A l \in Loops : IF loop[l].at \in Waits THEN loop[l].guest \in Guests
                                                ELSE loop[l] \in {Off, Timer}

Agrees(g) ==
    /\ \A k, l \in Loops : loop[k].guest = g /\ loop[l].guest = g => k = l
    /\ (\A l \in Loops : loop[l].guest # g) => Holds(states[g], confirmed[g], booking[g])
    /\ \A l \in Loops : loop[l].guest = g =>
         /\ Fits(loop[l].at, loop[l].state, confirmed[g], booking[g])
         /\ states[g] = IF l[1] = mount THEN loop[l].state ELSE New

StageInv == TrafficType /\ \A g \in Guests \ disturbed : Agrees(g)

\* What the step of a loop leaves: it waits on, with a state that still fits,
\* or it is over, and what is noted then is true.
Leaves(l) ==
    LET g == loop[l].guest
        c == confirmed'[g]
        b == booking'[g]
        fits == Fits(loop[l].at, loop[l].state, confirmed[g], booking[g])
    IN
    \/ \E at \in Waits : Await(l, at) /\ (fits => Fits(at, loop[l].state, c, b))
    \/ \E st \in StateType : setState(l, st) /\ (fits => Holds(st, c, b))
    \/ Done(l) /\ (fits => Holds(loop[l].state, c, b))

\* A step touches the services for its own guest only.
OwnGuest(l) ==
    /\ mount' = mount /\ issued' \in Nat
    /\ confirmed' \in [Guests -> Seq(Nat)] /\ booking' \in [Guests -> Activities \cup {NoId}]
    /\ \A h \in Guests : h # loop[l].guest =>
         confirmed'[h] = confirmed[h] /\ booking'[h] = booking[h]

----------------------------------------------------------------------------
\* A sequence without one of its elements is a sequence.
LEMMA RemovedIsSeq ==
    ASSUME NEW S, NEW q \in Seq(S), NEW i \in 1 .. Len(q)
    PROVE  RemoveAt(q, i) \in Seq(S)
<1>1. SubSeq(q, 1, i - 1) \in Seq(S)
  BY SubSeqProperties
<1>2. SubSeq(q, i + 1, Len(q)) \in Seq(S)
  BY SubSeqProperties
<1>. DEFINE u == SubSeq(q, 1, i - 1)
            v == SubSeq(q, i + 1, Len(q))
<1>. HIDE DEF u, v
<1>3. u \o v \in Seq(S)
  BY <1>1, <1>2 DEF u, v
<1>. QED
  BY <1>3 DEF RemoveAt, u, v

\* The front of two sequences joined.
LEMMA Joined ==
    ASSUME NEW S, NEW u \in Seq(S), NEW v \in Seq(S), NEW i \in 1 .. Len(u)
    PROVE  (u \o v)[i] = u[i]
<1>1. Len(u) \in Nat /\ Len(v) \in Nat
  OBVIOUS
<1>2. i \in 1 .. Len(u) + Len(v)
  BY <1>1
<1>. QED
  BY <1>1, <1>2, ConcatProperties

\* A sequence with an element inserted is a sequence that has the element.
LEMMA InsertedIsSeq ==
    ASSUME NEW S, NEW q \in Seq(S), NEW i \in 1 .. Len(q) + 1, NEW r \in S
    PROVE  InsertAt(q, i, r) \in Seq(S) /\ r \in ToSet(InsertAt(q, i, r))
<1>. DEFINE u == SubSeq(q, 1, i - 1)
            v == SubSeq(q, i, Len(q))
            m == <<r>>
<1>0. i \in Nat /\ i >= 1 /\ Len(q) \in Nat /\ i <= Len(q) + 1
  OBVIOUS
<1>1. u \in Seq(S) /\ Len(u) = i - 1
  <2>1. \A j \in 1 .. i - 1 : j \in 1 .. Len(q)
    BY <1>0
  <2>. QED
    BY <1>0, <2>1, SubSeqProperties
<1>2. v \in Seq(S)
  <2>1. \A j \in i .. Len(q) : j \in 1 .. Len(q)
    BY <1>0
  <2>. QED
    BY <1>0, <2>1, SubSeqProperties
<1>3. m \in Seq(S) /\ Len(m) = 1 /\ m[1] = r
  OBVIOUS
<1>. HIDE DEF u, v, m
<1>. DEFINE um == u \o m
<1>4. um \in Seq(S) /\ Len(um) = i /\ um[i] = r
  <2>1. um \in Seq(S) /\ Len(um) = Len(u) + Len(m)
    BY <1>1, <1>3, ConcatProperties
  <2>2. Len(u) + Len(m) = i /\ i \in 1 .. Len(u) + Len(m) /\ ~(i <= Len(u)) /\ i - Len(u) = 1
    BY <1>0, <1>1, <1>3
  <2>3. um[i] = m[i - Len(u)]
    BY <1>1, <1>3, <2>2, ConcatProperties
  <2>. QED
    BY <1>3, <2>1, <2>2, <2>3
<1>. HIDE DEF um
<1>5. um \o v \in Seq(S) /\ Len(um \o v) = i + Len(v) /\ (um \o v)[i] = r
  <2>1. um \o v \in Seq(S) /\ Len(um \o v) = Len(um) + Len(v)
    BY <1>2, <1>4, ConcatProperties
  <2>2. i \in 1 .. Len(um)
    BY <1>0, <1>4
  <2>3. (um \o v)[i] = um[i]
    BY <1>2, <1>4, <2>2, Joined
  <2>. QED
    BY <1>4, <2>1, <2>3
<1>. DEFINE d == um \o v
<1>. HIDE DEF d
<1>6. d \in Seq(S) /\ i \in 1 .. Len(d) /\ d[i] = r
  <2>1. Len(v) \in Nat
    BY <1>2
  <2>. QED
    BY <1>0, <1>5, <2>1 DEF d
<1>7. r \in ToSet(d)
  BY <1>6 DEF ToSet
<1>8. InsertAt(q, i, r) = d
  BY DEF InsertAt, d, um, u, v, m
<1>. QED
  BY <1>6, <1>7, <1>8

\* A reservation is cancelled: its guest's reservations stay a sequence of them.
LEMMA CancelledIsSeq ==
    ASSUME NEW S, NEW g \in Guests, confirmed[g] \in Seq(S), NEW r, cancelReservation(g, r)
    PROVE  \E q \in Seq(S) : confirmed' = [confirmed EXCEPT ![g] = q]
<1>. DEFINE q == confirmed[g]
            at == {i \in 1 .. Len(q) : q[i] = r}
            d == IF at = {} THEN q ELSE RemoveAt(q, CHOOSE i \in at : TRUE)
<1>1. confirmed' = [confirmed EXCEPT ![g] = d]
  BY DEF cancelReservation
<1>2. d \in Seq(S)
  <2>1. CASE at = {}
    BY <2>1
  <2>2. CASE at # {}
    <3>1. PICK i \in 1 .. Len(q) : i = CHOOSE j \in at : TRUE
      BY <2>2
    <3>2. RemoveAt(q, i) \in Seq(S)
      BY RemovedIsSeq
    <3>. QED
      BY <2>2, <3>1, <3>2
  <2>. QED
    BY <2>1, <2>2
<1>. HIDE DEF d
<1>. QED
  BY <1>1, <1>2

\* The active reservation is one of the guest's.
LEMMA ActiveIsConfirmed ==
    ASSUME TrafficType, NEW g \in Guests, Active(g) # NoId
    PROVE  Active(g) \in Nat /\ Active(g) \in ToSet(confirmed[g])
<1>1. confirmed[g] \in Seq(Nat) /\ confirmed[g] # <<>>
  BY DEF TrafficType, Active
<1>2. Len(confirmed[g]) \in Nat /\ Len(confirmed[g]) # 0 /\ Head(confirmed[g]) = confirmed[g][1]
  BY <1>1, EmptySeq
<1>3. 1 \in 1 .. Len(confirmed[g])
  BY <1>2
<1>4. Active(g) = confirmed[g][1] /\ confirmed[g][1] \in Nat
  BY <1>1, <1>2, <1>3 DEF Active
<1>. QED
  BY <1>3, <1>4 DEF ToSet

\* The states a step may set.
LEMMA StatesSet ==
    /\ New \in StateType /\ New.stage = "new"
    /\ [New EXCEPT !.stage = "arrived"] \in StateType
    /\ [New EXCEPT !.stage = "arrived"].stage = "arrived"
    /\ \A r \in Nat \cup {NoId} :
         LET st == [New EXCEPT !.stage = "hotel_booked", !.reservationId = r] IN
         st \in StateType /\ st.stage = "hotel_booked" /\ st.reservationId = r
    /\ \A st \in StateType : \A a \in Activities \cup {NoId} :
         LET nx == [st EXCEPT !.stage = "beach_booked", !.activityId = a] IN
         /\ nx \in StateType /\ nx.stage = "beach_booked" /\ nx.activityId = a
         /\ nx.reservationId = st.reservationId
  BY DEF New, StateType

\* A step is taken at a call, by a loop that has a guest.
LEMMA InCallType ==
    ASSUME TrafficType, NEW l \in Loops, loop[l].at \in Waits
    PROVE  /\ loop[l].guest \in Guests /\ loop[l].state \in StateType
           /\ loop[l].state.reservationId \in Nat \cup {NoId}
  BY DEF TrafficType, StateType

\* Reading a service changes none.
LEMMA ReadOwn ==
    ASSUME TrafficType, UNCHANGED services, mount' = mount, NEW l \in Loops
    PROVE  OwnGuest(l) /\ confirmed' = confirmed /\ booking' = booking
  BY DEF TrafficType, services, OwnGuest

\* The calls of a step, one by one: what an answer, an error before the effect
\* and an error after it leave.
LEMMA StepLeaves ==
    ASSUME TrafficType, NEW l \in Loops, Step(l)
    PROVE  OwnGuest(l) /\ Leaves(l) /\ loop[l].at \in Waits
<1>. DEFINE g == loop[l].guest
            st == loop[l].state
<1>0. ASSUME NEW at \in Waits, loop[l].at = at
      PROVE  /\ loop[l].at \in Waits /\ g \in Guests /\ st \in StateType
             /\ st.reservationId \in Nat \cup {NoId}
             /\ confirmed[g] \in Seq(Nat) /\ booking[g] \in Activities \cup {NoId}
  BY <1>0, InCallType DEF TrafficType
<1>W. /\ "arrive" \in Waits /\ "hotel: arrival?" \in Waits /\ "hotel: reservation?" \in Waits
      /\ "hotel: post" \in Waits /\ "hotel: recover" \in Waits
      /\ "beach: reservation?" \in Waits /\ "beach: booked?" \in Waits /\ "beach: post" \in Waits
      /\ "cancel activity" \in Waits /\ "cancel all" \in Waits /\ "cancel reservation" \in Waits
      /\ "chatting" \in Waits
  BY DEF Waits
<1>1. CASE arrive(l)
  <2>1. loop[l].at = "arrive" /\ mount' = mount
    BY <1>1 DEF arrive, Call, mounts
  <2>2. g \in Guests /\ st \in StateType /\ loop[l].at \in Waits
    BY <1>0, <1>W, <2>1
  <2>3. confirmed' = confirmed /\ booking' = booking /\ issued' = issued
    BY <1>1 DEF arrive, Call, services, postArrival
  <2>4. OwnGuest(l)
    BY <2>1, <2>3 DEF OwnGuest, TrafficType
  <2>5. CASE setState(l, [New EXCEPT !.stage = "arrived"])
    <3>1. Holds([New EXCEPT !.stage = "arrived"], confirmed'[g], booking'[g])
      BY StatesSet DEF Holds
    <3>. QED
      BY <2>2, <2>4, <2>5, <3>1, StatesSet DEF Leaves
  <2>6. CASE Done(l)
    <3>1. Fits(loop[l].at, st, confirmed[g], booking[g]) => Holds(st, confirmed'[g], booking'[g])
      BY <2>1 DEF Fits, Holds
    <3>. QED
      BY <2>2, <2>4, <2>6, <3>1 DEF Leaves
  <2>. QED
    BY <1>1, <2>5, <2>6 DEF arrive, Call
<1>2. CASE ChatEnds(l)
  <2>1. loop[l].at = "chatting" /\ Done(l) /\ UNCHANGED services /\ mount' = mount
    BY <1>2 DEF ChatEnds, mounts
  <2>2. OwnGuest(l) /\ confirmed' = confirmed /\ booking' = booking
    BY <2>1, ReadOwn
  <2>3. Fits(loop[l].at, st, confirmed[g], booking[g]) => Holds(st, confirmed'[g], booking'[g])
    BY <2>1, <2>2 DEF Fits
  <2>. QED
    BY <1>W, <2>1, <2>2, <2>3 DEF Leaves
<1>3. ASSUME NEW at \in {"hotel: arrival?", "hotel: reservation?", "hotel: post", "hotel: recover"},
             loop[l].at = at, OwnGuest(l),
             \/ Await(l, "hotel: reservation?") \/ Await(l, "hotel: post")
             \/ Await(l, "hotel: recover") \/ Done(l)
             \/ \E r \in Nat : HotelBooked(l, r) /\ r \in ToSet(confirmed'[g])
      PROVE  OwnGuest(l) /\ Leaves(l) /\ loop[l].at \in Waits
  <2>1. at \in Waits
    BY DEF Waits
  <2>2. Fits(loop[l].at, st, confirmed[g], booking[g]) => st.stage \in {"new", "arrived"}
    BY <1>3 DEF Fits
  <2>3. ASSUME NEW n \in {"hotel: reservation?", "hotel: post", "hotel: recover"}, Await(l, n)
        PROVE  Leaves(l)
    <3>1. st.stage \in {"new", "arrived"} => Fits(n, st, confirmed'[g], booking'[g])
      BY DEF Fits
    <3>2. n \in Waits
      BY DEF Waits
    <3>. QED
      BY <2>2, <2>3, <3>1, <3>2 DEF Leaves
  <2>4. ASSUME Done(l) PROVE Leaves(l)
    <3>1. st.stage \in {"new", "arrived"} => Holds(st, confirmed'[g], booking'[g])
      BY DEF Holds
    <3>. QED
      BY <2>2, <2>4, <3>1 DEF Leaves
  <2>5. ASSUME NEW r \in Nat, HotelBooked(l, r), r \in ToSet(confirmed'[g])
        PROVE  Leaves(l)
    <3>. DEFINE nx == [New EXCEPT !.stage = "hotel_booked", !.reservationId = r]
    <3>1. nx \in StateType /\ nx.stage = "hotel_booked" /\ nx.reservationId = r
      BY StatesSet
    <3>2. setState(l, nx)
      BY <2>5 DEF HotelBooked
    <3>. HIDE DEF nx
    <3>3. Holds(nx, confirmed'[g], booking'[g])
      BY <2>5, <3>1 DEF Holds
    <3>. QED
      BY <3>1, <3>2, <3>3 DEF Leaves
  <2>. QED
    BY <1>3, <2>1, <2>3, <2>4, <2>5
<1>4. ASSUME NEW at \in Waits, loop[l].at = at, UNCHANGED services, mount' = mount, Existing(l)
      PROVE  Done(l) \/ \E r \in Nat : HotelBooked(l, r) /\ r \in ToSet(confirmed'[g])
  <2>1. g \in Guests /\ confirmed' = confirmed
    BY <1>0, <1>4 DEF services
  <2>. QED
    BY <1>4, <2>1, ActiveIsConfirmed DEF Existing
<1>5. CASE CheckArrival(l)
  <2>1. /\ loop[l].at = "hotel: arrival?" /\ mount' = mount /\ UNCHANGED services
        /\ Await(l, "hotel: reservation?") \/ Await(l, "hotel: recover") \/ Done(l)
    BY <1>5 DEF CheckArrival, Read, Call, mounts
  <2>. QED
    BY <1>3, <2>1, ReadOwn
<1>6. CASE CheckReservation(l)
  <2>1. /\ loop[l].at = "hotel: reservation?" /\ mount' = mount /\ UNCHANGED services
        /\ Await(l, "hotel: post") \/ Await(l, "hotel: recover") \/ Existing(l)
    BY <1>6 DEF CheckReservation, Read, Call, mounts
  <2>. QED
    BY <1>W, <1>3, <1>4, <2>1, ReadOwn
<1>7. CASE Recover(l)
  <2>1. /\ loop[l].at = "hotel: recover" /\ mount' = mount /\ UNCHANGED services
        /\ Existing(l) \/ Done(l)
    BY <1>7 DEF Recover, Read, Call, mounts
  <2>. QED
    BY <1>W, <1>3, <1>4, <2>1, ReadOwn
<1>8. CASE Reserve(l)
  <2>. DEFINE r == issued + 1
  <2>1. loop[l].at = "hotel: post" /\ mount' = mount
    BY <1>8 DEF Reserve, Call, mounts
  <2>2. g \in Guests /\ confirmed[g] \in Seq(Nat) /\ r \in Nat
    <3>1. issued \in Nat
      BY DEF TrafficType
    <3>2. g \in Guests /\ confirmed[g] \in Seq(Nat)
      BY <1>0, <1>W, <2>1
    <3>. QED
      BY <3>1, <3>2
  <2>3. CASE UNCHANGED services /\ Await(l, "hotel: recover")
    BY <1>3, <2>1, <2>3, ReadOwn
  <2>4. ASSUME NEW i \in 1 .. Len(confirmed[g]) + 1,
               confirmed' = [confirmed EXCEPT ![g] = InsertAt(@, i, r)],
               issued' = r, UNCHANGED booking,
               HotelBooked(l, r) \/ Await(l, "hotel: recover")
        PROVE  OwnGuest(l) /\ Leaves(l) /\ loop[l].at \in Waits
    <3>. DEFINE d == InsertAt(confirmed[g], i, r)
    <3>1. d \in Seq(Nat) /\ r \in ToSet(d)
      BY <2>2, InsertedIsSeq
    <3>. HIDE DEF d
    <3>2. confirmed' = [confirmed EXCEPT ![g] = d]
      BY <2>4 DEF d
    <3>3. OwnGuest(l)
      BY <2>1, <2>2, <2>4, <3>1, <3>2 DEF OwnGuest, TrafficType
    <3>4. confirmed'[g] = d
      BY <2>2, <3>2 DEF TrafficType
    <3>5. \/ Await(l, "hotel: recover")
          \/ \E x \in Nat : HotelBooked(l, x) /\ x \in ToSet(confirmed'[g])
      BY <2>2, <2>4, <3>1, <3>4
    <3>. QED
      BY <1>3, <2>1, <3>3, <3>5
  <2>. QED
    BY <1>8, <2>3, <2>4 DEF Reserve, postReservation, Call
<1>9. CASE CheckBeach(l)
  <2>1. /\ loop[l].at = "beach: reservation?" /\ mount' = mount /\ UNCHANGED services
        /\ Await(l, "beach: booked?") \/ Done(l)
    BY <1>9 DEF CheckBeach, Read, Call, mounts
  <2>2. OwnGuest(l) /\ confirmed' = confirmed /\ booking' = booking
    BY <2>1, ReadOwn
  <2>3. Fits(loop[l].at, st, confirmed[g], booking[g]) =>
            /\ Holds(st, confirmed'[g], booking'[g])
            /\ Fits("beach: booked?", st, confirmed'[g], booking'[g])
    BY <2>1, <2>2 DEF Fits, Holds
  <2>. QED
    BY <1>W, <2>1, <2>2, <2>3 DEF Leaves
<1>10. ASSUME NEW a \in Activities, loop[l].at \in {"beach: booked?", "beach: post"}, BeachBooked(l, a),
              OwnGuest(l), confirmed' = confirmed, booking'[g] = a
       PROVE  Leaves(l)
  <2>. DEFINE nx == [st EXCEPT !.stage = "beach_booked", !.activityId = a]
  <2>1. st \in StateType
    BY <1>W, <1>0, <1>10
  <2>2. /\ nx \in StateType /\ nx.stage = "beach_booked" /\ nx.activityId = a
        /\ nx.reservationId = st.reservationId
    BY <2>1, StatesSet
  <2>3. setState(l, nx)
    BY <1>10 DEF BeachBooked
  <2>. HIDE DEF nx
  <2>4. Fits(loop[l].at, st, confirmed[g], booking[g]) => Holds(nx, confirmed'[g], booking'[g])
    BY <1>10, <2>2, TrafficAssumption DEF Fits, Holds
  <2>. QED
    BY <2>2, <2>3, <2>4 DEF Leaves
<1>11. CASE CheckBooking(l)
  <2>1. /\ loop[l].at = "beach: booked?" /\ mount' = mount /\ UNCHANGED services
        /\ \/ booking[g] # NoId /\ BeachBooked(l, booking[g])
           \/ Await(l, "beach: post") \/ Done(l)
    BY <1>11 DEF CheckBooking, Read, Call, mounts
  <2>2. OwnGuest(l) /\ confirmed' = confirmed /\ booking' = booking
    BY <2>1, ReadOwn
  <2>3. Fits(loop[l].at, st, confirmed[g], booking[g]) =>
            /\ Holds(st, confirmed'[g], booking'[g])
            /\ Fits("beach: post", st, confirmed'[g], booking'[g])
    BY <2>1, <2>2 DEF Fits, Holds
  <2>4. booking[g] \in Activities \cup {NoId}
    BY <1>0, <1>W, <2>1
  <2>5. CASE booking[g] # NoId /\ BeachBooked(l, booking[g])
    <3>1. Leaves(l)
      BY <1>10, <2>1, <2>2, <2>4, <2>5
    <3>. QED
      BY <1>W, <2>1, <2>2, <3>1
  <2>6. CASE Await(l, "beach: post") \/ Done(l)
    BY <1>W, <2>1, <2>2, <2>3, <2>6 DEF Leaves
  <2>. QED
    BY <2>1, <2>5, <2>6
<1>12. ASSUME NEW a \in Activities, Book(l, a)
       PROVE  OwnGuest(l) /\ Leaves(l) /\ loop[l].at \in Waits
  <2>1. loop[l].at = "beach: post" /\ mount' = mount
    BY <1>12 DEF Book, Call, mounts
  <2>2. g \in Guests /\ loop[l].at \in Waits
    BY <1>0, <1>W, <2>1
  <2>3. /\ confirmed' = confirmed /\ issued' = issued
        /\ booking' = [booking EXCEPT ![g] = a] \/ booking' = booking
    BY <1>12 DEF Book, bookActivity, Call, services
  <2>4. OwnGuest(l)
    <3>1. /\ booking' \in [Guests -> Activities \cup {NoId}]
          /\ \A h \in Guests : h # g => booking'[h] = booking[h]
      BY <2>2, <2>3 DEF TrafficType
    <3>. QED
      BY <2>1, <2>3, <3>1 DEF OwnGuest, TrafficType
  <2>5. CASE Done(l)
    <3>1. Fits(loop[l].at, st, confirmed[g], booking[g]) => Holds(st, confirmed'[g], booking'[g])
      BY <2>1, <2>3 DEF Fits, Holds
    <3>. QED
      BY <2>2, <2>4, <2>5, <3>1 DEF Leaves
  <2>6. CASE booking' = [booking EXCEPT ![g] = a] /\ BeachBooked(l, a)
    <3>1. booking'[g] = a
      BY <2>2, <2>6 DEF TrafficType
    <3>2. Leaves(l)
      BY <1>10, <2>1, <2>3, <2>4, <2>6, <3>1
    <3>. QED
      BY <2>2, <2>4, <3>2
  <2>. QED
    BY <1>12, <2>5, <2>6 DEF Book, bookActivity, Call
<1>13. ASSUME NEW at \in Waits, loop[l].at = at, Cancelled(l) \/ UNCHANGED services, mount' = mount
       PROVE  OwnGuest(l) /\ confirmed' = confirmed
  <2>1. g \in Guests /\ booking[g] \in Activities \cup {NoId}
    BY <1>0, <1>13
  <2>2. /\ confirmed' = confirmed /\ issued' = issued
        /\ \/ booking' = booking
           \/ booking' = [booking EXCEPT ![g] = IF @ = loop[l].state.activityId THEN NoId ELSE @]
    BY <1>13 DEF Cancelled, cancelActivity, services
  <2>3. booking' \in [Guests -> Activities \cup {NoId}] /\ \A h \in Guests : h # g => booking'[h] = booking[h]
    BY <2>1, <2>2 DEF TrafficType
  <2>. QED
    BY <1>13, <2>2, <2>3 DEF OwnGuest, TrafficType
<1>14. CASE cancelBeachActivity(l)
  <2>. DEFINE nx == [New EXCEPT !.stage = "hotel_booked", !.reservationId = st.reservationId]
  <2>1. /\ loop[l].at = "cancel activity" /\ mount' = mount /\ setState(l, nx)
        /\ Cancelled(l) \/ UNCHANGED services
    BY <1>14 DEF cancelBeachActivity, Cancel, Call, mounts
  <2>2. OwnGuest(l) /\ confirmed' = confirmed /\ st.reservationId \in Nat \cup {NoId}
    BY <1>W, <1>0, <1>13, <2>1
  <2>3. nx \in StateType /\ nx.stage = "hotel_booked" /\ nx.reservationId = st.reservationId
    BY <2>2, StatesSet
  <2>. HIDE DEF nx
  <2>4. Fits(loop[l].at, st, confirmed[g], booking[g]) => Holds(nx, confirmed'[g], booking'[g])
    BY <2>1, <2>2, <2>3 DEF Fits, Holds
  <2>. QED
    BY <1>W, <2>1, <2>2, <2>3, <2>4 DEF Leaves
<1>15. CASE cancelAll(l)
  <2>1. /\ loop[l].at = "cancel all" /\ mount' = mount /\ Await(l, "cancel reservation")
        /\ Cancelled(l) \/ UNCHANGED services
    BY <1>15 DEF cancelAll, Cancel, Call, mounts
  <2>2. OwnGuest(l)
    BY <1>W, <1>13, <2>1
  <2>3. Fits("cancel reservation", st, confirmed'[g], booking'[g])
    BY DEF Fits
  <2>. QED
    BY <1>W, <2>1, <2>2, <2>3 DEF Leaves
<1>16. CASE cancelHotelReservation(l)
  <2>1. /\ loop[l].at = "cancel reservation" /\ mount' = mount /\ setState(l, New)
        /\ UNCHANGED services \/ cancelReservation(g, st.reservationId)
    BY <1>16 DEF cancelHotelReservation, Cancel, Call, mounts
  <2>2. g \in Guests /\ confirmed[g] \in Seq(Nat)
    BY <1>0, <1>W, <2>1
  <2>3. OwnGuest(l)
    <3>1. CASE UNCHANGED services
      BY <2>1, <3>1, ReadOwn
    <3>2. CASE cancelReservation(g, st.reservationId)
      <4>1. PICK q \in Seq(Nat) : confirmed' = [confirmed EXCEPT ![g] = q]
        BY <2>2, <3>2, CancelledIsSeq
      <4>2. UNCHANGED <<issued, booking>>
        BY <3>2 DEF cancelReservation
      <4>. QED
        BY <2>1, <2>2, <4>1, <4>2 DEF OwnGuest, TrafficType
    <3>. QED
      BY <2>1, <3>1, <3>2
  <2>4. Holds(New, confirmed'[g], booking'[g])
    BY StatesSet DEF Holds
  <2>. QED
    BY <1>W, <2>1, <2>3, <2>4, StatesSet DEF Leaves
<1>. QED
  BY <1>1, <1>2, <1>5, <1>6, <1>7, <1>8, <1>9, <1>11, <1>12, <1>14, <1>15, <1>16 DEF Step

\* A loop that is off or at its timer has the type of a loop.
LEMMA RestTyped ==
    /\ New \in StateType
    /\ \A r \in {Off, Timer} :
         r \in [at : Waits \cup {"off", "timer"}, guest : Guests \cup {NoId}, state : StateType]
<1>1. New \in StateType
  BY StatesSet
<1>2. /\ Off = [at |-> "off", guest |-> NoId, state |-> New]
      /\ Timer = [at |-> "timer", guest |-> NoId, state |-> New]
  BY DEF Off, Timer
<1>. QED
  BY <1>1, <1>2

\* The types are kept by a loop that goes to r.
LEMMA LoopTyped ==
    ASSUME TrafficType, NEW l \in Loops, NEW r, loop' = [loop EXCEPT ![l] = r],
           \/ r \in {Off, Timer}
           \/ r \in [at : Waits, guest : Guests, state : StateType]
    PROVE  /\ loop' \in [Loops -> [at : Waits \cup {"off", "timer"}, guest : Guests \cup {NoId},
                                   state : StateType]]
           /\ \A k \in Loops : IF loop'[k].at \in Waits THEN loop'[k].guest \in Guests
                                                        ELSE loop'[k] \in {Off, Timer}
<1>1. /\ Off = [at |-> "off", guest |-> NoId, state |-> New]
      /\ Timer = [at |-> "timer", guest |-> NoId, state |-> New]
  BY DEF Off, Timer
<1>2. "off" \notin Waits /\ "timer" \notin Waits
  BY DEF Waits
<1>3. r \in [at : Waits \cup {"off", "timer"}, guest : Guests \cup {NoId}, state : StateType]
  BY RestTyped
<1>4. loop' \in [Loops -> [at : Waits \cup {"off", "timer"}, guest : Guests \cup {NoId},
                           state : StateType]]
  BY <1>3 DEF TrafficType
<1>5. ASSUME NEW k \in Loops
      PROVE  IF loop'[k].at \in Waits THEN loop'[k].guest \in Guests ELSE loop'[k] \in {Off, Timer}
  <2>1. CASE k = l
    <3>1. loop'[k] = r
      BY <2>1 DEF TrafficType
    <3>2. CASE r \in {Off, Timer}
      BY <1>1, <1>2, <3>1, <3>2
    <3>3. CASE r \in [at : Waits, guest : Guests, state : StateType]
      BY <3>1, <3>3
    <3>. QED
      BY <3>2, <3>3
  <2>2. CASE k # l
    <3>1. loop'[k] = loop[k]
      BY <2>2 DEF TrafficType
    <3>. QED
      BY <3>1 DEF TrafficType
  <2>. QED
    BY <2>1, <2>2
<1>. QED
  BY <1>4, <1>5

\* A loop that is off or at its timer has no guest.
LEMMA NoGuest ==
    /\ Off.guest = NoId /\ Timer.guest = NoId /\ NoId \notin Guests
    /\ \A l : scheduleNext(l) \in {Off, Timer}
  BY TrafficAssumption DEF Off, Timer, scheduleNext

\* A step of a loop keeps the agreement of its own guest, and of the others.
LEMMA StepAgrees ==
    ASSUME StageInv, NEW l \in Loops, Step(l)
    PROVE  StageInv'
<1>. DEFINE g == loop[l].guest
            st == loop[l].state
            c == confirmed'[g]
            b == booking'[g]
            fits == Fits(loop[l].at, loop[l].state, confirmed[g], booking[g])
<1>0. TrafficType
  BY DEF StageInv
<1>1. OwnGuest(l) /\ Leaves(l) /\ loop[l].at \in Waits
  BY <1>0, StepLeaves
<1>2. g \in Guests /\ st \in StateType
  BY <1>0, <1>1, InCallType
<1>3. ASSUME NEW k \in Loops, k # l, g \notin disturbed
      PROVE  loop[k].guest # g
  BY <1>2, <1>3 DEF StageInv, Agrees
<1>4. g \notin disturbed => fits /\ states[g] = IF l[1] = mount THEN st ELSE New
  BY <1>2 DEF StageInv, Agrees
<1>5. ASSUME NEW r, loop' = [loop EXCEPT ![l] = r],
             \/ disturbed' = disturbed
             \/ disturbed' = disturbed \ {g} /\ Alone(l, g) /\ r \in {Off, Timer} /\ states'[g] = New,
             \/ r \in {Off, Timer}
             \/ r \in [at : Waits, guest : Guests, state : StateType] /\ r.guest = g,
             states' \in [Guests -> StateType],
             \A h \in Guests : h # g => states'[h] = states[h],
             g \notin disturbed =>
                \/ r \in {Off, Timer} /\ Holds(states'[g], c, b)
                \/ /\ r.guest = g /\ r.state = st /\ Fits(r.at, st, c, b)
                   /\ states'[g] = states[g]
      PROVE  StageInv'
  <2>1. TrafficType'
    BY <1>0, <1>1, <1>5, LoopTyped DEF TrafficType, OwnGuest
  <2>2. loop'[l] = r /\ \A k \in Loops : k # l => loop'[k] = loop[k]
    BY <1>0, <1>5 DEF TrafficType
  <2>3. mount' = mount
    BY <1>1 DEF OwnGuest
  <2>4. ASSUME NEW h \in Guests \ disturbed, h # g
        PROVE  Agrees(h)'
    <3>1. r.guest # h
      BY <1>5, <2>4, NoGuest
    <3>2. states'[h] = states[h] /\ confirmed'[h] = confirmed[h] /\ booking'[h] = booking[h]
      BY <1>1, <1>5, <2>4 DEF OwnGuest
    <3>3. Agrees(h)
      BY <2>4 DEF StageInv
    <3>4. \A k \in Loops : loop'[k].guest = h => k # l /\ loop[k].guest = h /\ loop'[k] = loop[k]
      BY <2>2, <3>1
    <3>5. \A k \in Loops : loop[k].guest = h => k # l /\ loop'[k] = loop[k]
      BY <2>2, <2>4
    <3>6. \A k, m \in Loops : loop'[k].guest = h /\ loop'[m].guest = h => k = m
      BY <3>3, <3>4 DEF Agrees
    <3>7. (\A k \in Loops : loop'[k].guest # h) => Holds(states'[h], confirmed'[h], booking'[h])
      BY <3>2, <3>3, <3>5 DEF Agrees
    <3>8. ASSUME NEW k \in Loops, loop'[k].guest = h
          PROVE  /\ Fits(loop'[k].at, loop'[k].state, confirmed'[h], booking'[h])
                 /\ states'[h] = IF k[1] = mount' THEN loop'[k].state ELSE New
      BY <2>3, <3>2, <3>3, <3>4, <3>8 DEF Agrees
    <3>. QED
      BY <3>6, <3>7, <3>8 DEF Agrees
  <2>5. ASSUME NEW w \in Guests \ disturbed', w = g
        PROVE  Agrees(w)'
    <3>1. \A k \in Loops : k # l => loop'[k].guest # w
      BY <1>3, <1>5, <2>2, <2>5 DEF Alone
    <3>2. \A k, m \in Loops : loop'[k].guest = w /\ loop'[m].guest = w => k = m
      BY <3>1
    <3>3. CASE r \in {Off, Timer} /\ Holds(states'[w], confirmed'[w], booking'[w])
      <4>1. \A k \in Loops : loop'[k].guest # w
        BY <2>2, <3>1, <3>3, NoGuest
      <4>. QED
        BY <3>2, <3>3, <4>1 DEF Agrees
    <3>4. CASE /\ r.guest = w /\ r.state = st /\ Fits(r.at, st, confirmed'[w], booking'[w])
               /\ states'[w] = states[w] /\ g \notin disturbed
      <4>1. loop'[l].guest = w
        BY <2>2, <3>4
      <4>2. ASSUME NEW k \in Loops, loop'[k].guest = w
            PROVE  /\ Fits(loop'[k].at, loop'[k].state, confirmed'[w], booking'[w])
                   /\ states'[w] = IF k[1] = mount' THEN loop'[k].state ELSE New
        <5>1. k = l
          BY <3>1, <4>2
        <5>. QED
          BY <1>4, <2>2, <2>3, <2>5, <3>4, <5>1
      <4>. QED
        BY <3>2, <4>1, <4>2 DEF Agrees
    <3>5. CASE g \in disturbed
      <4>1. r \in {Off, Timer} /\ states'[w] = New
        BY <1>5, <2>5, <3>5
      <4>2. Holds(states'[w], confirmed'[w], booking'[w])
        BY <4>1, StatesSet DEF Holds
      <4>. QED
        BY <3>3, <4>1, <4>2
    <3>. QED
      BY <1>5, <2>5, <3>3, <3>4, <3>5
  <2>6. \A h \in Guests \ disturbed' : Agrees(h)'
    BY <1>5, <2>4, <2>5
  <2>. QED
    BY <2>1, <2>6 DEF StageInv
<1>6. ASSUME NEW at \in Waits, Await(l, at), fits => Fits(at, st, c, b)
      PROVE  StageInv'
  <2>. DEFINE r == [loop[l] EXCEPT !.at = at]
  <2>1. loop' = [loop EXCEPT ![l] = r] /\ states' = states /\ disturbed' = disturbed
    BY <1>6 DEF Await
  <2>2. /\ r \in [at : Waits, guest : Guests, state : StateType]
        /\ r.guest = g /\ r.state = st /\ r.at = at
    <3>1. loop[l] \in [at : Waits \cup {"off", "timer"}, guest : Guests \cup {NoId},
                       state : StateType]
      BY <1>0 DEF TrafficType
    <3>. QED
      BY <1>2, <3>1
  <2>. HIDE DEF r
  <2>3. states' \in [Guests -> StateType]
    BY <1>0, <2>1 DEF TrafficType
  <2>. QED
    BY <1>4, <1>5, <1>6, <2>1, <2>2, <2>3
<1>7. ASSUME NEW s \in StateType, setState(l, s), fits => Holds(s, c, b)
      PROVE  StageInv'
  <2>. DEFINE r == scheduleNext(l)
  <2>1. /\ loop' = [loop EXCEPT ![l] = r] /\ r \in {Off, Timer}
        /\ disturbed' = IF l[1] = mount /\ s = New /\ Alone(l, g) THEN disturbed \ {g} ELSE disturbed
        /\ states' = IF l[1] = mount THEN [states EXCEPT ![g] = s] ELSE states
    BY <1>7, NoGuest DEF setState
  <2>. HIDE DEF r
  <2>2. /\ states' \in [Guests -> StateType]
        /\ \A h \in Guests : h # g => states'[h] = states[h]
    BY <1>0, <1>2, <2>1 DEF TrafficType
  <2>3. states'[g] = IF l[1] = mount THEN s ELSE states[g]
    BY <1>0, <1>2, <2>1 DEF TrafficType
  <2>4. g \notin disturbed => Holds(states'[g], c, b)
    <3>1. Holds(New, c, b)
      BY StatesSet DEF Holds
    <3>. QED
      BY <1>4, <1>7, <2>3, <3>1
  <2>5. \/ disturbed' = disturbed
        \/ disturbed' = disturbed \ {g} /\ Alone(l, g) /\ r \in {Off, Timer} /\ states'[g] = New
    BY <2>1, <2>3
  <2>. QED
    BY <1>5, <2>1, <2>2, <2>4, <2>5
<1>8. ASSUME Done(l), fits => Holds(st, c, b)
      PROVE  StageInv'
  <2>. DEFINE r == scheduleNext(l)
  <2>1. /\ loop' = [loop EXCEPT ![l] = r] /\ disturbed' = disturbed /\ r \in {Off, Timer}
        /\ states' = states
    BY <1>8, NoGuest DEF Done
  <2>. HIDE DEF r
  <2>2. states' \in [Guests -> StateType]
    BY <1>0, <2>1 DEF TrafficType
  <2>3. g \notin disturbed => Holds(states'[g], c, b)
    <3>1. Holds(New, c, b)
      BY StatesSet DEF Holds
    <3>. QED
      BY <1>4, <1>8, <2>1, <3>1
  <2>. QED
    BY <1>5, <2>1, <2>2, <2>3
<1>. QED
  BY <1>1, <1>6, <1>7, <1>8 DEF Leaves

\* The timer fires: the step reads the guest's state, which is true.
LEMMA BeginAgrees ==
    ASSUME StageInv, LoopsInv, NEW l \in Loops, NEW g \in Guests, NEW at \in Waits, Begin(l, g, at),
           Holds(states[g], confirmed[g], booking[g]) =>
              Fits(at, states[g], confirmed[g], booking[g])
    PROVE  StageInv'
<1>. DEFINE r == [at |-> at, guest |-> g, state |-> states[g]]
<1>0. TrafficType
  BY DEF StageInv
<1>1. /\ loop[l].at = "timer" /\ loop' = [loop EXCEPT ![l] = r]
      /\ UNCHANGED <<confirmed, issued, booking, states, mount>>
      /\ disturbed' = IF Alone(l, g) THEN disturbed ELSE disturbed \cup {g}
  BY DEF Begin, services, mounts
<1>2. states[g] \in StateType
  BY <1>0 DEF TrafficType
<1>3. /\ r \in [at : Waits, guest : Guests, state : StateType]
      /\ r.at = at /\ r.guest = g /\ r.state = states[g]
  BY <1>2
<1>. HIDE DEF r
<1>4. TrafficType'
  BY <1>0, <1>1, <1>3, LoopTyped DEF TrafficType
<1>5. loop'[l] = r /\ \A k \in Loops : k # l => loop'[k] = loop[k]
  BY <1>0, <1>1 DEF TrafficType
<1>6. loop[l] = Timer /\ loop[l].guest = NoId
  <2>1. "timer" \notin Waits /\ Off.at = "off"
    BY DEF Waits, Off
  <2>2. loop[l] \in {Off, Timer}
    BY <1>0, <1>1, <2>1 DEF TrafficType
  <2>. QED
    BY <1>1, <2>1, <2>2, NoGuest
<1>7. l[1] = mount
  BY <1>6 DEF LoopsInv, LoopsKept
<1>8. ASSUME NEW h \in Guests \ disturbed', h # g
      PROVE  Agrees(h)'
  <2>1. Agrees(h)
    BY <1>1, <1>8 DEF StageInv
  <2>2. \A k \in Loops : loop'[k].guest = h => loop[k].guest = h /\ loop'[k] = loop[k]
    BY <1>3, <1>5, <1>8
  <2>3. \A k \in Loops : loop[k].guest = h => loop'[k] = loop[k]
    BY <1>5, <1>6, <1>8, NoGuest
  <2>4. \A k, m \in Loops : loop'[k].guest = h /\ loop'[m].guest = h => k = m
    BY <2>1, <2>2 DEF Agrees
  <2>5. (\A k \in Loops : loop'[k].guest # h) => Holds(states'[h], confirmed'[h], booking'[h])
    BY <1>1, <2>1, <2>3 DEF Agrees
  <2>6. ASSUME NEW k \in Loops, loop'[k].guest = h
        PROVE  /\ Fits(loop'[k].at, loop'[k].state, confirmed'[h], booking'[h])
               /\ states'[h] = IF k[1] = mount' THEN loop'[k].state ELSE New
    BY <1>1, <2>1, <2>2, <2>6 DEF Agrees
  <2>. QED
    BY <2>4, <2>5, <2>6 DEF Agrees
<1>9. ASSUME g \notin disturbed'
      PROVE  Agrees(g)'
  <2>1. g \notin disturbed /\ \A k \in Loops : loop[k].guest # g
    BY <1>1, <1>6, <1>9, NoGuest DEF Alone
  <2>2. Holds(states[g], confirmed[g], booking[g])
    BY <2>1 DEF StageInv, Agrees
  <2>3. \A k \in Loops : loop'[k].guest = g => k = l
    BY <1>5, <2>1
  <2>4. loop'[l].guest = g
    BY <1>3, <1>5
  <2>5. ASSUME NEW k \in Loops, loop'[k].guest = g
        PROVE  /\ Fits(loop'[k].at, loop'[k].state, confirmed'[g], booking'[g])
               /\ states'[g] = IF k[1] = mount' THEN loop'[k].state ELSE New
    BY <1>1, <1>3, <1>5, <1>7, <2>2, <2>3, <2>5
  <2>6. \A k, m \in Loops : loop'[k].guest = g /\ loop'[m].guest = g => k = m
    BY <2>3
  <2>. QED
    BY <2>4, <2>5, <2>6 DEF Agrees
<1>. QED
  BY <1>4, <1>8, <1>9 DEF StageInv

\* The page is left or opened again: the timers go, and new pages know nothing.
LEMMA PageAgrees ==
    ASSUME StageInv, Mount \/ Unmount
    PROVE  StageInv'
<1>0. TrafficType
  BY DEF StageInv
<1>1. /\ UNCHANGED <<confirmed, issued, booking>>
      /\ loop' = [l \in Loops |-> loop'[l]]
      /\ \A l \in Loops : loop'[l] = loop[l] \/ loop'[l] \in {Off, Timer}
  <2>1. CASE Mount
    BY <2>1 DEF Mount, services
  <2>2. CASE Unmount
    BY <2>2 DEF Unmount, services
  <2>. QED
    BY <2>1, <2>2
<1>2. /\ Off = [at |-> "off", guest |-> NoId, state |-> New]
      /\ Timer = [at |-> "timer", guest |-> NoId, state |-> New]
      /\ "off" \notin Waits /\ "timer" \notin Waits
  BY DEF Off, Timer, Waits
<1>3. states' \in [Guests -> StateType]
  BY <1>0, RestTyped DEF Mount, Unmount, TrafficType
<1>4. TrafficType'
  <2>1. \A l \in Loops :
          /\ loop'[l] \in [at : Waits \cup {"off", "timer"}, guest : Guests \cup {NoId},
                           state : StateType]
          /\ IF loop'[l].at \in Waits THEN loop'[l].guest \in Guests ELSE loop'[l] \in {Off, Timer}
    <3>. SUFFICES ASSUME NEW l \in Loops
                  PROVE  /\ loop'[l] \in [at : Waits \cup {"off", "timer"},
                                          guest : Guests \cup {NoId}, state : StateType]
                         /\ IF loop'[l].at \in Waits THEN loop'[l].guest \in Guests
                                                     ELSE loop'[l] \in {Off, Timer}
      OBVIOUS
    <3>1. CASE loop'[l] = loop[l]
      BY <1>0, <3>1 DEF TrafficType
    <3>2. CASE loop'[l] \in {Off, Timer}
      BY <1>2, <3>2, RestTyped
    <3>. QED
      BY <1>1, <3>1, <3>2
  <2>2. loop' \in [Loops -> [at : Waits \cup {"off", "timer"}, guest : Guests \cup {NoId},
                             state : StateType]]
    BY <1>1, <2>1
  <2>. QED
    BY <1>0, <1>1, <1>3, <2>1, <2>2 DEF TrafficType
<1>5. ASSUME NEW g \in Guests \ disturbed'
      PROVE  Agrees(g)'
  <2>1. \/ Agrees(g)
        \/ Mount /\ \A l \in Loops : loop[l].guest # g
    BY <1>5 DEF StageInv, Mount, Unmount
  <2>2. \A l \in Loops : loop'[l].guest = g => loop[l].guest = g /\ loop'[l] = loop[l]
    BY <1>1, <1>2, NoGuest
  <2>3. \A k, m \in Loops : loop'[k].guest = g /\ loop'[m].guest = g => k = m
    BY <2>1, <2>2 DEF Agrees
  <2>4. CASE Mount
    <3>1. states'[g] = New
      BY <2>4 DEF Mount
    <3>2. Holds(states'[g], confirmed'[g], booking'[g])
      BY <3>1, StatesSet DEF Holds
    <3>3. \A l \in Loops : loop'[l].guest = g => l[1] # mount'
      BY <1>2, <2>4, NoGuest DEF Mount
    <3>. QED
      BY <1>1, <2>1, <2>2, <2>3, <3>1, <3>2, <3>3 DEF Agrees
  <2>5. CASE Unmount
    <3>1. \A l \in Loops : loop[l].guest = g => loop'[l] = loop[l]
      <4>1. \A l \in Loops : loop[l].at = "timer" => loop[l] \in {Off, Timer}
        BY <1>0, <1>2 DEF TrafficType
      <4>2. \A l \in Loops : loop[l].guest = g => loop[l].at # "timer"
        BY <1>2, <4>1, NoGuest
      <4>. QED
        BY <2>5, <4>2 DEF Unmount
    <3>2. states' = states /\ mount' = mount
      BY <2>5 DEF Unmount
    <3>3. Agrees(g)
      BY <1>5, <2>5 DEF StageInv, Unmount
    <3>. QED
      BY <1>1, <2>2, <2>3, <3>1, <3>2, <3>3 DEF Agrees
  <2>. QED
    BY <2>4, <2>5
<1>. QED
  BY <1>1, <1>4, <1>5 DEF StageInv

\* A call from elsewhere leaves what is noted true, or disturbs the guest.
LEMMA ElsewhereAgrees ==
    ASSUME StageInv, NEW g \in Guests, Elsewhere(g)
    PROVE  StageInv'
<1>0. TrafficType
  BY DEF StageInv
<1>1. /\ states' = states /\ mount' = mount /\ loop' = loop
      /\ disturbed' = IF Taken(g) THEN disturbed \cup {g} ELSE disturbed
  BY DEF Elsewhere, mounts
<1>2. /\ confirmed' \in [Guests -> Seq(Nat)] /\ issued' \in Nat
      /\ booking' \in [Guests -> Activities \cup {NoId}]
      /\ \A h \in Guests : h # g => confirmed'[h] = confirmed[h] /\ booking'[h] = booking[h]
  <2>1. CASE postArrival(g)
    BY <1>0, <2>1 DEF postArrival, TrafficType
  <2>2. CASE postReservation(g)
    <3>1. PICK i \in 1 .. Len(confirmed[g]) + 1 :
            confirmed' = [confirmed EXCEPT ![g] = InsertAt(@, i, issued + 1)]
      BY <2>2 DEF postReservation
    <3>2. InsertAt(confirmed[g], i, issued + 1) \in Seq(Nat)
      BY <1>0, InsertedIsSeq DEF TrafficType
    <3>3. issued' = issued + 1 /\ booking' = booking
      BY <2>2 DEF postReservation
    <3>. QED
      BY <1>0, <3>1, <3>2, <3>3 DEF TrafficType
  <2>3. ASSUME NEW a \in Activities, bookActivity(g, a) \/ cancelActivity(g, a)
        PROVE  /\ confirmed' = confirmed /\ issued' = issued
               /\ booking' \in [Guests -> Activities \cup {NoId}]
               /\ \A h \in Guests : h # g => booking'[h] = booking[h]
    BY <1>0, <2>3 DEF bookActivity, cancelActivity, TrafficType
  <2>4. ASSUME NEW r, cancelReservation(g, r)
        PROVE  /\ issued' = issued /\ booking' = booking
               /\ confirmed' \in [Guests -> Seq(Nat)]
               /\ \A h \in Guests : h # g => confirmed'[h] = confirmed[h]
    <3>. DEFINE d == confirmed'[g]
    <3>1. PICK q \in Seq(Nat) : confirmed' = [confirmed EXCEPT ![g] = q]
      BY <1>0, <2>4, CancelledIsSeq DEF TrafficType
    <3>2. issued' = issued /\ booking' = booking
      BY <2>4 DEF cancelReservation
    <3>. QED
      BY <1>0, <3>1, <3>2 DEF TrafficType
  <2>. QED
    BY <1>0, <2>1, <2>2, <2>3, <2>4 DEF Elsewhere, TrafficType
<1>3. TrafficType'
  BY <1>0, <1>1, <1>2 DEF TrafficType
<1>4. ASSUME NEW h \in Guests \ disturbed'
      PROVE  Agrees(h)'
  <2>1. Agrees(h)
    BY <1>1, <1>4 DEF StageInv
  <2>2. /\ ToSet(confirmed[h]) \subseteq ToSet(confirmed'[h])
        /\ booking[h] # NoId => booking'[h] = booking[h]
    BY <1>1, <1>2, <1>4 DEF Taken
  <2>3. \A st : Holds(st, confirmed[h], booking[h]) => Holds(st, confirmed'[h], booking'[h])
    BY <2>2 DEF Holds
  <2>4. \A at, st : Fits(at, st, confirmed[h], booking[h]) => Fits(at, st, confirmed'[h], booking'[h])
    BY <2>2, <2>3 DEF Fits
  <2>. QED
    BY <1>1, <2>1, <2>3, <2>4 DEF Agrees
<1>. QED
  BY <1>3, <1>4 DEF StageInv

\* Every step keeps the agreement.
LEMMA StageNext == StageInv /\ LoopsInv /\ [Next]_vars => StageInv'
<1>. SUFFICES ASSUME StageInv, LoopsInv, [Next]_vars PROVE StageInv'
  OBVIOUS
<1>1. ASSUME NEW l \in Loops, NEW g \in Guests, NEW choice \in FirstCall, runGuestStep(l, g, choice)
      PROVE  StageInv'
  <2>1. choice[1] = states[g].stage /\ Begin(l, g, choice[2])
    BY <1>1 DEF runGuestStep
  <2>2. ASSUME NEW stage, NEW at \in Waits, choice = <<stage, at>>,
               stage = states[g].stage /\ Holds(states[g], confirmed[g], booking[g]) =>
                  Fits(at, states[g], confirmed[g], booking[g])
        PROVE  StageInv'
    BY <2>1, <2>2, BeginAgrees
  <2>3. CASE choice = <<"new", "arrive">>
    <3>1. "arrive" \in Waits
      BY DEF Waits
    <3>. QED
      BY <2>2, <2>3, <3>1 DEF Fits
  <2>4. CASE choice = <<"arrived", "hotel: arrival?">>
    <3>1. "hotel: arrival?" \in Waits
      BY DEF Waits
    <3>. QED
      BY <2>2, <2>4, <3>1 DEF Fits
  <2>5. CASE choice = <<"hotel_booked", "beach: reservation?">>
    <3>1. "beach: reservation?" \in Waits
      BY DEF Waits
    <3>. QED
      BY <2>2, <2>5, <3>1 DEF Fits, Holds
  <2>6. CASE choice = <<"beach_booked", "cancel all">>
    <3>1. "cancel all" \in Waits
      BY DEF Waits
    <3>. QED
      BY <2>2, <2>6, <3>1 DEF Fits, Holds
  <2>7. CASE choice = <<"beach_booked", "cancel activity">>
    <3>1. "cancel activity" \in Waits
      BY DEF Waits
    <3>. QED
      BY <2>2, <2>7, <3>1 DEF Fits, Holds
  <2>. QED
    BY <2>3, <2>4, <2>5, <2>6, <2>7 DEF FirstCall
<1>2. ASSUME NEW l \in Loops, NEW g \in Guests, askParrot(l, g) PROVE StageInv'
  <2>1. "chatting" \in Waits /\ Begin(l, g, "chatting")
    BY <1>2 DEF Waits, askParrot
  <2>2. Holds(states[g], confirmed[g], booking[g]) =>
            Fits("chatting", states[g], confirmed[g], booking[g])
    BY DEF Fits
  <2>. QED
    BY <2>1, <2>2, BeginAgrees
<1>3. ASSUME NEW l \in Loops, Step(l) PROVE StageInv'
  BY <1>3, StepAgrees
<1>4. ASSUME UNCHANGED <<confirmed, issued, booking, states, mount, loop, disturbed>> PROVE StageInv'
  BY <1>4 DEF StageInv, TrafficType, Agrees
<1>5. ASSUME NEW g \in Guests, Land(g) PROVE StageInv'
  BY <1>4, <1>5 DEF Land, mounts
<1>6. ASSUME NEW g \in Guests, Elsewhere(g) PROVE StageInv'
  BY <1>6, ElsewhereAgrees
<1>7. CASE Mount \/ Unmount
  BY <1>7, PageAgrees
<1>8. CASE UNCHANGED vars
  BY <1>4, <1>8 DEF vars, services, mounts
<1>. QED
  BY <1>1, <1>2, <1>3, <1>5, <1>6, <1>7, <1>8 DEF Next

LEMMA StageStart == Init => StageInv
<1>. SUFFICES ASSUME Init PROVE StageInv
  OBVIOUS
<1>1. /\ Off = [at |-> "off", guest |-> NoId, state |-> New]
      /\ Timer = [at |-> "timer", guest |-> NoId, state |-> New]
      /\ "off" \notin Waits /\ "timer" \notin Waits
  BY DEF Off, Timer, Waits
<1>2. /\ confirmed \in [Guests -> Seq(Nat)] /\ issued \in Nat
      /\ booking \in [Guests -> Activities \cup {NoId}] /\ states \in [Guests -> StateType]
  <2>1. <<>> \in Seq(Nat)
    OBVIOUS
  <2>. QED
    BY <2>1, StatesSet DEF Init
<1>3. \A l \in Loops : loop[l] \in {Off, Timer}
  BY DEF Init
<1>4. loop \in [Loops -> {Off, Timer}]
  BY DEF Init
<1>5. {Off, Timer} \subseteq [at : Waits \cup {"off", "timer"}, guest : Guests \cup {NoId},
                              state : StateType]
  BY RestTyped
<1>6. TrafficType
  BY <1>1, <1>2, <1>3, <1>4, <1>5 DEF TrafficType
<1>7. ASSUME NEW g \in Guests PROVE Agrees(g)
  <2>1. \A l \in Loops : loop[l].guest # g
    BY <1>3, NoGuest
  <2>2. Holds(states[g], confirmed[g], booking[g])
    BY StatesSet DEF Init, Holds
  <2>. QED
    BY <2>1, <2>2 DEF Agrees
<1>. QED
  BY <1>6, <1>7 DEF StageInv

----------------------------------------------------------------------------
(***************************************************************************)
(* What is noted of a guest was once the guest's, also when it is gone.    *)
(***************************************************************************)

\* The state st, read by a step that waits at a call, names a reservation of d.
Known(at, st, d) ==
    (\/ st.stage \in {"hotel_booked", "beach_booked"}
     \/ at \in {"beach: reservation?", "beach: booked?", "beach: post", "cancel activity", "cancel all"}) =>
        st.reservationId \in d

GivenInv ==
    /\ given \in [Guests -> SUBSET Nat]
    /\ \A g \in Guests :
         /\ confirmed[g] \in Seq(given[g])
         /\ Known("timer", states[g], given[g])
         /\ \A l \in Loops : loop[l].guest = g => Known(loop[l].at, loop[l].state, given[g])

\* What the calls do to the reservations given.
LEMMA CallsGive ==
    ASSUME TrafficType, GivenInv, NEW g \in Guests,
           \/ UNCHANGED services \/ postArrival(g) \/ postReservation(g)
           \/ \E a : bookActivity(g, a) \/ cancelActivity(g, a)
           \/ \E r : cancelReservation(g, r)
    PROVE  /\ given' \in [Guests -> SUBSET Nat]
           /\ \A h \in Guests : given[h] \subseteq given'[h] /\ confirmed'[h] \in Seq(given'[h])
           /\ postReservation(g) => issued + 1 \in given'[g]
<1>. DEFINE Goal == /\ given' \in [Guests -> SUBSET Nat]
                    /\ \A h \in Guests : given[h] \subseteq given'[h] /\ confirmed'[h] \in Seq(given'[h])
<1>1. ASSUME given' = given /\ confirmed' = confirmed PROVE Goal
  BY <1>1 DEF GivenInv
<1>2. CASE postReservation(g)
  <2>. DEFINE r == issued + 1
              d == given[g] \cup {r}
  <2>1. given' = [given EXCEPT ![g] = d] /\ r \in Nat /\ r \in d
    BY <1>2 DEF postReservation, TrafficType
  <2>2. PICK i \in 1 .. Len(confirmed[g]) + 1 : confirmed' = [confirmed EXCEPT ![g] = InsertAt(@, i, r)]
    BY <1>2 DEF postReservation
  <2>3. confirmed[g] \in Seq(d)
    BY DEF GivenInv
  <2>4. InsertAt(confirmed[g], i, r) \in Seq(d)
    BY <2>1, <2>3, InsertedIsSeq
  <2>. HIDE DEF d
  <2>5. given[g] \subseteq d /\ d \subseteq Nat
    BY <2>1 DEF GivenInv, d
  <2>. QED
    BY <2>1, <2>2, <2>4, <2>5 DEF GivenInv, TrafficType
<1>3. ASSUME NEW r, cancelReservation(g, r) PROVE Goal
  <2>1. PICK q \in Seq(given[g]) : confirmed' = [confirmed EXCEPT ![g] = q]
    BY <1>3, CancelledIsSeq DEF GivenInv
  <2>2. given' = given
    BY <1>3 DEF cancelReservation
  <2>. QED
    BY <2>1, <2>2 DEF GivenInv, TrafficType
<1>4. ASSUME UNCHANGED services \/ postArrival(g) \/ \E a : bookActivity(g, a) \/ cancelActivity(g, a)
      PROVE  Goal
  BY <1>1, <1>4 DEF services, postArrival, bookActivity, cancelActivity
<1>5. postReservation(g) => issued + 1 \in given'[g]
  BY DEF postReservation, GivenInv
<1>. QED
  BY <1>2, <1>3, <1>4, <1>5

\* What a step notes, or goes on with, is known.
LEMMA StepKnows ==
    ASSUME TrafficType, GivenInv, NEW l \in Loops, Step(l)
    PROVE  LET g == loop[l].guest
               d == given'[g]
           IN
           /\ g \in Guests
           /\ given' \in [Guests -> SUBSET Nat]
           /\ \A h \in Guests : given[h] \subseteq given'[h] /\ confirmed'[h] \in Seq(given'[h])
           /\ \/ \E at : Await(l, at) /\ Known(at, loop[l].state, d)
              \/ \E st : setState(l, st) /\ Known("timer", st, d)
              \/ Done(l)
<1>. DEFINE g == loop[l].guest
            st == loop[l].state
            d == given'[g]
            Calls == \/ UNCHANGED services \/ postArrival(g) \/ postReservation(g)
                     \/ \E a : bookActivity(g, a) \/ cancelActivity(g, a)
                     \/ \E r : cancelReservation(g, r)
            Knows == \/ \E at : Await(l, at) /\ Known(at, loop[l].state, d)
                     \/ \E s : setState(l, s) /\ Known("timer", s, d)
                     \/ Done(l)
<1>0. loop[l].at \in Waits /\ g \in Guests /\ st \in StateType
  BY StepLeaves, InCallType
<1>1. Calls
  BY DEF Step, Call, Read, arrive, ChatEnds, CheckArrival, CheckReservation, Reserve, Recover, CheckBeach,
         CheckBooking, Book, Cancel, Cancelled, cancelBeachActivity, cancelAll, cancelHotelReservation
<1>2. /\ given' \in [Guests -> SUBSET Nat]
      /\ \A h \in Guests : given[h] \subseteq given'[h] /\ confirmed'[h] \in Seq(given'[h])
      /\ postReservation(g) => issued + 1 \in d
  BY <1>0, <1>1, CallsGive
<1>3. Known(loop[l].at, st, given[g]) /\ given[g] \subseteq d
  BY <1>0, <1>2 DEF GivenInv
<1>4. ASSUME NEW at, Await(l, at),
             at \in {"hotel: reservation?", "hotel: post", "hotel: recover", "cancel reservation"}
      PROVE  Knows
  <2>1. Known(at, st, d)
    BY <1>3, <1>4 DEF Known
  <2>. QED
    BY <1>4, <2>1
<1>5. ASSUME NEW r \in d, HotelBooked(l, r) PROVE Knows
  <2>. DEFINE nx == [New EXCEPT !.stage = "hotel_booked", !.reservationId = r]
  <2>1. nx.reservationId = r
    BY DEF New
  <2>2. Known("timer", nx, d)
    BY <2>1 DEF Known
  <2>. QED
    BY <1>5, <2>2 DEF HotelBooked
<1>6. Existing(l) /\ UNCHANGED services => Knows
  <2>. SUFFICES ASSUME UNCHANGED services, Active(g) # NoId, HotelBooked(l, Active(g)) PROVE Knows
    BY DEF Existing
  <2>1. confirmed[g] \in Seq(given[g]) /\ given' = given /\ confirmed[g] # <<>>
    BY <1>0 DEF services, GivenInv, Active
  <2>2. Active(g) \in d
    BY <2>1 DEF Active
  <2>. QED
    BY <1>5, <2>2
<1>7. ASSUME NEW at \in {"beach: booked?", "beach: post"}, Await(l, at),
             loop[l].at \in {"beach: reservation?", "beach: booked?"}
      PROVE  Knows
  <2>1. Known(at, st, d)
    BY <1>3, <1>7 DEF Known
  <2>. QED
    BY <1>7, <2>1
<1>8. ASSUME NEW a, BeachBooked(l, a), loop[l].at \in {"beach: booked?", "beach: post"} PROVE Knows
  <2>. DEFINE nx == [st EXCEPT !.stage = "beach_booked", !.activityId = a]
  <2>1. nx.reservationId = st.reservationId
    BY <1>0 DEF StateType
  <2>2. Known("timer", nx, d)
    BY <1>3, <1>8, <2>1 DEF Known
  <2>. QED
    BY <1>8, <2>2 DEF BeachBooked
<1>9. CASE arrive(l)
  <2>1. Known("timer", [New EXCEPT !.stage = "arrived"], d)
    BY StatesSet DEF Known
  <2>. QED
    BY <1>0, <1>2, <1>9, <2>1 DEF arrive, Call
<1>10. CASE ChatEnds(l)
  BY <1>0, <1>2, <1>10 DEF ChatEnds
<1>11. CASE CheckArrival(l) \/ CheckReservation(l) \/ Recover(l)
  BY <1>0, <1>2, <1>4, <1>6, <1>11 DEF CheckArrival, CheckReservation, Recover, Read, Call
<1>12. CASE Reserve(l)
  BY <1>0, <1>2, <1>4, <1>5, <1>12 DEF Reserve, Call
<1>13. CASE CheckBeach(l) \/ CheckBooking(l)
  BY <1>0, <1>2, <1>7, <1>8, <1>13 DEF CheckBeach, CheckBooking, Read, Call
<1>14. ASSUME NEW a \in Activities, Book(l, a) PROVE Knows
  BY <1>8, <1>14 DEF Book, Call
<1>15. CASE cancelBeachActivity(l)
  <2>. DEFINE nx == [New EXCEPT !.stage = "hotel_booked", !.reservationId = st.reservationId]
  <2>1. loop[l].at = "cancel activity" /\ setState(l, nx)
    BY <1>15 DEF cancelBeachActivity, Cancel, Call
  <2>2. nx.reservationId = st.reservationId
    BY DEF New
  <2>3. Known("timer", nx, d)
    BY <1>3, <2>1, <2>2 DEF Known
  <2>. QED
    BY <1>0, <1>2, <2>1, <2>3
<1>16. CASE cancelAll(l)
  BY <1>0, <1>2, <1>4, <1>16 DEF cancelAll, Cancel, Call
<1>17. CASE cancelHotelReservation(l)
  <2>1. Known("timer", New, d)
    BY StatesSet DEF Known
  <2>. QED
    BY <1>0, <1>2, <1>17, <2>1 DEF cancelHotelReservation, Cancel, Call
<1>. QED
  BY <1>0, <1>2, <1>9, <1>10, <1>11, <1>12, <1>13, <1>14, <1>15, <1>16, <1>17 DEF Step

\* What is known stays known when more is given.
LEMMA StillKnown ==
    ASSUME NEW at, NEW st, NEW d, NEW e, d \subseteq e, Known(at, st, d)
    PROVE  Known(at, st, e)
  BY DEF Known

LEMMA GivenNext == GivenInv /\ StageInv /\ [Next]_vars => GivenInv'
<1>. SUFFICES ASSUME GivenInv, StageInv, [Next]_vars PROVE GivenInv'
  OBVIOUS
<1>0. TrafficType
  BY DEF StageInv
<1>1. ASSUME NEW l \in Loops, Step(l) PROVE GivenInv'
  <2>. DEFINE g == loop[l].guest
              d == given'[g]
  <2>1. /\ g \in Guests
        /\ given' \in [Guests -> SUBSET Nat]
        /\ \A h \in Guests : given[h] \subseteq given'[h] /\ confirmed'[h] \in Seq(given'[h])
        /\ \/ \E at : Await(l, at) /\ Known(at, loop[l].state, d)
           \/ \E st : setState(l, st) /\ Known("timer", st, d)
           \/ Done(l)
    BY <1>0, <1>1, StepKnows
  <2>2. ASSUME NEW h \in Guests PROVE Known("timer", states'[h], given'[h])
    <3>1. Known("timer", states[h], given'[h])
      BY <2>1, StillKnown DEF GivenInv
    <3>2. CASE states' = states
      BY <3>1, <3>2
    <3>3. ASSUME NEW st, setState(l, st), Known("timer", st, d) PROVE Known("timer", states'[h], given'[h])
      <4>1. states'[h] = states[h] \/ (h = g /\ states'[h] = st)
        BY <1>0, <3>3 DEF setState, TrafficType
      <4>. QED
        BY <3>1, <3>3, <4>1
    <3>. QED
      BY <2>1, <3>2, <3>3 DEF Await, Done
  <2>3. ASSUME NEW h \in Guests, NEW k \in Loops, loop'[k].guest = h
        PROVE  Known(loop'[k].at, loop'[k].state, given'[h])
    <3>1. CASE loop'[k] = loop[k]
      BY <2>1, <2>3, <3>1, StillKnown DEF GivenInv
    <3>2. ASSUME NEW at, Await(l, at), Known(at, loop[l].state, d), k = l
          PROVE  Known(loop'[k].at, loop'[k].state, given'[h])
      <4>1. loop' = [loop EXCEPT ![l].at = at]
        BY <3>2 DEF Await
      <4>2. loop[l] \in [at : Waits \cup {"off", "timer"}, guest : Guests \cup {NoId}, state : StateType]
        BY <1>0 DEF TrafficType
      <4>3. loop'[l].at = at /\ loop'[l].state = loop[l].state /\ loop'[l].guest = g
        BY <1>0, <4>1, <4>2 DEF TrafficType
      <4>. QED
        BY <2>3, <3>2, <4>3
    <3>3. CASE loop' = [loop EXCEPT ![l] = scheduleNext(l)]
      <4>1. k # l
        BY <1>0, <2>3, <3>3, NoGuest DEF TrafficType
      <4>. QED
        BY <1>0, <3>1, <3>3, <4>1 DEF TrafficType
    <3>4. ASSUME NEW at, Await(l, at), k # l PROVE loop'[k] = loop[k]
      BY <1>0, <3>4 DEF Await, TrafficType
    <3>. QED
      BY <2>1, <3>1, <3>2, <3>3, <3>4 DEF setState, Done
  <2>. QED
    BY <2>1, <2>2, <2>3 DEF GivenInv
<1>2. ASSUME NEW l \in Loops, NEW g \in Guests, NEW at, Begin(l, g, at),
             Known(at, states[g], given[g])
      PROVE  GivenInv'
  <2>1. /\ loop' = [loop EXCEPT ![l] = [at |-> at, guest |-> g, state |-> states[g]]]
        /\ UNCHANGED <<given, confirmed, states>>
    BY <1>2 DEF Begin, services
  <2>2. ASSUME NEW h \in Guests, NEW k \in Loops, loop'[k].guest = h
        PROVE  Known(loop'[k].at, loop'[k].state, given'[h])
    BY <1>0, <1>2, <2>1, <2>2 DEF GivenInv, TrafficType
  <2>. QED
    BY <2>1, <2>2 DEF GivenInv
<1>3. ASSUME NEW l \in Loops, NEW g \in Guests, NEW choice \in FirstCall, runGuestStep(l, g, choice)
      PROVE  GivenInv'
  <2>1. choice[1] = states[g].stage /\ Begin(l, g, choice[2])
    BY <1>3 DEF runGuestStep
  <2>2. Known("timer", states[g], given[g])
    BY DEF GivenInv
  <2>3. choice[2] \in {"arrive", "hotel: arrival?"} \/ choice[1] \in {"hotel_booked", "beach_booked"}
    <3>1. CASE choice = <<"new", "arrive">>
      BY <3>1
    <3>2. CASE choice = <<"arrived", "hotel: arrival?">>
      BY <3>2
    <3>3. CASE choice = <<"hotel_booked", "beach: reservation?">>
      BY <3>3
    <3>4. CASE choice = <<"beach_booked", "cancel all">>
      BY <3>4
    <3>5. CASE choice = <<"beach_booked", "cancel activity">>
      BY <3>5
    <3>. QED
      BY <3>1, <3>2, <3>3, <3>4, <3>5 DEF FirstCall
  <2>4. Known(choice[2], states[g], given[g])
    BY <2>1, <2>2, <2>3 DEF Known
  <2>. QED
    BY <1>2, <2>1, <2>4
<1>4. ASSUME NEW l \in Loops, NEW g \in Guests, askParrot(l, g) PROVE GivenInv'
  <2>1. Known("chatting", states[g], given[g])
    BY DEF GivenInv, Known
  <2>. QED
    BY <1>2, <1>4, <2>1 DEF askParrot
<1>5. ASSUME UNCHANGED <<confirmed, given, states, loop>> PROVE GivenInv'
  BY <1>5 DEF GivenInv
<1>6. ASSUME NEW g \in Guests, Land(g) PROVE GivenInv'
  BY <1>5, <1>6 DEF Land
<1>7. ASSUME NEW g \in Guests, Elsewhere(g) PROVE GivenInv'
  <2>1. /\ given' \in [Guests -> SUBSET Nat]
        /\ \A h \in Guests : given[h] \subseteq given'[h] /\ confirmed'[h] \in Seq(given'[h])
    BY <1>0, <1>7, CallsGive DEF Elsewhere
  <2>2. states' = states /\ loop' = loop
    BY <1>7 DEF Elsewhere
  <2>. QED
    BY <2>1, <2>2, StillKnown DEF GivenInv
<1>8. CASE Mount
  <2>1. /\ states' = [g \in Guests |-> New] /\ UNCHANGED <<confirmed, given>>
        /\ \A l \in Loops : loop'[l] \in {loop[l], Timer}
    BY <1>8 DEF Mount, services
  <2>2. \A e : Known("timer", New, e)
    BY StatesSet DEF Known
  <2>. QED
    BY <2>1, <2>2, NoGuest DEF GivenInv
<1>9. CASE Unmount
  <2>1. /\ UNCHANGED <<confirmed, given, states>>
        /\ \A l \in Loops : loop'[l] \in {loop[l], Off}
    BY <1>9 DEF Unmount, services
  <2>. QED
    BY <2>1, NoGuest DEF GivenInv
<1>10. CASE UNCHANGED vars
  BY <1>5, <1>10 DEF vars, services
<1>. QED
  BY <1>1, <1>3, <1>4, <1>6, <1>7, <1>8, <1>9, <1>10 DEF Next

LEMMA GivenStart == Init => GivenInv
<1>. SUFFICES ASSUME Init PROVE GivenInv
  OBVIOUS
<1>1. \A g \in Guests : confirmed[g] = <<>> /\ given[g] = {} /\ states[g] = New
  BY DEF Init
<1>2. \A g \in Guests : \A l \in Loops : loop[l].guest # g
  BY NoGuest DEF Init
<1>3. Known("timer", New, {})
  BY StatesSet DEF Known
<1>4. given \in [Guests -> SUBSET Nat]
  BY DEF Init
<1>5. <<>> \in Seq({})
  OBVIOUS
<1>. QED
  BY <1>1, <1>2, <1>3, <1>4, <1>5 DEF GivenInv

\* What is noted of a guest without a step under way names a reservation that
\* was the guest's, and is true of the services unless the guest was disturbed
\* since it was last new (machine.ts, actions.ts): for any number of loops,
\* guests, mounts and other browsers, whichever calls fail, and whether or when
\* a failed call is applied.
THEOREM StagesAgree == Spec => []StageAgrees
<1>1. StageInv /\ GivenInv => StageAgrees
  <2>. SUFFICES ASSUME StageInv, GivenInv, NEW g \in Guests, \A l \in Loops : loop[l].guest # g
                PROVE  /\ states[g].stage \in {"hotel_booked", "beach_booked"} =>
                           states[g].reservationId \in IF g \in disturbed THEN given[g] ELSE ToSet(confirmed[g])
                       /\ states[g].stage = "beach_booked" /\ g \notin disturbed =>
                           states[g].activityId = booking[g]
    BY DEF StageAgrees
  <2>1. CASE g \in disturbed
    BY <2>1 DEF GivenInv, Known
  <2>2. CASE g \notin disturbed
    <3>1. Holds(states[g], confirmed[g], booking[g])
      BY <2>2 DEF StageInv, Agrees
    <3>. QED
      BY <2>2, <3>1 DEF Holds
  <2>. QED
    BY <2>1, <2>2
<1>. QED
  BY <1>1, LoopsStart, LoopsNext, StageStart, StageNext, GivenStart, GivenNext, PTL DEF Spec

----------------------------------------------------------------------------
(***************************************************************************)
(* The tab: the specification ShellSpec of Shell.                          *)
(***************************************************************************)
Pages == {"select", "map", "pass", "quit"}
Stores == {guestSession(g) : g \in Profiles} \cup {adminSession, EmptySession}
Saved == [session : Profiles \cup {Admin, None}, guest : Profiles \cup {None}]
PanelCalls == [by : Profiles \cup {Admin, None}, mounted : BOOLEAN, session : Profiles \cup {Admin, None}]

TabType ==
    /\ pos \in Nat /\ pos >= 1 /\ pos <= Len(entries)
    /\ entries \in Seq(Pages)
    /\ store \in Stores /\ persisted \in Saved
    /\ zone \in Zones \cup {None}
    /\ call \in PanelCalls \cup {None}

\* A panel is open on the map page only, and only its calls are mounted.
OnTheMap ==
    /\ zone # None => page = "map"
    /\ call # None /\ call.mounted => page = "map"

TabInv == TabType /\ SessionConsistent /\ OnTheMap /\ CallerKept

----------------------------------------------------------------------------
\* What the store holds after a reload is what was saved of it.
LEMMA SavedStore ==
    ASSUME NEW st \in Stores
    PROVE  partialize(st) \in Saved /\ migrateSessionState(partialize(st)) = st
<1>. DEFINE p == partialize(st)
<1>1. p = [session |-> st.session, guest |-> None]
  BY DEF partialize
<1>2. CASE \E g \in Profiles : st = guestSession(g)
  <2>1. PICK g \in Profiles : st = guestSession(g)
    BY <1>2
  <2>2. st = [session |-> g, guest |-> g, isAdmin |-> FALSE] /\ g # None /\ g # Admin
    BY ShellAssumption, <2>1 DEF guestSession
  <2>3. p.session = g /\ p \in Saved
    BY <1>1, <2>2 DEF Saved
  <2>4. migrateSessionState(p) = [session |-> g, guest |-> g, isAdmin |-> g = Admin]
    BY <2>2, <2>3 DEF migrateSessionState, deriveGuest
  <2>5. (g = Admin) = FALSE
    BY <2>2
  <2>. QED
    BY <2>2, <2>3, <2>4, <2>5
<1>3. CASE st = adminSession
  <2>1. st = [session |-> Admin, guest |-> None, isAdmin |-> TRUE]
    BY <1>3 DEF adminSession
  <2>2. p.session = Admin /\ p \in Saved
    BY <1>1, <2>1 DEF Saved
  <2>3. migrateSessionState(p) = [session |-> Admin, guest |-> None, isAdmin |-> TRUE]
    BY ShellAssumption, <2>2 DEF migrateSessionState, deriveGuest
  <2>. QED
    BY <2>1, <2>2, <2>3
<1>4. CASE st = EmptySession
  <2>1. p.session = None /\ p.guest = None /\ p \in Saved
    BY <1>1, <1>4 DEF EmptySession, Saved
  <2>. QED
    BY <1>4, <2>1 DEF migrateSessionState
<1>. QED
  BY <1>2, <1>3, <1>4 DEF Stores

\* Whatever was saved, by this version or an older one, loads as a store.
LEMMA MigratedStore ==
    ASSUME NEW p \in Saved
    PROVE  migrateSessionState(p) \in Stores
<1>1. p.session \in Profiles \cup {Admin, None} /\ p.guest \in Profiles \cup {None}
  BY DEF Saved
<1>2. CASE p.session \in Profiles
  <2>1. p.session # None /\ (p.session = Admin) = FALSE
    BY ShellAssumption, <1>2
  <2>2. migrateSessionState(p) = guestSession(p.session)
    BY <1>2, <2>1 DEF migrateSessionState, deriveGuest, guestSession
  <2>. QED
    BY <1>2, <2>2 DEF Stores
<1>3. CASE p.session = Admin
  BY ShellAssumption, <1>3 DEF migrateSessionState, deriveGuest, adminSession, Stores
<1>4. CASE p.session = None
  BY <1>1, <1>4 DEF migrateSessionState, Stores
<1>. QED
  BY <1>1, <1>2, <1>3, <1>4

\* A page that is shown has the session it needs.
LEMMA Required ==
    ASSUME NEW e \in Seq(Pages), NEW p \in Nat, p >= 1, p <= Len(e), NEW st
    PROVE  LET r == RequireSession(e, p, st) IN
           /\ r \in Seq(Pages) /\ Len(r) = Len(e)
           /\ r[p] \in {"map", "pass"} => st.session # None
           /\ r[p] = "quit" <=> e[p] = "quit"
  BY DEF RequireSession, Pages

----------------------------------------------------------------------------
(***************************************************************************)
(* Changes of page                                                         *)
(***************************************************************************)

\* A call that is left behind keeps its caller.
LEMMA UnmountKeeps ==
    ASSUME TabType, CallerKept, call' = Unmounted(call)
    PROVE  /\ call' \in PanelCalls \cup {None}
           /\ CallerKept'
           /\ call' # None => ~call'.mounted
<1>1. CASE call = None
  BY <1>1 DEF Unmounted, CallerKept
<1>2. CASE call # None /\ ~call.mounted
  BY <1>2 DEF Unmounted, CallerKept, HandlerSession, TabType
<1>3. CASE call # None /\ call.mounted
  <2>1. call \in PanelCalls /\ call.by = store.session
    BY <1>3 DEF TabType, CallerKept, HandlerSession
  <2>2. call' = [call EXCEPT !.mounted = FALSE, !.session = store.session]
    BY <1>3 DEF Unmounted
  <2>3. call' \in PanelCalls /\ ~call'.mounted /\ call'.by = call.by /\ call'.session = call.by
    BY <2>1, <2>2 DEF PanelCalls
  <2>. QED
    BY <2>3 DEF CallerKept, HandlerSession
<1>. QED
  BY <1>1, <1>2, <1>3

\* A change of page keeps the invariant, if the panels of a page that stays
\* keep their session.
LEMMA ShowKeeps ==
    ASSUME TabInv,
           NEW e \in Seq(Pages), NEW p \in Nat, p >= 1, p <= Len(e),
           NEW st \in Stores, NEW saved \in Saved, migrateSessionState(saved) = st,
           page = "map" /\ e[p] = "map" => st = store,
           Show(e, p, st, saved)
    PROVE  TabInv'
<1>. DEFINE after == IF e[p] = "quit" THEN EmptySession ELSE st
            shown == RequireSession(e, p, after)
<1>1. /\ entries' = shown /\ pos' = p /\ store' = after
      /\ persisted' = IF e[p] = "quit" THEN partialize(after) ELSE saved
  BY DEF Show
<1>2. after \in Stores
  BY DEF Stores
<1>3. persisted' \in Saved /\ migrateSessionState(persisted') = after
  BY <1>1, <1>2, SavedStore
<1>4. /\ shown \in Seq(Pages) /\ Len(shown) = Len(e)
      /\ shown[p] \in {"map", "pass"} => after.session # None
      /\ shown[p] = "quit" <=> e[p] = "quit"
  BY Required
<1>5. shown[p] = "quit" => after.session = None
  BY <1>4 DEF EmptySession
<1>6. page' = shown[p]
  BY <1>1 DEF page
<1>7. SessionConsistent'
  BY <1>1, <1>3, <1>4, <1>5, <1>6 DEF SessionConsistent, migrateSessionState, deriveGuest,
     guestSession, EmptySession
<1>8. CASE page = "map" /\ shown[p] = "map"
  <2>1. UNCHANGED <<zone, call>>
    BY <1>8 DEF Show
  <2>2. e[p] = "map"
    BY <1>8 DEF RequireSession
  <2>3. store' = store
    BY <1>1, <1>8, <2>2
  <2>4. OnTheMap' /\ CallerKept'
    BY <1>6, <1>8, <2>1, <2>3 DEF TabInv, OnTheMap, CallerKept, HandlerSession
  <2>5. TabType'
    BY <1>1, <1>2, <1>3, <1>4, <2>1 DEF TabInv, TabType
  <2>. QED
    BY <1>7, <2>4, <2>5 DEF TabInv
<1>9. CASE ~(page = "map" /\ shown[p] = "map")
  <2>1. zone' = None /\ call' = Unmounted(call)
    BY <1>9 DEF Show
  <2>. QED
    BY <1>1, <1>2, <1>3, <1>4, <1>7, <2>1, UnmountKeeps DEF TabInv, TabType, OnTheMap
<1>. QED
  BY <1>8, <1>9

\* A link or a button that leads to a new page.
LEMMA NavigateKeeps ==
    ASSUME TabInv, NEW target \in Pages,
           NEW st \in Stores, NEW saved \in Saved, migrateSessionState(saved) = st,
           page = "map" /\ target = "map" => st = store,
           navigate(target, st, saved)
    PROVE  TabInv'
<1>. DEFINE e == Append(SubSeq(entries, 1, pos), target)
<1>1. /\ entries \in Seq(Pages) /\ pos \in Nat /\ pos >= 1 /\ pos <= Len(entries)
  BY DEF TabInv, TabType
<1>2. /\ SubSeq(entries, 1, pos) \in Seq(Pages)
      /\ Len(SubSeq(entries, 1, pos)) = pos
  BY <1>1
<1>3. /\ e \in Seq(Pages) /\ Len(e) = pos + 1 /\ e[pos + 1] = target
  BY <1>1, <1>2
<1>4. Show(e, pos + 1, st, saved)
  BY DEF navigate
<1>. HIDE DEF e
<1>. QED
  BY <1>1, <1>3, <1>4, ShowKeeps

\* A change of session.
LEMMA SetAndNavigateKeeps ==
    ASSUME TabInv, NEW target \in Pages, NEW st \in Stores,
           page = "map" /\ target = "map" => st = store,
           setAndNavigate(target, st)
    PROVE  TabInv'
<1>. DEFINE saved == partialize(st)
<1>1. saved \in Saved /\ migrateSessionState(saved) = st /\ navigate(target, st, saved)
  BY SavedStore DEF setAndNavigate
<1>. HIDE DEF saved
<1>. QED
  BY <1>1, NavigateKeeps

LEMMA PagesKeep ==
    ASSUME TabInv,
           \/ \E g \in Profiles : handleSelectGuest(g)
           \/ handleAdminLogin \/ handleSwitchSession \/ handleQuit \/ handleOpenPass \/ BackToMap
           \/ \E p \in 1 .. MaxEntries : BackOrForward(p)
    PROVE  TabInv'
<1>. USE DEF Pages
<1>0. store \in Stores /\ persisted \in Saved /\ migrateSessionState(persisted) = store
  BY DEF TabInv, TabType, SessionConsistent
<1>1. ASSUME NEW g \in Profiles, handleSelectGuest(g) PROVE TabInv'
  <2>1. guestSession(g) \in Stores
    BY DEF Stores
  <2>. QED
    BY <1>1, <2>1, SetAndNavigateKeeps DEF handleSelectGuest
<1>2. CASE handleAdminLogin
  <2>1. adminSession \in Stores
    BY DEF Stores
  <2>. QED
    BY <1>2, <2>1, SetAndNavigateKeeps DEF handleAdminLogin
<1>3. CASE handleSwitchSession
  <2>1. EmptySession \in Stores
    BY DEF Stores
  <2>. QED
    BY <1>3, <2>1, SetAndNavigateKeeps DEF handleSwitchSession
<1>4. CASE handleQuit
  BY <1>0, <1>4, NavigateKeeps DEF handleQuit
<1>5. CASE handleOpenPass
  BY <1>0, <1>5, NavigateKeeps DEF handleOpenPass
<1>6. CASE BackToMap
  BY <1>0, <1>6, NavigateKeeps DEF BackToMap
<1>7. ASSUME NEW p \in 1 .. MaxEntries, BackOrForward(p) PROVE TabInv'
  <2>1. /\ p \in Nat /\ p >= 1 /\ p <= Len(entries) /\ entries \in Seq(Pages)
        /\ Show(entries, p, store, persisted)
    BY ShellAssumption, <1>7 DEF BackOrForward, TabInv, TabType
  <2>. QED
    BY <1>0, <2>1, ShowKeeps
<1>. QED
  BY <1>1, <1>2, <1>3, <1>4, <1>5, <1>6, <1>7

----------------------------------------------------------------------------
(***************************************************************************)
(* The other steps                                                         *)
(***************************************************************************)

\* The page is loaded again.
LEMMA ReloadKeeps == ASSUME TabInv, Reload PROVE TabInv'
<1>. DEFINE st == migrateSessionState(persisted)
            after == IF page = "quit" THEN EmptySession ELSE st
<1>1. /\ store' = after
      /\ persisted' = IF page = "quit" THEN partialize(after) ELSE persisted
      /\ entries' = RequireSession(entries, pos, after)
      /\ zone' = None /\ call' = None /\ pos' = pos
  BY DEF Reload
<1>2. st = store /\ store \in Stores /\ persisted \in Saved
  BY DEF TabInv, SessionConsistent, TabType
<1>3. after \in Stores
  BY <1>2 DEF Stores
<1>4. persisted' \in Saved /\ migrateSessionState(persisted') = after
  BY <1>1, <1>2, <1>3, SavedStore
<1>. DEFINE r == RequireSession(entries, pos, after)
<1>5. /\ r \in Seq(Pages) /\ Len(r) = Len(entries)
      /\ r[pos] \in {"map", "pass"} => after.session # None
      /\ r[pos] = "quit" <=> page = "quit"
  BY Required DEF TabInv, TabType, page
<1>6. page' = r[pos]
  BY <1>1 DEF page
<1>7. r[pos] = "quit" => after.session = None
  BY <1>5 DEF EmptySession
<1>8. SessionConsistent'
  BY <1>1, <1>4, <1>5, <1>6, <1>7 DEF SessionConsistent, migrateSessionState, deriveGuest,
     guestSession, EmptySession
<1>9. TabType'
  BY <1>1, <1>3, <1>4, <1>5 DEF TabInv, TabType
<1>. QED
  BY <1>1, <1>8, <1>9 DEF TabInv, OnTheMap, CallerKept

\* The panels: the page and the session stay, the call is left behind, made or
\* handled.
LEMMA MapKeeps ==
    ASSUME TabInv, UNCHANGED <<entries, pos, store, persisted>>,
           zone' \in Zones \cup {None}, zone' # None => page = "map",
           \/ call' = Unmounted(call)
           \/ UNCHANGED call
           \/ call' = None
           \/ page = "map" /\ call' = [by |-> store.session, mounted |-> TRUE, session |-> None]
    PROVE  TabInv'
<1>1. page' = page
  BY DEF page
<1>2. SessionConsistent'
  BY <1>1 DEF TabInv, SessionConsistent, migrateSessionState, deriveGuest, guestSession, EmptySession
<1>3. ASSUME call' \in PanelCalls \cup {None}, CallerKept',
             call' # None /\ call'.mounted => page = "map"
      PROVE  TabInv'
  BY <1>1, <1>2, <1>3 DEF TabInv, TabType, OnTheMap
<1>4. CASE call' = Unmounted(call)
  BY <1>3, <1>4, UnmountKeeps DEF TabInv
<1>5. CASE UNCHANGED call
  BY <1>3, <1>5 DEF TabInv, TabType, CallerKept, OnTheMap, HandlerSession
<1>6. CASE call' = None
  BY <1>3, <1>6 DEF CallerKept
<1>7. CASE page = "map" /\ call' = [by |-> store.session, mounted |-> TRUE, session |-> None]
  <2>1. store.session \in Profiles \cup {Admin, None}
    BY DEF TabInv, TabType, Stores, guestSession, adminSession, EmptySession
  <2>2. call' \in PanelCalls /\ call'.mounted /\ call'.by = store.session
    BY <1>7, <2>1 DEF PanelCalls
  <2>. QED
    BY <1>3, <1>7, <2>2 DEF CallerKept, HandlerSession
<1>. QED
  BY <1>4, <1>5, <1>6, <1>7

\* Every step keeps the invariant.
LEMMA TabNext ==
    ASSUME TabInv, [ShellNext]_shellVars
    PROVE  TabInv'
<1>0. (zone # None => page = "map") /\ zone \in Zones \cup {None}
  BY DEF TabInv, OnTheMap, TabType
<1>1. ASSUME NEW z \in Zones, openZone(z) PROVE TabInv'
  BY <1>1, MapKeeps DEF openZone
<1>2. CASE onClose
  BY <1>2, MapKeeps DEF onClose
<1>3. ASSUME NEW i \in Islands, travelToIsland(i) PROVE TabInv'
  BY <1>3, MapKeeps DEF travelToIsland
<1>4. CASE dismissComplete
  BY <1>0, <1>4, MapKeeps DEF dismissComplete
<1>5. ASSUME NEW f \in SUBSET Facts, Learn(f) PROVE TabInv'
  BY <1>0, <1>5, MapKeeps DEF Learn
<1>6. CASE Submit
  BY <1>0, <1>6, MapKeeps DEF Submit
<1>7. ASSUME NEW f \in Facts, Handle(f) PROVE TabInv'
  BY <1>0, <1>7, MapKeeps DEF Handle
<1>8. CASE Reload
  BY <1>8, ReloadKeeps
<1>9. CASE UNCHANGED shellVars
  BY <1>0, <1>9, MapKeeps DEF shellVars
<1>. QED
  BY <1>1, <1>2, <1>3, <1>4, <1>5, <1>6, <1>7, <1>8, <1>9, PagesKeep DEF ShellNext

LEMMA TabStarts ==
    ASSUME ShellInit
    PROVE  TabInv
<1>1. persisted \in Saved
  BY DEF ShellInit, Saved
<1>2. store \in Stores /\ migrateSessionState(persisted) = store
  BY <1>1, MigratedStore DEF ShellInit
<1>3. page = "select" /\ entries \in Seq(Pages) /\ Len(entries) = 1 /\ pos = 1
  BY DEF ShellInit, page, Pages
<1>4. zone = None /\ call = None
  BY DEF ShellInit
<1>. QED
  BY <1>1, <1>2, <1>3, <1>4 DEF TabInv, TabType, SessionConsistent, OnTheMap, CallerKept

\* The store, the history and what is persisted agree, for every history.
THEOREM SessionIsConsistent == ShellSpec => []SessionConsistent
<1>1. TabInv => SessionConsistent
  BY DEF TabInv
<1>2. ShellInit => TabInv
  BY TabStarts
<1>3. TabInv /\ [ShellNext]_shellVars => TabInv'
  BY TabNext
<1>. QED
  BY <1>1, <1>2, <1>3, PTL DEF ShellSpec

\* A handler acts for the session that made its call, for every history.
THEOREM CallersAreKept == ShellSpec => []CallerKept
<1>1. TabInv => CallerKept
  BY DEF TabInv
<1>2. ShellInit => TabInv
  BY TabStarts
<1>3. TabInv /\ [ShellNext]_shellVars => TabInv'
  BY TabNext
<1>. QED
  BY <1>1, <1>2, <1>3, PTL DEF ShellSpec

----------------------------------------------------------------------------
(***************************************************************************)
(* The quest guide                                                         *)
(***************************************************************************)

\* The active step is open and all steps before it are completed.
LEMMA ActiveStep ==
    ASSUME activeStep # None
    PROVE  \E i \in 1 .. 5 : /\ activeStep = QuestSteps[i]
                             /\ \A j \in 1 .. 5 : j < i => completed(QuestSteps[j])
<1>. DEFINE open == {i \in 1 .. 5 : ~completed(QuestSteps[i])}
<1>1. open # {} /\ activeStep = QuestSteps[Min(open)]
  BY DEF activeStep
<1>2. \E i \in open : \A j \in open : i <= j
  <2>1. CASE 1 \in open
    BY <2>1
  <2>2. CASE 1 \notin open /\ 2 \in open
    BY <2>2
  <2>3. CASE 1 \notin open /\ 2 \notin open /\ 3 \in open
    BY <2>3
  <2>4. CASE 1 \notin open /\ 2 \notin open /\ 3 \notin open /\ 4 \in open
    BY <2>4
  <2>5. CASE 1 \notin open /\ 2 \notin open /\ 3 \notin open /\ 4 \notin open
    BY <1>1, <2>5
  <2>. QED
    BY <2>1, <2>2, <2>3, <2>4, <2>5
<1>3. Min(open) \in open /\ \A j \in open : Min(open) <= j
  <2>. HIDE DEF open
  <2>. QED
    BY <1>2 DEF Min
<1>. QED
  BY <1>1, <1>3

\* The zone the guide leads to is open to the guest, for every state the
\* queries can be in: it follows from the order of the quests alone, given
\* that a guest's session is no admin's.
THEOREM GuideLeadsOnAlways == ShellSpec => []GuideLeadsOn
<1>1. TabInv => GuideLeadsOn
  <2>. SUFFICES ASSUME TabInv, page = "map", GuideShown, activeStep # None
                PROVE  ~isLocked(activeStep) /\ PanelContent(activeStep) = "open"
    BY DEF GuideLeadsOn
  <2>1. ~store.isAdmin
    BY ShellAssumption DEF TabInv, TabType, Stores, guestSession, adminSession, EmptySession, GuideShown
  <2>2. PICK i \in 1 .. 5 : /\ activeStep = QuestSteps[i]
                            /\ \A j \in 1 .. 5 : j < i => completed(QuestSteps[j])
    BY ActiveStep
  <2>3. /\ QuestSteps[1] = "airport" /\ QuestSteps[2] = "hotel" /\ QuestSteps[3] = "beach"
        /\ QuestSteps[4] = "parrot" /\ QuestSteps[5] = "broadcast"
    BY DEF QuestSteps
  <2>4. i > 1 => landed
    <3>1. i > 1 => completed("airport")
      BY <2>2, <2>3
    <3>2. completed("airport") => landed
      BY DEF completed
    <3>. QED
      BY <3>1, <3>2
  <2>5. i > 2 => checkedIn
    <3>1. i > 2 => completed("hotel")
      BY <2>2, <2>3
    <3>2. completed("hotel") => checkedIn
      BY DEF completed
    <3>. QED
      BY <3>1, <3>2
  <2>6. activeStep = "airport" \/ landed
    BY <2>2, <2>3, <2>4
  <2>7. activeStep = "beach" => checkedIn
    <3>1. i \in {1, 2} => activeStep \in {"airport", "hotel"}
      BY <2>2, <2>3
    <3>2. i \in {1, 2} \/ i > 2
      OBVIOUS
    <3>. QED
      BY <2>5, <3>1, <3>2
  <2>. QED
    BY <2>1, <2>6, <2>7 DEF isLocked, PanelContent
<1>2. ShellInit => TabInv
  BY TabStarts
<1>3. TabInv /\ [ShellNext]_shellVars => TabInv'
  BY TabNext
<1>. QED
  BY <1>1, <1>2, <1>3, PTL DEF ShellSpec
====
