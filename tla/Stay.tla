-------------------------------- MODULE Stay --------------------------------
(***************************************************************************)
(* A guest's stay as one browser tab drives it (src/frontend): arrival,    *)
(* room, beach activity and tokens. The panels work on cached answers of   *)
(* the services, refetched on mount, on focus, by a poll and after each    *)
(* change; a GET in flight is shared by everyone who asks for it. Changes  *)
(* are calls whose answer is handled whenever it comes, also after the     *)
(* panel was closed. The services answer each call in one step here; what  *)
(* goes on inside them is in Airport, Hotel and Beach.                     *)
(***************************************************************************)
EXTENDS TokenWallet, SequencesExt

CONSTANTS
    BookedElsewhere,    \* activities another tab of the guest may have booked
    Calls,      \* calls in progress at once
    MaxCalls,   \* bound: calls the guest makes
    MaxSlips,   \* bound: faults (lost answers, failed GETs, lost syncs and
                \* reloads) and steps of the guest before a change has settled
    MaxSync     \* bound: check-ins, or check-outs, on their way at once

NoData == "no data"                       \* of a query

ASSUME StayAssumption ==
    /\ NoData \notin Reservations \cup Activities \cup {NoId}
    /\ Reservations # {} /\ BookedElsewhere \subseteq Activities
    /\ Calls \subseteq Nat /\ IsFiniteSet(Calls)
    /\ MaxCalls \in Nat /\ MaxSlips \in Nat /\ MaxSync \in Nat \ {0}

Keys == {"arrival", "stay", "booked"}     \* the query keys
Ops == {"arrive", "reserve", "leave", "book", "cancel"}
NoGet == [state |-> "idle", value |-> NoId]
Sent == [state |-> "sent", value |-> NoId]
Idle == [op |-> "none", arg |-> NoId, current |-> NoId,
         state |-> "idle", mounted |-> FALSE, seen |-> NoId]

VARIABLES
    arrival,    \* airport: the newest arrival's status
    confirmed,  \* hotel: the guest's reservations, by check_in_day descending
    issued,     \* hotel: reservation ids given out
    checkedIn,  \* beach: the visitor's flag
    booking,    \* beach: the visitor's activity
    found,      \* history: the booking there was when the tab was opened, and
                \* whether the beach has had it ever since
    cache,      \* the query cache
    get,        \* the GET in flight of each key and its answer
    call,       \* the calls in progress
    sync,       \* check-ins and check-outs sent to the beach
    panel,      \* the open zone panel
    made,       \* calls made
    faults,     \* faults so far
    haste       \* steps the guest took before the last change had settled

services == <<arrival, confirmed, issued, checkedIn, booking, found>>
client == <<cache, get, call, sync, panel>>
vars == <<wallet, services, client, made, faults, haste>>

----------------------------------------------------------------------------
(***************************************************************************)
(* What the panels show                                                    *)
(***************************************************************************)
Landed(c) == c["arrival"] = "processed"                    \* useLanded
CheckedIn(c) == c["stay"] \notin {NoData, NoId}           \* useCheckedIn
ActivitiesShown(p, c) == p = "beach" /\ Landed(c) /\ CheckedIn(c)

\* isPending of a mutation: only of the calls this mount of the panel made.
isPending(op) == \E s \in Calls : call[s].mounted /\ call[s].op = op

Busy == \E s \in Calls : call[s].state # "idle"
Syncing == sync["in"] + sync["out"] > 0
Quiet == ~Busy /\ ~Syncing /\ \A k \in Keys : get[k] = NoGet

MaySlip == faults + haste < MaxSlips

\* A step of the guest, who has waited or has not.
WhenSettled(settled) ==
    /\ settled \/ MaySlip
    /\ haste' = IF settled THEN haste ELSE haste + 1

\* A query is loading while its first GET, or the one after a failed first GET,
\* is in flight. With neither data nor a GET the panels show what they show
\* without a reservation or a booking.
isLoading(k) == cache[k] = NoData /\ get[k] # NoGet
bookedActivityId == IF cache["booked"] = NoData THEN NoId ELSE cache["booked"]

clean == faults = 0 /\ haste = 0

\* findActiveByGuestId.
Active == IF confirmed = <<>> THEN NoId ELSE Head(confirmed)
Answer(k) == CASE k = "arrival" -> arrival [] k = "stay" -> Active [] k = "booked" -> booking

----------------------------------------------------------------------------
(***************************************************************************)
(* Queries. A GET in flight answers for a later request of the same key.   *)
(***************************************************************************)

fetch(g, ks) == [k \in Keys |-> IF k \in ks /\ g[k] = NoGet THEN Sent ELSE g[k]]

Send(n, k) == [n EXCEPT ![k] = IF @ < MaxSync THEN @ + 1 ELSE @]

\* The effect of useActiveReservation on new data or on a new mount.
ReservationEffect(r) ==
    IF r \in {NoData, NoId} THEN UNCHANGED <<sync, wallet>>
    ELSE sync' = Send(sync, "in") /\ creditReservationTokens(r)

\* A panel that is closed leaves its calls behind; the handlers keep what its
\* last render saw.
Unmounted == [s \in Calls |->
    IF call[s].mounted THEN [call[s] EXCEPT !.mounted = FALSE, !.seen = tracked] ELSE call[s]]

Refetched(p, c) ==
    CASE p = "airport" -> {"arrival"}
      [] p = "hotel" -> {"arrival", "stay"}
      [] p = "beach" -> {"arrival", "stay"} \cup (IF ActivitiesShown(p, c) THEN {"booked"} ELSE {})
      [] OTHER -> {}

\* openZone and onClose of the map page.
OpenPanel(p) ==
    /\ panel # p
    /\ panel' = p
    /\ call' = Unmounted
    /\ get' = fetch(get, Refetched(p, cache))
    /\ IF p \in {"hotel", "beach"} THEN ReservationEffect(cache["stay"])
                                   ELSE UNCHANGED <<sync, wallet>>
    /\ WhenSettled(~Busy /\ ~Syncing)
    /\ UNCHANGED <<services, cache, made, faults>>

\* The window gets the focus: every query of the map page is fetched again.
Focus ==
    /\ \E k \in Keys : get[k] = NoGet
    /\ get' = fetch(get, Keys)
    /\ WhenSettled(~Busy /\ ~Syncing)
    /\ UNCHANGED <<wallet, services, cache, call, sync, panel, made, faults>>

\* Mutant: the poll ends once there is an arrival.
PollUntilQueued ==
    /\ cache["arrival"] \in {NoData, "not_started"}
    /\ get["arrival"] = NoGet
    /\ get' = [get EXCEPT !["arrival"] = Sent]
    /\ UNCHANGED <<wallet, services, cache, call, sync, panel, made, faults, haste>>

\* refetchInterval of the arrival: until the guest has landed.
Poll ==
    /\ ~Landed(cache)
    /\ get["arrival"] = NoGet
    /\ get' = [get EXCEPT !["arrival"] = Sent]
    /\ UNCHANGED <<wallet, services, cache, call, sync, panel, made, faults, haste>>

ServeGet(k) ==
    /\ get[k] = Sent
    /\ get' = [get EXCEPT ![k] = [state |-> "answered", value |-> Answer(k)]]
    /\ UNCHANGED <<wallet, services, cache, call, sync, panel, made, faults, haste>>

\* New data of the reservation runs the effect; the list of activities, when
\* it comes to be shown, mounts the query of the booking.
ReceiveGet(k) ==
    LET data == [cache EXCEPT ![k] = get[k].value]
        mounts == ActivitiesShown(panel, data) /\ ~ActivitiesShown(panel, cache)
    IN  /\ get[k].state = "answered"
        /\ cache' = data
        /\ get' = fetch([get EXCEPT ![k] = NoGet], IF mounts THEN {"booked"} ELSE {})
        /\ IF k = "stay" /\ data[k] # cache[k] THEN ReservationEffect(data[k])
                                               ELSE UNCHANGED <<sync, wallet>>
        /\ UNCHANGED <<services, call, panel, made, faults, haste>>

\* retry: false; the data, if there is any, stays.
FailGet(k) ==
    /\ get[k] # NoGet
    /\ MaySlip
    /\ faults' = faults + 1 /\ UNCHANGED haste
    /\ get' = [get EXCEPT ![k] = NoGet]
    /\ UNCHANGED <<wallet, services, cache, call, sync, panel, made>>

----------------------------------------------------------------------------
(***************************************************************************)
(* What the guest does in a panel                                          *)
(***************************************************************************)
mutate(s, op, arg, current) ==
    /\ call[s] = Idle /\ \A t \in Calls : call[t] = Idle => s <= t
    /\ made < MaxCalls
    /\ made' = made + 1
    /\ call' = [call EXCEPT ![s] = [op |-> op, arg |-> arg, current |-> current,
                                    state |-> "sent", mounted |-> TRUE, seen |-> NoId]]
    /\ WhenSettled(Quiet)
    /\ UNCHANGED <<wallet, services, cache, get, sync, panel, faults>>

\* The arrival form is there until an arrival is known, so also while the
\* query is loading.
ArrivalFormShown == panel = "airport" /\ cache["arrival"] \in {NoData, "not_started"}

ReservationFormShown ==
    panel = "hotel" /\ Landed(cache) /\ ~isLoading("stay") /\ ~CheckedIn(cache)

ReservationCardShown == panel = "hotel" /\ Landed(cache) /\ CheckedIn(cache)

\* The buttons of an activity.
isMutating == isPending("book") \/ isPending("cancel")

Board(s) ==
    /\ ArrivalFormShown
    /\ ~isPending("arrive")
    /\ mutate(s, "arrive", NoId, NoId)

Reserve(s) ==
    LET new == {r \in Reservations \ issued : \A t \in Calls : call[t].arg # r} IN
    /\ ReservationFormShown
    /\ ~isPending("reserve")
    /\ new # {} /\ mutate(s, "reserve", CHOOSE r \in new : TRUE, NoId)

Leave(s) ==
    /\ ReservationCardShown
    /\ ~isPending("leave")
    /\ mutate(s, "leave", cache["stay"], NoId)

Book(s, a) ==
    /\ ActivitiesShown(panel, cache) /\ ~isLoading("booked") /\ ~isMutating
    /\ bookedActivityId # a
    /\ canAffordActivity(a, bookedActivityId)
    /\ mutate(s, "book", a, bookedActivityId)

Cancel(s) ==
    /\ ActivitiesShown(panel, cache) /\ ~isMutating
    /\ bookedActivityId # NoId
    /\ mutate(s, "cancel", bookedActivityId, NoId)

----------------------------------------------------------------------------
(***************************************************************************)
(* What the services do with a call                                        *)
(***************************************************************************)

Booking(a) ==
    /\ booking' = a
    /\ found' = [found EXCEPT !.kept = @ /\ a = booking]

\* A call takes effect on the services.
Applied(op, arg) ==
    \/ /\ op = "arrive"
       /\ arrival' = "queued"
       /\ UNCHANGED <<confirmed, issued, checkedIn, booking, found>>
    \/ /\ op = "reserve" /\ arrival = "processed"
       /\ \E i \in 1 .. Len(confirmed) + 1 : confirmed' = InsertAt(confirmed, i, arg)
       /\ issued' = issued \cup {arg}
       /\ UNCHANGED <<arrival, checkedIn, booking, found>>
    \/ /\ op = "leave"
       /\ \/ \E i \in DOMAIN confirmed : confirmed[i] = arg /\ confirmed' = RemoveAt(confirmed, i)
          \/ (\A i \in DOMAIN confirmed : confirmed[i] # arg) /\ UNCHANGED confirmed
       /\ UNCHANGED <<arrival, issued, checkedIn, booking, found>>
    \/ /\ op = "book" /\ checkedIn /\ booking # arg
       /\ Booking(arg)
       /\ UNCHANGED <<arrival, confirmed, issued, checkedIn>>
    \/ /\ op = "cancel"
       /\ Booking(IF booking = arg THEN NoId ELSE booking)
       /\ UNCHANGED <<arrival, confirmed, issued, checkedIn>>

\* The call is answered: with success, or refused (no room, no place, not
\* checked in, already booked). postReservation goes on to check the party in.
Serve(s) ==
    /\ call[s].state = "sent"
    /\ \/ /\ Applied(call[s].op, call[s].arg)
          /\ call' = [call EXCEPT ![s].state = IF call[s].op = "reserve" THEN "check-in" ELSE "ok"]
       \/ /\ call[s].op \in {"reserve", "book"}
          /\ call' = [call EXCEPT ![s].state = "error"]
          /\ UNCHANGED services
    /\ UNCHANGED <<wallet, cache, get, sync, panel, made, faults, haste>>

\* The call takes effect and its answer is lost: the client sees an error.
ServeLost(s) ==
    /\ call[s].state = "sent"
    /\ MaySlip
    /\ faults' = faults + 1 /\ UNCHANGED haste
    /\ Applied(call[s].op, call[s].arg)
    /\ call' = [call EXCEPT ![s].state = "error"]
    /\ UNCHANGED <<wallet, cache, get, sync, panel, made>>

\* The check-in of postReservation, which may fail.
CheckInParty(s) ==
    /\ call[s].state = "check-in"
    /\ call' = [call EXCEPT ![s].state = "ok"]
    /\ \/ checkedIn' = TRUE /\ UNCHANGED faults
       \/ /\ MaySlip /\ faults' = faults + 1
          /\ UNCHANGED checkedIn
    /\ UNCHANGED <<wallet, arrival, confirmed, issued, booking, found, cache, get, sync, panel,
                   made, haste>>

Land ==
    /\ arrival = "queued"
    /\ arrival' = "processed"
    /\ UNCHANGED <<wallet, confirmed, issued, checkedIn, booking, found, client, made, faults, haste>>

\* A check-in or a check-out reaches the beach; a check-out ends the booking.
Deliver(k) ==
    /\ sync[k] > 0
    /\ sync' = [sync EXCEPT ![k] = @ - 1]
    /\ checkedIn' = (k = "in")
    /\ Booking(IF k = "out" THEN NoId ELSE booking)
    /\ UNCHANGED <<wallet, arrival, confirmed, issued, cache, get, call, panel,
                   made, faults, haste>>

LoseSync(k) ==
    /\ sync[k] > 0
    /\ MaySlip
    /\ faults' = faults + 1 /\ UNCHANGED haste
    /\ sync' = [sync EXCEPT ![k] = @ - 1]
    /\ UNCHANGED <<wallet, services, cache, get, call, panel, made>>

----------------------------------------------------------------------------
(***************************************************************************)
(* What the tab does with an answer                                        *)
(***************************************************************************)
Settled(s, op, states) == call[s].op = op /\ call[s].state \in states /\ call' = [call EXCEPT ![s] = Idle]

ArriveSuccess(s) ==
    /\ Settled(s, "arrive", {"ok"})
    /\ get' = fetch(get, {"arrival"})
    /\ UNCHANGED <<wallet, services, cache, sync, panel, made, faults, haste>>

ReserveSuccess(s) ==
    /\ Settled(s, "reserve", {"ok"})
    /\ creditReservationTokens(call[s].arg)
    /\ get' = fetch(get, {"stay"})
    /\ UNCHANGED <<services, cache, sync, panel, made, faults, haste>>

\* Mutant: the reservation is gone, the activity stays paid for.
LeaveWithoutRefund(s) ==
    /\ Settled(s, "leave", {"ok"})
    /\ cache' = [cache EXCEPT !["stay"] = NoId]
    /\ sync' = Send(sync, "out")
    /\ get' = fetch(get, {"stay", "booked"})
    /\ UNCHANGED <<wallet, services, panel, made, faults, haste>>

\* Mutant: the reservation is gone, the guest stays on the beach.
LeaveWithoutCheckOut(s) ==
    /\ Settled(s, "leave", {"ok"})
    /\ cache' = [cache EXCEPT !["stay"] = NoId]
    /\ get' = fetch(get, {"stay", "booked"})
    /\ IF tracked = NoId THEN UNCHANGED wallet ELSE refundActivityTokens(tracked, 0)
    /\ UNCHANGED <<services, sync, panel, made, faults, haste>>

\* The check-outs are not awaited before the queries are fetched again.
LeaveSuccess(s) ==
    LET seen == IF call[s].mounted THEN tracked ELSE call[s].seen IN
    /\ Settled(s, "leave", {"ok"})
    /\ cache' = [cache EXCEPT !["stay"] = NoId]
    /\ sync' = Send(sync, "out")
    /\ get' = fetch(get, {"stay", "booked"})
    /\ IF seen = NoId THEN UNCHANGED wallet ELSE refundActivityTokens(seen, 0)
    /\ UNCHANGED <<services, panel, made, faults, haste>>

\* Mutant: the booking is not fetched again.
BookWithoutRefetch(s) ==
    /\ Settled(s, "book", {"ok"})
    /\ spendActivityTokens(call[s].arg, call[s].current)
    /\ UNCHANGED <<services, cache, get, sync, panel, made, faults, haste>>

BookSuccess(s) ==
    /\ Settled(s, "book", {"ok"})
    /\ spendActivityTokens(call[s].arg, call[s].current)
    /\ get' = fetch(get, {"booked"})
    /\ UNCHANGED <<services, cache, sync, panel, made, faults, haste>>

CancelSuccess(s) ==
    /\ Settled(s, "cancel", {"ok"})
    /\ refundActivityTokens(call[s].arg, Cost[call[s].arg])
    /\ get' = fetch(get, {"booked"})
    /\ UNCHANGED <<services, cache, sync, panel, made, faults, haste>>

\* onError only tells the guest.
Error(s) ==
    /\ Settled(s, call[s].op, {"error"})
    /\ UNCHANGED <<wallet, services, cache, get, sync, panel, made, faults, haste>>

\* The page is loaded again: the wallet is in sessionStorage, the cache and the
\* handlers are gone, what was sent is on its way.
Reload ==
    /\ MaySlip
    /\ faults' = faults + 1 /\ UNCHANGED haste
    /\ panel' = "none"
    /\ cache' = [k \in Keys |-> NoData]
    /\ get' = [k \in Keys |-> Sent]
    /\ call' = [s \in Calls |-> IF call[s].state = "sent" THEN [call[s] EXCEPT !.state = "orphan"]
                                ELSE Idle]
    /\ UNCHANGED <<wallet, services, sync, made>>

ServeOrphan(s) ==
    /\ call[s].state = "orphan"
    /\ \/ Applied(call[s].op, call[s].arg)
       \/ UNCHANGED services
    /\ call' = [call EXCEPT ![s] = Idle]
    /\ UNCHANGED <<wallet, cache, get, sync, panel, made, faults, haste>>

----------------------------------------------------------------------------
\* A new tab, whose sessionStorage is empty, of a guest who has just come or
\* who has a room already, and perhaps a booking that another tab paid for.
Init ==
    /\ WalletInit
    /\ \/ arrival = "not_started" /\ confirmed = <<>> /\ booking = NoId
       \/ /\ arrival = "processed" /\ confirmed = <<CHOOSE r \in Reservations : TRUE>>
          /\ booking \in BookedElsewhere \cup {NoId}
    /\ issued = ToSet(confirmed) /\ checkedIn = (confirmed # <<>>)
    /\ found = [activity |-> booking, kept |-> booking # NoId]
    /\ cache = [k \in Keys |-> NoData]
    /\ get = [k \in Keys |-> Sent]
    /\ call = [s \in Calls |-> Idle]
    /\ sync = [k \in {"in", "out"} |-> 0]
    /\ panel = "none"
    /\ made = 0 /\ faults = 0 /\ haste = 0

Guest ==
    \/ \E p \in {"none", "airport", "hotel", "beach"} : OpenPanel(p)
    \/ \E s \in Calls :
        \/ Board(s) \/ Reserve(s) \/ Leave(s) \/ Cancel(s)
        \/ \E a \in Activities : Book(s, a)

Handler(s) ==
    \/ ArriveSuccess(s) \/ ReserveSuccess(s) \/ LeaveSuccess(s)
    \/ BookSuccess(s) \/ CancelSuccess(s) \/ Error(s)

Service(s) == Serve(s) \/ CheckInParty(s) \/ ServeOrphan(s)

Next ==
    \/ Guest \/ Focus \/ Poll \/ Land \/ Reload
    \/ \E k \in Keys : ServeGet(k) \/ ReceiveGet(k) \/ FailGet(k)
    \/ \E s \in Calls : Service(s) \/ ServeLost(s) \/ Handler(s)
    \/ \E k \in {"in", "out"} : Deliver(k) \/ LoseSync(k)

\* The services answer and the tab handles answers; the poll is a timer. The
\* guest need not do anything.
Fairness ==
    /\ WF_vars(Poll) /\ WF_vars(Land)
    /\ WF_vars(ServeGet("arrival")) /\ WF_vars(ReceiveGet("arrival"))

Spec == Init /\ [][Next]_vars
FairSpec == Spec /\ Fairness

----------------------------------------------------------------------------
(***************************************************************************)
(* Properties                                                              *)
(***************************************************************************)

\* What the service behind a query key answers.
Values(k) ==
    CASE k = "arrival" -> {"not_started", "queued", "processed"}
      [] k = "stay" -> Reservations \cup {NoId}
      [] k = "booked" -> Activities \cup {NoId}

\* The type of the wallet and of what it is told: the reservations and
\* activities in the services, the cache, the answers on their way and the
\* calls.
TypeOK ==
    /\ WalletTypeOK
    /\ arrival \in Values("arrival") /\ confirmed \in Seq(Reservations)
    /\ booking \in Activities \cup {NoId}
    /\ found \in [activity : Activities \cup {NoId}, kept : BOOLEAN]
    /\ cache = [k \in Keys |-> cache[k]] /\ get = [k \in Keys |-> get[k]]
    /\ \A k \in Keys :
        /\ cache[k] \in Values(k) \cup {NoData}
        /\ get[k].state = "answered" => get[k].value \in Values(k)
    /\ call \in [Calls -> [op : Ops \cup {"none"}, arg : Reservations \cup Activities \cup {NoId},
                           current : Activities \cup {NoId}, mounted : BOOLEAN,
                           state : {"idle", "sent", "check-in", "ok", "error", "orphan"},
                           seen : Activities \cup {NoId}]]
    /\ \A s \in Calls :
        /\ call[s].op = "reserve" => call[s].arg \in Reservations
        /\ call[s].op \in {"book", "cancel"} => call[s].arg \in Activities

\* For a guest who waits until a change has settled, and without faults, the
\* wallet is exact once everything is quiet. The tracked booking is the one the
\* beach has, unless that is still the one the tab found there. What the guest
\* owns and the tracked booking costs add up to what was credited, each
\* reservation once, and to the price of the booking the tab found, if it was
\* cancelled here: the tab refunds it without having seen it paid. The wallet is
\* only told afterwards, by different hooks, of what the services did.
ExactWallet ==
    clean /\ Quiet =>
        /\ tracked = IF found.kept THEN NoId ELSE booking
        /\ balance + paid(tracked) = MapThenSumSet(getReservationTokenAllowance, credited) + gifts
        /\ gifts \in {0, IF found.kept THEN 0 ELSE paid(found.activity)}

\* ... and the tab and the services agree: the reservation shown is the one
\* the hotel has, and the beach has the guest checked in if and only if there
\* is one. Check-ins and check-outs are sent without waiting for each other.
ViewsAgree ==
    clean /\ Quiet /\ cache["stay"] # NoData =>
        /\ cache["stay"] = Active
        /\ checkedIn = (confirmed # <<>>)

\* A guest in the queue is shown as landed in the end, whatever the panels do
\* and whichever polls fail.
LandingShown == arrival = "queued" ~> Landed(cache)

\* Tokens that this tab did not see paid are refunded, and tokens that were paid
\* are lost, only for the booking the tab found at the beach, once, and after a
\* fault or a hasty step. A fault is good for the price of one booking at most: a
\* lost answer to a booking makes it free and later refundable. A hasty step is
\* good for two: the booking it makes on a stale answer forgets a paid one, and
\* the refetch that follows it may be answered by a GET sent before, so that the
\* next one does so again.
MintBound ==
    gifts + forfeits <=
        (faults + 2 * haste) * Max({Cost[a] : a \in Activities}) + paid(found.activity)
====
