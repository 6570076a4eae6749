----------------------------- MODULE EventStream -----------------------------
(***************************************************************************)
(* From the hub (src/services/broadcast) to the feeds of the map page:     *)
(* connections of the hub, EventSource objects of the browser, the         *)
(* reconnection of useBroadcast, and the capped lists of the events store. *)
(*                                                                         *)
(* The hub and the browser each run one handler at a time. What the hub    *)
(* writes travels on the wire of a connection, which may break; the two    *)
(* ends learn of that at different times. The gateway passes the stream on *)
(* and is part of the wire.                                                *)
(***************************************************************************)
EXTENDS Integers, SequencesExt

CONSTANTS
    Streams,        \* EventSource objects, reused once both ends are done
    Channels,       \* ChannelId, or some of it
    Services,       \* the services that post, or some of them
    GuestNames,     \* names guests post under
    BACKOFF_INITIAL_MS, BACKOFF_MAX_MS, MAX_EVENTS,
    Passes,         \* runs of an effect per mount: two of them under StrictMode
    MaxMounts,      \* bound: times the map page is opened
    MaxPublished,   \* bound: events
    MaxFaults       \* bound: broken connections and crashes of the hub

ASSUME EventStreamAssumption ==
    /\ Streams \subseteq Nat /\ Passes \subseteq Nat
    /\ {"broadcast", "resort-wide"} \subseteq Channels
    /\ BACKOFF_INITIAL_MS \in Nat \ {0} /\ BACKOFF_MAX_MS \in Nat
    /\ BACKOFF_INITIAL_MS <= BACKOFF_MAX_MS
    /\ MAX_EVENTS \in Nat \ {0}
    /\ MaxMounts \in Nat /\ MaxPublished \in Nat /\ MaxFaults \in Nat

Mounts == 1 .. MaxMounts
Runs == Mounts \X Passes        \* a run of the effect of useBroadcast
NoRun == <<0, 0>>
Mounted(r) == r[1]              \* the mount whose refs and status a run shares
Handlers == {"res", "req"}      \* the close handlers of a connection
ConnectedEvent == 0             \* what addClient writes; others are 1, 2, ...

\* What the routes of the hub publish.
airportRoutes == [source : {"airport"}, type : {"airport.arrival"}]
hotelRoutes == [source : {"hotel"}, type : {"hotel.reservation_confirmed", "hotel.reservation_cancelled"}]
beachRoutes == [source : {"beach"}, type : {"beach.activity_full", "beach.activity_available"}]
publicRoutes == [source : GuestNames, type : {"public.announcement"}]
adminRoutes == [source : {"broadcast"}, type : {"resort.announcement"}]
Posts == {p \in airportRoutes \cup hotelRoutes \cup beachRoutes : p.source \in Services}
             \cup publicRoutes \cup adminRoutes

VARIABLES
    up, clients, handlers,      \* the hub
    wire, broken,               \* what is under way, and where no more will be
    source, owner,              \* the EventSource objects and the runs they are of
    page,                       \* the mounted map page, 0 when there is none
    mounts, status, backoff, timer,
    log,                        \* history: the events published
    events, activityTick,       \* the store
    faults

hub == <<up, clients, handlers>>
link == <<wire, broken>>
eventSource == <<source, owner>>
hook == <<page, mounts, status, backoff, timer>>
feed == <<events, activityTick>>
vars == <<hub, link, eventSource, hook, log, feed, faults>>

Live(s) == source[s] # "closed"
Free(s) == source[s] = "closed" /\ handlers[s] = {}

Init ==
    /\ up = TRUE
    /\ clients = <<>>
    /\ handlers = [s \in Streams |-> {}]
    /\ wire = [s \in Streams |-> <<>>]
    /\ broken = {}
    /\ source = [s \in Streams |-> "closed"]
    /\ owner = [s \in Streams |-> NoRun]
    /\ page = 0 /\ mounts = 0
    /\ status = [m \in Mounts |-> "reconnecting"]
    /\ backoff = [m \in Mounts |-> BACKOFF_INITIAL_MS]
    /\ timer = [r \in Runs |-> 0]
    /\ log = <<>>
    /\ events = [c \in Channels |-> <<>>]
    /\ activityTick = [c \in Channels |-> 0]
    /\ faults = 0

----------------------------------------------------------------------------
(***************************************************************************)
(* The hub                                                                 *)
(***************************************************************************)
addClient(s) ==
    /\ up
    /\ source[s] = "connecting" /\ handlers[s] = {} /\ s \notin broken
    /\ clients' = Append(clients, s)
    /\ handlers' = [handlers EXCEPT ![s] = Handlers]
    /\ wire' = [wire EXCEPT ![s] = <<ConnectedEvent>>]
    /\ UNCHANGED <<up, broken, eventSource, hook, log, feed, faults>>

\* Mutant: the result of indexOf is not looked at; splice(-1, 1) takes the last.
removeAny(s) ==
    clients' = IF clients = <<>> THEN clients
               ELSE RemoveAt(clients,
                        IF s \in ToSet(clients)
                        THEN CHOOSE i \in 1 .. Len(clients) : clients[i] = s
                        ELSE Len(clients))

removeClient(s) ==
    clients' = IF s \in ToSet(clients)
               THEN RemoveAt(clients, CHOOSE i \in 1 .. Len(clients) : clients[i] = s)
               ELSE clients

\* The response and the request of a connection have a close handler each.
OnClose(s, h) ==
    /\ up /\ s \in broken /\ h \in handlers[s]
    /\ handlers' = [handlers EXCEPT ![s] = @ \ {h}]
    /\ removeClient(s)
    /\ UNCHANGED <<up, link, eventSource, hook, log, feed, faults>>

\* A post of a service, a guest or the admin. Writing to a connection that is
\* broken does nothing.
broadcast(post) ==
    /\ up
    /\ Len(log) < MaxPublished
    /\ log' = Append(log, post)
    /\ wire' = [s \in Streams |->
                  IF s \in ToSet(clients) \ broken THEN Append(wire[s], Len(log) + 1)
                  ELSE wire[s]]
    /\ UNCHANGED <<hub, broken, eventSource, hook, feed, faults>>

HubCrash ==
    /\ up /\ faults < MaxFaults
    /\ faults' = faults + 1
    /\ up' = FALSE
    /\ clients' = <<>>
    /\ handlers' = [s \in Streams |-> {}]
    /\ broken' = broken \cup {s \in Streams : handlers[s] # {}}
    /\ UNCHANGED <<wire, eventSource, hook, log, feed>>

HubStart ==
    /\ ~up
    /\ up' = TRUE
    /\ UNCHANGED <<clients, handlers, link, eventSource, hook, log, feed, faults>>

----------------------------------------------------------------------------
(***************************************************************************)
(* useBroadcast. activeRef is never reset, so its tests always succeed.    *)
(***************************************************************************)
connect(runs) ==
    \E at \in [runs -> {s \in Streams : Free(s)}] :
        LET opened == {at[r] : r \in runs} IN
        /\ \A r, q \in runs : r[2] < q[2] => at[r] < at[q]
        /\ \A s \in opened : \A t \in Streams \ opened : Free(t) => s < t
        /\ source' = [s \in Streams |-> IF s \in opened THEN "connecting" ELSE source[s]]
        /\ owner' = [s \in Streams |-> IF s \in opened THEN CHOOSE r \in runs : at[r] = s
                                       ELSE owner[s]]
        /\ broken' = broken \ opened
        /\ UNCHANGED wire

\* The effect of the page's first rendering. The development server, which is
\* what the container runs, and StrictMode run it twice, one after the other.
Mount ==
    /\ page = 0 /\ mounts < MaxMounts
    /\ page' = mounts + 1
    /\ mounts' = mounts + 1
    /\ connect({mounts + 1} \X Passes)
    /\ UNCHANGED <<hub, status, backoff, timer, log, feed, faults>>

\* The effect has no clean-up.
Unmount ==
    /\ page # 0
    /\ page' = 0
    /\ UNCHANGED <<hub, link, eventSource, mounts, status, backoff, timer, log, feed, faults>>

OnOpen(s) ==
    /\ source[s] = "connecting" /\ wire[s] # <<>>
    /\ source' = [source EXCEPT ![s] = "open"]
    /\ backoff' = [backoff EXCEPT ![Mounted(owner[s])] = BACKOFF_INITIAL_MS]
    /\ status' = [status EXCEPT ![Mounted(owner[s])] = "connected"]
    /\ UNCHANGED <<hub, link, owner, page, mounts, timer, log, feed, faults>>

\* The connection broke, or none could be made.
Failed(s) ==
    /\ Live(s)
    /\ s \in broken \/ (~up /\ source[s] = "connecting")

min(a, b) == IF a < b THEN a ELSE b

\* A run has its own timeout: timerRef is written and never read.
Schedule(r) ==
    LET current == backoff[Mounted(r)] IN
    /\ status' = [status EXCEPT ![Mounted(r)] = "reconnecting"]
    /\ backoff' = [backoff EXCEPT ![Mounted(r)] = min(2 * current, BACKOFF_MAX_MS)]
    /\ timer' = [timer EXCEPT ![r] = current]

Close(s) ==
    /\ source' = [source EXCEPT ![s] = "closed"]
    /\ owner' = [owner EXCEPT ![s] = NoRun]
    /\ wire' = [wire EXCEPT ![s] = <<>>]
    /\ broken' = broken \cup {s}

\* Mutants: the object is not closed, and goes on by itself; a connection that
\* never opened is not tried again.
OnErrorOpen(s) ==
    /\ Failed(s)
    /\ broken' = broken \ {s}
    /\ Schedule(owner[s])
    /\ UNCHANGED <<hub, wire, eventSource, page, mounts, log, feed, faults>>
OnErrorGivesUp(s) ==
    /\ Failed(s)
    /\ Close(s)
    /\ \/ source[s] = "open" /\ Schedule(owner[s])
       \/ source[s] # "open" /\ UNCHANGED <<status, backoff, timer>>
    /\ UNCHANGED <<hub, page, mounts, log, feed, faults>>

OnError(s) ==
    /\ Failed(s)
    /\ Close(s)
    /\ Schedule(owner[s])
    /\ UNCHANGED <<hub, page, mounts, log, feed, faults>>

OnTimer(r) ==
    /\ timer[r] # 0
    /\ timer' = [timer EXCEPT ![r] = 0]
    /\ connect({r})
    /\ UNCHANGED <<hub, page, mounts, status, backoff, log, feed, faults>>

----------------------------------------------------------------------------
(***************************************************************************)
(* The store                                                               *)
(***************************************************************************)
channelFromSource(name) == IF name \in Channels THEN name ELSE "resort-wide"

IsResortAnnouncement(e) == log[e].type = "resort.announcement"

\* The channels an event goes to.
Targets(e) ==
    IF IsResortAnnouncement(e) THEN Channels
    ELSE {channelFromSource(log[e].source), "resort-wide"}

prependEvent(list, item) ==
    LET next == <<item>> \o list IN
    SubSeq(next, 1, min(Len(next), MAX_EVENTS))

\* Mutant: an announcement is an event like the others.
ingestNoFanOut(e, r) ==
    LET to == {channelFromSource(log[e].source), "resort-wide"} IN
    /\ events' = [c \in Channels |-> IF c \in to
                    THEN prependEvent(events[c], [event |-> e, via |-> r]) ELSE events[c]]
    /\ activityTick' = [c \in Channels |-> activityTick[c] + IF c \in to THEN 1 ELSE 0]

ingestEvent(e, r) ==
    /\ events' = [c \in Channels |-> IF c \in Targets(e)
                    THEN prependEvent(events[c], [event |-> e, via |-> r]) ELSE events[c]]
    /\ activityTick' = [c \in Channels |->
                          activityTick[c] + IF c \in Targets(e) THEN 1 ELSE 0]

\* An event of a type that has a listener, or the one of addClient, which has
\* none.
handleMessage(s) ==
    /\ source[s] = "open" /\ wire[s] # <<>>
    /\ wire' = [wire EXCEPT ![s] = Tail(@)]
    /\ \/ Head(wire[s]) = ConnectedEvent /\ UNCHANGED feed
       \/ Head(wire[s]) # ConnectedEvent /\ ingestEvent(Head(wire[s]), owner[s])
    /\ UNCHANGED <<hub, broken, eventSource, hook, log, faults>>

----------------------------------------------------------------------------
\* A connection breaks between its ends.
Break(s) ==
    /\ faults < MaxFaults
    /\ Live(s) /\ s \notin broken
    /\ faults' = faults + 1
    /\ broken' = broken \cup {s}
    /\ UNCHANGED <<hub, wire, eventSource, hook, log, feed>>

Steps(s) ==
    \/ addClient(s) \/ OnOpen(s) \/ OnError(s) \/ handleMessage(s)
    \/ \E h \in Handlers : OnClose(s, h)

Next ==
    \/ \E s \in Streams : Steps(s) \/ Break(s)
    \/ \E r \in Runs : OnTimer(r)
    \/ \E post \in Posts : broadcast(post)
    \/ Mount \/ Unmount \/ HubCrash \/ HubStart

\* Handlers run when their event is there, and timers fire. Nobody need open or
\* leave the page or publish, and a hub that is down may stay down.
Fairness ==
    /\ \A s \in Streams : WF_vars(Steps(s))
    /\ \A r \in Runs : WF_vars(OnTimer(r))

Spec == Init /\ [][Next]_vars
FairSpec == Spec /\ Fairness

----------------------------------------------------------------------------
(***************************************************************************)
(* Properties                                                              *)
(***************************************************************************)

\* README.MD of the hub: events "are immediately broadcast to all connected
\* clients". A connection is removed twice when it closes, and others close
\* meanwhile; still a connection is in the list, once, from its acceptance until
\* the first of its own close handlers has run.
NobodyForgotten ==
    \A s \in Streams :
        LET places == {i \in 1 .. Len(clients) : clients[i] = s} IN
        Cardinality(places) = IF handlers[s] = Handlers THEN 1 ELSE 0

\* Through breaks, crashes and reconnections each run of the effect puts an
\* event into a feed at most once, and in the order of publication, the newest
\* first. A page has the runs of its mount, so under StrictMode it may show an
\* event twice, and no oftener.
FeedInOrder ==
    \A c \in Channels : \A i, j \in 1 .. Len(events[c]) :
        i < j /\ events[c][i].via = events[c][j].via =>
            events[c][i].event > events[c][j].event

\* The items of the resort-wide feed that a channel also got.
Mirrored(c) ==
    {i \in 1 .. Len(events["resort-wide"]) : c \in Targets(events["resort-wide"][i].event)}

\* The resort-wide feed mirrors the others: what it has of a channel is what
\* that channel has, from the newest on and in the same order (the place of an
\* item in its channel counts the channel's items up to it), and all of it while
\* nothing was cut off. Feeds are as long as the events they were given, up to
\* the cap.
MirrorAgrees ==
    \A c \in Channels :
        LET all == events["resort-wide"]
            own == Mirrored(c)
        IN  /\ Cardinality(own) <= Len(events[c])
            /\ \A i \in own : events[c][Cardinality(own \cap 1 .. i)] = all[i]
            /\ Len(all) < MAX_EVENTS => Cardinality(own) = Len(events[c])
            /\ Len(events[c]) = min(activityTick[c], MAX_EVENTS)

\* frontend/README.md: the pill "shows whether the live feed is connected,
\* reconnecting, or offline". If the hub stays up from some time on, a page that
\* stays open is told that it is connected, whatever broke before.
Recovers ==
    <>[]up => \A m \in Mounts : page = m ~> status[m] = "connected" \/ page # m

\* use-broadcast.ts: "EventSource is closed automatically on unmount". When the
\* page is opened again, no object of an earlier page is still open, so that an
\* event would be ingested twice.
ClosedOnUnmount ==
    \A s \in Streams : page # 0 /\ source[s] = "open" => Mounted(owner[s]) = page
====
