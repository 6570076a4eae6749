# Webmeow: a TLA+ model of the resort

Webmeow is a demo resort built from small services. A browser client talks
through a Go gateway to an airport (Python), a hotel (NestJS), a beach (Kotlin),
a parrot that chats (Python) and a hub that pushes events (Node). This directory
holds TLA+ models of the parts that keep state under concurrency or failure, TLC
configurations that check them on small instances, and TLAPS proofs of the most
important properties for every value of the constants.

`PROJECT.json` maps every definition to the lines it models and lists the runs,
the hazards the properties are aimed at, and the theorems.

## 1. The system

### 1.1 Components

| Component | State | Operations | What is hard | What makes it correct |
|---|---|---|---|---|
| Airport, `services/airport` | SQLite table `arrivals`; per gate a list of waiting guests and the guest at the desk | `POST /arrivals`, one worker thread per gate, rehydration at start | request threads and workers share lists; row and queue are written by separate steps; the process may die anywhere; an exception ends a worker | no guest is lost or handled twice, but for rows whose request raised after the commit until the next start; ranks are kept, one event per guest, `processed` is final |
| Beach, `services/beach` | PostgreSQL tables `activity_bookings` and `visitors` | book, cancel, check-in, check-out | every repository call is a transaction of its own; checks are stale when the write commits; transactions conflict and are run again | overbooking is bounded, success answers are true, every call is answered |
| Hotel, `services/hotel` | tables `room`, `reservation`, `reservation_guest` | create, cancel, list rooms | each `await` lets other calls run; the airport may not answer; no database constraint | no more parties in a room than calls that raced, only cleared parties, "full" is true |
| Gateway rate limiter, `gateway/ratelimit.go`, `admin.go` | two atomics, a map of windows under a mutex | a request, an admin update | the atomics are loaded outside the mutex | the burst of a client is bounded |
| Gateway cache, `gateway/cache.go` | LRU list and map under a mutex | get, set | a slow answer is stored late; list and map at the limit | the two agree, never above the limit, least recently used goes first, staleness is bounded, answers to plain requests are not shared between clients |
| Gateway routing, `pool.go`, `proxy.go`, `health.go`, `main.go` | an atomic counter per pool | pick, proxy, health fan-out | wrap-around of the counter | each backend gets its share |
| Broadcast hub, `services/broadcast` | list of connected SSE clients | connect, disconnect, publish | no replay; clients reconnect; two close handlers per client | no client is forgotten; events arrive once, in order |
| Parrot, `services/parrot` | conversation per guest, in memory | chat, stream, admin views, cleanup | concurrent chats of one guest; streams that break off; trimming; tool rounds | conversations are whole turns within the cap, none is lost under a chat before its time, every chat ends |
| Tokens and the stay of a guest, `frontend/.../tokens`, `airport`, `hotel`, `beach` | wallet in `sessionStorage`; query cache; calls in progress | credit, spend, refund around HTTP calls; polls and refetches | the wallet is told afterwards, by different hooks; answers are lost, panels closed, cached answers stale; a new tab has an empty wallet beside an existing booking | no token appears or vanishes without account, the views agree with the services |
| Sessions, pages and quests, `frontend/.../session`, `map`, `quests`, `passport` | session store, history of the tab, open zone, quest marks | select, switch, quit, navigate, open zones, reload | Back and Forward to pages of a session that is over; answers that come after a switch | a page that needs a session has one, a handler acts for its caller, the guide never leads to a locked zone |
| Parrot's chat panel, `frontend/.../parrot` | cached history, pending and failed turn | send, retry, refetch | the cache is written by a refetch and by hand; the parrot trims and forgets; the panel is closed under a post | the thread ends with the conversation, thinking ends |
| Event stream, `frontend/.../broadcast`, `stores` | capped list of events, connection state | reconnect with backoff, ingest | both ends learn of a break at different times; StrictMode runs the effect twice; the page is left and opened again | each run of the effect shows an event once, bounded lists that agree, recovery |
| Traffic simulation, `frontend/.../simulation` | per simulated guest a stage; loops with timers | arrive, book, cancel, chat | loops interleave on one guest; each call may fail after it took effect or before; other browsers drive the same guests; the page is left and opened again | the noted stage is true unless someone else took it away, no loop is lost or left over |
| Clocks and statistics, pages, deployment | — | — | — | not modelled, see section 7 |

### 1.2 Interaction

The hotel asks the airport (`GET /arrivals/<guest>`) before it books, one lookup
per guest of the party, all at once; an airport that is down blocks nobody.
Airport and hotel publish to the hub with one attempt each and swallow failures.
The beach publishes nothing and asks nobody. The client learns of events from
the hub, and of everything else by calls through the gateway. No service shares
a database with another.

The hotel knows nothing of the beach, and neither knows of tokens: it is the
browser that checks a party in at the beach after it has booked a room, checks it
out after it has left, and moves tokens when the beach has answered. None of
these is a transaction, so a fault between two leaves the services and the wallet
apart; `Stay` says how far.

## 2. Modules

| Module | Models |
|---|---|
| `PassportControl` | what the airport's table promises to its readers |
| `Airport` | `gate_manager.py`, `routes.py`, `app.py`, `broadcast.py`: the process, its crashes and its table |
| `MCAirport` | two gates and four request bodies |
| `AirportProofs` | inductive invariant, safety, refinement |
| `Beach` | the four use cases and two repositories, with their transactions |
| `MCBeach` | three activities, two visitors |
| `BeachProofs` | inductive invariants, the bounds on overbooking and on a visitor's bookings, truth of answers |
| `Hotel` | `reservation.service.ts`, `airport.service.ts`, `broadcast.service.ts` |
| `MCHotel` | two rooms, overlapping stays |
| `HotelProofs` | inductive invariant and all properties of `Hotel` |
| `RateLimiter` | `ratelimit.go`, `admin.go` |
| `MCRateLimiter` | two requests of one client, one admin call |
| `Route` | `cache.go`, `pool.go`: one route's cache and pool |
| `MCRoute` | two clients, two paths, a request whose key is another's, two entries, three backends |
| `GatewayProofs` | whose answers hits are, how old they may be, the list as an LRU list, the shares of the backends; bursts of the rate limiter |
| `Conversation` | `history.py`, `llm.py`, `routes.py`, `main.py` of the parrot |
| `MCConversation` | two chats of two guests or of none |
| `EventStream` | `eventBus.ts` and the routes of the hub, `use-broadcast.ts`, `events-store.ts` |
| `MCEventStream` | a page under StrictMode, and one opened twice |
| `EventStreamProofs` | the hub's list, the order of a feed, the mirror |
| `TokenWallet` | `token-store.ts`, `token-rules.ts`: what the wallet promises, whoever calls it |
| `Stay` | the hooks, panels and queries of arrival, room, activity and tokens in one tab; extends `TokenWallet` and composes it with the three services as the tab sees them |
| `MCStay` | three activities, a room that pays for all of them and one that does not |
| `StayProofs` | types, the ledger, `Stay` implements `TokenWallet`, agreement of tab and services |
| `Shell` | session store, routes and their guard, map page, zones, quest store and guide |
| `MCShell` | two guests and an admin on one tab |
| `ParrotChat` | `use-parrot-chat.ts` and the panel around it |
| `MCParrotChat` | two posts at once |
| `ParrotProofs` | turns, and conversations removed under a chat, of `Conversation`, the thread of `ParrotChat` |
| `Traffic` | `use-traffic-generator.ts`, `actions.ts`, `machine.ts` of the simulation |
| `MCTraffic` | two loops on one guest, a page opened twice |
| `FrontendProofs` | of `Traffic`: loops, the stages noted; all properties of `Shell` |

### 2.1 Airport

Variables in three groups: the table (`status`, `guest`, `gate`), the process
(`phase`, `rows`, `clock`, `handler`, `queue`, `current`, `worker`), and history
with bounds. An arrival is named by its `queued_at` stamp, which is what
rehydration sorts by.

* `Boot`, `RehydrateRow`, `RehydrateCommit` are `_rehydrate_from_db` and
  `start_all`: the query, one step for each row, and the single commit. The
  process may crash between any two. `BootFails` is a statement of it that
  raises: `create_app` fails, and gunicorn ends because its worker cannot boot.
* `Assign`, `InsertRow`, `Enqueue` are `create_arrival` and
  `assign_and_enqueue`. The gate is chosen from queue lengths read without a
  lock; the row is committed before the guest is in the queue. A request may raise
  with no row written (`InsertFails`) or with the row durable
  (`RaisesAfterCommit`: the acknowledgement of the commit is lost, or the SELECT
  that reloads `arrival.id` fails): the process goes on with a row that no queue
  holds, `stranded`.
* `Pop`, `CommitProcessing`, `CommitProcessed`, `Publish`, `Release` are one
  turn of `Gate._run`; `WorkerDies` and `DiesAfterCommit` are a statement in it
  that raises, before or after its commit was durable.
* `Crash` empties the memory and keeps the table (`LoseMemory`).

Left to the data: names, timestamps, processing times (a step may take any
time).

### 2.2 Beach

A call is a sequence of transactions, and other calls commit between them.
Reads are one step each. A write transaction has two steps: `Begin` fixes its
snapshot (the rows it will delete, and whether it sees the visitor's row) and
`Commit` or `Retry` ends it. `conflict` is PostgreSQL's REPEATABLE READ: a row
of the snapshot was written since, or the key to insert is taken. The isolation
level and the three attempts are the defaults of Exposed and of the pool that
the code configures; the database itself is external and modelled from how the
repositories use it. `held` records whether the effect of a call was in the
tables at any moment of the call.

### 2.3 Hotel

Each `await` of `create` and `cancel` is a step: lookups at the airport (in any
order, each answered, refused or failed), the list of rooms, one count per room,
the insert, the event. The airport is reduced to what its `GET` answers for a
guest: `Register` and `Process` change it while calls run, and a guest it has
never seen is answered with status 200 and `not_started`. History variables
record which guests were never cleared and which rooms were always free during a
call.

### 2.4 Rate limiter

Every atomic load and store is a step. The body of `allow` after the loads runs
under the mutex and is one step, `Decide`, which reads the clock. The admin
handler reads what its body leaves out and writes both values back, limit first.
`SetWindow` ignores a window that is not positive, as the code does.

### 2.5 Route

`get` and the locked part of `set` are one step each; between them a request is
forwarded, answered, copied to the client and stamped with its expiry, and other
requests run. `entries` is the map and `order` the list. `writes` is what a
backend has for a path, changed by `Written`, which the cache does not notice.
`pick` adds to a counter of `Width` bits and takes it modulo the number of
backends. History variables record the order of use, the longest time to a
response that was stored, and the share of each backend.

A request is its method, its path (as sent and decoded), its query as a list of
pairs that parse or do not, and the values of each header that identifies a client.
`cacheKey` is what the code makes of it: the decoded path, the values of each name
of those pairs that parse, and the first value of each header. What is left out of
the key is forwarded all the same, so that requests the backend tells apart can
have one key. A response is the request it answers, the version of the content it
shows and whether the rules of `responseCacheable` and `set` let it be stored. The
digest of the key is taken to be injective, as is its concatenation.

### 2.6 Conversation

A chat is a process on the event loop that others may overtake at each `await`
and `yield`. `Start` is the endpoint up to its first `await` (`chat`) or up to
the return of the generator (`chat_stream`, whose body begins with
`BeginStream`). `LlmCalls`, `LlmAnswers` and `RunTool` are the loop,
`NextRound` its end or next turn, `Fails` an exception and `Disconnect` the end
of a generator by its client. `Finish` stores what the chat has: `chat` only on
success, `chat_stream` always, because it does so in `finally`. `cleanup` runs
at any time. A message is its role, the number of tool calls and its chat.
`cut` records the streams that broke off, `began` when a chat began.

### 2.7 EventStream

Two processes and what lies between them. The hub has its list of `clients` and
for each connection the close `handlers` that have yet to run: `addClient`,
`broadcast` of what one of its routes was posted (`airportRoutes` and the others
say with which source), and `OnClose` for the response and for the request. The browser has
`EventSource` objects (`source`, `owner`), the state of each run of the effect
(`status`, `backoff`, `timer`), and the store (`events`, `activityTick`):
`Mount`, `Unmount`, `OnOpen`, `OnError`, `OnTimer`, `handleMessage`. A connection
has a `wire` with what was written and not yet read; `Break` and `HubCrash` put
it into `broken`, after which the hub's writes are lost and each end finds out in
a step of its own. `Unmount` changes nothing but the page, because the effect has
no clean-up; `activeRef` is never reset, so the tests of it are left out. For the
same reason `Mount` connects once for each of `Passes`: `main.tsx` renders in
StrictMode, and the only deployment of the repository serves the development build
(`frontend/Dockerfile`), which runs each effect twice. A run of the effect is a pair
of a mount and a pass; an item of a feed keeps the number of its event and the run
that ingested it.

### 2.8 TokenWallet and Stay

`TokenWallet` is the store by itself: `creditReservationTokens`,
`spendActivityTokens` and `refundActivityTokens` with any arguments, in any order.
`earned`, `gifts` and `forfeits` are history: what came from reservations, what a
refund paid out that no tracked booking had cost, and what a switch lost because
its caller did not know the booking it replaced.

`Stay` adds the tab and the services. The services (`arrival`, `confirmed`,
`issued`, `checkedIn`, `booking`) answer a call in one step, with success or a
refusal; their inside is in the modules above. The tab has a query `cache` with a
GET in flight per key (`get`), which answers for everyone who asks meanwhile and
may be stale when it is received; `call` holds the mutations, and `sync` the
check-ins and check-outs that are sent and not awaited.

* `OpenPanel`, `Focus`, `Poll` fetch; `ServeGet`, `ReceiveGet`, `FailGet` are the
  life of a GET. New data of the reservation runs the effect of
  `useActiveReservation`, which credits tokens and checks the party in.
* `Board`, `Reserve`, `Leave`, `Book`, `Cancel` are the buttons, each with the
  conditions under which its panel shows it and it is enabled. `isPending` knows
  only the calls of this mount of the panel: a panel that is closed leaves its
  calls behind (`mounted`), and their handlers keep what its last render saw
  (`seen`).
* `Serve`, `ServeLost` (the effect without the answer), `CheckInParty`, and
  `Deliver` or `LoseSync` for the beach.
* `ArriveSuccess`, `ReserveSuccess`, `LeaveSuccess`, `BookSuccess`,
  `CancelSuccess`, `Error` are the handlers, whenever the answer comes.
* `Reload` keeps the wallet, drops the cache and the handlers, and leaves what was
  sent on its way (`ServeOrphan`).

`Init` is a tab that was just opened, with an empty wallet, of a guest who may have
a room and a booking from another tab, since `sessionStorage` belongs to one tab;
`found` records that booking, and whether the beach still has it. A query whose first GET failed has
no data (`NoData`) and is not loading either, so the form and the list are shown.

`faults` counts lost answers, failed GETs, lost check-ins and reloads; `haste`
counts what the guest does before the last change has settled. A behaviour is
`clean` while both are 0.

### 2.9 Shell

`entries` and `pos` are the history of the tab, `store` and `persisted` the
session store and what `partialize` keeps of it; `migrateSessionState` reads it
back, an older version's entry too. `Show` is what every navigation ends in: the
quit page clears the session, `RequireSession` replaces an entry that needs one,
and leaving the map page drops its state and unmounts its panels. Handlers of the
pages, `BackOrForward` and `Reload` lead to it. On the map, `openZone`, `onClose`,
`travelToIsland`, `dismissComplete`; `Learn` is any answer of the guest's queries.
`Submit` and `Handle` are a mutation of a panel and its handler, which acts for the
session of its last render (`HandlerSession`). `isLocked` (the marker),
`PanelContent` (the gates) and `activeStep` (the guide) are three separate pieces
of code on the same facts.

### 2.10 ParrotChat

A turn is the number of its message; what `mask_profanity` makes of its words is
left out. `server` is the parrot's history, which `Keep` trims to `MaxTurns` and
`Forget` empties (the cleanup, or a new process), `everKept` all it was ever asked,
and `cache` the tab's, which nobody trims. A post is served, or fails before or after
the parrot has kept the turn, or while the parrot is still at it (`late`,
`ServeLate`); its handler appends to the cache whether or not the panel is still there, and
touches `pendingTurn` and `failed` only of the panel that sent it. `lost` and
`overlaps` count what can drive the two histories apart since the tab last
received the parrot's as it is.

### 2.11 Traffic

A loop is a pair of a mount of the map page and a lane. `Begin` draws a guest and
reads its state, each further step is one awaited call (`Call`, which may fail
with or without its effect, or `Read`), and `setState` or `Done` ends it and
schedules the next. A step of a page that is gone goes on and writes to the states
of its own mount, which nobody reads any more. The simulated guests have fixed ids
that every browser drives, and a call given up here may still be applied, so
`Elsewhere` makes, books or cancels for a guest at any time. `given` records the
reservations a guest was ever given, `disturbed` the guests who were acted for from
elsewhere since they were last noted as new: two steps were under way at once, or
what was noted was taken by a call that is not under way here. Whether a chat is due (its
cooldown, its odds) is a choice.

## 3. Runs

| Run | Expect | Shows |
|---|---|---|
| `airport` | pass | with a crash and a database error at any point: no guest lost or handled twice, but for the row of a request that raised after its commit, which the next start queues; events follow commits, rank order, refinement of `PassportControl`, and every guest served unless the error stranded the row, killed the gate's worker or failed the start |
| `beach` | pass | the bounds on overbooking, on bookings of a visitor and on what is left after check-out; answers are true; every call is answered |
| `hotel` | pass | the bound on shared rooms, truth of "full", clearance of parties, events of cancellations |
| `ratelimit` | pass | a client never gets more than twice the largest limit in a window |
| `route` | pass | the cache is a bounded LRU, a hit has the method, decoded path, query values and first header values of the request, which for plain requests makes it the client's own, and is not staler than the time to live and the slowest response, backends are picked in turn up to wrap-around |
| `conversation` | pass | conversations are whole turns within the cap, unfinished tool calls come only from streams that broke off, a conversation goes from under a chat only when the chat has outrun the time to live or newer ones fill the store, every chat ends |
| `eventstream` | pass | the hub forgets no client, each run of the effect ingests an event at most once and in order, the resort-wide feed agrees with the others, and a page that stays open is connected again |
| `stay` | pass | for a guest who waits, and without faults, the wallet is exact but for a booking the tab found at the beach, and the views agree with the services; always, every token is accounted for, and what is given away or lost is at most the price of the booking found, of one booking for each fault and of two for each hasty step; a queued guest is shown as landed in the end, whichever polls fail |
| `shell` | pass | pages that need a session have one and the tab would survive a reload, the answer of a call is handled for its caller, the guide never leads to a locked or gated zone |
| `parrotchat` | pass | unless answers were lost or requests overlapped the cached history ends with all the parrot remembers and is the end of what it was ever asked, and else differs by as many turns; thinking ends |
| `traffic` | pass | the reservation noted of a guest is the guest's, and the noted stage is true unless two steps overlapped, or another browser or a call given up here took it away; no loop is lost or left over |
| `eventstream_unmount` | violation | a page that was left keeps its `EventSource` beside that of the next |

### 3.1 Bounds, and why they are enough

* `airport`: three arrivals of every rank at two gates give every order of
  insertion into a queue that has guests of a better, an equal and a worse rank;
  two request threads make the gate choice stale; one crash and one error are
  placed at every point. One guest id arrives twice, so that the latest row
  matters. A second crash meets the same states as the first, because memory is
  rebuilt from the table alone. The system may stop once the arrivals are used
  up, so deadlock is not checked.
* `beach`: two calls at once, two attempts, and a visitor who can hold three
  bookings while the bound is two; one activity has one place. Two calls show
  every pairwise conflict; the proofs cover any number.
* `hotel`: two calls, two rows, two rooms of one type and stays that share a
  night or only touch; one guest has yet to pass the airport. Two more bodies
  are refused by the checks. It may stop when both rows are used.
* `ratelimit`: two requests, one admin call at a time, a clock of five instants,
  windows of lengths one and two, so that three of the shorter windows fit. The
  clock stops, so deadlock is not checked.
* `route`: two requests, four requests to ask for with three keys for two entries,
  a time to live shorter than the clock, one write to one path. One of the four has
  the key of another and differs in all the ways the conversion allows. A third request would only repeat what two do
  to each other: each step under the mutex concerns one key. Five picks wrap a
  counter of two bits, and four is no multiple of three.
* `conversation`: two chats with up to two rounds of two calls and room for three
  content messages, so that the second turn pushes out the first unless that one
  broke off; one conversation where two guests want one, so that a chat loses its conversation
  for either reason. It may stop when both chats are over. With three chats and one
  call per round the safety properties hold as well, in too long a time for a run.
* `eventstream`: one page with its two runs of the effect, three objects (the two
  that live and one whose connection the hub has yet to give up), two events for
  feeds of three (two runs ingest four), one break or crash at any point; while the
  hub is down a run fails any number of times, so the delay reaches its bound. A
  second mount adds two more runs that differ in nothing: `eventstream_unmount` has
  it, and the theorems cover any number. One service, one guest and the admin post,
  which gives an event of each kind of target. It may stop when the events are used
  up.
* `stay`: two calls at once and four in all, which for a guest with a room is an
  activity, a switch, a cancellation, and leaving or one more; one fault or one
  hasty step, at any point. One reservation pays for all activities, the other,
  of no nights, for one of the cheaper ones. Three activities are needed: a hasty
  step loses the price of a second booking only when a third activity is booked, and
  with two of them a bound of one booking for each hasty step would pass. A check-in
  and a check-out may be on their way at once. It may stop when the calls are used
  up. All but `MintBound` and `LandingShown` is proved for any of these (`ExactWallet`
  up to its sum). `MintBound` holds as well with three calls, one fault and one hasty
  step together, in too long a time for a run with the liveness property. The booking
  another tab may have made is the dearest one (`BookedElsewhere`); with any of the three the run passes as
  well, in twice the time.
* `shell`: a history of five entries holds both guests' maps, a pass and a quit
  page, with Back and Forward between all of them; one call in progress. The proofs
  cover any history.
* `parrotchat`: two posts at once, three messages, two faults, two overlaps and room
  for two turns, so a turn can be lost, retried, doubled, kept late, trimmed and
  forgotten; the counts start again when the histories meet. Three overlaps, and four
  messages with one fault, pass as well; the theorem covers any number.
* `traffic`: one guest, because loops interfere only through a guest's state and the
  ids of reservations; two lanes and two mounts, two steps under way at once, two
  activities, three reservations.

Symmetry is used for the calls of `hotel`, the requests of `ratelimit` and
`route`, the guests of `shell` and the lanes of `traffic`; these runs check no
temporal property, and the lanes are compared with nothing but themselves.

### 3.2 Fairness

* `Airport`: the steps of the start of the process (gunicorn's master replaces a
  worker process that ended), of a request thread that was started, and of a
  gate's worker thread, each weakly fair: nothing but the scheduler keeps them
  from going on. A gate whose thread died has no step, nor has a request that raised
  or a process that failed to boot, which is why `EveryArrivalServed` excepts them.
* `Beach`: a handler that was started goes on.
* `Conversation`: a chat goes on, to an answer or to a failure. The client of
  the model and the one of the tools (`services.py`, five seconds) have timeouts,
  and what they raise ends the chat or becomes a result. Nothing obliges a model
  to answer instead of asking for tools: the bound on rounds does that.
* `EventStream`: handlers run when their event is there, and timers fire. The
  compose file restarts no service, so a hub that is down may stay down, and
  `Recovers` only speaks of hubs that stay up from some time on.
* `Stay`: the poll is a timer, the airport serves its queue (`Airport` shows when),
  and a GET of the arrival is answered and received, or fails. Nothing is assumed
  of the other calls.
* `ParrotChat`: a post is answered and its answer handled; the parrot's chats end
  (`EveryChatEnds`), and a request that fails is an answer too.
* No fairness for clients, crashes, errors, faults, or the airport as the hotel
  sees it.
* No liveness is claimed for the hotel: its `fetch` calls have no timeout, so
  nothing in the code bounds a wait.

## 4. What the models show of the code

One disagreement with a comment is a run, `eventstream_unmount`: the effect of
`useBroadcast` returns no clean-up, although `use-broadcast.ts:162` says that the
`EventSource` is closed on unmount. It lives on, and each time the map page is
opened again every event is ingested once more. Under StrictMode this is so from
the first page on: its two runs of the effect show every event twice. `FeedInOrder`
states what does hold.

In seven places the documentation promises more than the code does, and the
property of the passing run is the weaker statement that holds:

1. After a restart the interrupted guest is inserted at index 0 when its row is
   visited, but rows are visited by `queued_at`, and a later row of a better rank
   goes before it. `services/airport/README.md:109` promises the front;
   `RankOrder` holds.
2. The beach decides whether an activity is full on a list read three
   transactions before the insert. `services/beach/README.md:21` promises a
   maximum; `OverbookingBound` holds, and the theorem `OneCallStaysWithinCapacity`
   shows that one call at a time keeps the maximum.
3. The hotel's count and insert are separate transactions.
   `services/hotel/README.md:63` promises a private room; `SharedRoomBound` holds.
4. A request that saw a positive limit in the middleware is refused when the
   limit becomes zero before `allow` loads it again, although `ratelimit.go:22`
   says that zero disables limiting; `BurstBound` holds.
5. A booking that read the visitor as checked in may commit after the check-out has
   deleted the visitor's rows, and stays. `services/beach/README.md:28` says that the
   bookings are removed when a guest checks out; `LeftoverBookings` holds: fewer
   are left than there were calls at once, and none when calls come one at a time.
6. Cancelling an activity the visitor is not booked into answers with success
   (`CancelActivityUseCase.kt:21`), and no code returns the 409 `ACTIVITY_NOT_BOOKED`
   that `services/beach/README.md:212` lists. `SuccessIsTrue` takes such an answer
   for what it is: the visitor was not booked at some time of the call.
7. The key of the gateway's cache drops what its conversion drops. `cache.go:136`
   says that "personalized responses are never shared across users"; of two requests
   that differ only in an escape of the path, in a pair that does not parse or in a second
   value of a header, which the backend is sent, one may get the answer of the
   other. `OwnAnswers` states what hits have in common, and that the comment holds
   between plain requests.

Where a database error strikes after a commit, the airport keeps a guest waiting
until it is started again: the row of a request that raised is in no queue
(`stranded`), and a gate whose worker died serves nobody. No document speaks of it.

What the models of the client say beyond their properties:

* A tab that is opened beside a booking made in another has an empty wallet, and
  cancelling that booking pays its price into it, with no fault and no haste; once,
  and no more than its price (`ExactWallet`, `found`).
* The panel shows turns that the parrot has long dropped: the tab appends to its copy
  of the history without a limit. A refetch puts it right.
* A booking whose answer is lost is free, and cancelling it refunds its price; a
  second cancellation under way refunds what the first one did. A booking made
  before the refetch of the one before it has answered forgets what that one cost;
  and because `get` of `api-client.ts` answers a refetch with a GET that is on its
  way, the next booking may do so again, even of a guest who now waits. `MintBound`
  says that this is all: one booking for each fault, two for each hasty step, and the
  one found.
* Before a guest has landed the lighthouse's marker is locked, but its panel has
  no gate of its own (`isLocked` against `PanelContent`).
* A guide that was hidden after the last quest stays hidden when a quest is open
  again, after a room was cancelled, say.
* A simulated guest of whom two steps overlapped, or whose reservation another
  browser has cancelled, may be noted as `hotel_booked` without a reservation, and no
  step leads on from there until a reservation is made for it elsewhere.

## 5. Proofs

TLAPS checks the following for every value of the constants that satisfies the
module's assumption.

### 5.1 AirportProofs

Assumption: at least one gate of each type, well-typed bodies, natural bounds
(`AirportAssumption`). No guest set, number of arrivals, crashes or errors is
fixed.

The properties are not inductive: that a guest popped from a queue is not
also at another desk, say, needs to be known from where its request and its row
stand. `IInv` adds to `TypeOK` and the properties

* `HandlerInv`: the place of a POST decides whether there is a row, and a stranded one
  belongs to the process that runs;
* `QueueInv`: a queued guest belongs to its gate, is in one place, its POST is
  over and its row waits;
* `DeskInv`: the place of a worker decides the status of its guest;
* `DeskRowInv`: one row `processing` per gate, and its guest at the desk;
* `BootInv`: what rehydration has yet to visit, and what it has queued;
* `EventInv`: events against statuses.

Lemmas about the operators come first (`InsertAtProperties`,
`EnqueueProperties`, `EnqueueKeepsRankOrder`, `ShortestProperties`,
`AssignedGate`), then one lemma per action, then the theorems: `TypeCorrect`,
`ArrivalsAreKept`, `ArrivalsAreInOnePlace`, `EventsFollowCommits`,
`QueuesAreRanked` and `Refinement` (each step of `Airport` is a step of
`PassportControl` or leaves its table as it is).

### 5.2 BeachProofs

Assumption: finite activities, visitors and calls, at least one call and one
attempt (`BeachAssumption`). `IInv` is `TypeOK`, `Path` (where a call stands
against what it asks for, and which rows its snapshot has), `OverbookingBound`,
`Promise` (a call whose write is pending will have its effect) and
`SuccessIsTrue`. The bound is inductive because it counts the calls that still
hold a "not full" answer: a commit moves one from the holders to the bookings, and
a call becomes a holder only when a place was free.

The bounds on a visitor's bookings are not inductive: transactions can commit one
after the other, each leaving a row the next did not see. `VisitorInv` counts,
besides the rows of a visitor, the transactions that saw none of them (`blind`):
only such a one can add a row without deleting one, and it opens only where there
are no rows. One that saw a row deletes it, or fails because the row is gone
(`SnapInv`). `RowsBound` is the count for all calls; after a check-out
`LeftBound` is stricter by one, and `Outsider` names the call that is missing: the
check-out itself, or a later call in its place. Theorems: `TypeCorrect`,
`OverbookingIsBounded`, `SuccessesAreTrue`, `OneCallStaysWithinCapacity`,
`BookingsAreBounded`, `LeftoversAreBounded`.

### 5.3 StayProofs

Assumptions: positive costs and rates, well-typed packages (`WalletAssumption`),
at least one reservation, any set of activities another tab may have booked, natural
bounds (`StayAssumption`). First the wallet
alone: `WalletTypeOK` and `Ledger` together are inductive (the balance is not
negative because a booking is only entered when `spendable`), which is
`WalletLedger`. Then each action of `Stay` is shown to keep the types of the
services, the cache, the answers and the calls, and to be a step of the wallet or
to leave it alone; the types are needed because what a handler hands to the
wallet was a cached answer when its call was made, and a wallet step with an
unknown activity is none. `IInv` is `TypeOK` and `Ledger`.

`CleanInv` adds what is true of a guest who met no fault and took no hasty step
(`clean`). Agreement in a quiet state is not inductive, since every call breaks it
for a while. So `OneCall` says that at most one call is open, that its panel is, and
that nothing else is under way beside it; `CallKnows` what it found when it was sent
and what its effect was; and `StayView`, `BeachView` and `BookingView` which of
the tab's copies are true meanwhile: each one, unless it is being fetched or a call
took effect whose answer was not handled. `BookingView` says as well that the wallet
tracks the booking the beach has unless it is the one the tab found (`Own`), and that
nothing but the price of that one was given away. Each action is shown to keep the five
parts or to end `clean`. What a quiet state then leaves is `ViewsAgree`, and
`SettledWallet`, which is `ExactWallet` with what was earned in place of the sum
over the reservations that were credited.

Theorems: `StayTypeCorrect`, `StayImplementsWallet` (`Spec => WalletSpec`, the
variables of the wallet being those of `Stay`), `StayLedger`,
`ViewsAreInAgreement`, `WalletIsSettled`.

### 5.4 FrontendProofs

Two specifications that share no name, `Spec` of `Traffic` and `ShellSpec` of
`Shell`, each with its own theorems. Assumptions: `TrafficAssumption`, and for the
second `ShellAssumption` (guests, the admin and null are different).

`LoopsInv` adds the shape of loops to `LoopsKept`;
every step of a loop is brought to one of three forms (`Moves`).

`StageAgrees` speaks of guests no loop is busy with. `StageInv` says more of the
others: a guest who is not `disturbed` has one loop at most, which works on
the state that is noted (or, if it belongs to a page that is gone, on one that
will not be noted), and `Fits` says which part of that state is still true of the
services at the call the loop waits for. That is what the early returns and the
unchecked cancellations need: a step that gives up half way notes nothing, so what
was noted before must still be true. Each step is brought to one of three forms
(`Leaves`): it waits on, notes a new stage, or ends. What other browsers and late
effects do either leaves all this true or makes the guest `disturbed`. Of a disturbed
guest `GivenInv` still says that whatever is noted, or read by a step under way, names
a reservation the hotel gave to that guest. Theorems: `LoopsAreKept`, `StagesAgree`.

For `Shell`, `TabInv` adds `OnTheMap` to the types, `SessionConsistent` and
`CallerKept`: a panel is open, and a call mounted, only on the map page. That is why
a switch of sessions, which leaves the map page, cannot leave a mounted call of the
old session behind.
Lemmas about `Show` and about what is saved (`SavedStore`) carry all
navigations. Theorems: `SessionIsConsistent`, `CallersAreKept`,
`GuideLeadsOnAlways`.

### 5.5 ParrotProofs

The two ends of a chat: `Spec` of `Conversation` and `ChatSpec` of `ParrotChat`.
Assumptions: `ConversationAssumption` (at least two messages of content may be
kept, without which a turn would not fit) and, for the thread, `ChatAssumption`.

For `WholeTurns` three predicates say what a chat's messages are on their way into the
store: `Underway` (one turn, its tool calls answered but for the last ones), `Storable`
(a turn with its answer, or of a stream that broke off) and `Turns` (a conversation).
One lemma each says what a message of a chat does to the first, how an answer or a
break makes the second of it, and that a turn of a chat that has none in the
conversation may be put behind it (`TurnsConcat`). `TrimCuts` shows that there is a
first cut that fits, and `TurnsFrom` that what is behind a cut is whole.
`ConversationInv` adds to this where each chat stands and that only chats that are
over have messages in the store, so none gets there twice.

`KeptUnderChat`, an action property, needs three things. Storing a turn never empties
a conversation: the turn has two messages of content at most (`TurnContent`), so the
cut before it fits. `cleanup` is fair (`CleanupIsFair`): a conversation it drops has
expired, or those it keeps are as many as may be and no older. And the conversation
of a running chat was used when the chat began or later (`UsedSince`), because the
chat has read it or it was stored since; so what is younger than it was used since
the chat began as well.

`ViewAgrees`, the property of `ParrotChat`, counts the copies of a text, in
the parrot's history and in the cache; `ViewInv` says how they differ at any time:
by the reply that is due, the answers lost and the overlaps (`ShownInv`). An answer
under way may overwrite what was appended by hand meanwhile, so `CaughtInv` compares
it with the history: it never has more, and lacks what is due and, of a text
that is in no post and cannot be sent again, what overlaps account for. A text is in
one post at most (`SinglePosts`), and posts beside a GET or another post have been
counted (`Overlapping`). Without losses and overlaps the cache, with the one reply that is due, ends
with what the parrot remembers and is the end of `everKept` (`Between`, `SameInv`),
which trimming and forgetting keep. Theorems: `TurnsStayWhole`, `KeptUnderChats`,
`ThreadsAgree`.

### 5.6 HotelProofs

Assumption: `HotelAssumption` (finitely many calls, well-typed bodies). `IInv` adds
to `TypeOK` and the properties

* `Path`: where a call stands decides whether its target is a room or a row, and
  what is known of that row;
* `RowInv`: a row has a body;
* `ScanInv`: a room that was free throughout the call is one that the loop has yet
  to count, so that none is left when the loop ends;
* `LookupInv`: a guest who was not cleared has a lookup that is yet to answer or
  that failed.

`SharedRoomBound` is inductive because it counts, besides the parties in a room,
the calls that have found it free: a count makes a call a holder only when no
party is there, and an insert turns a holder into a party. `CancelledEvents` counts
the calls that still have to publish in the same way. Theorems: `TypeCorrect`,
`RoomsAreShared`, `FullIsAlwaysTrue`, `PartiesHaveCleared`,
`CancellationsAreAnnounced`.

### 5.7 GatewayProofs

`Spec` of `Route` and `LimiterSpec` of `RateLimiter`. Assumptions:
`RouteAssumption` and, for the limiter, `RateLimiterAssumption`. Finitely many requests can be asked
for, which only the history of uses needs; requests, writes and times are any.
That `2^Width` is a positive natural number is assumed too, because the prover
knows nothing of powers; TLC evaluates it.

For `OwnAnswers` and `StalenessBound` the age of an answer is followed from the
backend to the hit: `Shows` says that a response answers a request with this key and
since when it can have been overwritten. What requests with one key have in common
follows from `cacheKey` alone. `FreshInv` states it of a response under way (since its request
began), of an entry (since its expiry less the time to live and the longest
flight) and of a hit. The entry is bounded by its expiry rather than by its age,
because the expiry is stamped before the mutex is taken and the response may be
stored any time later, over a newer one.

For `BoundedLRU` the list and the order of uses are described by what they hold
and by `Before`. Lemmas say what `removeElement`, a push, `MoveToFront` and the
cut at the limit do to both (`RemoveElement`, `PushFront`, `MoveFront`,
`CutTail`); `LRUInv` adds to the property that neither sequence has duplicates.

For `RoundRobinBound` the state of the pool is written as laps of the counter, full
rounds of this lap and turns of this round (`Standing`): within a lap the backends
of the first turns are one ahead, and each lap that ended may have put some one
further ahead, because `2^Width` need not be a multiple of their number.

For `BurstBound` the count is taken apart by windows: `LimiterInv` says that each
admission of a client belongs to a window, that a window is no shorter than the
shortest one ever set and opened after the one before it had ended (`Opened`), and
that none holds more than the largest limit. So `2 * limit` admissions lead from
any one of them to one more than the shortest window later (`Spread`), and
`SpreadIsBound` turns that into the number of admissions in a stretch of time. What a
request has loaded before the mutex is bounded by the same extremes (`Loaded`), which
is why an admin call between its loads does no harm.
Theorems: `AnswersAreOwn`, `StalenessIsBounded`, `CacheIsLRU`, `RoundRobinIsFair`,
`BurstsAreBounded`.

### 5.8 EventStreamProofs

Assumption: `EventStreamAssumption`. `HubInv` (no duplicates, and exactly the
connections none of whose close handlers has run) is inductive by itself and gives
`NobodyForgotten`. `FeedInOrder` needs more: an event must be newer than what its
run of the effect has shown when it is read, so it must have been when it was written.
`FlowInv` adds `OwnerInv` (a run has one live object or a timer, not both; the hub
writes only to live ones) and `WireInv` (what is under way is in order, and newer
than what its run has shown).

`MirrorAgrees` says at which place of its channel an item of the resort-wide feed
is: the number of the channel's items up to it. An ingested event moves all places
of one feed, or of both, and cuts off at most the last item of each, so the proof is
about counting in a shifted set (`Shift`, `Count`, `Fronted`) and about one feed
against another (`MirrorKept`); `AgreesByChannel` connects it with the
property. `MirrorInv` adds to `FlowInv` that the hub's greeting is never ingested
(`OnlyPosts`), since only what was published has targets. Theorems:
`NobodyIsForgotten`, `FeedsAreInOrder`, `MirrorsAgree`.

### 5.9 Only model-checked

* Liveness (`EveryArrivalServed`, `EveryCallAnswered`, `EveryChatEnds`, `Recovers`,
  `LandingShown`, `ThinkingEnds`), which is outside what the prover handles.
* `ExactWallet` of `Stay`: its sum over the credited reservations is a recursive
  fold. All else it says is `WalletIsSettled`.
* `MintBound` of `Stay`: it sets the tokens minted and lost against the number of
  faults and hasty steps. A proof needs a count of what may still go wrong: of the
  open calls, of `tracked`, the booking and its cached or answered value where they
  differ, and of reservations the tab does not show, since leaving one of several
  makes the answer of a GET stale that nobody hurried. Without faults and haste
  nothing is lost and no more given than the price of the booking found, which is
  proved (`WalletIsSettled`).

The type invariants of the modules with proofs are theorems and are not checked
again by TLC.

## 6. What is left

* A proof of `MintBound` of `Stay`, by the count described in 5.9.
* The gateway's health fan-out and the order of its middleware.

Places where something can go wrong that no property here covers:

* `gate_manager.py:149`: queue lengths are read without a lock, so two requests can
  choose the same gate; the airport promises no balance.
* `reservation.service.ts:117`: a confirmation may be published after the
  cancellation of the same reservation; `Hotel` counts events and not their order.
* `airport.service.ts:14`: the lookup has no timeout, so `create` may wait for ever.
* `admin.go:26`: of two admin updates at once one may write back what it read before
  the other; the code does not say that both should be seen.
* `cache.go:200`: stored headers include those of the outer CORS middleware.
* `llm.py:275`: when the rounds are used up, the deltas of a stream may be longer than
  the reply that is kept.
* `rooms.service.ts:24`: `GET /rooms` counts half-open ranges of days on its own.

## 7. Not modelled

* Statistics, game clock and configuration of the airport, and the hotel's
  simulation clock: arithmetic on the current time that changes no shared state.
* The headers of a cached response, among them those that CORS adds.
* The text of a chat: prompts, masking, the words of replies and the events of a
  stream; and the parrot's admin views, which only read.
* Of the frontend's pages and components: the theme, the library of visual
  components, the admin's summaries (polled reads) and everything that is only
  layout.
* The remaining places of an activity as the tab shows them: in `Stay` the beach
  may refuse any booking.
* Several tabs of one guest at work at once, which would share the services but not the
  `sessionStorage`; a tab that finds what another has done is modelled (`Stay`), and so
  are the other browsers of the simulated guests (`Traffic`). A second tab that chats
  with the parrot as the same guest is not.
* The cooldown of the simulation's chats, which is checked and noted in one
  synchronous step.
* Deployment files: no behaviour of their own.
* A restart of the airport with another set of gates; gates are constants.
* Loss of the database, and crashes of beach and hotel: each write of theirs is
  one transaction, so a crash is a call that never gets its answer, which the
  safety properties already allow (a call may stop at any step).
* Delivery of events after `publish_event`: `Airport` and `Hotel` count the
  attempts, `EventStream` starts from what reaches the hub.
* The store's `clearEvents`, which no code calls.
