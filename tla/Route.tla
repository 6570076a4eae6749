-------------------------------- MODULE Route --------------------------------
(***************************************************************************)
(* One route of the gateway: the response cache of cache.go in front of    *)
(* the pool of pool.go. A cache is a list and a map under one mutex; a     *)
(* request looks it up, is forwarded on a miss, and stores what came back  *)
(* a while later, with an expiry computed before it has the mutex.         *)
(*                                                                         *)
(* A request has a path with what the client wrote for it (escapes), the   *)
(* pairs of its query, some of them malformed, and the values of the       *)
(* headers that identify a client. Times are instants of time.Now.         *)
(***************************************************************************)
EXTENDS Integers, SequencesExt

CONSTANTS
    Paths,         \* records [decoded, raw]: URL.Path, and what was written
    Asked,         \* the requests with the methods GET and HEAD
    Posted,        \* those of the other methods
    Requests,      \* requests in progress at once
    Backends,      \* size of the pool
    Width,         \* bits of the pool's counter
    ttl, maxEntries,
    MaxTime,       \* bound: the clock stops there
    MaxWrites,     \* bound: writes to a path
    MaxPicks       \* bound: requests forwarded

\* The headers that identify a client.
Labels == {"Authorization", "Cookie", "X-Internal-Key"}

ASSUME RouteAssumption ==
    /\ IsFiniteSet(Asked)
    /\ Paths \subseteq [decoded : STRING, raw : STRING]
    /\ \A a \in Asked \cup Posted : a.path \in Paths /\ \A l \in Labels : a.headers[l] \in Seq(STRING)
    /\ Backends \in Nat \ {0} /\ Width \in Nat \ {0} /\ 2^Width \in Nat \ {0}
    /\ ttl \in Nat \ {0} /\ maxEntries \in Nat \ {0}
    /\ MaxTime \in Nat /\ MaxWrites \in Nat /\ MaxPicks \in Nat

\* Header.Get: the first value, "" for none.
Get(values) == IF values = <<>> THEN "" ELSE values[1]
scope(a) == [l \in Labels |-> Get(a.headers[l])]

\* URL.Query: the values of a name in their order. A pair that cannot be parsed
\* is dropped; the backend gets the query as it was written.
Query(a) ==
    [n \in {a.query[i].name : i \in {j \in DOMAIN a.query : a.query[j].parses}} |->
        SelectSeq(a.query, LAMBDA pair : pair.parses /\ pair.name = n)]

\* Mutant: one entry for all clients.
cacheKeyShared == [a \in Asked |-> <<a.method, a.path.decoded, Query(a)>>]

\* The key is a string from which its parts can be told apart; the digest of a
\* header is taken to be injective.
cacheKey == [a \in Asked |-> <<a.method, a.path.decoded, Query(a), scope(a)>>]

Keys == {cacheKey[a] : a \in Asked}

\* What a backend answers: to which request, the version of the path it saw,
\* and whether it may be stored. "refused": not 200, a stream, private, cut
\* off, or with a body over the limit.
Response == [to : Asked, version : Nat, kind : {"storable", "refused"}]
NoResponse == [kind |-> "none"]
NoEntry == [expires |-> -1, response |-> NoResponse]
NoRequest == [method |-> "none"]

VARIABLES
    entries, order,     \* the map, and the list of keys, front first
    next,               \* the pool's counter
    writes,             \* the times at which a path's content was written
    now,
    pc, asked, response, expires,   \* the requests
    began,              \* history: when a request began
    recency,            \* history: all keys, the last used first
    maxFlight,          \* history: the longest time to a storable response
    picks, share        \* history: requests forwarded, in all and to a backend

cache == <<entries, order, recency>>
pool == <<next, picks, share>>
request == <<pc, asked, response, expires, began>>
vars == <<cache, pool, writes, now, request, maxFlight>>

key(r) == cacheKey[asked[r]]
version(p) == Len(writes[p])

Init ==
    /\ entries = [k \in Keys |-> NoEntry]
    /\ order = <<>>
    /\ next = 0
    /\ writes = [p \in Paths |-> <<>>]
    /\ now = 0
    /\ pc = [r \in Requests |-> "idle"]
    /\ asked = [r \in Requests |-> NoRequest]
    /\ response = [r \in Requests |-> NoResponse]
    /\ expires = [r \in Requests |-> 0]
    /\ began = [r \in Requests |-> 0]
    /\ recency = SetToSeq(Keys)
    /\ maxFlight = 0
    /\ picks = 0
    /\ share = [b \in 0 .. Backends - 1 |-> 0]

----------------------------------------------------------------------------
(***************************************************************************)
(* The list and the map, under the mutex                                   *)
(***************************************************************************)
removeElement(q, k) == RemoveAt(q, CHOOSE i \in 1 .. Len(q) : q[i] = k)
MoveToFront(q, k) == <<k>> \o removeElement(q, k)

\* A request enters; get decides where it goes.
Enter(r, a, next_pc) ==
    /\ pc[r] = "idle"
    /\ asked' = [asked EXCEPT ![r] = a]
    /\ began' = [began EXCEPT ![r] = now]
    /\ pc' = [pc EXCEPT ![r] = next_pc]
    /\ UNCHANGED <<pool, writes, now, expires, maxFlight>>

\* Mutants: a hit leaves the list as it is; a hit makes the entry young.
GetHitAs(r, a, list, until) ==
    LET k == cacheKey[a] IN
    /\ entries[k] # NoEntry /\ now <= entries[k].expires
    /\ Enter(r, a, "hit")
    /\ response' = [response EXCEPT ![r] = entries[k].response]
    /\ entries' = [entries EXCEPT ![k].expires = until]
    /\ order' = list
    /\ recency' = MoveToFront(recency, k)
GetHitInPlace(r, a) == GetHitAs(r, a, order, entries[cacheKey[a]].expires)
GetHitSliding(r, a) ==
    GetHitAs(r, a, MoveToFront(order, cacheKey[a]), now + ttl)

GetHit(r, a) ==
    LET k == cacheKey[a] IN
    /\ entries[k] # NoEntry /\ now <= entries[k].expires
    /\ Enter(r, a, "hit")
    /\ response' = [response EXCEPT ![r] = entries[k].response]
    /\ order' = MoveToFront(order, k)
    /\ recency' = MoveToFront(recency, k)
    /\ UNCHANGED entries

GetExpired(r, a) ==
    LET k == cacheKey[a] IN
    /\ entries[k] # NoEntry /\ now > entries[k].expires
    /\ Enter(r, a, "miss")
    /\ entries' = [entries EXCEPT ![k] = NoEntry]
    /\ order' = removeElement(order, k)
    /\ UNCHANGED <<response, recency>>

GetMiss(r, a) ==
    /\ entries[cacheKey[a]] = NoEntry
    /\ Enter(r, a, "miss")
    /\ UNCHANGED <<response, cache>>

\* The handler returns.
Finish(r) ==
    /\ pc' = [pc EXCEPT ![r] = "idle"]
    /\ asked' = [asked EXCEPT ![r] = NoRequest]
    /\ response' = [response EXCEPT ![r] = NoResponse]
    /\ expires' = [expires EXCEPT ![r] = 0]
    /\ began' = [began EXCEPT ![r] = 0]

\* A key that is there keeps its element; a new one may push the last one out.
Store(r) ==
    LET k == key(r)
        list == IF entries[k] # NoEntry THEN MoveToFront(order, k) ELSE <<k>> \o order
        kept == SubSeq(list, 1, IF Len(list) > maxEntries THEN maxEntries ELSE Len(list))
    IN
    /\ pc[r] = "store"
    /\ Finish(r)
    /\ order' = kept
    /\ entries' = [x \in Keys |->
                     CASE x = k -> [expires |-> expires[r], response |-> response[r]]
                       [] x # k /\ x \in ToSet(kept) -> entries[x]
                       [] OTHER -> NoEntry]
    /\ recency' = MoveToFront(recency, k)
    /\ UNCHANGED <<pool, writes, now, maxFlight>>

----------------------------------------------------------------------------
(***************************************************************************)
(* The pool and the backends                                               *)
(***************************************************************************)

\* Mutant: one backend is forgotten.
pickAllButOne ==
    /\ picks < MaxPicks
    /\ next' = (next + 1) % 2^Width
    /\ picks' = picks + 1
    /\ share' = [share EXCEPT ![IF Backends > 1 THEN next % (Backends - 1) ELSE 0] = @ + 1]

pick ==
    /\ picks < MaxPicks
    /\ next' = (next + 1) % 2^Width
    /\ picks' = picks + 1
    /\ share' = [share EXCEPT ![next % Backends] = @ + 1]

Forward(r) ==
    /\ pc[r] = "miss"
    /\ pc' = [pc EXCEPT ![r] = "backend"]
    /\ pick
    /\ UNCHANGED <<cache, writes, now, asked, response, expires, began, maxFlight>>

\* The backend builds its answer from what it has at this moment.
Respond(r, kind) ==
    /\ pc[r] = "backend"
    /\ pc' = [pc EXCEPT ![r] = "body"]
    /\ response' = [response EXCEPT ![r] =
         [to |-> asked[r], version |-> version(asked[r].path), kind |-> kind]]
    /\ UNCHANGED <<cache, pool, writes, now, asked, expires, began, maxFlight>>

\* The body has been copied to the client. responseCacheable and the limit of
\* set decide; the expiry is computed before the mutex is taken.
Stamp(r) ==
    /\ pc[r] = "body"
    /\ \/ /\ response[r].kind = "storable"
          /\ pc' = [pc EXCEPT ![r] = "store"]
          /\ expires' = [expires EXCEPT ![r] = now + ttl]
          /\ maxFlight' = Max({maxFlight, now - began[r]})
          /\ UNCHANGED <<asked, response, began>>
       \/ /\ response[r].kind # "storable"
          /\ Finish(r)
          /\ UNCHANGED maxFlight
    /\ UNCHANGED <<cache, pool, writes, now>>

\* Other methods pass the cache by, and leave it as it is.
Post(r, a) ==
    /\ pc[r] = "idle"
    /\ pc' = [pc EXCEPT ![r] = "post"]
    /\ asked' = [asked EXCEPT ![r] = a]
    /\ pick
    /\ UNCHANGED <<cache, writes, now, response, expires, began, maxFlight>>

\* The backend writes, or refuses to.
Written(r) ==
    LET p == asked[r].path IN
    /\ pc[r] = "post"
    /\ Finish(r)
    /\ \/ Len(writes[p]) < MaxWrites /\ writes' = [writes EXCEPT ![p] = Append(@, now)]
       \/ UNCHANGED writes
    /\ UNCHANGED <<cache, pool, now, maxFlight>>

Served(r) ==
    /\ pc[r] = "hit"
    /\ Finish(r)
    /\ UNCHANGED <<cache, pool, writes, now, maxFlight>>

Tick ==
    /\ now < MaxTime
    /\ now' = now + 1
    /\ UNCHANGED <<cache, pool, writes, request, maxFlight>>

Next ==
    \/ \E r \in Requests :
        \/ \E a \in Asked : GetHit(r, a) \/ GetExpired(r, a) \/ GetMiss(r, a)
        \/ \E a \in Posted : Post(r, a)
        \/ \E kind \in {"storable", "refused"} : Respond(r, kind)
        \/ Forward(r) \/ Stamp(r) \/ Store(r) \/ Written(r) \/ Served(r)
    \/ Tick

Spec == Init /\ [][Next]_vars

----------------------------------------------------------------------------
(***************************************************************************)
(* Properties                                                              *)
(***************************************************************************)

usedAfter(k, l) ==
    \E x, y \in 1 .. Len(recency) : x < y /\ recency[x] = k /\ recency[y] = l

\* README.md: the cache "evicts least-recently-used entries when full". The
\* list and the map hold the same keys, never more than the limit, and the
\* list has them in the order of their last use, through hits, removals of
\* expired entries, and responses stored late.
BoundedLRU ==
    /\ Len(order) <= maxEntries
    /\ \A k \in Keys : entries[k] # NoEntry <=> \E i \in 1 .. Len(order) : order[i] = k
    /\ \A i, j \in 1 .. Len(order) : i < j => usedAfter(order[i], order[j])

\* Writes do not touch the cache, and a slow response can replace a newer one;
\* but what a hit returns was overwritten no longer ago than the time to live
\* and the longest time a response took before it was stored.
StalenessBound ==
    \A r \in Requests :
        LET p == response[r].to.path  v == response[r].version IN
        pc[r] = "hit" /\ v < version(p) =>
            began[r] - writes[p][v + 1] <= ttl + maxFlight

\* One value per header, a query that parses, a path without escapes.
Plain(a) ==
    /\ \A l \in Labels : Len(a.headers[l]) <= 1
    /\ \A i \in DOMAIN a.query : a.query[i].parses
    /\ a.path.raw = a.path.decoded

\* The values that both requests give to a name, in the same order.
SameValues(a, b) == \A n \in DOMAIN Query(a) \cup DOMAIN Query(b) :
    /\ n \in DOMAIN Query(a) \cap DOMAIN Query(b)
    /\ Query(a)[n] = Query(b)[n]

\* cacheKey: "personalized responses are never shared across users". A hit is
\* a storable answer to a request with the same method, decoded path and query
\* values and the same first value of each header that identifies a client.
\* What else they sent may differ, so that the comment holds for plain
\* requests: those agree in the path and in all values of these headers.
OwnAnswers ==
    \A r \in Requests : pc[r] = "hit" =>
        LET a == asked[r]  b == response[r].to IN
        /\ a.method = b.method /\ a.path.decoded = b.path.decoded /\ SameValues(a, b)
        /\ \A l \in Labels : Get(a.headers[l]) = Get(b.headers[l])
        /\ Plain(a) /\ Plain(b) =>
            /\ a.path = b.path
            /\ \A l \in Labels : a.headers[l] = b.headers[l] \/ Get(a.headers[l]) = ""
        /\ response[r].kind = "storable"

\* README.md: "the gateway distributes requests across the instances
\* round-robin". Two backends are never more than one request apart, but for
\* one more each time the counter has wrapped.
RoundRobinBound ==
    \A b, c \in DOMAIN share : share[b] <= share[c] + 1 + picks \div 2^Width
====
