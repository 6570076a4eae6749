---------------------------- MODULE GatewayProofs ----------------------------
(***************************************************************************)
(* Proofs about the gateway. First about Route, for any paths, clients,    *)
(* requests, times to live and limits; then about RateLimiter, for any     *)
(* clients, requests, limits and admin calls.                              *)
(***************************************************************************)
EXTENDS Route, RateLimiter, FiniteSetTheorems, SequenceTheorems, WellFoundedInduction, TLAPS

Entry == [expires : Nat, response : Response]

\* The type of what a response passes through.
CacheType ==
    /\ entries \in [Keys -> Entry \cup {NoEntry}]
    /\ writes \in [Paths -> Seq(Nat)]
    /\ now \in Nat
    /\ pc \in [Requests -> {"idle", "hit", "miss", "backend", "body", "store", "post"}]
    /\ asked \in [Requests -> Asked \cup Posted \cup {NoRequest}]
    /\ response \in [Requests -> Response \cup {NoResponse}]
    /\ expires \in [Requests -> Nat]
    /\ began \in [Requests -> Nat]
    /\ maxFlight \in Nat

\* A response x to a request with the key k shows a version that was
\* overwritten at t or later, if at all; w is when its path was written.
Shows(x, k, t, w) ==
    /\ x \in Response /\ cacheKey[x.to] = k
    /\ x.version <= Len(w)
    /\ x.version < Len(w) => w[x.version + 1] >= t

\* A request: whose its response is, and since when it may be out of date.
Fresh(r) ==
    /\ began[r] <= now
    /\ pc[r] \in {"hit", "miss", "backend", "body", "store"} => asked[r] \in Asked
    /\ pc[r] = "post" => asked[r] \in Posted
    /\ pc[r] \in {"body", "store"} =>
         Shows(response[r], key(r), began[r], writes[response[r].to.path])
    /\ pc[r] = "store" => /\ response[r].kind = "storable"
                          /\ expires[r] <= now + ttl
                          /\ expires[r] <= began[r] + ttl + maxFlight
    /\ pc[r] = "hit" => /\ response[r].kind = "storable"
                        /\ Shows(response[r], key(r), began[r] - ttl - maxFlight,
                                 writes[response[r].to.path])

\* ... and an entry.
Stored(k) ==
    entries[k] # NoEntry =>
        /\ entries[k].response.kind = "storable"
        /\ entries[k].expires <= now + ttl
        /\ Shows(entries[k].response, k, entries[k].expires - ttl - maxFlight,
                 writes[entries[k].response.to.path])

FreshInv == (\A r \in Requests : Fresh(r)) /\ (\A k \in Keys : Stored(k))

----------------------------------------------------------------------------
LEMMA Constants ==
    /\ ttl \in Nat \ {0} /\ maxEntries \in Nat \ {0} /\ MaxTime \in Nat
    /\ \A a \in Asked \cup Posted : a.path \in Paths
    /\ \A a \in Asked : cacheKey[a] \in Keys
    /\ \A x \in Response : x.to \in Asked /\ x.to.path \in Paths
<1>1. \A a \in Asked \cup Posted : a.path \in Paths
  BY RouteAssumption
<1>2. \A x \in Response : x.to \in Asked /\ x.to.path \in Paths
  BY <1>1 DEF Response
<1>. QED
  BY <1>1, <1>2, RouteAssumption DEF Keys

LEMMA EntryFacts ==
    ASSUME CacheType, NEW k \in Keys, entries[k] # NoEntry
    PROVE  entries[k] \in Entry /\ entries[k].expires \in Nat /\ entries[k].response \in Response
  BY DEF CacheType, Entry

LEMMA NewEntry ==
    ASSUME NEW t \in Nat, NEW x \in Response
    PROVE  /\ [expires |-> t, response |-> x] \in Entry
           /\ [expires |-> t, response |-> x] # NoEntry
<1>1. NoEntry.expires = -1
  BY DEF NoEntry
<1>. QED
  BY <1>1 DEF Entry

\* What a response shows stays so when the path is written, late enough.
LEMMA ShowsKept ==
    ASSUME NEW x, NEW k, NEW t \in Int, NEW u \in Int, u <= t,
           NEW w \in Seq(Nat), NEW n \in Nat, NEW z,
           Shows(x, k, t, w), z = w \/ (z = Append(w, n) /\ u <= n)
    PROVE  Shows(x, k, u, z)
<1>. DEFINE v == x.version
<1>1. Len(w) \in Nat
  OBVIOUS
<1>2. v \in Nat /\ v <= Len(w) /\ (v < Len(w) => w[v + 1] >= t)
  BY DEF Shows, Response
<1>3. CASE z = w
  <2>1. v < Len(w) => w[v + 1] >= u
    <3>1. v < Len(w) => w[v + 1] \in Nat
      BY <1>1, <1>2
    <3>. QED
      BY <1>2, <3>1
  <2>. QED
    BY <1>3, <2>1 DEF Shows
<1>4. CASE z = Append(w, n) /\ u <= n
  <2>1. /\ Len(z) = Len(w) + 1 /\ z[Len(w) + 1] = n
        /\ \A i \in 1 .. Len(w) : z[i] = w[i]
    BY <1>1, <1>4
  <2>2. v <= Len(w) + 1
    BY <1>1, <1>2
  <2>3. z[v + 1] >= u
    <3>1. CASE v < Len(w)
      <4>1. v + 1 \in 1 .. Len(w)
        BY <1>1, <1>2, <3>1
      <4>2. w[v + 1] \in Nat /\ w[v + 1] >= t
        BY <1>1, <1>2, <3>1, <4>1
      <4>. QED
        BY <2>1, <4>1, <4>2
    <3>2. CASE v = Len(w)
      BY <1>1, <1>4, <2>1, <3>2
    <3>. QED
      BY <1>1, <1>2, <3>1, <3>2
  <2>. QED
    BY <2>1, <2>2, <2>3 DEF Shows
<1>. QED
  BY <1>3, <1>4

\* The greater of two numbers.
LEMMA MaxOfTwo ==
    ASSUME NEW a \in Int, NEW b \in Int
    PROVE  Max({a, b}) \in {a, b} /\ Max({a, b}) >= a /\ Max({a, b}) >= b
<1>1. \E x \in {a, b} : \A y \in {a, b} : x >= y
  OBVIOUS
<1>. QED
  BY <1>1 DEF Max

LEMMA FlightGrows ==
    ASSUME CacheType, NEW r \in Requests, maxFlight' = Max({maxFlight, now - began[r]})
    PROVE  maxFlight' \in Nat /\ maxFlight <= maxFlight' /\ now - began[r] <= maxFlight'
<1>. DEFINE b == now - began[r]
            m == maxFlight
<1>1. b \in Int /\ m \in Int /\ m \in Nat
  BY DEF CacheType
<1>. HIDE DEF b, m
<1>2. Max({m, b}) \in {m, b} /\ Max({m, b}) >= m /\ Max({m, b}) >= b
  BY <1>1, MaxOfTwo, Zenon
<1>3. maxFlight' = Max({m, b})
  BY DEF b, m
<1>4. maxFlight' \in Nat /\ m <= maxFlight' /\ b <= maxFlight'
  BY <1>1, <1>2, <1>3
<1>. QED
  BY <1>4 DEF b, m

LEMMA TypeStep ==
    ASSUME CacheType, FreshInv, Next
    PROVE  CacheType'
<1>. USE Constants DEF CacheType, cache, request
<1>1. ASSUME NEW r \in Requests, NEW a \in Asked, GetHit(r, a) \/ GetExpired(r, a) \/ GetMiss(r, a)
      PROVE  CacheType'
  <2>. DEFINE k == cacheKey[a]
  <2>1. k \in Keys
    OBVIOUS
  <2>2. CASE GetHit(r, a)
    <3>1. entries[k] # NoEntry /\ response' = [response EXCEPT ![r] = entries[k].response] /\ entries' = entries
      BY <2>2 DEF GetHit
    <3>2. entries[k].response \in Response
      BY <2>1, <3>1, EntryFacts
    <3>. QED
      BY <2>2, <3>1, <3>2 DEF GetHit, Enter
  <2>3. CASE GetExpired(r, a)
    BY <2>1, <2>3 DEF GetExpired, Enter
  <2>4. CASE GetMiss(r, a)
    BY <2>4 DEF GetMiss, Enter
  <2>. QED
    BY <1>1, <2>2, <2>3, <2>4
<1>2. ASSUME NEW r \in Requests, NEW a \in Posted, Post(r, a) PROVE CacheType'
  BY <1>2 DEF Post
<1>3. ASSUME NEW r \in Requests, NEW kind \in {"storable", "refused"}, Respond(r, kind) PROVE CacheType'
  <2>1. pc[r] = "backend" /\ asked[r] \in Asked
    BY <1>3 DEF Respond, FreshInv, Fresh
  <2>. DEFINE x == [to |-> asked[r], version |-> version(asked[r].path), kind |-> kind]
  <2>2. version(asked[r].path) \in Nat
    BY <2>1 DEF version
  <2>3. x \in Response
    BY <2>1, <2>2 DEF Response
  <2>. QED
    BY <1>3, <2>3 DEF Respond
<1>4. ASSUME NEW r \in Requests, Forward(r) PROVE CacheType'
  BY <1>4 DEF Forward
<1>5. ASSUME NEW r \in Requests, Finish(r), entries' = entries, now' = now, maxFlight' = maxFlight,
             writes' \in [Paths -> Seq(Nat)]
      PROVE  CacheType'
  BY <1>5 DEF Finish
<1>6. ASSUME NEW r \in Requests, Stamp(r) PROVE CacheType'
  <2>1. CASE response[r].kind = "storable" /\ pc'[r] = "store"
    <3>1. /\ pc' = [pc EXCEPT ![r] = "store"] /\ expires' = [expires EXCEPT ![r] = now + ttl]
          /\ maxFlight' = Max({maxFlight, now - began[r]})
          /\ UNCHANGED <<asked, response, began, entries, writes, now>>
      BY <1>6, <2>1 DEF Stamp, Finish
    <3>2. maxFlight' \in Nat
      BY <3>1, FlightGrows
    <3>. QED
      BY <3>1, <3>2
  <2>2. CASE ~(response[r].kind = "storable" /\ pc'[r] = "store")
    BY <1>5, <1>6, <2>2 DEF Stamp
  <2>. QED
    BY <2>1, <2>2
<1>7. ASSUME NEW r \in Requests, Store(r) PROVE CacheType'
  <2>. DEFINE k == key(r)
              e == [expires |-> expires[r], response |-> response[r]]
  <2>1. response[r] \in Response /\ asked[r] \in Asked
    BY <1>7 DEF Store, FreshInv, Fresh, Shows
  <2>2. e \in Entry
    BY <2>1, NewEntry
  <2>3. /\ entries' = [x \in Keys |-> entries'[x]]
        /\ \A x \in Keys : entries'[x] \in {e, entries[x], NoEntry}
    BY <1>7 DEF Store
  <2>. HIDE DEF e
  <2>4. entries' \in [Keys -> Entry \cup {NoEntry}]
    BY <2>2, <2>3
  <2>. QED
    BY <1>7, <2>4 DEF Store, Finish
<1>8. ASSUME NEW r \in Requests, Written(r) PROVE CacheType'
  <2>. DEFINE p == asked[r].path
  <2>1. writes' \in [Paths -> Seq(Nat)]
    <3>1. p \in Paths
      BY <1>8 DEF Written, FreshInv, Fresh
    <3>2. Append(writes[p], now) \in Seq(Nat)
      BY <3>1
    <3>3. writes' = writes \/ writes' = [writes EXCEPT ![p] = Append(writes[p], now)]
      BY <1>8 DEF Written
    <3>. HIDE DEF p
    <3>. QED
      BY <3>1, <3>2, <3>3
  <2>. QED
    BY <1>5, <1>8, <2>1 DEF Written
<1>9. ASSUME NEW r \in Requests, Served(r) PROVE CacheType'
  BY <1>5, <1>9 DEF Served
<1>10. CASE Tick
  BY <1>10 DEF Tick
<1>. QED
  BY <1>1, <1>2, <1>3, <1>4, <1>6, <1>7, <1>8, <1>9, <1>10 DEF Next

----------------------------------------------------------------------------
\* How the clock, the longest flight and the contents move.
Later ==
    /\ now' \in Nat /\ now <= now' /\ maxFlight' \in Nat /\ maxFlight <= maxFlight'
    /\ \A p \in Paths : writes'[p] = writes[p] \/ writes'[p] = Append(writes[p], now)

LEMMA LaterShows ==
    ASSUME CacheType, Later, NEW x, NEW p \in Paths, NEW k, NEW t \in Int, NEW u \in Int,
           Shows(x, k, t, writes[p]), u <= t, u <= now
    PROVE  Shows(x, k, u, writes'[p])
<1>1. writes[p] \in Seq(Nat) /\ now \in Nat
  BY DEF CacheType
<1>2. writes'[p] = writes[p] \/ writes'[p] = Append(writes[p], now)
  BY DEF Later
<1>. QED
  BY <1>1, <1>2, ShowsKept

LEMMA StoredKept ==
    ASSUME CacheType, Later, NEW k \in Keys, Stored(k), entries'[k] = entries[k]
    PROVE  Stored(k)'
<1>. SUFFICES ASSUME entries[k] # NoEntry
              PROVE  /\ entries[k].expires <= now' + ttl
                     /\ Shows(entries[k].response, k, entries[k].expires - ttl - maxFlight',
                              writes'[entries[k].response.to.path])
                     /\ entries[k].response.kind = "storable"
  BY DEF Stored
<1>. DEFINE n == entries[k].expires
            x == entries[k].response
            p == entries[k].response.to.path
<1>1. n \in Nat /\ n <= now + ttl /\ Shows(x, k, n - ttl - maxFlight, writes[p])
  BY EntryFacts DEF Stored
<1>2. now \in Nat /\ maxFlight \in Nat /\ ttl \in Nat /\ p \in Paths
  BY Constants, EntryFacts DEF CacheType
<1>a. now' \in Nat /\ now <= now' /\ maxFlight' \in Nat /\ maxFlight <= maxFlight'
  BY DEF Later
<1>. HIDE DEF n
<1>3. /\ n <= now' + ttl
      /\ n - ttl - maxFlight \in Int /\ n - ttl - maxFlight' \in Int
      /\ n - ttl - maxFlight' <= n - ttl - maxFlight /\ n - ttl - maxFlight' <= now
  BY <1>1, <1>2, <1>a
<1>4. Shows(x, k, n - ttl - maxFlight', writes'[p])
  <2>. HIDE DEF x, p
  <2>. QED
    BY <1>1, <1>2, <1>3, LaterShows
<1>. QED
  BY <1>3, <1>4 DEF Stored, n

\* A request that a step does not touch.
LEMMA FreshKept ==
    ASSUME CacheType, Later, NEW r \in Requests, Fresh(r),
           pc'[r] = pc[r], asked'[r] = asked[r], response'[r] = response[r],
           expires'[r] = expires[r], began'[r] = began[r]
    PROVE  Fresh(r)'
<1>. DEFINE x == response[r]
            p == response[r].to.path
            b == began[r]
            k == key(r)
<1>1. now \in Nat /\ maxFlight \in Nat /\ ttl \in Nat /\ b \in Nat /\ b <= now /\ expires[r] \in Nat
  BY Constants DEF CacheType, Fresh
<1>2. b <= now' /\ b - ttl - maxFlight \in Int /\ b - ttl - maxFlight' \in Int
      /\ b - ttl - maxFlight' <= b - ttl - maxFlight /\ b - ttl - maxFlight' <= now
  BY <1>1 DEF Later
<1>3. pc[r] = "store" => expires[r] <= now' + ttl /\ expires[r] <= b + ttl + maxFlight'
  BY <1>1 DEF Fresh, Later
<1>4. pc[r] \in {"hit", "body", "store"} => p \in Paths
  BY Constants DEF Fresh, Shows
<1>5. ASSUME pc[r] \in {"body", "store"}
      PROVE  Shows(x, k, b, writes'[p])
  <2>1. p \in Paths /\ Shows(x, k, b, writes[p])
    BY <1>4, <1>5 DEF Fresh
  <2>2. b \in Int /\ b <= b /\ b <= now
    BY <1>1
  <2>. HIDE DEF b, p, x, k
  <2>. QED
    BY <2>1, <2>2, LaterShows
<1>6. ASSUME pc[r] = "hit"
      PROVE  Shows(x, k, b - ttl - maxFlight', writes'[p])
  <2>1. p \in Paths /\ Shows(x, k, b - ttl - maxFlight, writes[p])
    BY <1>4, <1>6 DEF Fresh
  <2>. HIDE DEF b, p, x, k
  <2>. QED
    BY <1>2, <2>1, LaterShows
<1>7. key(r)' = k
  BY DEF key
<1>. QED
  BY <1>2, <1>3, <1>5, <1>6, <1>7 DEF Fresh

LEMMA AlwaysLater ==
    ASSUME CacheType, FreshInv, Next
    PROVE  Later
<1>. USE Constants DEF CacheType, cache, request, Later
<1>1. ASSUME now' = now, maxFlight' = maxFlight, writes' = writes PROVE Later
  BY <1>1
<1>2. ASSUME NEW r \in Requests, Stamp(r) PROVE Later
  <2>2. maxFlight' = maxFlight \/ maxFlight' = Max({maxFlight, now - began[r]})
    BY <1>2 DEF Stamp
  <2>3. maxFlight' \in Nat /\ maxFlight <= maxFlight'
    BY <2>2, FlightGrows
  <2>. QED
    BY <1>2, <2>3 DEF Stamp
<1>3. ASSUME NEW r \in Requests, Written(r) PROVE Later
  BY <1>3 DEF Written
<1>4. CASE Tick
  BY <1>4 DEF Tick
<1>. QED
  BY <1>1, <1>2, <1>3, <1>4
  DEF Next, GetHit, GetExpired, GetMiss, Enter, Post, Respond, Forward, Store, Served

LEMMA FreshStep ==
    ASSUME CacheType, FreshInv, Next
    PROVE  FreshInv'
<1>. USE Constants DEF CacheType, cache, request
<1>1. Later /\ CacheType'
  BY AlwaysLater, TypeStep
<1>2. ASSUME \A r \in Requests : Fresh(r)',  entries' = entries PROVE FreshInv'
  BY <1>1, <1>2, StoredKept DEF FreshInv
<1>3. ASSUME NEW r \in Requests, Fresh(r)',
             \A s \in Requests \ {r} : /\ pc'[s] = pc[s] /\ asked'[s] = asked[s] /\ response'[s] = response[s]
                                       /\ expires'[s] = expires[s] /\ began'[s] = began[s]
      PROVE  \A s \in Requests : Fresh(s)'
  BY <1>1, <1>3, FreshKept DEF FreshInv
<1>4. ASSUME NEW r \in Requests, Finish(r)
      PROVE  \A s \in Requests : Fresh(s)'
  <2>1. Fresh(r)'
    BY <1>1, <1>4 DEF Finish, Fresh, Later
  <2>. QED
    BY <1>3, <1>4, <2>1 DEF Finish
<1>5. ASSUME NEW r \in Requests, NEW a \in Asked, GetHit(r, a) PROVE FreshInv'
  <2>. DEFINE k == cacheKey[a]
              n == entries[k].expires
              x == entries[k].response
              p == entries[k].response.to.path
  <2>1. k \in Keys
    OBVIOUS
  <2>2. /\ entries[k] # NoEntry /\ now <= n /\ entries' = entries /\ writes' = writes
        /\ response' = [response EXCEPT ![r] = x] /\ asked' = [asked EXCEPT ![r] = a]
        /\ began' = [began EXCEPT ![r] = now] /\ pc' = [pc EXCEPT ![r] = "hit"]
        /\ now' = now /\ maxFlight' = maxFlight /\ expires' = expires
    BY <1>5 DEF GetHit, Enter
  <2>3. n \in Nat /\ x.kind = "storable" /\ Shows(x, k, n - ttl - maxFlight, writes[p]) /\ p \in Paths
    BY <2>1, <2>2, EntryFacts DEF FreshInv, Stored
  <2>4. /\ n - ttl - maxFlight \in Int /\ now - ttl - maxFlight \in Int
        /\ now - ttl - maxFlight <= n - ttl - maxFlight
    <3>1. now \in Nat /\ ttl \in Nat /\ maxFlight \in Nat
      BY Constants DEF CacheType
    <3>. HIDE DEF n
    <3>. QED
      BY <2>2, <2>3, <3>1
  <2>. DEFINE d == n - ttl - maxFlight
              u == now - ttl - maxFlight
              w == writes[p]
  <2>5. writes[p] \in Seq(Nat) /\ now \in Nat
    BY <2>3
  <2>6. Shows(x, k, now - ttl - maxFlight, writes[p])
    <3>1. d \in Int /\ u \in Int /\ u <= d /\ w \in Seq(Nat) /\ Shows(x, k, d, w)
      BY <2>3, <2>4, <2>5
    <3>. HIDE DEF d, u, w, x, k
    <3>2. Shows(x, k, u, w)
      BY <2>5, <3>1, ShowsKept
    <3>. QED
      BY <3>2 DEF u, w
  <2>7. Fresh(r)'
    <3>1. key(r)' = k /\ response'[r] = x /\ began'[r] = now /\ pc'[r] = "hit" /\ asked'[r] = a
      BY <2>2 DEF key
    <3>. HIDE DEF k, n
    <3>. QED
      BY <2>2, <2>3, <2>6, <3>1 DEF Fresh
  <2>. HIDE DEF k, n, x, p
  <2>8. \A s \in Requests : Fresh(s)'
    BY <1>3, <2>2, <2>7
  <2>. QED
    BY <1>2, <2>2, <2>8
<1>6. ASSUME NEW r \in Requests, NEW a \in Asked, Enter(r, a, "miss"), response' = response
      PROVE  \A s \in Requests : Fresh(s)'
  <2>1. Fresh(r)'
    BY <1>6 DEF Enter, Fresh
  <2>. QED
    BY <1>3, <1>6, <2>1 DEF Enter
<1>7. ASSUME NEW r \in Requests, NEW a \in Asked, GetExpired(r, a) PROVE FreshInv'
  <2>1. \A k \in Keys : entries'[k] = entries[k] \/ entries'[k] = NoEntry
    BY <1>7 DEF GetExpired
  <2>2. \A k \in Keys : Stored(k)'
    BY <1>1, <2>1, StoredKept DEF Stored, FreshInv
  <2>. QED
    BY <1>6, <1>7, <2>2 DEF GetExpired, FreshInv
<1>8. ASSUME NEW r \in Requests, NEW a \in Asked, GetMiss(r, a) PROVE FreshInv'
  BY <1>2, <1>6, <1>8 DEF GetMiss
<1>9. ASSUME NEW r \in Requests, NEW a \in Posted, Post(r, a) PROVE FreshInv'
  <2>1. Fresh(r)'
    BY <1>9 DEF Post, Fresh, FreshInv
  <2>2. \A s \in Requests : Fresh(s)'
    BY <1>3, <1>9, <2>1 DEF Post
  <2>. QED
    BY <1>2, <1>9, <2>2 DEF Post
<1>10. ASSUME NEW r \in Requests, NEW kind \in {"storable", "refused"}, Respond(r, kind) PROVE FreshInv'
  <2>. DEFINE p == asked[r].path
              x == [to |-> asked[r], version |-> version(p), kind |-> kind]
  <2>1. /\ pc[r] = "backend" /\ pc' = [pc EXCEPT ![r] = "body"] /\ response' = [response EXCEPT ![r] = x]
        /\ entries' = entries /\ writes' = writes /\ now' = now /\ asked' = asked
        /\ expires' = expires /\ began' = began
    BY <1>10 DEF Respond
  <2>2. asked[r] \in Asked /\ began[r] <= now
    BY <2>1 DEF FreshInv, Fresh
  <2>3. version(p) \in Nat /\ version(p) = Len(writes[p])
    BY <2>2 DEF version
  <2>4. Shows(x, key(r), began[r], writes[p]) /\ x.to.path = p
    <3>1. x \in Response
      BY <2>2, <2>3 DEF Response
    <3>. QED
      BY <2>3, <3>1 DEF Shows, key
  <2>. HIDE DEF x, p
  <2>5. Fresh(r)'
    <3>1. key(r)' = key(r)
      BY <2>1 DEF key
    <3>. QED
      BY <2>1, <2>2, <2>4, <3>1 DEF Fresh
  <2>6. \A s \in Requests : Fresh(s)'
    BY <1>3, <2>1, <2>5
  <2>. QED
    BY <1>2, <2>1, <2>6
<1>11. ASSUME NEW r \in Requests, Forward(r) PROVE FreshInv'
  <2>1. Fresh(r)'
    BY <1>11 DEF Forward, Fresh, FreshInv
  <2>2. \A s \in Requests : Fresh(s)'
    BY <1>3, <1>11, <2>1 DEF Forward
  <2>. QED
    BY <1>2, <1>11, <2>2 DEF Forward
<1>12. ASSUME NEW r \in Requests, Stamp(r) PROVE FreshInv'
  <2>1. CASE response[r].kind = "storable" /\ pc'[r] = "store"
    <3>1. /\ pc[r] = "body" /\ pc' = [pc EXCEPT ![r] = "store"] /\ expires' = [expires EXCEPT ![r] = now + ttl]
          /\ maxFlight' = Max({maxFlight, now - began[r]})
          /\ UNCHANGED <<asked, response, began, entries, writes, now>>
      BY <1>12, <2>1 DEF Stamp, Finish
    <3>2. /\ asked[r] \in Asked /\ began[r] <= now
          /\ Shows(response[r], key(r), began[r], writes[response[r].to.path])
          /\ key(r)' = key(r)
      BY <3>1 DEF FreshInv, Fresh, key
    <3>3. maxFlight' \in Nat /\ now - began[r] <= maxFlight'
      BY <3>1, FlightGrows
    <3>4. now + ttl <= began[r] + ttl + maxFlight'
      BY <3>3
    <3>5. Fresh(r)'
      BY <2>1, <3>1, <3>2, <3>4 DEF Fresh
    <3>6. \A s \in Requests : Fresh(s)'
      BY <1>3, <3>1, <3>5
    <3>. QED
      BY <1>2, <3>1, <3>6
  <2>2. CASE ~(response[r].kind = "storable" /\ pc'[r] = "store")
    BY <1>2, <1>4, <1>12, <2>2 DEF Stamp
  <2>. QED
    BY <2>1, <2>2
<1>13. ASSUME NEW r \in Requests, Store(r) PROVE FreshInv'
  <2>. DEFINE p == response[r].to.path
              k == key(r)
              e == [expires |-> expires[r], response |-> response[r]]
  <2>1. pc[r] = "store" /\ Finish(r) /\ UNCHANGED <<writes, now, maxFlight>>
    BY <1>13 DEF Store
  <2>2. /\ asked[r] \in Asked /\ response[r].kind = "storable"
        /\ expires[r] <= now + ttl /\ expires[r] <= began[r] + ttl + maxFlight
        /\ Shows(response[r], k, began[r], writes[p]) /\ p \in Paths
    BY <2>1 DEF FreshInv, Fresh, Shows
  <2>3. /\ expires[r] \in Nat /\ began[r] \in Int /\ expires[r] - ttl - maxFlight \in Int
        /\ expires[r] - ttl - maxFlight <= began[r]
        /\ writes[p] \in Seq(Nat) /\ now \in Nat
    BY <2>2
  <2>4. Shows(response[r], k, expires[r] - ttl - maxFlight, writes[p])
    <3>. HIDE DEF k, p
    <3>. QED
      BY <2>2, <2>3, ShowsKept
  <2>5. \A x \in Keys : \/ x = k /\ entries'[x] = e
                        \/ entries'[x] = entries[x]
                        \/ entries'[x] = NoEntry
    BY <1>13 DEF Store
  <2>6. ASSUME NEW x \in Keys, x = k, entries'[x] = e PROVE Stored(x)'
    <3>1. e.expires = expires[r] /\ e.response = response[r] /\ e.response.to.path = p
      OBVIOUS
    <3>. HIDE DEF p, k, e
    <3>. QED
      BY <2>1, <2>2, <2>4, <2>6, <3>1 DEF Stored
  <2>. HIDE DEF p, k, e
  <2>7. \A x \in Keys : Stored(x)'
    BY <1>1, <2>5, <2>6, StoredKept DEF Stored, FreshInv
  <2>. QED
    BY <1>4, <2>1, <2>7 DEF FreshInv
<1>14. ASSUME NEW r \in Requests, Written(r) PROVE FreshInv'
  BY <1>2, <1>4, <1>14 DEF Written
<1>15. ASSUME NEW r \in Requests, Served(r) PROVE FreshInv'
  BY <1>2, <1>4, <1>15 DEF Served
<1>16. CASE Tick
  <2>1. \A s \in Requests : Fresh(s)'
    BY <1>1, <1>16, FreshKept DEF Tick, FreshInv
  <2>. QED
    BY <1>2, <1>16, <2>1 DEF Tick
<1>. QED
  BY <1>5, <1>7, <1>8, <1>9, <1>10, <1>11, <1>12, <1>13, <1>14, <1>15, <1>16 DEF Next

LEMMA CacheInvariant == Spec => [](CacheType /\ FreshInv)
<1>1. Init => CacheType
  BY Constants DEF Init, CacheType
<1>2. Init => FreshInv
  BY DEF Init, FreshInv, Fresh, Stored
<1>3. CacheType /\ FreshInv /\ [Next]_vars => (CacheType /\ FreshInv)'
  <2>1. CASE Next
    BY <2>1, TypeStep, FreshStep
  <2>2. CASE UNCHANGED vars
    BY <2>2 DEF vars, cache, pool, request, CacheType, FreshInv, Fresh, Stored, key
  <2>. QED
    BY <2>1, <2>2
<1>. QED
  BY <1>1, <1>2, <1>3, PTL DEF Spec

\* A hit of the gateway's cache is an answer to a request for the same method,
\* path and query values from a client with the same first credentials; and
\* plain requests are only answered from what was answered to their own client.
THEOREM AnswersAreOwn == Spec => []OwnAnswers
<1>1. CacheType /\ FreshInv => OwnAnswers
  <2>. SUFFICES ASSUME CacheType, FreshInv, NEW r \in Requests, pc[r] = "hit"
                PROVE  LET a == asked[r]  b == response[r].to IN
                       /\ a.method = b.method /\ a.path.decoded = b.path.decoded /\ SameValues(a, b)
                       /\ \A l \in Labels : Get(a.headers[l]) = Get(b.headers[l])
                       /\ Plain(a) /\ Plain(b) =>
                           /\ a.path = b.path
                           /\ \A l \in Labels : a.headers[l] = b.headers[l] \/ Get(a.headers[l]) = ""
                       /\ response[r].kind = "storable"
    BY DEF OwnAnswers
  <2>. DEFINE a == asked[r]
              b == response[r].to
  <2>1. a \in Asked /\ b \in Asked /\ cacheKey[a] = cacheKey[b] /\ response[r].kind = "storable"
    BY Constants DEF FreshInv, Fresh, Shows, key
  <2>. HIDE DEF a, b
  <2>2. a.method = b.method /\ a.path.decoded = b.path.decoded /\ Query(a) = Query(b) /\ scope(a) = scope(b)
    BY <2>1 DEF cacheKey
  <2>3. SameValues(a, b)
    BY <2>2 DEF SameValues
  <2>4. \A l \in Labels : Get(a.headers[l]) = Get(b.headers[l])
    BY <2>2 DEF scope
  <2>5. ASSUME Plain(a), Plain(b), NEW l \in Labels
        PROVE  a.headers[l] = b.headers[l] \/ Get(a.headers[l]) = ""
    <3>. DEFINE s == a.headers[l]
                t == b.headers[l]
    <3>1. s \in Seq(STRING) /\ t \in Seq(STRING) /\ Len(s) <= 1 /\ Len(t) <= 1 /\ Get(s) = Get(t)
      BY <2>1, <2>4, <2>5, RouteAssumption DEF Plain
    <3>. HIDE DEF s, t
    <3>2. CASE s = <<>> \/ t = <<>>
      BY <3>1, <3>2 DEF Get, s
    <3>3. CASE s # <<>> /\ t # <<>>
      <4>1. Len(s) \in Nat \ {0} /\ Len(t) \in Nat \ {0}
        BY <3>1, <3>3, EmptySeq, Zenon
      <4>2. \A m \in Nat \ {0} : m <= 1 => m = 1
        OBVIOUS
      <4>3. Len(s) = 1 /\ Len(t) = 1
        BY <3>1, <4>1, <4>2, Zenon
      <4>4. s[1] = t[1]
        BY <3>1, <3>3, Zenon DEF Get
      <4>5. s = t
        BY <3>1, <4>3, <4>4, SeqEqual
      <4>. QED
        BY <4>5 DEF s, t
    <3>. QED
      BY <3>2, <3>3
  <2>6. Plain(a) /\ Plain(b) => a.path = b.path
    BY <2>1, <2>2, RouteAssumption DEF Plain
  <2>. QED
    BY <2>1, <2>2, <2>3, <2>4, <2>5, <2>6 DEF a, b
<1>. QED
  BY <1>1, CacheInvariant, PTL

\* What a hit returns was overwritten no longer ago than the time to live and
\* the longest time that a response took before it was stored.
THEOREM StalenessIsBounded == Spec => []StalenessBound
<1>1. CacheType /\ FreshInv => StalenessBound
  <2>. SUFFICES ASSUME CacheType, FreshInv, NEW r \in Requests, pc[r] = "hit",
                       response[r].version < version(response[r].to.path)
                PROVE  began[r] - writes[response[r].to.path][response[r].version + 1] <= ttl + maxFlight
    BY DEF StalenessBound
  <2>. DEFINE p == response[r].to.path
              v == response[r].version
  <2>1. /\ p \in Paths /\ v \in Nat /\ v < Len(writes[p])
        /\ writes[p][v + 1] >= began[r] - ttl - maxFlight
    BY Constants DEF FreshInv, Fresh, Shows, Response, version
  <2>2. writes[p] \in Seq(Nat) /\ began[r] \in Nat /\ maxFlight \in Nat /\ ttl \in Nat
    BY <2>1, Constants DEF CacheType
  <2>3. writes[p][v + 1] \in Nat
    <3>. HIDE DEF p, v
    <3>1. v + 1 \in 1 .. Len(writes[p])
      BY <2>1, <2>2
    <3>. QED
      BY <2>2, <3>1
  <2>. HIDE DEF p, v
  <2>4. began[r] - writes[p][v + 1] <= ttl + maxFlight
    <3>1. PICK t \in Nat : t = writes[p][v + 1] /\ t >= began[r] - ttl - maxFlight
      BY <2>1, <2>3
    <3>2. began[r] - t <= ttl + maxFlight
      BY <2>2, <3>1
    <3>. QED
      BY <3>1, <3>2
  <2>. QED
    BY <2>4 DEF p, v
<1>. QED
  BY <1>1, CacheInvariant, PTL

----------------------------------------------------------------------------
(***************************************************************************)
(* The list, and the order of the last uses                                *)
(***************************************************************************)
Distinct(q) == \A i, j \in 1 .. Len(q) : q[i] = q[j] => i = j
Holds(q, x) == \E i \in 1 .. Len(q) : q[i] = x
Before(q, x, y) == \E i, j \in 1 .. Len(q) : i < j /\ q[i] = x /\ q[j] = y

LEMMA RemoveAtProperties ==
    ASSUME NEW S, NEW q \in Seq(S), NEW i \in 1 .. Len(q)
    PROVE  /\ RemoveAt(q, i) \in Seq(S)
           /\ Len(RemoveAt(q, i)) = Len(q) - 1
           /\ \A j \in 1 .. Len(q) - 1 : RemoveAt(q, i)[j] = IF j < i THEN q[j] ELSE q[j + 1]
<1>. DEFINE front == SubSeq(q, 1, i - 1)
            back == SubSeq(q, i + 1, Len(q))
<1>1. front \in Seq(S) /\ Len(front) = i - 1 /\ \A j \in 1 .. i - 1 : front[j] = q[j]
  OBVIOUS
<1>2. back \in Seq(S) /\ Len(back) = Len(q) - i /\ \A j \in 1 .. Len(q) - i : back[j] = q[i + j]
  OBVIOUS
<1>3. RemoveAt(q, i) = front \o back
  BY DEF RemoveAt
<1>. HIDE DEF front, back
<1>4. /\ front \o back \in Seq(S) /\ Len(front \o back) = Len(q) - 1
      /\ \A j \in 1 .. Len(q) - 1 :
           (front \o back)[j] = IF j < i THEN front[j] ELSE back[j - i + 1]
  <2>1. /\ front \o back \in Seq(S) /\ Len(front \o back) = Len(front) + Len(back)
        /\ \A j \in 1 .. Len(front) + Len(back) :
             (front \o back)[j] = IF j <= Len(front) THEN front[j] ELSE back[j - Len(front)]
    BY <1>1, <1>2, ConcatProperties
  <2>. QED
    BY <1>1, <1>2, <2>1
<1>5. \A j \in 1 .. Len(q) - 1 : (front \o back)[j] = IF j < i THEN q[j] ELSE q[j + 1]
  <2>. TAKE j \in 1 .. Len(q) - 1
  <2>1. CASE j < i
    BY <1>1, <1>4, <2>1
  <2>2. CASE ~(j < i)
    <3>1. j - i + 1 \in 1 .. Len(q) - i /\ i + (j - i + 1) = j + 1
      BY <2>2
    <3>. QED
      BY <1>2, <1>4, <2>2, <3>1
  <2>. QED
    BY <2>1, <2>2
<1>. QED
  BY <1>3, <1>4, <1>5


LEMMA RemoveElement ==
    ASSUME NEW S, NEW q \in Seq(S), Distinct(q), NEW k, Holds(q, k), NEW d, d = removeElement(q, k)
    PROVE  /\ d \in Seq(S) /\ Len(d) = Len(q) - 1 /\ Distinct(d)
           /\ \A x : Holds(d, x) <=> Holds(q, x) /\ x # k
           /\ \A x, y : Before(d, x, y) <=> Before(q, x, y) /\ x # k /\ y # k
<1>1. PICK i \in 1 .. Len(q) : q[i] = k /\ d = RemoveAt(q, i)
  BY DEF removeElement, Holds
<1>2. /\ d \in Seq(S) /\ Len(d) = Len(q) - 1 /\ Len(q) \in Nat
      /\ \A j \in 1 .. Len(q) - 1 : d[j] = IF j < i THEN q[j] ELSE q[j + 1]
  <2>1. PICK c : c = RemoveAt(q, i)
    OBVIOUS
  <2>2. /\ c \in Seq(S) /\ Len(c) = Len(q) - 1
        /\ \A j \in 1 .. Len(q) - 1 : c[j] = IF j < i THEN q[j] ELSE q[j + 1]
    BY <2>1, RemoveAtProperties, Zenon
  <2>. QED
    BY <1>1, <2>1, <2>2
<1>3. \A j, l \in 1 .. Len(q) : q[j] = q[l] => j = l
  BY DEF Distinct
<1>. DEFINE to[j \in 1 .. Len(q) - 1] == IF j < i THEN j ELSE j + 1
<1>4. ASSUME NEW j \in 1 .. Len(q) - 1
      PROVE  to[j] \in 1 .. Len(q) /\ to[j] # i /\ d[j] = q[to[j]]
  <2>1. CASE j < i
    BY <1>1, <1>2, <2>1
  <2>2. CASE ~(j < i)
    BY <1>1, <1>2, <2>2
  <2>. QED
    BY <2>1, <2>2
<1>5. \A j, l \in 1 .. Len(q) - 1 : j < l => to[j] < to[l]
  BY <1>1, <1>2
<1>6. \A j, l \in 1 .. Len(q) - 1 : to[j] = to[l] => j = l
  BY <1>1, <1>2
<1>7. \A l \in 1 .. Len(q) : l # i => \E j \in 1 .. Len(q) - 1 : to[j] = l
  <2>. SUFFICES ASSUME NEW l \in 1 .. Len(q), l # i
                PROVE  \E j \in 1 .. Len(q) - 1 : to[j] = l
    OBVIOUS
  <2>1. CASE l < i
    <3>1. l \in 1 .. Len(q) - 1 /\ to[l] = l
      BY <1>1, <1>2, <2>1
    <3>. QED
      BY <3>1
  <2>2. CASE l > i
    <3>1. l - 1 \in 1 .. Len(q) - 1 /\ to[l - 1] = l
      BY <1>1, <1>2, <2>2
    <3>. QED
      BY <3>1
  <2>. QED
    BY <2>1, <2>2
<1>8. \A j, l \in 1 .. Len(q) - 1 : to[j] < to[l] => j < l
  BY <1>1, <1>2
<1>. HIDE DEF to
<1>9. Distinct(d)
  BY <1>2, <1>3, <1>4, <1>6 DEF Distinct
<1>10. ASSUME NEW x PROVE Holds(d, x) <=> Holds(q, x) /\ x # k
  <2>1. Holds(d, x) => Holds(q, x) /\ x # k
    BY <1>1, <1>2, <1>3, <1>4 DEF Holds
  <2>2. ASSUME Holds(q, x), x # k PROVE Holds(d, x)
    <3>1. PICK l \in 1 .. Len(q) : q[l] = x /\ l # i
      BY <1>1, <2>2 DEF Holds
    <3>2. PICK j \in 1 .. Len(q) - 1 : to[j] = l
      BY <1>7, <3>1
    <3>. QED
      BY <1>2, <1>4, <3>1, <3>2 DEF Holds
  <2>. QED
    BY <2>1, <2>2
<1>11. ASSUME NEW x, NEW y PROVE Before(d, x, y) <=> Before(q, x, y) /\ x # k /\ y # k
  <2>1. ASSUME Before(d, x, y) PROVE Before(q, x, y) /\ x # k /\ y # k
    <3>1. PICK j, l \in 1 .. Len(q) - 1 : j < l /\ d[j] = x /\ d[l] = y
      BY <1>2, <2>1 DEF Before
    <3>2. /\ to[j] \in 1 .. Len(q) /\ to[l] \in 1 .. Len(q) /\ to[j] < to[l]
          /\ q[to[j]] = x /\ q[to[l]] = y /\ to[j] # i /\ to[l] # i
      BY <1>4, <1>5, <3>1
    <3>. QED
      BY <1>1, <1>3, <3>2 DEF Before
  <2>2. ASSUME Before(q, x, y), x # k, y # k PROVE Before(d, x, y)
    <3>1. PICK m, n \in 1 .. Len(q) : m < n /\ q[m] = x /\ q[n] = y /\ m # i /\ n # i
      BY <1>1, <2>2 DEF Before
    <3>2. PICK j \in 1 .. Len(q) - 1 : to[j] = m
      BY <1>7, <3>1
    <3>3. PICK l \in 1 .. Len(q) - 1 : to[l] = n
      BY <1>7, <3>1
    <3>4. j < l /\ d[j] = x /\ d[l] = y
      BY <1>4, <1>8, <3>1, <3>2, <3>3
    <3>. QED
      BY <1>2, <3>4 DEF Before
  <2>. QED
    BY <2>1, <2>2
<1>. QED
  BY <1>2, <1>9, <1>10, <1>11

Pushed(q, k) == <<k>> \o q

LEMMA PushFront ==
    ASSUME NEW S, NEW q \in Seq(S), Distinct(q), NEW k \in S, ~Holds(q, k), NEW d, d = Pushed(q, k)
    PROVE  /\ d \in Seq(S) /\ Len(d) = Len(q) + 1 /\ d[1] = k /\ Distinct(d)
           /\ \A x : Holds(d, x) <=> x = k \/ Holds(q, x)
           /\ \A x, y : Before(d, x, y) <=> (x = k /\ Holds(q, y)) \/ Before(q, x, y)
<1>1. PICK h : h = <<k>> /\ h \in Seq(S) /\ Len(h) = 1 /\ h[1] = k
  <2>1. <<k>> \in Seq(S)
    OBVIOUS
  <2>2. Len(<<k>>) = 1 /\ <<k>>[1] = k
    OBVIOUS
  <2>. QED
    BY <2>1, <2>2
<1>2. /\ d \in Seq(S) /\ Len(d) = 1 + Len(q)
      /\ \A i \in 1 .. 1 + Len(q) : d[i] = IF i <= 1 THEN h[i] ELSE q[i - 1]
  BY <1>1, ConcatProperties DEF Pushed
<1>3. /\ Len(q) \in Nat /\ d[1] = k
      /\ \A i \in 1 .. Len(q) : i + 1 \in 1 .. Len(d) /\ d[i + 1] = q[i]
      /\ \A i \in 1 .. Len(d) : i = 1 \/ (i - 1 \in 1 .. Len(q) /\ d[i] = q[i - 1])
  BY <1>1, <1>2
<1>4. Distinct(d)
  <2>. SUFFICES ASSUME NEW i \in 1 .. Len(d), NEW j \in 1 .. Len(d), d[i] = d[j]
                PROVE  i = j
    BY DEF Distinct
  <2>1. CASE i = 1 \/ j = 1
    BY <1>3, <2>1 DEF Holds
  <2>2. CASE i # 1 /\ j # 1
    <3>1. i - 1 \in 1 .. Len(q) /\ j - 1 \in 1 .. Len(q) /\ q[i - 1] = q[j - 1]
      BY <1>3, <2>2
    <3>2. i - 1 = j - 1
      BY <3>1 DEF Distinct
    <3>. QED
      BY <1>3, <3>2
  <2>. QED
    BY <2>1, <2>2
<1>5. ASSUME NEW x PROVE Holds(d, x) <=> x = k \/ Holds(q, x)
  <2>1. Holds(d, x) => x = k \/ Holds(q, x)
    BY <1>3 DEF Holds
  <2>2. x = k => Holds(d, x)
    <3>1. 1 \in 1 .. Len(d)
      BY <1>2, <1>3
    <3>. QED
      BY <1>3, <3>1 DEF Holds
  <2>3. Holds(q, x) => Holds(d, x)
    BY <1>3 DEF Holds
  <2>. QED
    BY <2>1, <2>2, <2>3
<1>6. ASSUME NEW x, NEW y PROVE Before(d, x, y) <=> (x = k /\ Holds(q, y)) \/ Before(q, x, y)
  <2>1. ASSUME Before(d, x, y) PROVE (x = k /\ Holds(q, y)) \/ Before(q, x, y)
    <3>1. PICK i, j \in 1 .. Len(d) : i < j /\ d[i] = x /\ d[j] = y
      BY <2>1 DEF Before
    <3>2. j - 1 \in 1 .. Len(q) /\ q[j - 1] = y
      BY <1>2, <1>3, <3>1
    <3>3. CASE i = 1
      BY <1>3, <3>1, <3>2, <3>3 DEF Holds
    <3>4. CASE i # 1
      <4>1. i - 1 \in 1 .. Len(q) /\ q[i - 1] = x /\ i - 1 < j - 1
        BY <1>2, <1>3, <3>1, <3>4
      <4>. QED
        BY <3>2, <4>1 DEF Before
    <3>. QED
      BY <3>3, <3>4
  <2>2. ASSUME x = k, Holds(q, y) PROVE Before(d, x, y)
    <3>1. PICK j \in 1 .. Len(q) : q[j] = y
      BY <2>2 DEF Holds
    <3>2. 1 \in 1 .. Len(d) /\ j + 1 \in 1 .. Len(d) /\ 1 < j + 1 /\ d[1] = x /\ d[j + 1] = y
      BY <1>2, <1>3, <2>2, <3>1
    <3>. QED
      BY <3>2 DEF Before
  <2>3. ASSUME Before(q, x, y) PROVE Before(d, x, y)
    <3>1. PICK i, j \in 1 .. Len(q) : i < j /\ q[i] = x /\ q[j] = y
      BY <2>3 DEF Before
    <3>2. i + 1 \in 1 .. Len(d) /\ j + 1 \in 1 .. Len(d) /\ i + 1 < j + 1 /\ d[i + 1] = x /\ d[j + 1] = y
      BY <1>3, <3>1
    <3>. QED
      BY <3>2 DEF Before
  <2>. QED
    BY <2>1, <2>2, <2>3
<1>. QED
  BY <1>2, <1>3, <1>4, <1>5, <1>6

LEMMA MoveFront ==
    ASSUME NEW S, NEW q \in Seq(S), Distinct(q), NEW k \in S, Holds(q, k), NEW d, d = MoveToFront(q, k)
    PROVE  /\ d \in Seq(S) /\ Len(d) = Len(q) /\ d[1] = k /\ Distinct(d)
           /\ \A x : Holds(d, x) <=> Holds(q, x)
           /\ \A x, y : Before(d, x, y) <=> \/ x = k /\ Holds(q, y) /\ y # k
                                            \/ Before(q, x, y) /\ x # k /\ y # k
<1>1. PICK c : c = removeElement(q, k) /\ d = Pushed(c, k)
  BY DEF MoveToFront, Pushed
<1>2. /\ c \in Seq(S) /\ Len(c) = Len(q) - 1 /\ Distinct(c)
      /\ \A x : Holds(c, x) <=> Holds(q, x) /\ x # k
      /\ \A x, y : Before(c, x, y) <=> Before(q, x, y) /\ x # k /\ y # k
  BY <1>1, RemoveElement
<1>3. /\ d \in Seq(S) /\ Len(d) = Len(c) + 1 /\ d[1] = k /\ Distinct(d)
      /\ \A x : Holds(d, x) <=> x = k \/ Holds(c, x)
      /\ \A x, y : Before(d, x, y) <=> (x = k /\ Holds(c, y)) \/ Before(c, x, y)
  <2>1. ~Holds(c, k)
    BY <1>2
  <2>. QED
    BY <1>1, <1>2, <2>1, PushFront
<1>4. Len(q) \in Nat
  OBVIOUS
<1>. QED
  BY <1>2, <1>3, <1>4

LEMMA CutTail ==
    ASSUME NEW S, NEW q \in Seq(S), Distinct(q), NEW n \in 1 .. Len(q), NEW d, d = SubSeq(q, 1, n)
    PROVE  /\ d \in Seq(S) /\ Len(d) = n /\ d[1] = q[1] /\ Distinct(d)
           /\ \A x : Holds(d, x) => Holds(q, x)
           /\ \A x, y : Before(d, x, y) => Before(q, x, y)
<1>1. d \in Seq(S) /\ Len(d) = n /\ \A i \in 1 .. n : i \in 1 .. Len(q) /\ d[i] = q[i]
  OBVIOUS
<1>. QED
  BY <1>1 DEF Distinct, Holds, Before

\* A finite set as a sequence: each element once.
LEMMA ListedOnce ==
    ASSUME NEW S, IsFiniteSet(S), NEW q, q = SetToSeq(S)
    PROVE  q \in Seq(S) /\ Distinct(q) /\ \A x \in S : Holds(q, x)
<1>. DEFINE n == Cardinality(S)
<1>1. n \in Nat /\ ExistsBijection(1 .. n, S)
  BY FS_CardinalityType
<1>. HIDE DEF n
<1>2. PICK f \in [1 .. n -> S] : \A i, j \in 1 .. n : f[i] = f[j] => i = j
  BY <1>1 DEF ExistsBijection, Bijection, Injection, IsInjective
<1>3. IsInjective(f)
  BY <1>2 DEF IsInjective
<1>4. q \in [1 .. n -> S] /\ IsInjective(q)
  BY <1>2, <1>3 DEF SetToSeq, n
<1>5. q \in Seq(S) /\ Len(q) = n
  BY <1>1, <1>4
<1>6. Distinct(q)
  BY <1>4, <1>5 DEF Distinct, IsInjective
<1>7. q \in Injection(1 .. n, S) /\ IsFiniteSet(1 .. n) /\ Cardinality(1 .. n) = n
  <2>1. 1 \in Int /\ n \in Int
    BY <1>1
  <2>2. IsFiniteSet(1 .. n) /\ Cardinality(1 .. n) = IF 1 > n THEN 0 ELSE n - 1 + 1
    BY <2>1, FS_Interval
  <2>. QED
    BY <1>1, <1>4, <2>2 DEF Injection
<1>8. q \in Surjection(1 .. n, S)
  BY <1>7, FS_Injection DEF n
<1>. QED
  BY <1>5, <1>6, <1>8 DEF Surjection, Holds

----------------------------------------------------------------------------
Ordered(list, uses) == \A x, y : Before(list, x, y) => Before(uses, x, y)

LEMMA OrderedPlaces ==
    ASSUME NEW list, NEW uses
    PROVE  Ordered(list, uses) <=> \A i, j \in 1 .. Len(list) : i < j => Before(uses, list[i], list[j])
<1>1. ASSUME Ordered(list, uses), NEW i \in 1 .. Len(list), NEW j \in 1 .. Len(list), i < j
      PROVE  Before(uses, list[i], list[j])
  <2>1. Before(list, list[i], list[j])
    BY <1>1 DEF Before
  <2>. QED
    BY <1>1, <2>1 DEF Ordered
<1>2. ASSUME \A i, j \in 1 .. Len(list) : i < j => Before(uses, list[i], list[j]),
             NEW x, NEW y, Before(list, x, y)
      PROVE  Before(uses, x, y)
  <2>1. PICK i, j \in 1 .. Len(list) : i < j /\ list[i] = x /\ list[j] = y
    BY <1>2 DEF Before
  <2>. QED
    BY <1>2, <2>1
<1>. QED
  BY <1>1, <1>2 DEF Ordered

\* BoundedLRU, in terms of what the list holds and in which order.
LRUAs(list, map, uses) ==
    /\ Len(list) <= maxEntries
    /\ \A k \in Keys : map[k] # NoEntry <=> Holds(list, k)
    /\ Ordered(list, uses)

LRUInv ==
    /\ order \in Seq(Keys) /\ Distinct(order)
    /\ recency \in Seq(Keys) /\ Distinct(recency) /\ \A k \in Keys : Holds(recency, k)
    /\ LRUAs(order, entries, recency)

LEMMA InOrder == BoundedLRU <=> LRUAs(order, entries, recency)
<1>1. \A k, l : usedAfter(k, l) <=> Before(recency, k, l)
  BY DEF usedAfter, Before
<1>2. Ordered(order, recency)
        <=> \A i, j \in 1 .. Len(order) : i < j => usedAfter(order[i], order[j])
  BY <1>1, OrderedPlaces
<1>. QED
  BY <1>2 DEF BoundedLRU, LRUAs, Holds

LEMMA LRUStarts == Init => LRUInv
<1>. SUFFICES ASSUME Init PROVE LRUInv
  OBVIOUS
<1>1. IsFiniteSet(Keys)
  <2>. DEFINE f == [a \in Asked |-> cacheKey[a]]
  <2>1. f \in Surjection(Asked, Keys)
    BY DEF Keys, Surjection
  <2>. QED
    BY <2>1, FS_Surjection, RouteAssumption
<1>2. recency \in Seq(Keys) /\ Distinct(recency) /\ \A k \in Keys : Holds(recency, k)
  BY <1>1, ListedOnce DEF Init
<1>3. order = <<>> /\ order \in Seq(Keys) /\ Len(order) = 0
  BY DEF Init
<1>4. Distinct(order) /\ BoundedLRU
  BY <1>3, Constants DEF Init, Distinct, BoundedLRU
<1>5. LRUAs(order, entries, recency)
  BY <1>4, InOrder
<1>. QED
  BY <1>2, <1>3, <1>4, <1>5 DEF LRUInv

\* One use of the key k: it is now the last one used.
LEMMA UsedNow ==
    ASSUME LRUInv, NEW k \in Keys, recency' = MoveToFront(recency, k)
    PROVE  /\ recency' \in Seq(Keys) /\ Distinct(recency') /\ \A x \in Keys : Holds(recency', x)
           /\ \A x \in Keys \ {k} : Before(recency', k, x)
           /\ \A x, y : Before(recency, x, y) /\ x # k /\ y # k => Before(recency', x, y)
<1>1. recency \in Seq(Keys) /\ Distinct(recency) /\ \A x \in Keys : Holds(recency, x)
  BY DEF LRUInv
<1>. QED
  BY <1>1, MoveFront

LEMMA LRUStep ==
    ASSUME CacheType, FreshInv, LRUInv, Next
    PROVE  LRUInv'
<1>1. ASSUME UNCHANGED cache PROVE LRUInv'
  BY <1>1 DEF cache, LRUInv
<1>2. /\ order \in Seq(Keys) /\ Distinct(order) /\ Len(order) \in Nat /\ Len(order) <= maxEntries
      /\ \A k \in Keys : entries[k] # NoEntry <=> Holds(order, k)
      /\ Ordered(order, recency)
      /\ \A k : Holds(order, k) => k \in Keys
  <2>1. order \in Seq(Keys)
    BY DEF LRUInv
  <2>2. /\ Distinct(order) /\ Len(order) <= maxEntries
        /\ \A k \in Keys : entries[k] # NoEntry <=> Holds(order, k)
        /\ Ordered(order, recency)
    BY DEF LRUInv, LRUAs
  <2>3. Len(order) \in Nat /\ \A i \in 1 .. Len(order) : order[i] \in Keys
    BY <2>1
  <2>4. \A k : Holds(order, k) => k \in Keys
    BY <2>3 DEF Holds
  <2>. QED
    BY <2>1, <2>2, <2>3, <2>4
<1>3. ASSUME order' \in Seq(Keys), Distinct(order'), Len(order') <= maxEntries,
             \A k \in Keys : entries'[k] # NoEntry <=> Holds(order', k),
             Ordered(order', recency'),
             recency' \in Seq(Keys), Distinct(recency'), \A x \in Keys : Holds(recency', x)
      PROVE  LRUInv'
  BY <1>3 DEF LRUInv, LRUAs
<1>4. ASSUME NEW r \in Requests, NEW a \in Asked, GetHit(r, a) PROVE LRUInv'
  <2>. DEFINE k == cacheKey[a]
  <2>1. /\ k \in Keys /\ entries[k] # NoEntry /\ entries' = entries
        /\ order' = MoveToFront(order, k) /\ recency' = MoveToFront(recency, k)
    BY <1>4, Constants DEF GetHit
  <2>. HIDE DEF k
  <2>2. Holds(order, k)
    BY <1>2, <2>1
  <2>3. /\ order' \in Seq(Keys) /\ Len(order') = Len(order) /\ Distinct(order')
        /\ \A x : Holds(order', x) <=> Holds(order, x)
        /\ \A x, y : Before(order', x, y) <=> \/ x = k /\ Holds(order, y) /\ y # k
                                              \/ Before(order, x, y) /\ x # k /\ y # k
    BY <1>2, <2>1, <2>2, MoveFront
  <2>4. /\ recency' \in Seq(Keys) /\ Distinct(recency') /\ \A x \in Keys : Holds(recency', x)
        /\ \A x \in Keys \ {k} : Before(recency', k, x)
        /\ \A x, y : Before(recency, x, y) /\ x # k /\ y # k => Before(recency', x, y)
    BY <2>1, UsedNow
  <2>5. Ordered(order', recency')
    BY <1>2, <2>3, <2>4 DEF Ordered
  <2>6. \A x \in Keys : entries'[x] # NoEntry <=> Holds(order', x)
    BY <1>2, <2>1, <2>3
  <2>. QED
    BY <1>2, <1>3, <2>3, <2>4, <2>5, <2>6
<1>5. ASSUME NEW r \in Requests, NEW a \in Asked, GetExpired(r, a) PROVE LRUInv'
  <2>. DEFINE k == cacheKey[a]
  <2>1. /\ k \in Keys /\ entries[k] # NoEntry /\ entries' = [entries EXCEPT ![k] = NoEntry]
        /\ order' = removeElement(order, k) /\ recency' = recency
    BY <1>5, Constants DEF GetExpired
  <2>. HIDE DEF k
  <2>2. Holds(order, k)
    BY <1>2, <2>1
  <2>3. /\ order' \in Seq(Keys) /\ Len(order') = Len(order) - 1 /\ Distinct(order')
        /\ \A x : Holds(order', x) <=> Holds(order, x) /\ x # k
        /\ \A x, y : Before(order', x, y) <=> Before(order, x, y) /\ x # k /\ y # k
    BY <1>2, <2>1, <2>2, RemoveElement
  <2>4. Ordered(order', recency')
    BY <1>2, <2>1, <2>3 DEF Ordered
  <2>5. \A x \in Keys : entries'[x] # NoEntry <=> Holds(order', x)
    <3>1. DOMAIN entries = Keys
      BY DEF CacheType
    <3>. QED
      BY <1>2, <2>1, <2>3, <3>1
  <2>6. Len(order') <= maxEntries
    BY <1>2, <2>3, Constants
  <2>. QED
    BY <1>3, <2>1, <2>3, <2>4, <2>5, <2>6 DEF LRUInv
<1>6. ASSUME NEW r \in Requests, Store(r) PROVE LRUInv'
  <2>. DEFINE k == key(r)
              list == IF entries[k] # NoEntry THEN MoveToFront(order, k) ELSE <<k>> \o order
              n == IF Len(list) > maxEntries THEN maxEntries ELSE Len(list)
              e == [expires |-> expires[r], response |-> response[r]]
  <2>1. /\ order' = SubSeq(list, 1, n) /\ recency' = MoveToFront(recency, k) /\ pc[r] = "store"
        /\ entries' = [x \in Keys |-> CASE x = k -> e
                                        [] x # k /\ x \in ToSet(order') -> entries[x]
                                        [] OTHER -> NoEntry]
    BY <1>6 DEF Store
  <2>2. asked[r] \in Asked /\ response[r] \in Response /\ expires[r] \in Nat
    BY <2>1 DEF FreshInv, Fresh, Shows, CacheType
  <2>3. k \in Keys /\ e # NoEntry
    BY <2>2, Constants, NewEntry DEF key
  <2>. HIDE DEF e, k
  <2>4. /\ list \in Seq(Keys) /\ Len(list) \in Nat /\ Len(list) >= 1 /\ list[1] = k /\ Distinct(list)
        /\ \A x : Holds(list, x) <=> x = k \/ Holds(order, x)
        /\ \A x, y : Before(list, x, y) => \/ x = k /\ Holds(order, y) /\ y # k
                                           \/ Before(order, x, y) /\ x # k /\ y # k
    <3>1. CASE entries[k] # NoEntry
      <4>1. list = MoveToFront(order, k) /\ Holds(order, k)
        BY <1>2, <2>3, <3>1
      <4>. HIDE DEF list
      <4>2. /\ list \in Seq(Keys) /\ Len(list) = Len(order) /\ list[1] = k /\ Distinct(list)
            /\ \A x : Holds(list, x) <=> Holds(order, x)
            /\ \A x, y : Before(list, x, y) <=> \/ x = k /\ Holds(order, y) /\ y # k
                                                \/ Before(order, x, y) /\ x # k /\ y # k
        BY <1>2, <2>3, <4>1, MoveFront
      <4>3. Len(order) >= 1
        BY <1>2, <4>1 DEF Holds
      <4>. QED
        BY <1>2, <4>1, <4>2, <4>3
    <3>2. CASE entries[k] = NoEntry
      <4>1. list = Pushed(order, k) /\ ~Holds(order, k)
        BY <1>2, <2>3, <3>2 DEF Pushed
      <4>. HIDE DEF list
      <4>2. /\ list \in Seq(Keys) /\ Len(list) = Len(order) + 1 /\ list[1] = k /\ Distinct(list)
            /\ \A x : Holds(list, x) <=> x = k \/ Holds(order, x)
            /\ \A x, y : Before(list, x, y) <=> (x = k /\ Holds(order, y)) \/ Before(order, x, y)
        BY <1>2, <2>3, <4>1, PushFront
      <4>3. \A x, y : Before(order, x, y) => Holds(order, x) /\ Holds(order, y)
        BY DEF Before, Holds
      <4>4. Len(list) \in Nat /\ Len(list) >= 1
        BY <1>2, <4>2
      <4>5. \A x, y : Before(list, x, y) => \/ x = k /\ Holds(order, y) /\ y # k
                                            \/ Before(order, x, y) /\ x # k /\ y # k
        BY <4>1, <4>2, <4>3
      <4>. QED
        BY <4>2, <4>4, <4>5
    <3>. QED
      BY <3>1, <3>2
  <2>. HIDE DEF list
  <2>5. n \in 1 .. Len(list) /\ n <= maxEntries
    BY <2>4, Constants
  <2>. HIDE DEF n
  <2>6. /\ order' \in Seq(Keys) /\ Len(order') = n /\ order'[1] = list[1] /\ Distinct(order')
        /\ \A x : Holds(order', x) => Holds(list, x)
        /\ \A x, y : Before(order', x, y) => Before(list, x, y)
    <3>1. list \in Seq(Keys) /\ Distinct(list) /\ n \in 1 .. Len(list) /\ order' = SubSeq(list, 1, n)
      BY <2>1, <2>4, <2>5
    <3>. QED
      BY <3>1, CutTail
  <2>7. /\ recency' \in Seq(Keys) /\ Distinct(recency') /\ \A x \in Keys : Holds(recency', x)
        /\ \A x \in Keys \ {k} : Before(recency', k, x)
        /\ \A x, y : Before(recency, x, y) /\ x # k /\ y # k => Before(recency', x, y)
    BY <2>1, <2>3, UsedNow
  <2>8. Ordered(order', recency')
    BY <1>2, <2>4, <2>6, <2>7 DEF Ordered
  <2>9. Holds(order', k)
    <3>1. 1 \in 1 .. Len(order')
      BY <2>4, <2>5, <2>6
    <3>. QED
      BY <2>4, <2>6, <3>1 DEF Holds
  <2>10. \A x : x \in ToSet(order') <=> Holds(order', x)
    BY <2>6 DEF ToSet, Holds
  <2>11. ASSUME NEW x \in Keys PROVE entries'[x] # NoEntry <=> Holds(order', x)
    <3>1. CASE x = k
      BY <2>1, <2>3, <2>9, <3>1
    <3>2. CASE x # k /\ Holds(order', x)
      <4>1. entries'[x] = entries[x]
        BY <2>1, <2>10, <3>2
      <4>2. Holds(order, x)
        BY <2>4, <2>6, <3>2
      <4>. QED
        BY <1>2, <3>2, <4>1, <4>2
    <3>3. CASE x # k /\ ~Holds(order', x)
      BY <2>1, <2>10, <3>3
    <3>. QED
      BY <3>1, <3>2, <3>3
  <2>. QED
    BY <1>3, <2>5, <2>6, <2>7, <2>8, <2>11
<1>. QED
  BY <1>1, <1>4, <1>5, <1>6
  DEF Next, GetMiss, Enter, Post, Respond, Forward, Stamp, Written, Served, Tick, cache

\* The gateway's cache never holds more than its limit, the list and the map
\* hold the same keys, and the list has them in the order of their last use,
\* so that what a new response pushes out is the least recently used.
THEOREM CacheIsLRU == Spec => []BoundedLRU
<1>1. CacheType /\ FreshInv /\ LRUInv /\ [Next]_vars => LRUInv'
  <2>1. CASE Next
    BY <2>1, LRUStep
  <2>2. CASE UNCHANGED vars
    BY <2>2 DEF vars, cache, LRUInv
  <2>. QED
    BY <2>1, <2>2
<1>2. LRUInv => BoundedLRU
  BY InOrder DEF LRUInv
<1>. QED
  BY <1>1, <1>2, LRUStarts, CacheInvariant, PTL DEF Spec

----------------------------------------------------------------------------
(***************************************************************************)
(* The pool. The counter runs from 0 to 2^Width - 1 and starts again; in a *)
(* lap every backend has had its turn as often as every other, or once     *)
(* more. What the laps before added can be one request apart per lap.      *)
(***************************************************************************)
Places == 0 .. Backends - 1

\* Where a pool with counter n, p picks and shares s stands: laps of the
\* counter, full rounds and turns of this lap, and each backend's requests of
\* the laps before.
Standing(n, p, s, laps, rounds, turns, before) ==
    /\ p = laps * 2^Width + n
    /\ n = rounds * Backends + turns /\ turns < Backends
    /\ \A b \in Places : s[b] = before[b] + rounds + (IF b < turns THEN 1 ELSE 0)
    /\ \A b, c \in Places : before[b] <= before[c] + laps

PoolInv ==
    /\ next \in Nat /\ next < 2^Width /\ picks \in Nat /\ share \in [Places -> Nat]
    /\ \E laps, rounds, turns \in Nat : \E before \in [Places -> Nat] :
            Standing(next, picks, share, laps, rounds, turns, before)

\* Quotient and remainder.
LEMMA Quotient ==
    ASSUME NEW w \in Nat \ {0}, NEW a \in Nat, NEW r \in Nat, r < w
    PROVE  (a * w + r) \div w = a /\ (a * w + r) % w = r
<1> DEFINE n == a * w + r
           d == n \div w
           m == n % w
<1>1. n \in Nat
  OBVIOUS
<1> HIDE DEF n
<1>2. d \in Nat /\ m \in Nat /\ m < w /\ n = d * w + m
  BY <1>1
<1> HIDE DEF d, m
<1>3. a * w + r = d * w + m
  BY <1>2 DEF n
<1>4. ASSUME NEW x \in Nat, NEW y \in Nat, x > y
      PROVE  x * w >= y * w + w
  <2>1. PICK k \in Nat : x = y + 1 + k
    <3>1. x - y - 1 \in Nat /\ x = y + 1 + (x - y - 1)
      BY <1>4
    <3> QED
      BY <3>1
  <2>2. x * w = y * w + w + k * w
    BY <2>1
  <2>3. k * w \in Nat /\ y * w \in Nat
    OBVIOUS
  <2> QED
    BY <2>2, <2>3
<1>5. a * w \in Nat /\ d * w \in Nat
  BY <1>2
<1>6. ~(a > d)
  BY <1>2, <1>3, <1>4, <1>5
<1>7. ~(d > a)
  BY <1>2, <1>3, <1>4, <1>5
<1>8. a = d
  BY <1>2, <1>6, <1>7
<1> QED
  BY <1>2, <1>3, <1>5, <1>8 DEF d, m, n

\* The counter goes on: one more turn of the same lap.
LEMMA PickOn ==
    ASSUME PoolInv, pick, next + 1 < 2^Width
    PROVE  PoolInv'
<1>1. /\ next \in Nat /\ picks \in Nat /\ share \in [Places -> Nat]
      /\ 2^Width \in Nat \ {0} /\ Backends \in Nat \ {0}
  BY RouteAssumption DEF PoolInv
<1>2. PICK laps \in Nat, rounds \in Nat, turns \in Nat, before \in [Places -> Nat] :
        Standing(next, picks, share, laps, rounds, turns, before)
  BY DEF PoolInv
<1>3. next % Backends = turns /\ turns \in Places
  <2>1. next = rounds * Backends + turns /\ turns < Backends
    BY <1>2 DEF Standing
  <2>2. (rounds * Backends + turns) % Backends = turns
    BY <1>1, <2>1, Quotient
  <2> QED
    BY <1>1, <2>1, <2>2 DEF Places
<1>4. next' = next + 1
  <2> DEFINE w == 2^Width
  <2>1. (0 * w + (next + 1)) % w = next + 1
    BY <1>1, Quotient
  <2> QED
    BY <1>1, <2>1 DEF pick
<1>5. /\ picks' = picks + 1 /\ share' = [share EXCEPT ![turns] = @ + 1]
  BY <1>3 DEF pick
<1>6. /\ next' \in Nat /\ next' < 2^Width /\ picks' \in Nat /\ share' \in [Places -> Nat]
  BY <1>1, <1>3, <1>4, <1>5
<1>7. picks' = laps * 2^Width + next'
  <2>1. laps * 2^Width \in Nat /\ picks = laps * 2^Width + next
    BY <1>1, <1>2 DEF Standing
  <2> QED
    BY <1>1, <1>4, <1>5, <2>1
<1>8. CASE turns + 1 < Backends
  <2>1. Standing(next', picks', share', laps, rounds, turns + 1, before)
    <3>1. next' = rounds * Backends + (turns + 1)
      BY <1>1, <1>2, <1>4 DEF Standing
    <3>2. ASSUME NEW b \in Places
          PROVE  share'[b] = before[b] + rounds + (IF b < turns + 1 THEN 1 ELSE 0)
      <4>1. share[b] = before[b] + rounds + (IF b < turns THEN 1 ELSE 0)
        BY <1>2 DEF Standing
      <4>2. b \in Nat /\ before[b] \in Nat
        BY <1>1 DEF Places
      <4> QED
        BY <1>1, <1>3, <1>5, <4>1, <4>2
    <3> QED
      BY <1>2, <1>7, <1>8, <3>1, <3>2 DEF Standing
  <2>2. laps \in Nat /\ rounds \in Nat /\ turns + 1 \in Nat
    OBVIOUS
  <2>3. \E l, q, t \in Nat : \E before2 \in [Places -> Nat] :
            Standing(next', picks', share', l, q, t, before2)
    BY <2>1, <2>2
  <2> QED
    BY <1>6, <2>3 DEF PoolInv
<1>9. CASE turns + 1 = Backends
  <2>1. Standing(next', picks', share', laps, rounds + 1, 0, before)
    <3>1. next' = (rounds + 1) * Backends + 0
      <4>1. next = rounds * Backends + turns /\ rounds * Backends \in Nat
        BY <1>1, <1>2 DEF Standing
      <4>2. (rounds + 1) * Backends = rounds * Backends + Backends
        BY <1>1
      <4> QED
        BY <1>1, <1>4, <1>9, <4>1, <4>2
    <3>2. ASSUME NEW b \in Places
          PROVE  share'[b] = before[b] + (rounds + 1) + (IF b < 0 THEN 1 ELSE 0)
      <4>1. share[b] = before[b] + rounds + (IF b < turns THEN 1 ELSE 0)
        BY <1>2 DEF Standing
      <4>2. b \in Nat /\ before[b] \in Nat /\ b <= turns
        BY <1>1, <1>9 DEF Places
      <4> QED
        BY <1>1, <1>3, <1>5, <4>1, <4>2
    <3> QED
      BY <1>1, <1>2, <1>7, <3>1, <3>2 DEF Standing
  <2>2. laps \in Nat /\ rounds + 1 \in Nat /\ 0 \in Nat
    OBVIOUS
  <2>3. \E l, q, t \in Nat : \E before2 \in [Places -> Nat] :
            Standing(next', picks', share', l, q, t, before2)
    BY <2>1, <2>2
  <2> QED
    BY <1>6, <2>3 DEF PoolInv
<1> QED
  BY <1>1, <1>2, <1>8, <1>9 DEF Standing

\* The counter wraps: a lap is over, and with it the backends may be one more
\* request apart.
LEMMA PickWraps ==
    ASSUME PoolInv, pick, next + 1 = 2^Width
    PROVE  PoolInv'
<1>1. /\ next \in Nat /\ picks \in Nat /\ share \in [Places -> Nat]
      /\ 2^Width \in Nat \ {0} /\ Backends \in Nat \ {0}
  BY RouteAssumption DEF PoolInv
<1>2. PICK laps \in Nat, rounds \in Nat, turns \in Nat, before \in [Places -> Nat] :
        Standing(next, picks, share, laps, rounds, turns, before)
  BY DEF PoolInv
<1>3. next % Backends = turns /\ turns \in Places
  <2>1. next = rounds * Backends + turns /\ turns < Backends
    BY <1>2 DEF Standing
  <2>2. (rounds * Backends + turns) % Backends = turns
    BY <1>1, <2>1, Quotient
  <2> QED
    BY <1>1, <2>1, <2>2 DEF Places
<1>4. next' = 0
  <2> DEFINE w == 2^Width
  <2>1. (1 * w + 0) % w = 0
    BY <1>1, Quotient
  <2> QED
    BY <1>1, <2>1 DEF pick
<1>5. /\ picks' = picks + 1 /\ share' = [share EXCEPT ![turns] = @ + 1]
  BY <1>3 DEF pick
<1>6. /\ next' \in Nat /\ next' < 2^Width /\ picks' \in Nat /\ share' \in [Places -> Nat]
  BY <1>1, <1>3, <1>4, <1>5
<1>7. picks' = (laps + 1) * 2^Width + next'
  <2>1. laps * 2^Width \in Nat /\ picks = laps * 2^Width + next
    BY <1>1, <1>2 DEF Standing
  <2>2. (laps + 1) * 2^Width = laps * 2^Width + 2^Width
    BY <1>1
  <2> QED
    BY <1>1, <1>4, <1>5, <2>1, <2>2
<1>8. ASSUME NEW b \in Places, NEW c \in Places
      PROVE  share'[b] <= share'[c] + (laps + 1)
  <2>1. /\ share[b] = before[b] + rounds + (IF b < turns THEN 1 ELSE 0)
        /\ share[c] = before[c] + rounds + (IF c < turns THEN 1 ELSE 0)
        /\ before[b] <= before[c] + laps
    BY <1>2 DEF Standing
  <2>2. b \in Nat /\ c \in Nat /\ before[b] \in Nat /\ before[c] \in Nat
    BY <1>1 DEF Places
  <2>3. /\ share'[b] = before[b] + rounds + (IF b <= turns THEN 1 ELSE 0)
        /\ share'[c] = before[c] + rounds + (IF c <= turns THEN 1 ELSE 0)
    BY <1>1, <1>3, <1>5, <2>1, <2>2
  <2> QED
    BY <2>1, <2>2, <2>3
<1>9. Standing(next', picks', share', laps + 1, 0, 0, share')
  <2>1. next' = 0 * Backends + 0
    BY <1>1, <1>4
  <2>2. \A b \in Places : share'[b] = share'[b] + 0 + (IF b < 0 THEN 1 ELSE 0)
    BY <1>6 DEF Places
  <2> QED
    BY <1>1, <1>7, <1>8, <2>1, <2>2 DEF Standing
<1>10. \E l, q, t \in Nat : \E before2 \in [Places -> Nat] :
            Standing(next', picks', share', l, q, t, before2)
  <2>1. laps + 1 \in Nat /\ 0 \in Nat /\ share' \in [Places -> Nat]
    BY <1>6
  <2> QED
    BY <1>9, <2>1
<1> QED
  BY <1>6, <1>10 DEF PoolInv

\* The gateway's round robin stays even: however requests interleave, two
\* backends are at most one request apart, and one more for each time the
\* counter wrapped (pool.pick), for any pool and any width of the counter.
THEOREM RoundRobinIsFair == Spec => []RoundRobinBound
<1>1. Init => PoolInv
  <2> SUFFICES ASSUME Init PROVE PoolInv
    OBVIOUS
  <2>1. 2^Width \in Nat \ {0} /\ Backends \in Nat \ {0}
    BY RouteAssumption
  <2>2. share = [b \in Places |-> 0] /\ next = 0 /\ picks = 0
    BY DEF Init, Places
  <2>3. share \in [Places -> Nat]
    BY <2>2
  <2>4. 0 * 2^Width = 0 /\ 0 * Backends = 0
    BY <2>1
  <2>5. Standing(next, picks, share, 0, 0, 0, share)
    BY <2>1, <2>2, <2>4 DEF Standing, Places
  <2> QED
    BY <2>1, <2>2, <2>3, <2>5 DEF PoolInv
<1>2. PoolInv /\ [Next]_vars => PoolInv'
  <2> SUFFICES ASSUME PoolInv, [Next]_vars PROVE PoolInv'
    OBVIOUS
  <2>1. pick \/ UNCHANGED pool
    <3>1. CASE UNCHANGED vars
      BY <3>1 DEF vars
    <3>2. ASSUME NEW r \in Requests, NEW a, GetHit(r, a) \/ GetExpired(r, a) \/ GetMiss(r, a)
          PROVE  UNCHANGED pool
      BY <3>2 DEF GetHit, GetExpired, GetMiss, Enter
    <3>3. ASSUME NEW r \in Requests, Forward(r) \/ \E a \in Posted : Post(r, a)
          PROVE  pick
      BY <3>3 DEF Forward, Post
    <3>4. ASSUME NEW r \in Requests,
                 \/ \E kind \in {"storable", "refused"} : Respond(r, kind)
                 \/ Stamp(r) \/ Store(r) \/ Written(r) \/ Served(r)
          PROVE  UNCHANGED pool
      BY <3>4 DEF Respond, Stamp, Store, Written, Served
    <3>5. CASE Tick
      BY <3>5 DEF Tick
    <3> QED
      BY <3>1, <3>2, <3>3, <3>4, <3>5 DEF Next
  <2>2. CASE UNCHANGED pool
    BY <2>2 DEF pool, PoolInv
  <2>3. CASE pick
    <3>1. next + 1 < 2^Width \/ next + 1 = 2^Width
      BY RouteAssumption DEF PoolInv
    <3> QED
      BY <2>3, <3>1, PickOn, PickWraps
  <2> QED
    BY <2>1, <2>2, <2>3
<1>3. PoolInv => RoundRobinBound
  <2> SUFFICES ASSUME PoolInv, NEW b \in Places, NEW c \in Places
               PROVE  share[b] <= share[c] + 1 + picks \div 2^Width
    BY DEF PoolInv, RoundRobinBound
  <2>1. PICK laps \in Nat, rounds \in Nat, turns \in Nat, before \in [Places -> Nat] :
          Standing(next, picks, share, laps, rounds, turns, before)
    BY DEF PoolInv
  <2>2. 2^Width \in Nat \ {0} /\ next \in Nat /\ next < 2^Width
    BY RouteAssumption DEF PoolInv
  <2>3. picks \div 2^Width = laps
    BY <2>1, <2>2, Quotient DEF Standing
  <2>4. /\ share[b] = before[b] + rounds + (IF b < turns THEN 1 ELSE 0)
        /\ share[c] = before[c] + rounds + (IF c < turns THEN 1 ELSE 0)
        /\ before[b] <= before[c] + laps
    BY <2>1 DEF Standing
  <2>5. before[b] \in Nat /\ before[c] \in Nat
    OBVIOUS
  <2> QED
    BY <2>3, <2>4, <2>5
<1> QED
  BY <1>1, <1>2, <1>3, PTL DEF Spec

----------------------------------------------------------------------------
(***************************************************************************)
(* The rate limiter. An admission belongs to a window; a window is at      *)
(* least as long as the shortest one set, and opens after the one before   *)
(* it has ended. So of any 2 * limit + 1 admissions in a row the first     *)
(* lies two windows before the last, with a whole window between them.     *)
(***************************************************************************)
\* What the largest limit lets through in one window.
AtLeast0(n) == IF n > 0 THEN n ELSE 0

LimiterType ==
    /\ limit \in Int /\ per \in Nat \ {0} /\ time \in Nat
    /\ clients \in [Clients -> [count : Nat, reset : Int]]
    /\ step \in [Handlers -> {"idle", "limit", "window", "lock", "passed", "rejected"}]
    /\ client \in [Handlers -> Clients]
    /\ lim \in [Handlers -> Int] /\ len \in [Handlers -> Nat]
    /\ apc \in [Admins -> {"idle", "window", "setLimit", "setWindow", "done"}]
    /\ update \in [Admins -> rateLimitUpdate]
    /\ alim \in [Admins -> Int] /\ aper \in [Admins -> Int]
    /\ admitted \in [Clients -> Seq(Nat)]
    /\ maxLimit \in Int /\ minPer \in Nat \ {0}

\* What a request has loaded is within what was ever set.
Loaded ==
    /\ limit <= maxLimit /\ minPer <= per
    /\ \A r \in Handlers :
        /\ step[r] \in {"window", "lock"} => lim[r] <= maxLimit
        /\ step[r] = "lock" => minPer <= len[r]

\* The admissions a of a client up to now: in order, and 2 * m of them lead from
\* any of them to one that is more than n later.
Spread(a, now0, m, n) ==
    /\ \A i, j \in 1 .. Len(a) : i <= j => a[i] <= a[j]
    /\ \A i \in 1 .. Len(a) : a[i] <= now0
    /\ \A i, j \in 1 .. Len(a) : i + 2 * m <= j => a[i] + n < a[j]

\* The window that ends at e was opened at o, after all but the last c of
\* the admissions; those up to p are a whole window older, and those between
\* are no more than one window admits.
Opened(a, c, e, now0, m, n, o, p) ==
    /\ c <= m /\ c <= Len(a)
    /\ p + c <= Len(a) /\ Len(a) - c - p <= m
    /\ \A i \in 1 .. Len(a) : i <= p => a[i] + n < o
    /\ \A i \in 1 .. Len(a) : i + c <= Len(a) => a[i] < o
    /\ o <= now0 /\ o + n <= e
    /\ \A i \in 1 .. Len(a) : a[i] <= e

Windowed(a, w, now0, m, n) ==
    IF w = NoWindow THEN a = <<>>
    ELSE \E o, p \in Nat : Opened(a, w.count, w.reset, now0, m, n, o, p)

LimiterInv ==
    /\ LimiterType /\ Loaded
    /\ \A c \in Clients :
        /\ Spread(admitted[c], time, AtLeast0(maxLimit), minPer)
        /\ Windowed(admitted[c], clients[c], time, AtLeast0(maxLimit), minPer)

\* A nonempty set of natural numbers has a least one.
LEMMA LeastOf ==
    ASSUME NEW S \in SUBSET Nat, S # {}
    PROVE  \E x \in S : \A y \in S : x <= y
<1>1. PICK x \in S : \A y \in S : ~(<<y, x>> \in OpToRel(<, Nat))
  BY NatLessThanWellFounded, WFMin
<1>2. \A y \in S : ~(y < x)
  BY <1>1 DEF OpToRel
<1>. QED
  BY <1>2

\* A larger limit, a shorter window and a later time change nothing.
LEMMA StillSpread ==
    ASSUME NEW a \in Seq(Nat), NEW t \in Nat, NEW m \in Nat, NEW n \in Nat,
           NEW u \in Nat, NEW l \in Nat, NEW k \in Nat, t <= u, m <= l, k <= n,
           Spread(a, t, m, n)
    PROVE  Spread(a, u, l, k)
<1>. USE DEF Spread
<1>1. \A i \in 1 .. Len(a) : a[i] \in Nat
  OBVIOUS
<1>2. \A i, j \in 1 .. Len(a) : i <= j => a[i] <= a[j]
  OBVIOUS
<1>3. \A i \in 1 .. Len(a) : a[i] <= u
  BY <1>1
<1>4. ASSUME NEW i \in 1 .. Len(a), NEW j \in 1 .. Len(a), i + 2 * l <= j PROVE a[i] + k < a[j]
  <2>1. i + 2 * m <= j
    BY <1>4
  <2>. QED
    BY <1>1, <2>1
<1>. QED
  BY <1>2, <1>3, <1>4

LEMMA StillOpened ==
    ASSUME NEW a \in Seq(Nat), NEW c \in Nat, NEW e \in Int, NEW o \in Nat, NEW p \in Nat,
           NEW t \in Nat, NEW m \in Nat, NEW n \in Nat,
           NEW u \in Nat, NEW l \in Nat, NEW k \in Nat, t <= u, m <= l, k <= n,
           Opened(a, c, e, t, m, n, o, p)
    PROVE  Opened(a, c, e, u, l, k, o, p)
<1>1. \A i \in 1 .. Len(a) : a[i] \in Nat
  OBVIOUS
<1>2. ASSUME NEW i \in 1 .. Len(a), i <= p PROVE a[i] + k < o
  <2>1. a[i] + n < o /\ a[i] \in Nat
    BY <1>1, <1>2 DEF Opened
  <2>. QED
    BY <2>1
<1>. QED
  BY <1>2 DEF Opened

LEMMA StillWindowed ==
    ASSUME NEW a \in Seq(Nat), NEW w \in [count : Nat, reset : Int],
           NEW t \in Nat, NEW m \in Nat, NEW n \in Nat,
           NEW u \in Nat, NEW l \in Nat, NEW k \in Nat, t <= u, m <= l, k <= n,
           Windowed(a, w, t, m, n)
    PROVE  Windowed(a, w, u, l, k)
<1>1. CASE w = NoWindow
  BY <1>1 DEF Windowed
<1>2. CASE w # NoWindow
  <2>1. PICK o \in Nat, p \in Nat : Opened(a, w.count, w.reset, t, m, n, o, p)
    BY <1>2 DEF Windowed
  <2>2. w.count \in Nat /\ w.reset \in Int
    OBVIOUS
  <2>3. Opened(a, w.count, w.reset, u, l, k, o, p)
    BY <2>1, <2>2, StillOpened
  <2>. QED
    BY <1>2, <2>3 DEF Windowed
<1>. QED
  BY <1>1, <1>2

\* A window that is over makes room for a new one.
LEMMA NextOpened ==
    ASSUME NEW a \in Seq(Nat), NEW c \in Nat, NEW e \in Int, NEW o \in Nat, NEW p \in Nat,
           NEW t \in Nat, NEW m \in Nat, NEW n \in Nat, NEW k \in Nat, n <= k, e < t,
           Opened(a, c, e, t, m, n, o, p)
    PROVE  Len(a) - c \in Nat /\ Opened(a, 0, t + k, t, m, n, t, Len(a) - c)
<1>1. (\A i \in 1 .. Len(a) : a[i] \in Nat) /\ Len(a) \in Nat
  OBVIOUS
<1>2. c <= Len(a) /\ c <= m /\ o + n <= e
  BY DEF Opened
<1>3. ASSUME NEW i \in 1 .. Len(a) PROVE a[i] < t /\ a[i] <= t + k
  <2>1. a[i] <= e /\ a[i] \in Nat
    BY <1>1 DEF Opened
  <2>. QED
    BY <2>1
<1>4. ASSUME NEW i \in 1 .. Len(a), i <= Len(a) - c PROVE a[i] + n < t
  <2>1. i + c <= Len(a)
    BY <1>1, <1>4
  <2>2. a[i] < o /\ a[i] \in Nat
    BY <1>1, <2>1 DEF Opened
  <2>. QED
    BY <1>2, <2>2
<1>5. Len(a) - c \in Nat
  BY <1>1, <1>2
<1>. QED
  BY <1>1, <1>2, <1>3, <1>4, <1>5 DEF Opened

LEMMA WindowOpens ==
    ASSUME NEW a \in Seq(Nat), NEW w \in [count : Nat, reset : Int], NEW t \in Nat,
           NEW m \in Nat, NEW n \in Nat, NEW k \in Nat, n <= k,
           Windowed(a, w, t, m, n), w = NoWindow \/ t > w.reset
    PROVE  Windowed(a, [count |-> 0, reset |-> t + k], t, m, n)
<1>. DEFINE new == [count |-> 0, reset |-> t + k]
<1>1. new # NoWindow /\ new.count = 0 /\ new.reset = t + k
  BY DEF NoWindow
<1>. HIDE DEF new
<1>2. CASE w = NoWindow
  <2>1. a = <<>> /\ Len(a) = 0
    BY <1>2 DEF Windowed
  <2>2. Opened(a, 0, t + k, t, m, n, t, 0)
    BY <2>1 DEF Opened
  <2>. QED
    BY <1>1, <2>2 DEF Windowed, new
<1>3. CASE w # NoWindow
  <2>1. PICK o \in Nat, p \in Nat : Opened(a, w.count, w.reset, t, m, n, o, p)
    BY <1>3 DEF Windowed
  <2>2. w.count \in Nat /\ w.reset \in Int /\ w.reset < t
    BY <1>3
  <2>3. Len(a) - w.count \in Nat /\ Opened(a, 0, t + k, t, m, n, t, Len(a) - w.count)
    BY <2>1, <2>2, NextOpened
  <2>. QED
    BY <1>1, <2>3 DEF Windowed, new
<1>. QED
  BY <1>2, <1>3

\* A request is let through while the window is not full.
Longer(a, b, t) == Len(b) = Len(a) + 1 /\ (\A i \in 1 .. Len(a) : b[i] = a[i]) /\ b[Len(b)] = t

LEMMA OneMore ==
    ASSUME NEW a \in Seq(Nat), NEW b \in Seq(Nat), NEW c \in Nat, NEW e \in Int,
           NEW o \in Nat, NEW p \in Nat, NEW t \in Nat, NEW m \in Nat, NEW n \in Nat,
           t <= e, c < m, Opened(a, c, e, t, m, n, o, p), Spread(a, t, m, n),
           Longer(a, b, t)
    PROVE  Opened(b, c + 1, e, t, m, n, o, p) /\ Spread(b, t, m, n)
<1>1. Len(a) \in Nat /\ Len(b) = Len(a) + 1 /\ b[Len(a) + 1] = t
  BY DEF Longer
<1>2. \A i \in 1 .. Len(a) : a[i] \in Nat
  OBVIOUS
<1>3. ASSUME NEW i \in 1 .. Len(b) PROVE i \in 1 .. Len(a) \/ i = Len(a) + 1
  <2>. DEFINE k == Len(a)
  <2>1. k \in Nat /\ i \in 1 .. k + 1
    BY <1>1
  <2>. HIDE DEF k
  <2>2. i \in 1 .. k \/ i = k + 1
    BY <2>1
  <2>. QED
    BY <2>2 DEF k
<1>4. o <= t /\ o + n <= e /\ p + c <= Len(a) /\ Len(a) - c - p <= m
  BY DEF Opened
<1>5. ASSUME NEW i \in 1 .. Len(b)
      PROVE  /\ i <= p => b[i] + n < o
             /\ i + (c + 1) <= Len(b) => b[i] < o
             /\ b[i] <= e /\ b[i] <= t
  <2>1. CASE i \in 1 .. Len(a)
    <3>1. i + (c + 1) <= Len(b) => i + c <= Len(a)
      BY <1>1, <2>1
    <3>2. b[i] = a[i]
      BY <2>1 DEF Longer
    <3>. QED
      BY <2>1, <3>1, <3>2 DEF Opened, Spread
  <2>2. CASE i = Len(a) + 1
    <3>1. b[i] = t /\ ~(i <= p) /\ ~(i + (c + 1) <= Len(b))
      BY <1>1, <1>4, <2>2
    <3>. QED
      BY <3>1
  <2>. QED
    BY <1>3, <2>1, <2>2
<1>6. Opened(b, c + 1, e, t, m, n, o, p)
  <2>1. /\ c + 1 <= m /\ c + 1 <= Len(b) /\ p + (c + 1) <= Len(b) /\ Len(b) - (c + 1) - p <= m
        /\ o <= t /\ o + n <= e
    BY <1>1, <1>4
  <2>. QED
    BY <1>5, <2>1 DEF Opened
<1>7. ASSUME NEW i \in 1 .. Len(b), NEW j \in 1 .. Len(b)
      PROVE  (i <= j => b[i] <= b[j]) /\ (i + 2 * m <= j => b[i] + n < b[j])
  <2>1. CASE j \in 1 .. Len(a) /\ i \in 1 .. Len(a)
    BY <2>1 DEF Spread, Longer
  <2>2. CASE j = Len(a) + 1 /\ i \in 1 .. Len(a)
    <3>1. b[j] = t /\ b[i] = a[i] /\ a[i] <= t
      BY <1>1, <2>2 DEF Spread, Longer
    <3>2. ASSUME i + 2 * m <= j PROVE a[i] + n < t
      <4>1. i <= p
        BY <1>1, <1>4, <2>2, <3>2
      <4>. DEFINE x == a[i]
      <4>2. x + n < o /\ x \in Nat
        BY <1>2, <2>2, <4>1 DEF Opened
      <4>. HIDE DEF x
      <4>3. x + n < t
        BY <1>4, <4>2
      <4>. QED
        BY <4>3 DEF x
    <3>. QED
      BY <3>1, <3>2
  <2>3. CASE i = Len(a) + 1
    <3>1. j = i \/ ~(i <= j)
      BY <1>1, <2>3
    <3>2. ~(i + 2 * m <= j)
      BY <1>1, <2>3, <3>1
    <3>3. b[i] = t
      BY <1>1, <2>3
    <3>. QED
      BY <3>1, <3>2, <3>3
  <2>. QED
    BY <1>3, <2>1, <2>2, <2>3
<1>8. Spread(b, t, m, n)
  BY <1>5, <1>7 DEF Spread
<1>. QED
  BY <1>6, <1>8

LEMMA WindowAdmits ==
    ASSUME NEW a \in Seq(Nat), NEW w \in [count : Nat, reset : Int], NEW t \in Nat,
           NEW m \in Nat, NEW n \in Nat,
           w # NoWindow, t <= w.reset, w.count < m,
           Windowed(a, w, t, m, n), Spread(a, t, m, n)
    PROVE  LET b == Append(a, t)  new == [w EXCEPT !.count = @ + 1] IN
           /\ b \in Seq(Nat) /\ new \in [count : Nat, reset : Int]
           /\ Windowed(b, new, t, m, n) /\ Spread(b, t, m, n)
<1>. DEFINE b == Append(a, t)
            new == [w EXCEPT !.count = @ + 1]
<1>1. /\ b \in Seq(Nat) /\ Len(b) = Len(a) + 1 /\ Len(a) \in Nat
      /\ Longer(a, b, t)
  BY DEF Longer
<1>2. w.count \in Nat /\ w.reset \in Int
  OBVIOUS
<1>3. new = [count |-> w.count + 1, reset |-> w.reset]
  OBVIOUS
<1>4. /\ new \in [count : Nat, reset : Int] /\ new.count = w.count + 1 /\ new.reset = w.reset
      /\ new # NoWindow
  BY <1>2, <1>3 DEF NoWindow
<1>. HIDE DEF b, new
<1>5. PICK o \in Nat, p \in Nat : Opened(a, w.count, w.reset, t, m, n, o, p)
  BY DEF Windowed
<1>6. Opened(b, w.count + 1, w.reset, t, m, n, o, p) /\ Spread(b, t, m, n)
  BY <1>1, <1>2, <1>5, OneMore
<1>7. Windowed(b, new, t, m, n)
  BY <1>4, <1>6 DEF Windowed
<1>. QED
  BY <1>1, <1>4, <1>6, <1>7 DEF b, new

\* The admissions within n of u.
Within(a, u, n) == {i \in DOMAIN a : u <= a[i] /\ a[i] <= u + n}

\* A stretch of time that long has no more than two windows' admissions.
LEMMA SpreadIsBound ==
    ASSUME NEW a \in Seq(Nat), NEW t \in Nat, NEW m \in Nat, NEW n \in Nat, NEW u \in Nat,
           Spread(a, t, m, n)
    PROVE  Cardinality(Within(a, u, n)) <= 2 * m
<1>. DEFINE S == Within(a, u, n)
<1>1. S \in SUBSET Nat /\ S \subseteq 1 .. Len(a) /\ \A i \in S : a[i] \in Nat /\ u <= a[i] /\ a[i] <= u + n
  BY DEF Within
<1>. HIDE DEF S
<1>2. CASE S = {}
  BY <1>2, FS_EmptySet DEF S
<1>3. CASE S # {}
  <2>1. PICK f \in S : \A i \in S : f <= i
    BY <1>1, <1>3, LeastOf
  <2>2. S \subseteq f .. f + 2 * m - 1
    <3>. SUFFICES ASSUME NEW i \in S, ~(i <= f + 2 * m - 1) PROVE FALSE
      BY <1>1, <2>1
    <3>1. f + 2 * m <= i
      BY <1>1, <2>1
    <3>. DEFINE x == a[f]
                y == a[i]
    <3>2. x + n < y
      BY <1>1, <2>1, <3>1 DEF Spread
    <3>3. u <= x /\ x \in Nat /\ y <= u + n /\ y \in Nat
      BY <1>1, <2>1
    <3>. HIDE DEF x, y
    <3>. QED
      BY <3>2, <3>3
  <2>. DEFINE I == f .. f + 2 * m - 1
  <2>3. IsFiniteSet(I) /\ Cardinality(I) = 2 * m
    <3>1. f \in Int /\ f + 2 * m - 1 \in Int /\ m \in Int
      BY <1>1, <2>1
    <3>2. IsFiniteSet(I) /\ Cardinality(I) = IF f > f + 2 * m - 1 THEN 0 ELSE f + 2 * m - 1 - f + 1
      BY <3>1, FS_Interval
    <3>. QED
      BY <1>1, <3>1, <3>2
  <2>. HIDE DEF I
  <2>4. Cardinality(S) <= Cardinality(I)
    BY <2>2, <2>3, FS_Subset DEF I
  <2>. QED
    BY <2>3, <2>4 DEF S
<1>. QED
  BY <1>2, <1>3

\* The admissions and the windows of all clients.
ClientsInv ==
    \A c \in Clients :
        /\ Spread(admitted[c], time, AtLeast0(maxLimit), minPer)
        /\ Windowed(admitted[c], clients[c], time, AtLeast0(maxLimit), minPer)

LEMMA ClientsKept ==
    ASSUME LimiterType, LimiterType', ClientsInv, UNCHANGED <<clients, admitted>>,
           time <= time', maxLimit <= maxLimit', minPer' <= minPer
    PROVE  ClientsInv'
<1>. DEFINE m == AtLeast0(maxLimit)
            l == AtLeast0(maxLimit')
<1>1. m \in Nat /\ l \in Nat /\ m <= l
  BY DEF LimiterType, AtLeast0
<1>2. time \in Nat /\ time' \in Nat /\ minPer \in Nat /\ minPer' \in Nat
  BY DEF LimiterType
<1>. HIDE DEF m, l
<1>3. ASSUME NEW c \in Clients
      PROVE  Spread(admitted[c], time', l, minPer') /\ Windowed(admitted[c], clients[c], time', l, minPer')
  <2>1. admitted[c] \in Seq(Nat) /\ clients[c] \in [count : Nat, reset : Int]
    BY DEF LimiterType
  <2>2. Spread(admitted[c], time, m, minPer) /\ Windowed(admitted[c], clients[c], time, m, minPer)
    BY DEF ClientsInv, m
  <2>3. Spread(admitted[c], time', l, minPer')
    BY <1>1, <1>2, <2>1, <2>2, StillSpread
  <2>4. Windowed(admitted[c], clients[c], time', l, minPer')
    BY <1>1, <1>2, <2>1, <2>2, StillWindowed
  <2>. QED
    BY <2>3, <2>4
<1>. QED
  BY <1>3 DEF ClientsInv, l

LEMMA LimiterStarts ==
    ASSUME NewRateLimiter
    PROVE  LimiterInv
<1>. USE RateLimiterAssumption DEF NewRateLimiter
<1>1. /\ limit = Limit0 /\ limit \in Int /\ per = Window0 /\ per \in Nat \ {0} /\ time = 0
      /\ maxLimit = limit /\ minPer = per
  OBVIOUS
<1>2. LimiterType
  BY <1>1 DEF LimiterType, NoWindow, NoUpdate, rateLimitUpdate
<1>3. Loaded
  BY <1>1 DEF Loaded
<1>4. ClientsInv
  BY DEF ClientsInv, Spread, Windowed
<1>. QED
  BY <1>2, <1>3, <1>4 DEF LimiterInv, ClientsInv

\* allow: in its window, or in a new one.
LEMMA DecideKeeps ==
    ASSUME LimiterType, Loaded, ClientsInv, NEW r \in Handlers, Decide(r)
    PROVE  LimiterType' /\ Loaded' /\ ClientsInv'
<1>. DEFINE k == client[r]
            w == clients[k]
            a == admitted[k]
            v == windowOf(r)
            m == AtLeast0(maxLimit)
            more == [v EXCEPT !.count = @ + 1]
<1>1. /\ k \in Clients /\ w \in [count : Nat, reset : Int] /\ a \in Seq(Nat)
      /\ time \in Nat /\ len[r] \in Nat /\ lim[r] \in Int /\ maxLimit \in Int /\ minPer \in Nat \ {0}
  BY DEF LimiterType
<1>2. step[r] = "lock" /\ lim[r] <= maxLimit /\ minPer <= len[r]
  BY DEF Decide, Loaded
<1>3. m \in Nat /\ maxLimit <= m
  BY <1>1 DEF AtLeast0
<1>4. Spread(a, time, m, minPer) /\ Windowed(a, w, time, m, minPer)
  BY <1>1 DEF ClientsInv
<1>5. /\ v = IF w = NoWindow \/ time > w.reset
             THEN [count |-> 0, reset |-> time + len[r]] ELSE w
  BY DEF windowOf
<1>6. /\ UNCHANGED <<limit, per, time, client, lim, len, maxLimit, minPer>>
      /\ UNCHANGED <<apc, update, alim, aper>>
      /\ \/ /\ v.count >= lim[r]
            /\ clients' = [clients EXCEPT ![k] = v] /\ admitted' = admitted
            /\ step' = [step EXCEPT ![r] = "rejected"]
         \/ /\ v.count < lim[r]
            /\ clients' = [clients EXCEPT ![k] = more]
            /\ admitted' = [admitted EXCEPT ![k] = Append(a, time)]
            /\ step' = [step EXCEPT ![r] = "passed"]
  BY DEF Decide, admin
<1>. HIDE DEF k, w, a, v, m, more
<1>7. /\ v \in [count : Nat, reset : Int] /\ v # NoWindow /\ time <= v.reset
      /\ Windowed(a, v, time, m, minPer)
  <2>1. CASE w = NoWindow \/ time > w.reset
    <3>1. v = [count |-> 0, reset |-> time + len[r]]
      BY <1>5, <2>1
    <3>2. Windowed(a, [count |-> 0, reset |-> time + len[r]], time, m, minPer)
      BY <1>1, <1>2, <1>3, <1>4, <2>1, WindowOpens
    <3>3. time + len[r] \in Int /\ time <= time + len[r] /\ time + len[r] # -1
      BY <1>1
    <3>. QED
      BY <3>1, <3>2, <3>3 DEF NoWindow
  <2>2. CASE ~(w = NoWindow \/ time > w.reset)
    <3>1. v = w /\ w.reset \in Int
      BY <1>1, <1>5, <2>2
    <3>. QED
      BY <1>1, <1>4, <2>2, <3>1
  <2>. QED
    BY <2>1, <2>2
<1>8. CASE /\ v.count >= lim[r]
           /\ clients' = [clients EXCEPT ![k] = v] /\ admitted' = admitted
           /\ step' = [step EXCEPT ![r] = "rejected"]
  <2>1. LimiterType'
    BY <1>1, <1>6, <1>7, <1>8 DEF LimiterType
  <2>2. Loaded'
    BY <1>6, <1>8 DEF Loaded, LimiterType
  <2>3. ASSUME NEW c \in Clients
        PROVE  Spread(admitted'[c], time, m, minPer) /\ Windowed(admitted'[c], clients'[c], time, m, minPer)
    <3>1. CASE c = k
      BY <1>1, <1>4, <1>7, <1>8, <3>1 DEF LimiterType, a
    <3>2. CASE c # k
      BY <1>8, <2>3, <3>2 DEF LimiterType, ClientsInv, m
    <3>. QED
      BY <3>1, <3>2
  <2>. QED
    BY <1>6, <2>1, <2>2, <2>3 DEF ClientsInv, m
<1>9. CASE /\ v.count < lim[r]
           /\ clients' = [clients EXCEPT ![k] = more]
           /\ admitted' = [admitted EXCEPT ![k] = Append(a, time)]
           /\ step' = [step EXCEPT ![r] = "passed"]
  <2>1. v.count < m
    <3>1. v.count \in Nat
      BY <1>7
    <3>. QED
      BY <1>1, <1>2, <1>3, <1>9, <3>1
  <2>2. /\ Append(a, time) \in Seq(Nat) /\ more \in [count : Nat, reset : Int]
        /\ Windowed(Append(a, time), more, time, m, minPer) /\ Spread(Append(a, time), time, m, minPer)
    BY <1>1, <1>3, <1>4, <1>7, <2>1, WindowAdmits DEF more
  <2>3. LimiterType'
    BY <1>1, <1>6, <1>9, <2>2 DEF LimiterType
  <2>4. Loaded'
    BY <1>6, <1>9 DEF Loaded, LimiterType
  <2>5. ASSUME NEW c \in Clients
        PROVE  Spread(admitted'[c], time, m, minPer) /\ Windowed(admitted'[c], clients'[c], time, m, minPer)
    <3>1. CASE c = k
      <4>1. admitted'[k] = Append(a, time) /\ clients'[k] = more
        BY <1>1, <1>9 DEF LimiterType
      <4>. QED
        BY <2>2, <3>1, <4>1
    <3>2. CASE c # k
      BY <1>9, <2>5, <3>2 DEF LimiterType, ClientsInv, m
    <3>. QED
      BY <3>1, <3>2
  <2>. QED
    BY <1>6, <2>3, <2>4, <2>5 DEF ClientsInv, m
<1>. QED
  BY <1>6, <1>8, <1>9

\* A request on its way to the mutex, or back.
LEMMA RequestKeeps ==
    ASSUME LimiterType, Loaded, ClientsInv, NEW r \in Handlers,
           \/ \E c \in Clients : Arrive(r, c)
           \/ LoadLimit(r) \/ LoadWindow(r) \/ Answer(r)
    PROVE  LimiterType' /\ Loaded' /\ ClientsInv'
<1>. USE DEF admin, history
<1>1. CASE \E c \in Clients : Arrive(r, c)
  <2>1. LimiterType' /\ Loaded'
    BY <1>1 DEF Arrive, LimiterType, Loaded
  <2>2. UNCHANGED <<clients, admitted, time, maxLimit, minPer>>
    BY <1>1 DEF Arrive
  <2>. QED
    BY <2>1, <2>2 DEF ClientsInv
<1>2. CASE LoadLimit(r)
  <2>1. LimiterType' /\ Loaded'
    BY <1>2 DEF LoadLimit, LimiterType, Loaded
  <2>2. UNCHANGED <<clients, admitted, time, maxLimit, minPer>>
    BY <1>2 DEF LoadLimit
  <2>. QED
    BY <2>1, <2>2 DEF ClientsInv
<1>3. CASE LoadWindow(r)
  <2>1. LimiterType' /\ Loaded'
    BY <1>3 DEF LoadWindow, LimiterType, Loaded
  <2>2. UNCHANGED <<clients, admitted, time, maxLimit, minPer>>
    BY <1>3 DEF LoadWindow
  <2>. QED
    BY <2>1, <2>2 DEF ClientsInv
<1>4. CASE Answer(r)
  <2>1. LimiterType' /\ Loaded'
    BY <1>4 DEF Answer, LimiterType, Loaded
  <2>2. UNCHANGED <<clients, admitted, time, maxLimit, minPer>>
    BY <1>4 DEF Answer
  <2>. QED
    BY <2>1, <2>2 DEF ClientsInv
<1>. QED
  BY <1>1, <1>2, <1>3, <1>4

\* An admin call: a larger limit counts, and so does a shorter window.
LEMMA AdminKeeps ==
    ASSUME LimiterType, Loaded, ClientsInv, NEW a \in Admins,
           \/ \E b \in Bodies : AdminReadLimit(a, b)
           \/ AdminReadWindow(a) \/ SetLimit(a) \/ SetWindow(a)
           \/ AdminRespond(a)
    PROVE  LimiterType' /\ Loaded' /\ ClientsInv'
<1>. USE DEF handler, history
<1>1. CASE \E b \in Bodies : AdminReadLimit(a, b)
  <2>1. PICK b \in Bodies : AdminReadLimit(a, b)
    BY <1>1
  <2>2. b \in rateLimitUpdate /\ b.limit \in Int
    BY RateLimiterAssumption DEF rateLimitUpdate
  <2>3. UNCHANGED <<limit, per, clients, admitted, time, maxLimit, minPer, step, client, lim, len, aper>>
    BY <2>1 DEF AdminReadLimit
  <2>4. LimiterType'
    BY <2>1, <2>2, <2>3 DEF AdminReadLimit, LimiterType
  <2>. QED
    BY <2>3, <2>4 DEF ClientsInv, Loaded
<1>2. CASE AdminReadWindow(a)
  <2>1. update[a] \in rateLimitUpdate /\ update[a].window \in Int
    BY DEF LimiterType, rateLimitUpdate
  <2>2. UNCHANGED <<limit, per, clients, admitted, time, maxLimit, minPer, step, client, lim, len,
                    update, alim>>
    BY <1>2 DEF AdminReadWindow
  <2>3. LimiterType'
    BY <1>2, <2>1, <2>2 DEF AdminReadWindow, LimiterType
  <2>. QED
    BY <2>2, <2>3 DEF ClientsInv, Loaded
<1>3. CASE SetLimit(a)
  <2>1. /\ UNCHANGED <<per, clients, admitted, time, minPer, step, client, lim, len, update, alim, aper>>
        /\ limit' = alim[a] /\ alim[a] \in Int /\ maxLimit \in Int
        /\ maxLimit' = IF alim[a] > maxLimit THEN alim[a] ELSE maxLimit
        /\ apc' = [apc EXCEPT ![a] = "setWindow"]
    BY <1>3 DEF SetLimit, LimiterType
  <2>2. maxLimit' \in Int /\ maxLimit <= maxLimit' /\ limit' <= maxLimit'
    BY <2>1
  <2>3. LimiterType'
    BY <2>1, <2>2 DEF LimiterType
  <2>4. Loaded'
    BY <2>1, <2>2 DEF Loaded, LimiterType
  <2>5. time <= time' /\ minPer' <= minPer
    BY <2>1 DEF LimiterType
  <2>. QED
    BY <2>1, <2>2, <2>3, <2>4, <2>5, ClientsKept
<1>4. CASE SetWindow(a)
  <2>1. /\ UNCHANGED <<limit, clients, admitted, time, maxLimit, step, client, lim, len, update, alim, aper>>
        /\ aper[a] \in Int /\ per \in Nat \ {0} /\ minPer \in Nat \ {0} /\ minPer <= per
        /\ per' = IF aper[a] > 0 THEN aper[a] ELSE per
        /\ minPer' = IF aper[a] > 0 /\ aper[a] < minPer THEN aper[a] ELSE minPer
        /\ apc' = [apc EXCEPT ![a] = "done"]
    BY <1>4 DEF SetWindow, LimiterType, Loaded
  <2>2. minPer' \in Nat \ {0} /\ per' \in Nat \ {0} /\ minPer' <= minPer /\ minPer' <= per'
    BY <2>1
  <2>3. LimiterType'
    BY <2>1, <2>2 DEF LimiterType
  <2>4. Loaded'
    BY <2>1, <2>2 DEF Loaded, LimiterType
  <2>5. time <= time' /\ maxLimit <= maxLimit'
    BY <2>1 DEF LimiterType
  <2>. QED
    BY <2>1, <2>2, <2>3, <2>4, <2>5, ClientsKept
<1>5. CASE AdminRespond(a)
  <2>1. UNCHANGED <<limit, per, clients, admitted, time, maxLimit, minPer, step, client, lim, len>>
    BY <1>5 DEF AdminRespond
  <2>2. LimiterType'
    BY <1>5, <2>1 DEF AdminRespond, LimiterType, NoUpdate, rateLimitUpdate
  <2>. QED
    BY <2>1, <2>2 DEF ClientsInv, Loaded
<1>. QED
  BY <1>1, <1>2, <1>3, <1>4, <1>5

LEMMA LimiterSteps ==
    ASSUME LimiterInv, [LimiterNext]_limiterVars
    PROVE  LimiterInv'
<1>1. LimiterType /\ Loaded /\ ClientsInv
  BY DEF LimiterInv, ClientsInv
<1>2. SUFFICES LimiterType' /\ Loaded' /\ ClientsInv'
  BY DEF LimiterInv, ClientsInv
<1>3. CASE UNCHANGED limiterVars
  BY <1>1, <1>3 DEF limiterVars, handler, admin, history,
                    LimiterType, Loaded, ClientsInv
<1>4. CASE Advance
  <2>1. /\ UNCHANGED <<limit, per, clients, admitted, maxLimit, minPer, step, client, lim, len,
                       apc, update, alim, aper>>
        /\ time' = time + 1
    BY <1>4 DEF Advance, handler, admin, history
  <2>2. LimiterType' /\ Loaded'
    BY <1>1, <2>1 DEF LimiterType, Loaded
  <2>3. time <= time' /\ maxLimit <= maxLimit' /\ minPer' <= minPer
    BY <1>1, <2>1 DEF LimiterType
  <2>. QED
    BY <1>1, <2>1, <2>2, <2>3, ClientsKept
<1>5. CASE \E r \in Handlers : Decide(r)
  BY <1>1, <1>5, DecideKeeps
<1>6. CASE \E r \in Handlers :
              \/ \E c \in Clients : Arrive(r, c)
              \/ LoadLimit(r) \/ LoadWindow(r) \/ Answer(r)
  BY <1>1, <1>6, RequestKeeps
<1>7. CASE \E a \in Admins :
              \/ \E b \in Bodies : AdminReadLimit(a, b)
              \/ AdminReadWindow(a) \/ SetLimit(a) \/ SetWindow(a)
              \/ AdminRespond(a)
  BY <1>1, <1>7, AdminKeeps
<1>. QED
  BY <1>3, <1>4, <1>5, <1>6, <1>7 DEF LimiterNext

\* No stretch of time as long as the shortest window sees more of a client's
\* requests pass allow than two windows let through, whatever admin calls change
\* while requests are between their loads and the mutex, for any clients,
\* requests, limits and windows.
THEOREM BurstsAreBounded == LimiterSpec => []BurstBound
<1>1. NewRateLimiter => LimiterInv
  BY LimiterStarts
<1>2. LimiterInv /\ [LimiterNext]_limiterVars => LimiterInv'
  BY LimiterSteps
<1>3. LimiterInv => BurstBound
  <2>. SUFFICES ASSUME LimiterInv, NEW c \in Clients, NEW t \in Times
                PROVE  burst(c, t) <= 2 * Max({maxLimit, 0})
    BY DEF BurstBound
  <2>1. /\ admitted[c] \in Seq(Nat) /\ time \in Nat /\ maxLimit \in Int /\ minPer \in Nat
        /\ AtLeast0(maxLimit) \in Nat /\ Spread(admitted[c], time, AtLeast0(maxLimit), minPer)
    BY DEF LimiterInv, LimiterType, AtLeast0
  <2>2. t \in Nat
    BY RateLimiterAssumption DEF Times
  <2>3. burst(c, t) <= 2 * AtLeast0(maxLimit)
    <3>. DEFINE S == Within(admitted[c], t, minPer)
    <3>1. burst(c, t) = Cardinality(S)
      BY DEF burst, Within
    <3>2. Cardinality(S) <= 2 * AtLeast0(maxLimit)
      BY <2>1, <2>2, SpreadIsBound
    <3>. HIDE DEF S
    <3>. QED
      BY <3>1, <3>2
  <2>4. Max({maxLimit, 0}) = AtLeast0(maxLimit)
    <3>1. AtLeast0(maxLimit) \in {maxLimit, 0} /\ \A y \in {maxLimit, 0} : AtLeast0(maxLimit) >= y
      BY <2>1 DEF AtLeast0
    <3>2. \A x \in {maxLimit, 0} : (\A y \in {maxLimit, 0} : x >= y) => x = AtLeast0(maxLimit)
      BY <2>1 DEF AtLeast0
    <3>. QED
      BY <3>1, <3>2 DEF Max
  <2>. QED
    BY <2>3, <2>4
<1>. QED
  BY <1>1, <1>2, <1>3, PTL DEF LimiterSpec
====
