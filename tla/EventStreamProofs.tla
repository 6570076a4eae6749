-------------------------- MODULE EventStreamProofs --------------------------
(***************************************************************************)
(* Proofs about EventStream, for any connections, mounts, events and       *)
(* faults.                                                                 *)
(***************************************************************************)
EXTENDS EventStream, FiniteSetTheorems, SequenceTheorems, TLAPS

----------------------------------------------------------------------------
(***************************************************************************)
(* The hub's list of clients                                               *)
(***************************************************************************)

\* The list has no duplicates and holds the connections none of whose close
\* handlers has run.
HubInv ==
    /\ handlers \in [Streams -> SUBSET Handlers]
    /\ clients \in Seq(Streams)
    /\ \A i, j \in 1 .. Len(clients) : clients[i] = clients[j] => i = j
    /\ \A s \in Streams : (\E i \in 1 .. Len(clients) : clients[i] = s) <=> handlers[s] = Handlers

LEMMA RemoveAtProperties ==
    ASSUME NEW S, NEW q \in Seq(S), NEW i \in 1 .. Len(q)
    PROVE  /\ RemoveAt(q, i) \in Seq(S)
           /\ Len(RemoveAt(q, i)) = Len(q) - 1
           /\ \A j \in 1 .. Len(q) - 1 : RemoveAt(q, i)[j] = IF j < i THEN q[j] ELSE q[j + 1]
<1>. DEFINE front == SubSeq(q, 1, i - 1)
            back == SubSeq(q, i + 1, Len(q))
<1>1. front \in Seq(S) /\ Len(front) = i - 1 /\ \A j \in 1 .. i - 1 : front[j] = q[j]
  OBVIOUS
<1>2. back \in Seq(S) /\ Len(back) = Len(q) - i /\ \A j \in 1 .. Len(q) - i : back[j] = q[i + j]
  OBVIOUS
<1>3. RemoveAt(q, i) = front \o back
  BY DEF RemoveAt
<1>. HIDE DEF front, back
<1>4. /\ front \o back \in Seq(S) /\ Len(front \o back) = Len(q) - 1
      /\ \A j \in 1 .. Len(q) - 1 :
           (front \o back)[j] = IF j < i THEN front[j] ELSE back[j - i + 1]
  <2>1. /\ front \o back \in Seq(S) /\ Len(front \o back) = Len(front) + Len(back)
        /\ \A j \in 1 .. Len(front) + Len(back) :
             (front \o back)[j] = IF j <= Len(front) THEN front[j] ELSE back[j - Len(front)]
    BY <1>1, <1>2, ConcatProperties
  <2>. QED
    BY <1>1, <1>2, <2>1
<1>5. \A j \in 1 .. Len(q) - 1 : (front \o back)[j] = IF j < i THEN q[j] ELSE q[j + 1]
  <2>. TAKE j \in 1 .. Len(q) - 1
  <2>1. CASE j < i
    BY <1>1, <1>4, <2>1
  <2>2. CASE ~(j < i)
    <3>1. j - i + 1 \in 1 .. Len(q) - i /\ i + (j - i + 1) = j + 1
      BY <2>2
    <3>. QED
      BY <1>2, <1>4, <2>2, <3>1
  <2>. QED
    BY <2>1, <2>2
<1>. QED
  BY <1>3, <1>4, <1>5

\* removeClient takes the one place of the connection, or none.
LEMMA RemoveClient ==
    ASSUME HubInv, NEW s \in Streams, removeClient(s)
    PROVE  /\ clients' \in Seq(Streams)
           /\ \A i, j \in 1 .. Len(clients') : clients'[i] = clients'[j] => i = j
           /\ \A t \in Streams : (\E i \in 1 .. Len(clients') : clients'[i] = t)
                                    <=> t # s /\ \E i \in 1 .. Len(clients) : clients[i] = t
<1>1. CASE s \in ToSet(clients)
  <2>1. \E i \in 1 .. Len(clients) : clients[i] = s
    BY <1>1 DEF ToSet, HubInv
  <2>. DEFINE k == CHOOSE i \in 1 .. Len(clients) : clients[i] = s
  <2>2. k \in 1 .. Len(clients) /\ clients[k] = s
    BY <2>1
  <2>3. clients' = RemoveAt(clients, k)
    BY <1>1 DEF removeClient
  <2>. HIDE DEF k
  <2>4. /\ clients' \in Seq(Streams) /\ Len(clients') = Len(clients) - 1
        /\ \A j \in 1 .. Len(clients) - 1 : clients'[j] = IF j < k THEN clients[j] ELSE clients[j + 1]
    <3>1. clients \in Seq(Streams)
      BY DEF HubInv
    <3>. QED
      BY <2>2, <2>3, <3>1, RemoveAtProperties
  <2>5. Len(clients) \in Nat /\ \A i, j \in 1 .. Len(clients) : clients[i] = clients[j] => i = j
    BY DEF HubInv
  <2>6. ASSUME NEW i \in 1 .. Len(clients'), NEW j \in 1 .. Len(clients'), clients'[i] = clients'[j]
        PROVE  i = j
    BY <2>2, <2>4, <2>5, <2>6
  <2>7. ASSUME NEW t \in Streams, NEW i \in 1 .. Len(clients'), clients'[i] = t
        PROVE  t # s /\ \E j \in 1 .. Len(clients) : clients[j] = t
    <3>1. CASE i < k
      BY <2>2, <2>4, <2>5, <2>7, <3>1
    <3>2. CASE ~(i < k)
      BY <2>2, <2>4, <2>5, <2>7, <3>2
    <3>. QED
      BY <3>1, <3>2
  <2>8. ASSUME NEW t \in Streams, t # s, NEW j \in 1 .. Len(clients), clients[j] = t
        PROVE  \E i \in 1 .. Len(clients') : clients'[i] = t
    <3>1. CASE j < k
      <4>1. j \in 1 .. Len(clients') /\ clients'[j] = t
        BY <2>2, <2>4, <2>5, <2>8, <3>1
      <4>. QED
        BY <4>1
    <3>2. CASE j > k
      <4>1. j - 1 \in 1 .. Len(clients') /\ clients'[j - 1] = t
        BY <2>2, <2>4, <2>5, <2>8, <3>2
      <4>. QED
        BY <4>1
    <3>. QED
      BY <2>2, <2>8, <3>1, <3>2
  <2>. QED
    BY <2>4, <2>6, <2>7, <2>8
<1>2. CASE s \notin ToSet(clients)
  <2>1. clients' = clients /\ \A i \in 1 .. Len(clients) : clients[i] # s
    BY <1>2 DEF removeClient, ToSet, HubInv
  <2>. QED
    BY <2>1 DEF HubInv
<1>. QED
  BY <1>1, <1>2

LEMMA HubStep ==
    ASSUME HubInv, [Next]_vars
    PROVE  HubInv'
<1>1. ASSUME NEW s \in Streams, addClient(s) PROVE HubInv'
  <2>1. /\ clients' = Append(clients, s) /\ handlers[s] = {}
        /\ handlers' = [handlers EXCEPT ![s] = Handlers]
    BY <1>1 DEF addClient
  <2>2. \A i \in 1 .. Len(clients) : clients[i] # s
    <3>1. Handlers # {}
      BY DEF Handlers
    <3>2. (\E i \in 1 .. Len(clients) : clients[i] = s) <=> handlers[s] = Handlers
      BY DEF HubInv
    <3>. QED
      BY <2>1, <3>1, <3>2
  <2>3. /\ clients' \in Seq(Streams) /\ Len(clients') = Len(clients) + 1 /\ Len(clients) \in Nat
        /\ clients'[Len(clients) + 1] = s
        /\ \A i \in 1 .. Len(clients) : clients'[i] = clients[i]
    BY <2>1 DEF HubInv
  <2>4. \A i, j \in 1 .. Len(clients') : clients'[i] = clients'[j] => i = j
    BY <2>2, <2>3 DEF HubInv
  <2>5. ASSUME NEW t \in Streams
        PROVE  (\E i \in 1 .. Len(clients') : clients'[i] = t) <=> handlers'[t] = Handlers
    <3>1. CASE t = s
      BY <2>1, <2>3, <3>1 DEF HubInv
    <3>2. CASE t # s
      BY <2>1, <2>3, <3>2 DEF HubInv
    <3>. QED
      BY <3>1, <3>2
  <2>6. handlers' \in [Streams -> SUBSET Handlers]
    BY <2>1 DEF HubInv
  <2>. QED
    BY <2>3, <2>4, <2>5, <2>6 DEF HubInv
<1>2. ASSUME NEW s \in Streams, NEW h \in Handlers, OnClose(s, h) PROVE HubInv'
  <2>1. h \in handlers[s] /\ handlers' = [handlers EXCEPT ![s] = @ \ {h}] /\ removeClient(s)
    BY <1>2 DEF OnClose
  <2>2. handlers'[s] # Handlers /\ handlers' \in [Streams -> SUBSET Handlers]
    BY <1>2, <2>1 DEF HubInv
  <2>3. \A t \in Streams \ {s} : handlers'[t] = handlers[t]
    BY <2>1 DEF HubInv
  <2>4. \A t \in Streams : (\E i \in 1 .. Len(clients) : clients[i] = t) <=> handlers[t] = Handlers
    BY DEF HubInv
  <2>. QED
    BY <2>1, <2>2, <2>3, <2>4, RemoveClient DEF HubInv
<1>3. CASE HubCrash
  <2>1. clients' = <<>> /\ handlers' = [s \in Streams |-> {}]
    BY <1>3 DEF HubCrash
  <2>. QED
    BY <2>1 DEF HubInv, Handlers
<1>4. CASE clients' = clients /\ handlers' = handlers
  BY <1>4 DEF HubInv
<1>5. ASSUME NEW s \in Streams, OnOpen(s) \/ OnError(s) \/ handleMessage(s) \/ Break(s)
      PROVE  clients' = clients /\ handlers' = handlers
  BY <1>5 DEF OnOpen, OnError, handleMessage, Break, hub
<1>6. CASE \/ \E r \in Runs : OnTimer(r)
           \/ \E post \in Posts : broadcast(post)
           \/ Mount \/ Unmount \/ HubStart \/ UNCHANGED vars
  BY <1>4, <1>6 DEF OnTimer, broadcast, Mount, Unmount, HubStart, vars, hub
<1>. QED
  BY <1>1, <1>2, <1>3, <1>4, <1>5, <1>6 DEF Next, Steps

LEMMA HubStarts == Init => HubInv
  BY DEF Init, HubInv, Handlers

LEMMA OneOrNone == HubInv => NobodyForgotten
<1>. SUFFICES ASSUME HubInv, NEW s \in Streams
              PROVE  Cardinality({i \in 1 .. Len(clients) : clients[i] = s})
                         = IF handlers[s] = Handlers THEN 1 ELSE 0
  BY DEF NobodyForgotten
<1>. DEFINE places == {i \in 1 .. Len(clients) : clients[i] = s}
<1>1. CASE handlers[s] = Handlers
  <2>1. PICK i \in 1 .. Len(clients) : clients[i] = s
    BY <1>1 DEF HubInv
  <2>2. places = {i}
    BY <2>1 DEF HubInv
  <2>3. Cardinality({i}) = 1
    BY FS_Singleton
  <2>. QED
    BY <1>1, <2>2, <2>3
<1>2. CASE handlers[s] # Handlers
  <2>1. places = {}
    BY <1>2 DEF HubInv
  <2>. QED
    BY <1>2, <2>1, FS_EmptySet
<1>. QED
  BY <1>1, <1>2

\* A connection is in the hub's list, once, from its acceptance until the first
\* of its close handlers has run, for any number of connections.
THEOREM NobodyIsForgotten == Spec => []NobodyForgotten
  BY HubStarts, HubStep, OneOrNone, PTL DEF Spec

----------------------------------------------------------------------------
(***************************************************************************)
(* The feeds                                                               *)
(***************************************************************************)
Item == [event : Nat, via : Nat \X Nat]

\* The type of what an event passes through.
FlowType ==
    /\ source \in [Streams -> {"closed", "connecting", "open"}]
    /\ owner \in [Streams -> Nat \X Nat]
    /\ wire \in [Streams -> Seq(Nat)]
    /\ timer \in [Runs -> Nat] /\ backoff \in [Mounts -> Nat]
    /\ mounts \in 0 .. MaxMounts
    /\ log \in Seq(Posts)
    /\ events \in [Channels -> Seq(Item)]

\* A run of the effect has one live object or a timer, not both; objects that
\* are closed carry nothing, and the hub writes only to live ones.
OwnerInv ==
    /\ \A s \in Streams : Live(s) => owner[s] \in Runs /\ owner[s][1] <= mounts /\ timer[owner[s]] = 0
    /\ \A s, t \in Streams : Live(s) /\ Live(t) /\ owner[s] = owner[t] => s = t
    /\ \A r \in Runs : r[1] > mounts => timer[r] = 0
    /\ \A s \in Streams : ~Live(s) => wire[s] = <<>>
    /\ \A s \in Streams : handlers[s] # {} /\ s \notin broken => Live(s)

\* What is under way is in order, and newer than what its run has shown.
WireInv ==
    /\ \A s \in Streams : \A i \in 1 .. Len(wire[s]) :
        /\ wire[s][i] <= Len(log)
        /\ \A j \in 1 .. Len(wire[s]) : i < j => wire[s][i] < wire[s][j]
    /\ \A c \in Channels : \A k \in 1 .. Len(events[c]) :
        /\ events[c][k].event <= Len(log)
        /\ \A s \in Streams : \A i \in 1 .. Len(wire[s]) :
             Live(s) /\ owner[s] = events[c][k].via /\ wire[s][i] # ConnectedEvent =>
                 events[c][k].event < wire[s][i]

FlowInv == HubInv /\ FlowType /\ OwnerInv /\ WireInv /\ FeedInOrder

LEMMA MountFacts ==
    /\ Streams \subseteq Nat /\ MaxMounts \in Nat /\ MAX_EVENTS \in Nat \ {0}
    /\ Mounts \subseteq Nat /\ Runs \subseteq Nat \X Nat /\ NoRun \in Nat \X Nat
    /\ \A r \in Runs : r[1] \in Mounts /\ r[1] \in Nat /\ r[2] \in Nat
<1>1. /\ Streams \subseteq Nat /\ MaxMounts \in Nat /\ MAX_EVENTS \in Nat \ {0}
      /\ Passes \subseteq Nat /\ Mounts \subseteq Nat
  BY EventStreamAssumption DEF Mounts
<1>2. \A r \in Runs : r = <<r[1], r[2]>> /\ r[1] \in Mounts /\ r[2] \in Passes
  BY DEF Runs
<1>3. NoRun \in Nat \X Nat
  BY DEF NoRun
<1>4. \A r \in Runs : r \in Nat \X Nat
  BY <1>1, <1>2
<1>. QED
  BY <1>1, <1>2, <1>3, <1>4

LEMMA ItemType ==
    ASSUME FlowType, NEW c \in Channels, NEW k \in 1 .. Len(events[c])
    PROVE  events[c][k].event \in Nat /\ events[c][k].via \in Nat \X Nat
<1>1. events[c] \in Seq(Item)
  BY DEF FlowType
<1>2. events[c][k] \in Item
  BY <1>1
<1>. QED
  BY <1>2 DEF Item

\* Steps that touch neither the wires nor the feeds nor the objects.
LEMMA FlowUnchanged ==
    ASSUME FlowInv, HubInv', UNCHANGED <<wire, source, owner, timer, backoff, mounts, log, events>>,
           broken \subseteq broken', \A s \in Streams : handlers'[s] \subseteq handlers[s]
    PROVE  FlowInv'
<1>1. FlowType' /\ FeedInOrder' /\ WireInv'
  BY DEF FlowInv, FlowType, FeedInOrder, WireInv, Live
<1>2. OwnerInv'
  BY DEF FlowInv, OwnerInv, Live
<1>. QED
  BY <1>1, <1>2 DEF FlowInv

\* New objects of runs that had none.
LEMMA ConnectOK ==
    ASSUME FlowInv, HubInv', NEW runs \in SUBSET Runs, connect(runs),
           \A r, q \in runs : r # q => r[2] < q[2] \/ q[2] < r[2],
           mounts' \in mounts .. MaxMounts, \A r \in runs : r[1] <= mounts',
           \A r \in Runs : mounts < r[1] /\ r[1] <= mounts' => r \in runs,
           timer' \in [Runs -> Nat], \A r \in runs : timer'[r] = 0,
           \A r \in Runs \ runs : timer'[r] = timer[r],
           \A s \in Streams : Live(s) => owner[s] \notin runs,
           UNCHANGED <<hub, backoff, log, feed>>
    PROVE  FlowInv'
<1>1. PICK at \in [runs -> {s \in Streams : Free(s)}] :
        /\ \A r, q \in runs : r[2] < q[2] => at[r] < at[q]
        /\ source' = [s \in Streams |-> IF s \in {at[r] : r \in runs} THEN "connecting" ELSE source[s]]
        /\ owner' = [s \in Streams |-> IF s \in {at[r] : r \in runs} THEN CHOOSE r \in runs : at[r] = s
                                       ELSE owner[s]]
        /\ broken' = broken \ {at[r] : r \in runs}
        /\ wire' = wire
  BY DEF connect
<1>. DEFINE opened == {at[r] : r \in runs}
<1>2. \A s \in opened : s \in Streams /\ wire[s] = <<>> /\ ~Live(s)
  BY <1>1 DEF FlowInv, OwnerInv, Free, Live
<1>3. \A t \in Streams \ opened : source'[t] = source[t] /\ owner'[t] = owner[t]
  BY <1>1
<1>4. \A s \in opened : source'[s] = "connecting" /\ owner'[s] \in runs /\ at[owner'[s]] = s
  <2>. SUFFICES ASSUME NEW s \in opened
                PROVE  source'[s] = "connecting" /\ owner'[s] \in runs /\ at[owner'[s]] = s
    OBVIOUS
  <2>1. \E r \in runs : at[r] = s
    OBVIOUS
  <2>2. owner'[s] = CHOOSE r \in runs : at[r] = s
    BY <1>1, <1>2
  <2>3. source'[s] = "connecting"
    BY <1>1, <1>2
  <2>. QED
    BY <2>1, <2>2, <2>3
<1>. HIDE DEF opened
<1>5. \A t \in Streams : Live(t)' <=> t \in opened \/ Live(t)
  BY <1>3, <1>4 DEF Live
<1>6. FlowType'
  <2>1. source' \in [Streams -> {"closed", "connecting", "open"}]
    BY <1>1 DEF FlowInv, FlowType
  <2>2. owner' \in [Streams -> Nat \X Nat]
    <3>1. \A s \in Streams : owner'[s] \in Nat \X Nat
      BY <1>3, <1>4, MountFacts DEF FlowInv, FlowType
    <3>. QED
      BY <1>1, <3>1
  <2>3. mounts' \in 0 .. MaxMounts
    BY MountFacts DEF FlowInv, FlowType
  <2>. QED
    BY <1>1, <2>1, <2>2, <2>3 DEF FlowInv, FlowType, feed
<1>7. OwnerInv'
  <2>1. mounts \in Nat /\ mounts' \in Nat /\ mounts <= mounts' /\ \A r \in Runs : r[1] \in Nat
    BY MountFacts DEF FlowInv, FlowType
  <2>2. \A r \in Runs : r[1] > mounts' => r[1] > mounts /\ r \notin runs
    BY <2>1
  <2>3. \A t \in Streams : Live(t)' => owner'[t] \in Runs /\ owner'[t][1] <= mounts' /\ timer'[owner'[t]] = 0
    <3>. SUFFICES ASSUME NEW t \in Streams, Live(t)'
                  PROVE  owner'[t] \in Runs /\ owner'[t][1] <= mounts' /\ timer'[owner'[t]] = 0
      OBVIOUS
    <3>1. CASE t \in opened
      <4>1. owner'[t] \in runs /\ owner'[t] \in Runs
        BY <1>4, <3>1
      <4>2. timer'[owner'[t]] = 0
        BY <4>1
      <4>3. owner'[t][1] <= mounts'
        BY <4>1
      <4>. QED
        BY <4>1, <4>2, <4>3
    <3>2. CASE t \notin opened
      <4>1. owner'[t] = owner[t] /\ owner[t] \in Runs /\ owner[t][1] <= mounts /\ timer[owner[t]] = 0 /\ owner[t] \notin runs
        BY <1>3, <1>5, <3>2 DEF FlowInv, OwnerInv
      <4>2. timer'[owner[t]] = 0
        BY <4>1
      <4>3. owner[t][1] <= mounts'
        BY <2>1, <4>1
      <4>. QED
        BY <4>1, <4>2, <4>3
    <3>. QED
      BY <3>1, <3>2
  <2>4. \A t, u \in Streams : Live(t)' /\ Live(u)' /\ owner'[t] = owner'[u] => t = u
    BY <1>3, <1>4, <1>5 DEF FlowInv, OwnerInv
  <2>5. \A r \in Runs : r[1] > mounts' => timer'[r] = 0
    BY <2>2 DEF FlowInv, OwnerInv
  <2>6. \A t \in Streams : ~Live(t)' => wire'[t] = <<>>
    BY <1>1, <1>5 DEF FlowInv, OwnerInv
  <2>7. \A t \in Streams : handlers'[t] # {} /\ t \notin broken' => Live(t)'
    BY <1>1, <1>5 DEF FlowInv, OwnerInv, hub, opened
  <2>. QED
    BY <2>3, <2>4, <2>5, <2>6, <2>7 DEF OwnerInv
<1>8. WireInv'
  <2>1. \A t \in Streams : wire[t] # <<>> => (Live(t)' <=> Live(t)) /\ owner'[t] = owner[t]
    BY <1>2, <1>3, <1>5
  <2>2. \A t \in Streams : \A i \in 1 .. Len(wire[t]) : wire[t] # <<>>
    BY DEF FlowInv, FlowType
  <2>. QED
    BY <1>1, <2>1, <2>2 DEF FlowInv, WireInv, feed
<1>9. FeedInOrder'
  BY DEF FlowInv, FeedInOrder, feed
<1>. QED
  BY <1>6, <1>7, <1>8, <1>9 DEF FlowInv

LEMMA MountOK ==
    ASSUME FlowInv, HubInv', Mount \/ \E r \in Runs : OnTimer(r)
    PROVE  FlowInv'
<1>. USE DEF FlowInv, FlowType
<1>1. CASE Mount
  <2>. DEFINE runs == {mounts + 1} \X Passes
  <2>1. /\ mounts + 1 \in Mounts /\ mounts' = mounts + 1 /\ mounts' \in mounts .. MaxMounts
        /\ timer' = timer /\ connect(runs) /\ UNCHANGED <<hub, backoff, log, feed>>
    BY <1>1, MountFacts DEF Mount, Mounts
  <2>2. runs \in SUBSET Runs /\ \A r \in runs : r[1] = mounts + 1
    BY <2>1 DEF Runs
  <2>3. \A r \in runs : r[1] = mounts + 1 /\ ~(r[1] <= mounts)
    BY <2>1, <2>2, MountFacts
  <2>4. \A r, q \in runs : r # q => r[2] < q[2] \/ q[2] < r[2]
    <3>. SUFFICES ASSUME NEW r \in runs, NEW q \in runs, r # q PROVE r[2] < q[2] \/ q[2] < r[2]
      OBVIOUS
    <3>1. r = <<r[1], r[2]>> /\ q = <<q[1], q[2]>> /\ r[1] = q[1]
      BY <2>2
    <3>2. r[2] \in Nat /\ q[2] \in Nat
      BY <2>2, MountFacts
    <3>3. r[2] # q[2]
      BY <3>1, Zenon
    <3>4. \A i, j \in Nat : i # j => i < j \/ j < i
      OBVIOUS
    <3>. QED
      BY <3>2, <3>3, <3>4
  <2>5. ASSUME NEW r \in Runs, mounts < r[1], r[1] <= mounts' PROVE r \in runs
    <3>1. r[1] = mounts + 1
      BY <2>1, <2>5, MountFacts
    <3>. QED
      BY <3>1 DEF Runs
  <2>6. \A r \in runs : timer'[r] = 0 /\ r[1] <= mounts'
    BY <2>1, <2>2, <2>3, MountFacts DEF OwnerInv
  <2>7. \A s \in Streams : Live(s) => owner[s] \notin runs
    BY <2>3 DEF OwnerInv
  <2>. HIDE DEF runs
  <2>. QED
    BY <2>1, <2>2, <2>4, <2>5, <2>6, <2>7, ConnectOK
<1>2. ASSUME NEW r \in Runs, OnTimer(r) PROVE FlowInv'
  <2>. DEFINE runs == {r}
  <2>1. /\ timer[r] # 0 /\ timer' = [timer EXCEPT ![r] = 0] /\ mounts' = mounts
        /\ connect(runs) /\ UNCHANGED <<hub, backoff, log, feed>>
    BY <1>2 DEF OnTimer
  <2>2. r[1] <= mounts /\ \A s \in Streams : Live(s) => owner[s] \notin runs
    BY <2>1, MountFacts DEF OwnerInv
  <2>3. mounts' \in mounts .. MaxMounts /\ \A q \in runs : q[1] <= mounts'
    BY <2>1, <2>2, MountFacts
  <2>4. /\ timer' \in [Runs -> Nat] /\ \A q \in runs : timer'[q] = 0
        /\ \A q \in Runs \ runs : timer'[q] = timer[q]
    BY <2>1
  <2>5. /\ runs \in SUBSET Runs
        /\ \A p, q \in runs : p # q => p[2] < q[2] \/ q[2] < p[2]
    OBVIOUS
  <2>6. \A q \in Runs : mounts < q[1] /\ q[1] <= mounts' => q \in runs
    BY <2>1, MountFacts
  <2>. HIDE DEF runs
  <2>. QED
    BY <2>1, <2>2, <2>3, <2>4, <2>5, <2>6, ConnectOK
<1>. QED
  BY <1>1, <1>2

\* The hub accepts a connection: its wire begins anew.
LEMMA AddClientOK ==
    ASSUME FlowInv, HubInv', NEW s \in Streams, addClient(s)
    PROVE  FlowInv'
<1>. USE DEF FlowInv
<1>1. /\ source[s] = "connecting" /\ wire' = [wire EXCEPT ![s] = <<ConnectedEvent>>]
      /\ handlers' = [handlers EXCEPT ![s] = Handlers] /\ broken' = broken
      /\ UNCHANGED <<source, owner, timer, backoff, mounts, log, events>>
  BY DEF addClient, eventSource, hook, feed
<1>2. /\ <<ConnectedEvent>> \in Seq(Nat) /\ Len(<<ConnectedEvent>>) = 1 /\ <<ConnectedEvent>>[1] = 0
  BY DEF ConnectedEvent
<1>3. wire'[s] = <<ConnectedEvent>> /\ \A t \in Streams \ {s} : wire'[t] = wire[t]
  BY <1>1 DEF FlowType
<1>4. FlowType'
  BY <1>1, <1>2 DEF FlowType
<1>5. OwnerInv'
  <2>1. \A t \in Streams \ {s} : handlers'[t] = handlers[t]
    BY <1>1 DEF HubInv
  <2>2. Live(s)
    BY <1>1 DEF Live
  <2>. QED
    BY <1>1, <1>3, <2>1, <2>2 DEF OwnerInv, Live
<1>6. WireInv'
  <2>1. ASSUME NEW t \in Streams, NEW i \in 1 .. Len(wire'[t])
        PROVE  /\ wire'[t][i] <= Len(log)
               /\ \A j \in 1 .. Len(wire'[t]) : i < j => wire'[t][i] < wire'[t][j]
    <3>1. CASE t = s
      BY <1>2, <1>3, <2>1, <3>1 DEF FlowType
    <3>2. CASE t # s
      BY <1>3, <2>1, <3>2 DEF WireInv
    <3>. QED
      BY <3>1, <3>2
  <2>2. ASSUME NEW c \in Channels, NEW k \in 1 .. Len(events[c]),
               NEW t \in Streams, NEW i \in 1 .. Len(wire'[t]),
               Live(t), owner[t] = events[c][k].via, wire'[t][i] # ConnectedEvent
        PROVE  events[c][k].event < wire'[t][i]
    <3>1. t # s
      BY <1>2, <1>3, <2>2 DEF ConnectedEvent
    <3>. QED
      BY <1>3, <2>2, <3>1 DEF WireInv
  <2>. QED
    BY <1>1, <2>1, <2>2 DEF WireInv, Live
<1>7. FeedInOrder'
  BY <1>1 DEF FeedInOrder
<1>. QED
  BY <1>4, <1>5, <1>6, <1>7

\* A new event goes to the end of wires, and is newer than everything.
LEMMA BroadcastOK ==
    ASSUME FlowInv, HubInv', NEW post \in Posts, broadcast(post)
    PROVE  FlowInv'
<1>. USE DEF FlowInv
<1>. DEFINE n == Len(log)
<1>1. /\ wire' = [s \in Streams |-> IF s \in ToSet(clients) \ broken THEN Append(wire[s], n + 1) ELSE wire[s]]
      /\ log' = Append(log, post)
      /\ UNCHANGED <<handlers, clients, broken, source, owner, timer, backoff, mounts, events>>
  BY DEF broadcast, hub, eventSource, hook, feed
<1>2. n \in Nat /\ log \in Seq(Posts)
  BY DEF FlowType
<1>3. Len(log') = n + 1
  BY <1>1, <1>2
<1>4. \A s \in Streams : s \in ToSet(clients) \ broken => Live(s)
  <2>. SUFFICES ASSUME NEW s \in Streams, s \in ToSet(clients), s \notin broken PROVE Live(s)
    OBVIOUS
  <2>1. \E i \in 1 .. Len(clients) : clients[i] = s
    BY DEF ToSet, HubInv
  <2>2. handlers[s] = Handlers
    BY <2>1 DEF HubInv
  <2>3. handlers[s] # {}
    BY <2>2 DEF Handlers
  <2>. QED
    BY <2>3 DEF OwnerInv
<1>. HIDE DEF n
<1>5. \A s \in Streams :
        /\ wire'[s] \in Seq(Nat)
        /\ \/ wire'[s] = wire[s]
           \/ /\ Live(s) /\ Len(wire'[s]) = Len(wire[s]) + 1
              /\ wire'[s][Len(wire[s]) + 1] = n + 1
              /\ \A i \in 1 .. Len(wire[s]) : wire'[s][i] = wire[s][i]
  <2>. TAKE s \in Streams
  <2>1. wire[s] \in Seq(Nat)
    BY DEF FlowType
  <2>2. CASE s \in ToSet(clients) \ broken
    <3>1. wire'[s] = Append(wire[s], n + 1) /\ Live(s)
      BY <1>1, <1>4, <2>2
    <3>. QED
      BY <1>2, <2>1, <3>1
  <2>3. CASE s \notin ToSet(clients) \ broken
    BY <1>1, <2>1, <2>3
  <2>. QED
    BY <2>2, <2>3
<1>6. FlowType'
  <2>1. wire' \in [Streams -> Seq(Nat)]
    BY <1>1, <1>5
  <2>. QED
    BY <1>1, <1>2, <1>3, <2>1 DEF FlowType
<1>7. OwnerInv'
  BY <1>1, <1>5 DEF OwnerInv, Live
<1>8. WireInv'
  <2>1. ASSUME NEW s \in Streams, NEW i \in 1 .. Len(wire'[s])
        PROVE  /\ wire'[s][i] <= n + 1
               /\ \A j \in 1 .. Len(wire'[s]) : i < j => wire'[s][i] < wire'[s][j]
    <3>1. wire[s] \in Seq(Nat)
      BY DEF FlowType
    <3>2. \A k \in 1 .. Len(wire[s]) : wire[s][k] \in Nat /\ wire[s][k] <= n
      BY <3>1 DEF WireInv, n
    <3>3. \A k, j \in 1 .. Len(wire[s]) : k < j => wire[s][k] < wire[s][j]
      BY DEF WireInv
    <3>4. CASE wire'[s] = wire[s]
      BY <1>2, <2>1, <3>2, <3>3, <3>4
    <3>5. CASE wire'[s] # wire[s]
      <4>1. /\ Len(wire'[s]) = Len(wire[s]) + 1 /\ Len(wire[s]) \in Nat
            /\ wire'[s][Len(wire[s]) + 1] = n + 1
            /\ \A k \in 1 .. Len(wire[s]) : wire'[s][k] = wire[s][k]
        BY <1>5, <3>1, <3>5
      <4>2. \A k \in 1 .. Len(wire'[s]) : k \in 1 .. Len(wire[s]) \/ k = Len(wire[s]) + 1
        BY <4>1
      <4>3. wire'[s][i] <= n + 1 /\ (i \in 1 .. Len(wire[s]) => wire'[s][i] < n + 1)
        BY <1>2, <2>1, <3>2, <4>1, <4>2
      <4>4. ASSUME NEW j \in 1 .. Len(wire'[s]), i < j PROVE wire'[s][i] < wire'[s][j]
        <5>1. i \in 1 .. Len(wire[s])
          BY <2>1, <4>1, <4>4
        <5>2. CASE j \in 1 .. Len(wire[s])
          BY <3>3, <4>1, <4>4, <5>1, <5>2
        <5>3. CASE j = Len(wire[s]) + 1
          BY <4>1, <4>3, <5>1, <5>3
        <5>. QED
          BY <4>2, <4>4, <5>2, <5>3
      <4>. QED
        BY <4>3, <4>4
    <3>. QED
      BY <3>4, <3>5
  <2>2. ASSUME NEW c \in Channels, NEW k \in 1 .. Len(events[c])
        PROVE  /\ events[c][k].event <= n + 1
               /\ \A s \in Streams : \A i \in 1 .. Len(wire'[s]) :
                    Live(s) /\ owner[s] = events[c][k].via /\ wire'[s][i] # ConnectedEvent =>
                        events[c][k].event < wire'[s][i]
    <3>1. events[c][k].event \in Nat /\ events[c][k].event <= n
      BY <2>2, ItemType DEF WireInv, n
    <3>2. ASSUME NEW s \in Streams, NEW i \in 1 .. Len(wire'[s]),
                 Live(s), owner[s] = events[c][k].via, wire'[s][i] # ConnectedEvent
          PROVE  events[c][k].event < wire'[s][i]
      <4>0. wire[s] \in Seq(Nat)
        BY DEF FlowType
      <4>1. CASE wire'[s] = wire[s] \/ i \in 1 .. Len(wire[s])
        <5>1. i \in 1 .. Len(wire[s]) /\ wire'[s][i] = wire[s][i]
          BY <1>5, <3>2, <4>1
        <5>. QED
          BY <2>2, <3>2, <5>1 DEF WireInv
      <4>2. CASE ~(wire'[s] = wire[s] \/ i \in 1 .. Len(wire[s]))
        <5>1. wire'[s][i] = n + 1
          BY <1>5, <3>2, <4>0, <4>2
        <5>. QED
          BY <1>2, <3>1, <5>1
      <4>. QED
        BY <4>1, <4>2
    <3>. QED
      BY <1>2, <3>1, <3>2
  <2>3. /\ Len(log') = n + 1 /\ events' = events /\ mounts' = mounts
        /\ owner' = owner /\ \A s \in Streams : Live(s)' <=> Live(s)
    BY <1>1, <1>3 DEF Live
  <2>. HIDE DEF n
  <2>. QED
    BY <2>1, <2>2, <2>3 DEF WireInv
<1>9. FeedInOrder'
  BY <1>1 DEF FeedInOrder
<1>. QED
  BY <1>6, <1>7, <1>8, <1>9

\* An object opens, or fails and is closed.
LEMMA OpenOK ==
    ASSUME FlowInv, HubInv', NEW s \in Streams, OnOpen(s)
    PROVE  FlowInv'
<1>. USE DEF FlowInv
<1>1. /\ source[s] = "connecting" /\ source' = [source EXCEPT ![s] = "open"]
      /\ backoff' = [backoff EXCEPT ![owner[s][1]] = BACKOFF_INITIAL_MS]
      /\ UNCHANGED <<handlers, broken, wire, owner, timer, mounts, log, events>>
  BY DEF OnOpen, Mounted, hub, link, feed
<1>2. \A t \in Streams : Live(t)' <=> Live(t)
  BY <1>1 DEF Live, FlowType
<1>3. FlowType'
  BY <1>1, EventStreamAssumption DEF FlowType
<1>4. OwnerInv' /\ WireInv' /\ FeedInOrder'
  BY <1>1, <1>2 DEF OwnerInv, WireInv, FeedInOrder
<1>. QED
  BY <1>3, <1>4

LEMMA ErrorOK ==
    ASSUME FlowInv, HubInv', NEW s \in Streams, OnError(s)
    PROVE  FlowInv'
<1>. USE DEF FlowInv
<1>. DEFINE r == owner[s]
            m == r[1]
<1>1. /\ Live(s) /\ source' = [source EXCEPT ![s] = "closed"]
      /\ owner' = [owner EXCEPT ![s] = NoRun]
      /\ wire' = [wire EXCEPT ![s] = <<>>]
      /\ broken' = broken \cup {s}
      /\ backoff' = [backoff EXCEPT ![m] = min(2 * backoff[m], BACKOFF_MAX_MS)]
      /\ timer' = [timer EXCEPT ![r] = backoff[m]]
      /\ UNCHANGED <<handlers, mounts, log, events>>
  BY DEF OnError, Failed, Close, Schedule, Mounted, hub, feed
<1>2. r \in Runs /\ r[1] <= mounts
  BY <1>1 DEF OwnerInv
<1>3. m \in Mounts
  BY <1>2, MountFacts
<1>. HIDE DEF r, m
<1>4. /\ ~Live(s)' /\ wire'[s] = <<>>
      /\ \A t \in Streams \ {s} : (Live(t)' <=> Live(t)) /\ owner'[t] = owner[t] /\ wire'[t] = wire[t]
  BY <1>1 DEF Live, FlowType
<1>5. FlowType'
  <2>1. min(2 * backoff[m], BACKOFF_MAX_MS) \in Nat /\ backoff[m] \in Nat
    BY <1>3, EventStreamAssumption DEF min, FlowType
  <2>2. <<>> \in Seq(Nat)
    OBVIOUS
  <2>. QED
    BY <1>1, <2>1, <2>2, MountFacts DEF FlowType
<1>6. OwnerInv'
  <2>1. \A t \in Streams : Live(t)' => t # s /\ Live(t) /\ owner[t] # r
    BY <1>1, <1>4 DEF OwnerInv, r
  <2>2. \A q \in Runs \ {r} : timer'[q] = timer[q]
    BY <1>1 DEF FlowType
  <2>3. \A t \in Streams : Live(t)' => owner'[t] \in Runs /\ owner'[t][1] <= mounts /\ timer'[owner'[t]] = 0
    <3>. SUFFICES ASSUME NEW t \in Streams, Live(t)'
                  PROVE  owner'[t] \in Runs /\ owner'[t][1] <= mounts /\ timer'[owner'[t]] = 0
      OBVIOUS
    <3>1. owner'[t] = owner[t] /\ owner[t] \in Runs /\ owner[t][1] <= mounts /\ timer[owner[t]] = 0 /\ owner[t] # r
      BY <1>4, <2>1 DEF OwnerInv
    <3>. QED
      BY <2>2, <3>1
  <2>4. \A t, u \in Streams : Live(t)' /\ Live(u)' /\ owner'[t] = owner'[u] => t = u
    BY <1>4, <2>1 DEF OwnerInv
  <2>5. \A q \in Runs : q[1] > mounts => timer'[q] = 0
    BY <1>2, <2>2, MountFacts DEF OwnerInv, FlowType
  <2>6. \A t \in Streams : ~Live(t)' => wire'[t] = <<>>
    BY <1>4 DEF OwnerInv
  <2>7. \A t \in Streams : handlers'[t] # {} /\ t \notin broken' => Live(t)'
    BY <1>1, <1>4 DEF OwnerInv
  <2>. QED
    BY <1>1, <2>3, <2>4, <2>5, <2>6, <2>7 DEF OwnerInv
<1>7. WireInv'
  <2>1. \A t \in Streams : \A i \in 1 .. Len(wire'[t]) : t # s
    BY <1>4
  <2>. QED
    BY <1>1, <1>4, <2>1 DEF WireInv
<1>8. FeedInOrder'
  BY <1>1 DEF FeedInOrder
<1>. QED
  BY <1>5, <1>6, <1>7, <1>8

\* prependEvent puts the item in front, and cuts at the end.
LEMMA PrependProperties ==
    ASSUME NEW list \in Seq(Item), NEW item \in Item
    PROVE  LET new == prependEvent(list, item) IN
           /\ new \in Seq(Item)
           /\ new # <<>> => new[1] = item
           /\ \A i \in 1 .. Len(new) : i # 1 => i - 1 \in 1 .. Len(list) /\ new[i] = list[i - 1]
<1>. DEFINE one == <<item>>
<1>1. one \in Seq(Item) /\ Len(one) = 1 /\ one[1] = item
  OBVIOUS
<1>. HIDE DEF one
<1>. DEFINE next == one \o list
            n == min(Len(next), MAX_EVENTS)
<1>2. /\ next \in Seq(Item) /\ Len(next) = Len(one) + Len(list)
      /\ \A i \in 1 .. Len(one) + Len(list) :
           next[i] = IF i <= Len(one) THEN one[i] ELSE list[i - Len(one)]
  BY <1>1, ConcatProperties
<1>3. Len(list) \in Nat /\ Len(next) = Len(list) + 1
  BY <1>1, <1>2
<1>4. next[1] = item /\ \A i \in 2 .. Len(next) : next[i] = list[i - 1]
  BY <1>1, <1>2, <1>3
<1>5. prependEvent(list, item) = SubSeq(next, 1, n)
  BY DEF prependEvent, one
<1>. HIDE DEF next
<1>6. n \in Nat /\ n <= Len(next)
  BY <1>3, MountFacts DEF min
<1>. HIDE DEF n
<1>7. /\ SubSeq(next, 1, n) \in Seq(Item) /\ Len(SubSeq(next, 1, n)) = n
      /\ \A i \in 1 .. n : SubSeq(next, 1, n)[i] = next[i]
  BY <1>2, <1>6
<1>8. SubSeq(next, 1, n) # <<>> => SubSeq(next, 1, n)[1] = item
  BY <1>4, <1>6, <1>7
<1>9. \A i \in 1 .. n : i # 1 => i - 1 \in 1 .. Len(list) /\ SubSeq(next, 1, n)[i] = list[i - 1]
  BY <1>3, <1>4, <1>6, <1>7
<1>. QED
  BY <1>5, <1>7, <1>8, <1>9

\* A feed before and after an event e of run m: the new item is in front, if
\* there is one, and the others are one place further.
Follows(new, old, e, m) ==
    /\ new \in Seq(Item)
    /\ \A i \in 1 .. Len(new) :
        \/ i = 1 /\ new[i].event = e /\ new[i].via = m
        \/ i # 1 /\ i - 1 \in 1 .. Len(old) /\ new[i] = old[i - 1]

LEMMA IngestProperties ==
    ASSUME FlowType, NEW e \in Nat, NEW m \in Nat \X Nat, ingestEvent(e, m), NEW c \in Channels
    PROVE  events'[c] = events[c] \/ Follows(events'[c], events[c], e, m)
<1>. DEFINE item == [event |-> e, via |-> m]
<1>1. item \in Item /\ item.event = e /\ item.via = m
  BY DEF Item
<1>2. events[c] \in Seq(Item)
  BY DEF FlowType
<1>3. events'[c] = events[c] \/ events'[c] = prependEvent(events[c], item)
  BY DEF ingestEvent
<1>. HIDE DEF item
<1>4. Follows(prependEvent(events[c], item), events[c], e, m)
  <2>. DEFINE new == prependEvent(events[c], item)
  <2>1. /\ new \in Seq(Item)
        /\ new # <<>> => new[1] = item
        /\ \A i \in 1 .. Len(new) : i # 1 => i - 1 \in 1 .. Len(events[c]) /\ new[i] = events[c][i - 1]
    BY <1>1, <1>2, PrependProperties
  <2>. HIDE DEF new
  <2>2. \A i \in 1 .. Len(new) : new # <<>>
    BY <2>1
  <2>3. Follows(new, events[c], e, m)
    BY <1>1, <2>1, <2>2 DEF Follows
  <2>. QED
    BY <2>3 DEF new
<1>. QED
  BY <1>3, <1>4

\* A run reads its wire: the event is newer than what the run has shown, and
\* older than the rest of the wire.
LEMMA MessageOK ==
    ASSUME FlowInv, HubInv', NEW s \in Streams, handleMessage(s)
    PROVE  FlowInv'
<1>. USE DEF FlowInv
<1>. DEFINE e == Head(wire[s])
            m == owner[s]
<1>1. /\ source[s] = "open" /\ wire[s] # <<>> /\ wire' = [wire EXCEPT ![s] = Tail(wire[s])]
      /\ UNCHANGED <<handlers, broken, source, owner, timer, backoff, mounts, log>>
      /\ events' = events \/ (e # ConnectedEvent /\ ingestEvent(e, m))
  BY DEF handleMessage, hub, eventSource, hook, feed
<1>2. Live(s) /\ m \in Nat \X Nat
  BY <1>1 DEF Live, FlowType
<1>3. wire[s] \in Seq(Nat) /\ Len(wire[s]) \in Nat /\ Len(wire[s]) >= 1 /\ e = wire[s][1] /\ e \in Nat
  BY <1>1 DEF FlowType
<1>. HIDE DEF e
<1>4. /\ wire'[s] \in Seq(Nat) /\ Len(wire'[s]) = Len(wire[s]) - 1
      /\ \A i \in 1 .. Len(wire'[s]) : wire'[s][i] = wire[s][i + 1]
  BY <1>1, <1>3 DEF FlowType
<1>. DEFINE w == wire[s]
            v == wire'[s]
<1>5. \A i \in 1 .. Len(v) : i + 1 \in 1 .. Len(w) /\ 1 < i + 1 /\ v[i] = w[i + 1]
  <2>1. Len(w) \in Nat /\ Len(v) = Len(w) - 1 /\ \A i \in 1 .. Len(v) : v[i] = w[i + 1]
    BY <1>3, <1>4
  <2>2. \A n \in Nat : \A i \in 1 .. n - 1 : i + 1 \in 1 .. n /\ 1 < i + 1
    OBVIOUS
  <2>. HIDE DEF w, v
  <2>. QED
    BY <2>1, <2>2
<1>6. \A t \in Streams \ {s} : wire'[t] = wire[t]
  BY <1>1 DEF FlowType
<1>7. \A c \in Channels : events'[c] = events[c] \/ (e # ConnectedEvent /\ Follows(events'[c], events[c], e, m))
  BY <1>1, <1>2, <1>3, IngestProperties
<1>8. e <= Len(log) /\ \A i \in 1 .. Len(wire'[s]) : e < wire'[s][i]
  <2>1. \A j \in 1 .. Len(wire[s]) : 1 < j => wire[s][1] < wire[s][j]
    BY <1>3 DEF WireInv
  <2>2. \A i \in 1 .. Len(wire'[s]) : i + 1 \in 1 .. Len(wire[s]) /\ 1 < i + 1
    BY <1>3, <1>4
  <2>3. e <= Len(log)
    BY <1>3 DEF WireInv
  <2>. QED
    BY <1>3, <1>4, <2>1, <2>2, <2>3
<1>9. \A c \in Channels : \A k \in 1 .. Len(events[c]) :
        e # ConnectedEvent /\ events[c][k].via = m => events[c][k].event < e
  BY <1>2, <1>3 DEF WireInv
<1>10. FlowType'
  <2>1. wire' \in [Streams -> Seq(Nat)]
    BY <1>1, <1>4 DEF FlowType
  <2>2. \A c \in Channels : events'[c] \in Seq(Item)
    BY <1>7 DEF FlowType, Follows
  <2>3. events' \in [Channels -> Seq(Item)]
    <3>1. events' = [c \in Channels |-> events'[c]]
      BY <1>1 DEF ingestEvent, FlowType
    <3>. QED
      BY <2>2, <3>1
  <2>. QED
    BY <1>1, <2>1, <2>3 DEF FlowType
<1>11. OwnerInv'
  BY <1>1, <1>2, <1>6 DEF OwnerInv, Live
<1>12. WireInv'
  <2>1. ASSUME NEW t \in Streams, NEW i \in 1 .. Len(wire'[t])
        PROVE  /\ wire'[t][i] <= Len(log)
               /\ \A j \in 1 .. Len(wire'[t]) : i < j => wire'[t][i] < wire'[t][j]
    <3>1. CASE t = s
      <4>1. i \in 1 .. Len(v) /\ wire'[t] = v
        BY <2>1, <3>1
      <4>2. v[i] <= Len(log)
        BY <1>5, <4>1 DEF WireInv
      <4>3. ASSUME NEW j \in 1 .. Len(v), i < j PROVE v[i] < v[j]
        <5>1. i + 1 < j + 1
          BY <4>1, <4>3
        <5>. QED
          BY <1>5, <4>1, <4>3, <5>1 DEF WireInv
      <4>. QED
        BY <4>1, <4>2, <4>3
    <3>2. CASE t # s
      BY <1>6, <2>1, <3>2 DEF WireInv
    <3>. QED
      BY <3>1, <3>2
  <2>2. ASSUME NEW c \in Channels, NEW k \in 1 .. Len(events'[c])
        PROVE  /\ events'[c][k].event <= Len(log)
               /\ \A t \in Streams : \A i \in 1 .. Len(wire'[t]) :
                    Live(t) /\ owner[t] = events'[c][k].via /\ wire'[t][i] # ConnectedEvent =>
                        events'[c][k].event < wire'[t][i]
    <3>. DEFINE x == events'[c][k]
    <3>1. ASSUME NEW j \in 1 .. Len(events[c]), x = events[c][j]
          PROVE  /\ x.event <= Len(log)
                 /\ \A t \in Streams : \A i \in 1 .. Len(wire'[t]) :
                      Live(t) /\ owner[t] = x.via /\ wire'[t][i] # ConnectedEvent => x.event < wire'[t][i]
      <4>1. x.event <= Len(log)
        BY <3>1 DEF WireInv
      <4>2. ASSUME NEW t \in Streams, NEW i \in 1 .. Len(wire'[t]),
                   Live(t), owner[t] = x.via, wire'[t][i] # ConnectedEvent
            PROVE  x.event < wire'[t][i]
        <5>1. CASE t = s
          <6>1. i + 1 \in 1 .. Len(wire[s]) /\ wire'[t][i] = wire[s][i + 1]
            BY <1>5, <4>2, <5>1
          <6>. QED
            BY <3>1, <4>2, <5>1, <6>1 DEF WireInv
        <5>2. CASE t # s
          BY <1>6, <3>1, <4>2, <5>2 DEF WireInv
        <5>. QED
          BY <5>1, <5>2
      <4>. QED
        BY <4>1, <4>2
    <3>2. ASSUME x.event = e, x.via = m
          PROVE  /\ x.event <= Len(log)
                 /\ \A t \in Streams : \A i \in 1 .. Len(wire'[t]) :
                      Live(t) /\ owner[t] = x.via /\ wire'[t][i] # ConnectedEvent => x.event < wire'[t][i]
      <4>1. x.event <= Len(log)
        BY <1>2, <1>8, <3>2
      <4>2. \A t \in Streams : Live(t) /\ owner[t] = m => t = s
        BY <1>2 DEF OwnerInv
      <4>. QED
        BY <1>8, <3>2, <4>1, <4>2
    <3>3. \/ \E j \in 1 .. Len(events[c]) : x = events[c][j]
          \/ x.event = e /\ x.via = m
      BY <1>7, <2>2 DEF Follows
    <3>. QED
      BY <3>1, <3>2, <3>3
  <2>. QED
    BY <1>1, <2>1, <2>2 DEF WireInv, Live
<1>13. FeedInOrder'
  <2>. SUFFICES ASSUME NEW c \in Channels, NEW i \in 1 .. Len(events'[c]), NEW j \in 1 .. Len(events'[c]),
                       i < j, events'[c][i].via = events'[c][j].via
                PROVE  events'[c][i].event > events'[c][j].event
    BY DEF FeedInOrder
  <2>1. CASE events'[c] = events[c]
    BY <2>1 DEF FeedInOrder
  <2>2. CASE e # ConnectedEvent /\ Follows(events'[c], events[c], e, m)
    <3>1. j # 1 /\ j - 1 \in 1 .. Len(events[c]) /\ events'[c][j] = events[c][j - 1]
      BY <2>2 DEF Follows
    <3>2. CASE i = 1
      <4>1. events'[c][i].event = e /\ events'[c][i].via = m
        BY <2>2, <3>2 DEF Follows
      <4>2. events[c][j - 1].event \in Nat
        BY <3>1, ItemType
      <4>. QED
        BY <1>3, <1>9, <2>2, <3>1, <4>1, <4>2
    <3>3. CASE i # 1
      <4>1. i - 1 \in 1 .. Len(events[c]) /\ events'[c][i] = events[c][i - 1] /\ i - 1 < j - 1
        BY <2>2, <3>3 DEF Follows
      <4>. QED
        BY <3>1, <4>1 DEF FeedInOrder
    <3>. QED
      BY <3>2, <3>3
  <2>. QED
    BY <1>7, <2>1, <2>2
<1>. QED
  BY <1>10, <1>11, <1>12, <1>13

----------------------------------------------------------------------------
LEMMA FlowStep == FlowInv /\ [Next]_vars => FlowInv'
<1>. SUFFICES ASSUME FlowInv, [Next]_vars PROVE FlowInv'
  OBVIOUS
<1>1. HubInv'
  BY HubStep DEF FlowInv
<1>2. handlers \in [Streams -> SUBSET Handlers]
  BY DEF FlowInv, HubInv
<1>3. ASSUME NEW s \in Streams, Steps(s) \/ Break(s) PROVE FlowInv'
  <2>1. ASSUME NEW h \in Handlers, OnClose(s, h) PROVE FlowInv'
    <3>1. /\ UNCHANGED <<wire, source, owner, timer, backoff, mounts, log, events>> /\ broken \subseteq broken'
          /\ \A t \in Streams : handlers'[t] \subseteq handlers[t]
      BY <1>2, <2>1 DEF OnClose, link, eventSource, hook, feed
    <3>. QED
      BY <1>1, <3>1, FlowUnchanged
  <2>2. CASE Break(s)
    <3>1. /\ UNCHANGED <<wire, source, owner, timer, backoff, mounts, log, events>> /\ broken \subseteq broken'
          /\ \A t \in Streams : handlers'[t] \subseteq handlers[t]
      BY <2>2 DEF Break, hub, eventSource, hook, feed
    <3>. QED
      BY <1>1, <3>1, FlowUnchanged
  <2>. QED
    BY <1>1, <1>3, <2>1, <2>2, AddClientOK, OpenOK, ErrorOK, MessageOK DEF Steps
<1>4. CASE HubCrash
  <2>1. /\ UNCHANGED <<wire, source, owner, timer, backoff, mounts, log, events>> /\ broken \subseteq broken'
        /\ \A t \in Streams : handlers'[t] \subseteq handlers[t]
    BY <1>4 DEF HubCrash, eventSource, hook, feed
  <2>. QED
    BY <1>1, <2>1, FlowUnchanged
<1>5. CASE Unmount \/ HubStart \/ UNCHANGED vars
  <2>1. /\ UNCHANGED <<wire, source, owner, timer, backoff, mounts, log, events>> /\ broken' = broken
        /\ handlers' = handlers
    BY <1>5 DEF Unmount, HubStart, vars, hub, link, eventSource, hook, feed
  <2>. QED
    BY <1>1, <2>1, FlowUnchanged
<1>. QED
  BY <1>1, <1>3, <1>4, <1>5, MountOK, BroadcastOK DEF Next

LEMMA FlowStarts == Init => FlowInv
<1>. SUFFICES ASSUME Init PROVE FlowInv
  OBVIOUS
<1>1. FlowType
  BY MountFacts, EventStreamAssumption DEF Init, FlowType
<1>2. OwnerInv /\ WireInv /\ FeedInOrder
  BY DEF Init, OwnerInv, WireInv, FeedInOrder, Live
<1>. QED
  BY <1>1, <1>2, HubStarts DEF FlowInv

\* Each run of the effect shows an event at most once and in the order of
\* publication, through any breaks, crashes and reconnections and for any number
\* of runs per mount (two under StrictMode): a run has one live connection,
\* whose wire is newer than what the run has shown.
THEOREM FeedsAreInOrder == Spec => []FeedInOrder
<1>1. FlowInv => FeedInOrder
  BY DEF FlowInv
<1>. QED
  BY FlowStarts, FlowStep, <1>1, PTL DEF Spec

----------------------------------------------------------------------------
(***************************************************************************)
(* The mirror                                                              *)
(***************************************************************************)

\* A set of places, one further each.
Shift(S) == {j + 1 : j \in S}

LEMMA ShiftCount ==
    ASSUME NEW S \in SUBSET Nat, IsFiniteSet(S)
    PROVE  IsFiniteSet(Shift(S)) /\ Cardinality(Shift(S)) = Cardinality(S)
<1>. DEFINE f == [j \in S |-> j + 1]
<1>1. f \in [S -> Shift(S)]
  BY DEF Shift
<1>2. \A i, j \in S : f[i] = f[j] => i = j
  OBVIOUS
<1>3. \A t \in Shift(S) : \E j \in S : f[j] = t
  BY DEF Shift
<1>. HIDE DEF f
<1>4. f \in Bijection(S, Shift(S))
  BY <1>1, <1>2, <1>3 DEF Bijection, Injection, Surjection, IsInjective
<1>. QED
  BY <1>4, FS_Bijection DEF ExistsBijection

\* The number of places up to n in a set.
Count(P, n) == Cardinality(P \cap 1 .. n)

LEMMA CountBound ==
    ASSUME NEW P \in SUBSET Nat, NEW n \in Nat, \A i \in P : i >= 1
    PROVE  /\ IsFiniteSet(P \cap 1 .. n)
           /\ Count(P, n) \in Nat /\ Count(P, n) <= n
           /\ n \in P => Count(P, n) >= 1
           /\ \A m \in 0 .. n : Count(P, m) <= Count(P, n)
<1>1. IsFiniteSet(1 .. n) /\ Cardinality(1 .. n) = n
  BY FS_Interval
<1>2. IsFiniteSet(P \cap 1 .. n) /\ Cardinality(P \cap 1 .. n) <= n
  BY <1>1, FS_Subset
<1>3. Cardinality(P \cap 1 .. n) \in Nat
  BY <1>2, FS_CardinalityType
<1>4. n \in P => Cardinality(P \cap 1 .. n) >= 1
  <2>1. n \in P => P \cap 1 .. n # {}
    OBVIOUS
  <2>2. P \cap 1 .. n # {} => Cardinality(P \cap 1 .. n) # 0
    BY <1>2, FS_EmptySet
  <2>. QED
    BY <1>3, <2>1, <2>2
<1>5. ASSUME NEW m \in 0 .. n PROVE Cardinality(P \cap 1 .. m) <= Cardinality(P \cap 1 .. n)
  <2>1. (P \cap 1 .. m) \in SUBSET (P \cap 1 .. n)
    OBVIOUS
  <2>. QED
    BY <1>2, <2>1, FS_Subset
<1>. QED
  BY <1>2, <1>3, <1>4, <1>5 DEF Count

\* The places after an item was put in front, with or without it.
Fronted(front, P, n) == {j \in 1 .. n : IF j = 1 THEN front ELSE j - 1 \in P}

LEMMA FrontCount ==
    ASSUME NEW P \in SUBSET Nat, \A i \in P : i >= 1, NEW n \in Nat, NEW k \in Nat, k < n,
           NEW front \in BOOLEAN
    PROVE  /\ front => Count(Fronted(front, P, n), k + 1) = Count(P, k) + 1
           /\ ~front => Count(Fronted(front, P, n), k + 1) = Count(P, k)
<1>. DEFINE R == P \cap 1 .. k
            D == Shift(R)
            Q == Fronted(front, P, n) \cap 1 .. (k + 1)
<1>1. IsFiniteSet(R) /\ Cardinality(R) = Count(P, k) /\ R \in SUBSET Nat
  BY CountBound DEF Count
<1>2. IsFiniteSet(D) /\ Cardinality(D) = Count(P, k)
  BY <1>1, ShiftCount
<1>3. 1 \notin D
  BY DEF Shift
<1>4. D = {j \in 2 .. (k + 1) : j - 1 \in P}
  <2>1. ASSUME NEW j \in D PROVE j \in 2 .. (k + 1) /\ j - 1 \in P
    BY DEF Shift
  <2>2. ASSUME NEW j \in 2 .. (k + 1), j - 1 \in P PROVE j \in D
    <3>1. j - 1 \in R /\ j = (j - 1) + 1
      BY <2>2
    <3>. QED
      BY <3>1 DEF Shift
  <2>. QED
    BY <2>1, <2>2
<1>5. Count(Fronted(front, P, n), k + 1) = Cardinality(Q)
  BY DEF Count
<1>. HIDE DEF R, D
<1>6. front => Q = D \cup {1}
  BY <1>4 DEF Fronted
<1>7. ~front => Q = D
  BY <1>4 DEF Fronted
<1>. HIDE DEF Q
<1>8. Cardinality(D \cup {1}) = Cardinality(D) + 1
  BY <1>2, <1>3, FS_AddElement
<1>. QED
  BY <1>2, <1>5, <1>6, <1>7, <1>8

LEMMA PrependLength ==
    ASSUME NEW list \in Seq(Item), NEW item \in Item
    PROVE  Len(prependEvent(list, item)) = min(Len(list) + 1, MAX_EVENTS)
<1>. DEFINE one == <<item>>
<1>1. one \in Seq(Item) /\ Len(one) = 1
  OBVIOUS
<1>. HIDE DEF one
<1>. DEFINE next == one \o list
<1>2. next \in Seq(Item) /\ Len(next) = Len(one) + Len(list)
  BY <1>1, ConcatProperties
<1>3. Len(list) \in Nat /\ Len(next) = Len(list) + 1
  BY <1>1, <1>2
<1>4. prependEvent(list, item) = SubSeq(next, 1, min(Len(next), MAX_EVENTS))
  BY DEF prependEvent, one
<1>. HIDE DEF next
<1>. DEFINE n == min(Len(next), MAX_EVENTS)
<1>5. n \in Nat /\ n <= Len(next) /\ n = min(Len(list) + 1, MAX_EVENTS)
  BY <1>3, MountFacts DEF min
<1>. HIDE DEF n
<1>6. Len(SubSeq(next, 1, n)) = n
  BY <1>2, <1>5
<1>. QED
  BY <1>4, <1>5, <1>6 DEF n

\* A feed holds, in order, the items of another one at some places, and all of
\* them while nothing was cut off.
Mirrors(list, all, own) ==
    /\ Count(own, Len(all)) <= Len(list)
    /\ \A i \in own : list[Count(own, i)] = all[i]
    /\ Len(all) < MAX_EVENTS => Count(own, Len(all)) = Len(list)

\* The new item goes to the mirror and to the feed, or to the mirror only.
LEMMA MirrorKept ==
    ASSUME NEW list \in Seq(Item), NEW all \in Seq(Item), NEW item \in Item,
           NEW own \in SUBSET (1 .. Len(all)), NEW front \in BOOLEAN,
           Len(list) <= MAX_EVENTS, Len(all) <= MAX_EVENTS, Mirrors(list, all, own),
           NEW list2, list2 = IF front THEN prependEvent(list, item) ELSE list,
           NEW all2, all2 = prependEvent(all, item),
           NEW own2, own2 = Fronted(front, own, Len(all2))
    PROVE  Mirrors(list2, all2, own2)
<1>. DEFINE n == Len(all2)
            L == Len(all)
<1>1. L \in Nat /\ Len(list) \in Nat /\ MAX_EVENTS \in Nat \ {0}
  BY MountFacts
<1>2. /\ n = min(L + 1, MAX_EVENTS)
      /\ front => Len(list2) = min(Len(list) + 1, MAX_EVENTS)
      /\ ~front => list2 = list
  BY PrependLength
<1>3. /\ all2 \in Seq(Item)
      /\ all2 # <<>> => all2[1] = item
      /\ \A j \in 1 .. n : j # 1 => all2[j] = all[j - 1]
  BY PrependProperties
<1>4. front => /\ list2 \in Seq(Item)
               /\ list2 # <<>> => list2[1] = item
               /\ \A j \in 1 .. Len(list2) : j # 1 => list2[j] = list[j - 1]
  BY PrependProperties
<1>5. own \in SUBSET (1 .. L) /\ own2 = Fronted(front, own, n)
  OBVIOUS
<1>6. /\ Count(own, L) <= Len(list)
      /\ \A i \in own : list[Count(own, i)] = all[i]
      /\ L < MAX_EVENTS => Count(own, L) = Len(list)
  BY DEF Mirrors
<1>7. n # 0 => all2[1] = item
  BY <1>3
<1>8. front /\ Len(list2) # 0 => list2[1] = item
  BY <1>4
<1>. HIDE DEF n, L
<1>9. own \in SUBSET Nat /\ \A i \in own : i >= 1 /\ i <= L
  BY <1>1, <1>5
<1>10. n \in Nat /\ n >= 1 /\ n <= MAX_EVENTS /\ n - 1 <= L /\ (n < MAX_EVENTS => n - 1 = L)
  BY <1>1, <1>2 DEF min
<1>. DEFINE m == n - 1
            c == Count(own, m)
<1>11. m \in Nat /\ m < n /\ m + 1 = n /\ m \in 0 .. L /\ (n < MAX_EVENTS => m = L)
  BY <1>1, <1>10
<1>12. /\ front => Count(own2, n) = c + 1
       /\ ~front => Count(own2, n) = c
  <2>. HIDE DEF m
  <2>1. /\ front => Count(own2, m + 1) = Count(own, m) + 1
        /\ ~front => Count(own2, m + 1) = Count(own, m)
    BY <1>5, <1>9, <1>10, <1>11, FrontCount
  <2>2. m + 1 = n
    BY <1>11
  <2>. QED
    BY <2>1, <2>2
<1>13. c \in Nat /\ c <= m /\ c <= Count(own, L) /\ (n < MAX_EVENTS => c = Count(own, L))
  <2>. HIDE DEF m
  <2>. QED
    BY <1>1, <1>9, <1>11, CountBound
<1>14. Count(own, L) \in Nat /\ Count(own, L) <= L
  BY <1>1, <1>9, CountBound
<1>. HIDE DEF c
<1>15. Count(own2, n) <= Len(list2)
  BY <1>1, <1>2, <1>6, <1>10, <1>12, <1>13, <1>14 DEF min
<1>16. n < MAX_EVENTS => Count(own2, n) = Len(list2)
  BY <1>1, <1>2, <1>6, <1>10, <1>12, <1>13, <1>14 DEF min
<1>17. ASSUME NEW i \in own2 PROVE list2[Count(own2, i)] = all2[i]
  <2>1. i \in 1 .. n /\ (i = 1 => front) /\ (i # 1 => i - 1 \in own)
    BY <1>5, <1>17 DEF Fronted
  <2>. DEFINE j == i - 1
              k == Count(own, j)
  <2>2. j \in Nat /\ j < n /\ j + 1 = i /\ j \in 0 .. L /\ (i = 1 <=> j = 0) /\ (i # 1 => j \in own)
    BY <1>1, <1>10, <2>1
  <2>. HIDE DEF j
  <2>3. /\ front => Count(own2, i) = k + 1
        /\ ~front => Count(own2, i) = k
    BY <1>5, <1>9, <1>10, <2>2, FrontCount
  <2>4. k \in Nat /\ k <= j /\ (j \in own => k >= 1) /\ k <= Count(own, L)
    BY <1>1, <1>9, <2>2, CountBound
  <2>5. j \in own => list[k] = all[j]
    BY <1>6
  <2>6. i # 1 => all2[i] = all[j]
    BY <1>3, <2>1 DEF j
  <2>. HIDE DEF k
  <2>7. CASE i = 1
    <3>1. front /\ j = 0
      BY <2>1, <2>2, <2>7
    <3>2. Count(own2, i) = k + 1
      BY <2>3, <3>1
    <3>3. k = 0
      BY <2>4, <3>1
    <3>4. Count(own2, i) = 1
      BY <3>2, <3>3
    <3>5. Len(list2) # 0 /\ n # 0
      BY <1>1, <1>2, <1>10, <3>1 DEF min
    <3>6. list2[1] = item /\ all2[1] = item
      BY <1>7, <1>8, <3>1, <3>5
    <3>. QED
      BY <2>7, <3>4, <3>6
  <2>8. CASE i # 1 /\ front
    <3>1. k >= 1 /\ list[k] = all2[i] /\ Count(own2, i) = k + 1
      BY <2>2, <2>3, <2>4, <2>5, <2>6, <2>8
    <3>2. k + 1 <= Len(list) + 1 /\ k + 1 <= MAX_EVENTS
      BY <1>1, <1>6, <1>10, <1>14, <2>2, <2>4
    <3>3. k + 1 \in 1 .. Len(list2) /\ k + 1 # 1 /\ (k + 1) - 1 = k
      BY <1>1, <1>2, <2>4, <2>8, <3>1, <3>2 DEF min
    <3>4. list2[k + 1] = list[k]
      BY <1>4, <2>8, <3>3
    <3>. QED
      BY <3>1, <3>4
  <2>9. CASE i # 1 /\ ~front
    BY <1>2, <2>2, <2>3, <2>5, <2>6, <2>9
  <2>. QED
    BY <2>7, <2>8, <2>9
<1>. QED
  BY <1>15, <1>16, <1>17 DEF Mirrors, n

\* Whether a post goes to a channel, and the places of what a channel also got.
Goes(c, post) ==
    \/ post.type = "resort.announcement"
    \/ c \in {channelFromSource(post.source), "resort-wide"}

Got(c, all, posts) == {i \in 1 .. Len(all) : Goes(c, posts[all[i].event])}

LEMMA TargetsAre ==
    ASSUME NEW c \in Channels
    PROVE  /\ \A e : c \in Targets(e) <=> Goes(c, log[e])
           /\ \A e : Targets(e) \subseteq Channels /\ "resort-wide" \in Targets(e)
           /\ Mirrored(c) = Got(c, events["resort-wide"], log)
           /\ Mirrored(c)' = Got(c, events'["resort-wide"], log')
<1>1. \A e : c \in Targets(e) <=> Goes(c, log[e])
  BY DEF Targets, Goes, IsResortAnnouncement
<1>2. \A e : Targets(e) \subseteq Channels /\ "resort-wide" \in Targets(e)
  BY EventStreamAssumption DEF Targets, channelFromSource
<1>3. Mirrored(c) = Got(c, events["resort-wide"], log)
  BY <1>1 DEF Mirrored, Got
<1>4. Mirrored(c)' = Got(c, events'["resort-wide"], log')
  BY DEF Mirrored, Got, Targets, Goes, IsResortAnnouncement
<1>. QED
  BY <1>1, <1>2, <1>3, <1>4

\* MirrorAgrees, a channel at a time.
Agrees(list, all, own, tick) == Mirrors(list, all, own) /\ Len(list) = min(tick, MAX_EVENTS)

ChannelsAgree ==
    \A c \in Channels : Agrees(events[c], events["resort-wide"],
                               Got(c, events["resort-wide"], log), activityTick[c])

LEMMA AgreesByChannel == MirrorAgrees <=> ChannelsAgree
<1>. DEFINE all == events["resort-wide"]
            Body(c, own) ==
                /\ Cardinality(own) <= Len(events[c])
                /\ \A i \in own : events[c][Cardinality(own \cap 1 .. i)] = all[i]
                /\ Len(all) < MAX_EVENTS => Cardinality(own) = Len(events[c])
                /\ Len(events[c]) = min(activityTick[c], MAX_EVENTS)
<1>1. MirrorAgrees <=> \A c \in Channels : Body(c, Mirrored(c))
  BY DEF MirrorAgrees
<1>2. ASSUME NEW c \in Channels
      PROVE  Body(c, Mirrored(c)) <=> Agrees(events[c], all, Got(c, all, log), activityTick[c])
  <2>. DEFINE own == Mirrored(c)
  <2>1. own = Got(c, all, log)
    BY TargetsAre
  <2>2. own \cap 1 .. Len(all) = own
    BY DEF Mirrored
  <2>. HIDE DEF own, all
  <2>3. Cardinality(own) = Count(own, Len(all))
    BY <2>2 DEF Count
  <2>4. (\A i \in own : events[c][Cardinality(own \cap 1 .. i)] = all[i])
          <=> \A i \in own : events[c][Count(own, i)] = all[i]
    BY Zenon DEF Count
  <2>5. Body(c, own) <=> Agrees(events[c], all, own, activityTick[c])
    BY <2>3, <2>4, Zenon DEF Agrees, Mirrors
  <2>. QED
    BY <2>1, <2>5 DEF own
<1>. HIDE DEF Body
<1>. QED
  BY <1>1, <1>2 DEF ChannelsAgree

\* The event of addClient is never shown.
OnlyPosts ==
    \A c \in Channels : \A k \in 1 .. Len(events[c]) : events[c][k].event # ConnectedEvent

MirrorInv == FlowInv /\ OnlyPosts /\ activityTick \in [Channels -> Nat] /\ ChannelsAgree

\* What was shown stays what it is when more is published.
LEMMA PublishKeeps ==
    ASSUME MirrorInv, UNCHANGED <<events, activityTick>>,
           \A e \in 1 .. Len(log) : log'[e] = log[e]
    PROVE  ChannelsAgree'
<1>. DEFINE all == events["resort-wide"]
<1>1. ASSUME NEW c \in Channels PROVE Got(c, all, log') = Got(c, all, log)
  <2>1. ASSUME NEW i \in 1 .. Len(all) PROVE log'[all[i].event] = log[all[i].event]
    <3>1. "resort-wide" \in Channels
      BY EventStreamAssumption
    <3>2. /\ all[i].event \in Nat /\ all[i].event # 0
          /\ all[i].event <= Len(log) /\ log \in Seq(Posts)
      BY <2>1, <3>1, ItemType DEF MirrorInv, FlowInv, FlowType, WireInv, OnlyPosts, ConnectedEvent
    <3>3. all[i].event \in 1 .. Len(log)
      BY <3>2
    <3>. QED
      BY <3>3
  <2>. QED
    BY <2>1 DEF Got
<1>. QED
  BY <1>1 DEF MirrorInv, ChannelsAgree

\* An event is ingested.
LEMMA IngestKeeps ==
    ASSUME MirrorInv, NEW e \in Nat, NEW m \in Nat \X Nat, ingestEvent(e, m), UNCHANGED log
    PROVE  activityTick' \in [Channels -> Nat] /\ ChannelsAgree'
<1>. DEFINE item == [event |-> e, via |-> m]
            all == events["resort-wide"]
            all2 == events'["resort-wide"]
<1>1. item \in Item /\ item.event = e
  BY DEF Item
<1>2. /\ \A c \in Channels : events'[c] = IF c \in Targets(e) THEN prependEvent(events[c], item)
                                                            ELSE events[c]
      /\ activityTick' = [c \in Channels |-> activityTick[c] + IF c \in Targets(e) THEN 1 ELSE 0]
  BY DEF ingestEvent
<1>3. "resort-wide" \in Channels
  BY EventStreamAssumption
<1>4. all2 = prependEvent(all, item)
  BY <1>2, <1>3, TargetsAre
<1>5. all \in Seq(Item) /\ \A c \in Channels : events[c] \in Seq(Item)
  BY <1>3 DEF MirrorInv, FlowInv, FlowType
<1>. HIDE DEF item, all
<1>6. activityTick' \in [Channels -> Nat]
  BY <1>2 DEF MirrorInv
<1>7. ASSUME NEW c \in Channels
      PROVE  Agrees(events'[c], all2, Got(c, all2, log'), activityTick'[c])
  <2>. DEFINE front == c \in Targets(e)
              list == events[c]
              own == Got(c, all, log)
              own2 == Got(c, all2, log)
  <2>1. own2 = Fronted(front, own, Len(all2))
    <3>1. /\ all2 \in Seq(Item)
          /\ all2 # <<>> => all2[1] = item
          /\ \A j \in 1 .. Len(all2) : j # 1 => j - 1 \in 1 .. Len(all) /\ all2[j] = all[j - 1]
      <4>. HIDE DEF all2
      <4>. QED
        BY <1>1, <1>4, <1>5, PrependProperties
    <3>2. 1 \in 1 .. Len(all2) => all2[1].event = e
      BY <1>1, <3>1
    <3>3. front <=> Goes(c, log[e])
      BY <1>7, TargetsAre
    <3>4. ASSUME NEW j \in 1 .. Len(all2)
          PROVE  Goes(c, log[all2[j].event]) <=> (IF j = 1 THEN front ELSE j - 1 \in own)
      <4>1. CASE j = 1
        BY <3>2, <3>3, <3>4, <4>1
      <4>2. CASE j # 1
        BY <3>1, <3>4, <4>2 DEF Got
      <4>. QED
        BY <4>1, <4>2
    <3>. HIDE DEF front, own, all2
    <3>. QED
      BY <3>4 DEF Got, Fronted
  <2>2. Mirrors(list, all, own) /\ Len(list) = min(activityTick[c], MAX_EVENTS)
        /\ Len(all) = min(activityTick["resort-wide"], MAX_EVENTS)
    BY <1>3, <1>7 DEF MirrorInv, ChannelsAgree, Agrees, all
  <2>3. activityTick[c] \in Nat /\ activityTick["resort-wide"] \in Nat /\ MAX_EVENTS \in Nat \ {0}
    BY <1>3, MountFacts DEF MirrorInv
  <2>4. Len(list) <= MAX_EVENTS /\ Len(all) <= MAX_EVENTS
    BY <2>2, <2>3 DEF min
  <2>5. front \in BOOLEAN /\ events'[c] = IF front THEN prependEvent(list, item) ELSE list
    BY <1>2, <1>7
  <2>6. own \in SUBSET (1 .. Len(all)) /\ list \in Seq(Item)
    BY <1>5, <1>7 DEF Got
  <2>7. activityTick'[c] = activityTick[c] + IF front THEN 1 ELSE 0
    BY <1>2, <1>7
  <2>. HIDE DEF front, own, own2, list, all2
  <2>8. Mirrors(events'[c], all2, own2)
    BY <1>1, <1>4, <1>5, <2>1, <2>2, <2>4, <2>5, <2>6, MirrorKept
  <2>9. Len(events'[c]) = min(activityTick'[c], MAX_EVENTS)
    <3>1. CASE front
      <4>1. Len(events'[c]) = min(Len(list) + 1, MAX_EVENTS)
        BY <1>1, <2>5, <2>6, <3>1, PrependLength
      <4>2. activityTick'[c] = activityTick[c] + 1
        BY <2>7, <3>1
      <4>. QED
        BY <2>2, <2>3, <4>1, <4>2 DEF min
    <3>2. CASE ~front
      <4>1. events'[c] = list /\ activityTick'[c] = activityTick[c]
        BY <2>3, <2>5, <2>7, <3>2
      <4>. QED
        BY <2>2, <4>1
    <3>. QED
      BY <3>1, <3>2
  <2>. QED
    BY <2>8, <2>9 DEF Agrees, own2
<1>. QED
  BY <1>6, <1>7 DEF ChannelsAgree

LEMMA MirrorStep == MirrorInv /\ [Next]_vars => MirrorInv'
<1>. SUFFICES ASSUME MirrorInv, [Next]_vars PROVE MirrorInv'
  OBVIOUS
<1>1. FlowInv'
  BY FlowStep DEF MirrorInv
<1>2. ASSUME UNCHANGED <<events, activityTick>>, \A e \in 1 .. Len(log) : log'[e] = log[e]
      PROVE  MirrorInv'
  <2>1. ChannelsAgree'
    BY <1>2, PublishKeeps
  <2>. QED
    BY <1>1, <1>2, <2>1 DEF MirrorInv, OnlyPosts
<1>3. ASSUME UNCHANGED <<events, activityTick, log>> PROVE MirrorInv'
  BY <1>2, <1>3
<1>4. ASSUME NEW s \in Streams, handleMessage(s) PROVE MirrorInv'
  <2>. DEFINE e == Head(wire[s])
              m == owner[s]
  <2>1. wire[s] \in Seq(Nat) /\ wire[s] # <<>> /\ m \in Nat \X Nat
    BY <1>4 DEF handleMessage, MirrorInv, FlowInv, FlowType
  <2>2. e \in Nat
    BY <2>1
  <2>. HIDE DEF e, m
  <2>3. /\ log' = log
        /\ UNCHANGED <<events, activityTick>> \/ (e # ConnectedEvent /\ ingestEvent(e, m))
    BY <1>4 DEF handleMessage, feed, e, m
  <2>4. CASE UNCHANGED <<events, activityTick>>
    BY <1>3, <2>3, <2>4
  <2>5. CASE e # ConnectedEvent /\ ingestEvent(e, m)
    <3>1. activityTick' \in [Channels -> Nat] /\ ChannelsAgree'
      BY <2>1, <2>2, <2>3, <2>5, IngestKeeps
    <3>2. ASSUME NEW c \in Channels, NEW k \in 1 .. Len(events'[c])
          PROVE  events'[c][k].event # ConnectedEvent
      <4>1. events'[c] = events[c] \/ Follows(events'[c], events[c], e, m)
        BY <2>1, <2>2, <2>5, IngestProperties DEF MirrorInv, FlowInv
      <4>2. CASE events'[c] = events[c]
        BY <3>2, <4>2 DEF MirrorInv, OnlyPosts
      <4>3. CASE Follows(events'[c], events[c], e, m)
        BY <2>5, <3>2, <4>3 DEF MirrorInv, OnlyPosts, Follows
      <4>. QED
        BY <4>1, <4>2, <4>3
    <3>. QED
      BY <1>1, <3>1, <3>2 DEF MirrorInv, OnlyPosts
  <2>. QED
    BY <2>3, <2>4, <2>5
<1>5. ASSUME NEW post \in Posts, broadcast(post) PROVE MirrorInv'
  <2>1. log \in Seq(Posts) /\ log' = Append(log, post)
    BY <1>5 DEF broadcast, MirrorInv, FlowInv, FlowType
  <2>2. \A e \in 1 .. Len(log) : log'[e] = log[e]
    BY <2>1, AppendProperties
  <2>3. UNCHANGED <<events, activityTick>>
    BY <1>5 DEF broadcast, feed
  <2>. QED
    BY <1>2, <2>2, <2>3
<1>6. ASSUME NEW s \in Streams, Steps(s) \/ Break(s) PROVE MirrorInv'
  <2>1. handleMessage(s) \/ UNCHANGED <<events, activityTick, log>>
    BY <1>6 DEF Steps, Break, addClient, OnOpen, OnError, OnClose, feed
  <2>. QED
    BY <1>3, <1>4, <2>1
<1>7. ASSUME NEW r \in Runs, OnTimer(r) PROVE MirrorInv'
  BY <1>3, <1>7 DEF OnTimer, feed
<1>8. CASE Mount \/ Unmount \/ HubCrash \/ HubStart \/ UNCHANGED vars
  BY <1>3, <1>8 DEF Mount, Unmount, HubCrash, HubStart, vars, feed
<1>. QED
  BY <1>5, <1>6, <1>7, <1>8 DEF Next

LEMMA MirrorStarts == Init => MirrorInv
<1>. SUFFICES ASSUME Init PROVE MirrorInv
  OBVIOUS
<1>1. FlowInv
  BY FlowStarts
<1>2. "resort-wide" \in Channels /\ MAX_EVENTS \in Nat \ {0}
  BY EventStreamAssumption
<1>3. /\ \A c \in Channels : events[c] = <<>> /\ activityTick[c] = 0
      /\ activityTick \in [Channels -> Nat]
  BY DEF Init
<1>4. ASSUME NEW c \in Channels
      PROVE  Agrees(events[c], events["resort-wide"], Got(c, events["resort-wide"], log), activityTick[c])
  <2>. DEFINE own == Got(c, events["resort-wide"], log)
  <2>1. events[c] = <<>> /\ events["resort-wide"] = <<>> /\ activityTick[c] = 0
    BY <1>2, <1>3, <1>4
  <2>2. own = {}
    BY <2>1 DEF Got
  <2>. HIDE DEF own
  <2>3. Count(own, 0) = 0
    <3>1. own \cap 1 .. 0 = {}
      BY <2>2
    <3>. QED
      BY <3>1, FS_EmptySet DEF Count
  <2>4. Len(<<>>) = 0 /\ min(0, MAX_EVENTS) = 0
    BY <1>2 DEF min
  <2>. QED
    BY <2>1, <2>2, <2>3, <2>4 DEF Agrees, Mirrors, own
<1>. QED
  BY <1>1, <1>3, <1>4 DEF MirrorInv, OnlyPosts, ChannelsAgree

\* For any channels, posts and cap the resort-wide feed agrees with every other
\* one: what it holds of a channel is what the channel holds from the newest on,
\* in the same order and under the same cap, although both are cut off
\* separately.
THEOREM MirrorsAgree == Spec => []MirrorAgrees
<1>1. MirrorInv => MirrorAgrees
  BY AgreesByChannel DEF MirrorInv
<1>. QED
  BY MirrorStarts, MirrorStep, <1>1, PTL DEF Spec
====
