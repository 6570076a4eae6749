---------------------------- MODULE AirportProofs ----------------------------
(***************************************************************************)
(* Proofs about passport control: the inductive invariant IInv of Airport, *)
(* the safety properties it implies, and that Airport implements           *)
(* PassportControl.                                                        *)
(***************************************************************************)
EXTENDS Airport, SequenceTheorems, WellFoundedInduction, TLAPS

(***************************************************************************)
(* The inductive invariant                                                 *)
(***************************************************************************)

\* Where the POST of an arrival stands decides whether it has a row, and no
\* POST is in progress unless the process runs.
HandlerInv ==
    \A a \in Arrivals :
        /\ handler[a] = "none" <=> clock < a
        /\ handler[a] # "none" => gate[a] \in Gates
        /\ handler[a] \in {"none", "assigned"} => status[a] = "none"
        /\ handler[a] \in {"committed", "stranded"} => status[a] = "queued"
        /\ handler[a] \in InProgress \cup {"stranded"} => phase = "running"

\* A queued guest belongs to the gate, is in no other place and waits.
QueueInv ==
    \A g \in Gates : \A i \in 1 .. Len(queue[g]) :
        /\ gate[queue[g][i]] = g
        /\ handler[queue[g][i]] = "done"
        /\ current[g] # queue[g][i]
        /\ queue[g][i] \notin rows
        /\ phase \in {"booting", "running"}
        /\ status[queue[g][i]] = "queued" \/ (phase = "booting" /\ status[queue[g][i]] = "processing")
        /\ \A j \in 1 .. Len(queue[g]) : queue[g][i] = queue[g][j] => i = j

\* The worker's place in _run decides the status of the guest at its desk.
DeskInv ==
    \A g \in Gates :
        /\ worker[g] # "stopped" <=> phase = "running"
        /\ current[g] = 0 <=> worker[g] \in {"stopped", "poll"}
        /\ current[g] # 0 =>
            /\ gate[current[g]] = g
            /\ handler[current[g]] = "done"
            /\ worker[g] = "popped" => status[current[g]] = "queued"
            /\ worker[g] = "serving" => status[current[g]] = "processing"
            /\ worker[g] \in {"served", "published"} => status[current[g]] = "processed"
            /\ worker[g] = "dead" => status[current[g]] # "none"

\* One row "processing" per gate; its guest is at the desk.
DeskRowInv ==
    \A a \in Arrivals : status[a] = "processing" =>
        /\ \A b \in Arrivals : status[b] = "processing" /\ gate[a] = gate[b] => a = b
        /\ phase = "running" => current[gate[a]] = a

\* What rehydration has still to do, and what it has found.
BootInv ==
    /\ phase # "booting" => rows = {}
    /\ \A a \in rows : status[a] \in Unfinished
    /\ phase = "booting" =>
        \A a \in Arrivals : status[a] \in Unfinished => a \in rows \/ Queued(a, gate[a])
    /\ \A g \in Gates : phase # "running" /\ resumed[g] # 0 =>
        /\ phase = "booting"
        /\ status[resumed[g]] = "processing" /\ gate[resumed[g]] = g
        /\ resumed[g] \notin rows

\* An event is published once, by the worker that has the guest at its desk.
EventInv ==
    \A a \in Arrivals :
        /\ announced[a] <= 1
        /\ announced[a] = 1 =>
            /\ status[a] = "processed"
            /\ \A g \in Gates : current[g] = a => worker[g] = "published"

IInv ==
    /\ TypeOK /\ HandlerInv /\ QueueInv /\ DeskInv /\ DeskRowInv
    /\ BootInv /\ EventInv /\ NoArrivalLost /\ RankOrder

(***************************************************************************)
(* The operators the model is built from                                   *)
(***************************************************************************)

\* Every non-empty set of naturals has a least element.
LEMMA NatMin ==
    ASSUME NEW T \in SUBSET Nat, T # {}
    PROVE  \E m \in T : \A n \in T : m <= n
  <1>1. \E x \in T : \A y \in T : ~ (<<y, x>> \in OpToRel(<, Nat))
    BY NatLessThanWellFounded, WFMin, Zenon
  <1>2. \A x, y \in T : (~ (<<y, x>> \in OpToRel(<, Nat))) => x <= y
    BY DEF OpToRel
  <1>. QED BY <1>1, <1>2

\* list.insert, element by element.
LEMMA InsertAtProperties ==
    ASSUME NEW S, NEW s \in Seq(S), NEW k \in 1 .. Len(s) + 1, NEW e \in S
    PROVE  /\ InsertAt(s, k, e) \in Seq(S)
           /\ Len(InsertAt(s, k, e)) = Len(s) + 1
           /\ \A i \in 1 .. Len(s) + 1 : InsertAt(s, k, e)[i] =
                IF i < k THEN s[i] ELSE IF i = k THEN e ELSE s[i - 1]
  <1> DEFINE u == SubSeq(s, 1, k - 1)
             v == SubSeq(s, k, Len(s))
  <1>1. Len(s) \in Nat /\ \A i \in 1 .. Len(s) : s[i] \in S
    BY LenProperties, ElementOfSeq
  <1>2. u \in Seq(S) /\ Len(u) = k - 1 /\ \A i \in 1 .. k - 1 : u[i] = s[i]
    <2>1. \A i \in 1 .. k - 1 : s[i] \in S BY <1>1
    <2>. QED BY <1>1, <2>1, SubSeqProperties
  <1>3. v \in Seq(S) /\ Len(v) = Len(s) - k + 1 /\ \A i \in 1 .. Len(s) - k + 1 : v[i] = s[k + i - 1]
    <2>1. \A i \in k .. Len(s) : s[i] \in S BY <1>1
    <2>. QED BY <1>1, <2>1, SubSeqProperties
  <1>4. <<e>> \in Seq(S) /\ Len(<<e>>) = 1 /\ <<e>>[1] = e
    OBVIOUS
  <1> HIDE DEF u, v
  <1> DEFINE w == u \o <<e>>
  <1>5. w \in Seq(S) /\ Len(w) = k /\ \A i \in 1 .. k : w[i] = IF i < k THEN s[i] ELSE e
    <2>1. /\ w \in Seq(S)
          /\ Len(w) = Len(u) + 1
          /\ \A i \in 1 .. Len(u) + 1 : w[i] = IF i <= Len(u) THEN u[i] ELSE <<e>>[i - Len(u)]
      BY <1>2, <1>4, ConcatProperties
    <2> HIDE DEF w
    <2>. QED BY <1>1, <1>2, <1>4, <2>1
  <1>7. InsertAt(s, k, e) = w \o v
    BY DEF InsertAt, u, v
  <1> HIDE DEF w
  <1>6. /\ w \o v \in Seq(S)
        /\ Len(w \o v) = Len(w) + Len(v)
        /\ \A i \in 1 .. Len(w) + Len(v) : (w \o v)[i] =
              IF i <= Len(w) THEN w[i] ELSE v[i - Len(w)]
    BY <1>5, <1>3, ConcatProperties
  <1>. QED BY <1>1, <1>3, <1>5, <1>6, <1>7

\* Gate.enqueue: the guest enters before the first guest of a greater rank and
\* nobody else moves relative to the others.
LEMMA EnqueueProperties ==
    ASSUME NEW q \in Seq(Arrivals), NEW a \in Arrivals
    PROVE  \E k \in 1 .. Len(q) + 1 :
            /\ enqueue(q, a) \in Seq(Arrivals)
            /\ Len(enqueue(q, a)) = Len(q) + 1
            /\ \A i \in 1 .. Len(q) + 1 : enqueue(q, a)[i] =
                 IF i < k THEN q[i] ELSE IF i = k THEN a ELSE q[i - 1]
            /\ \A i \in 1 .. k - 1 : rank(q[i]) <= rank(a)
            /\ k <= Len(q) => rank(q[k]) > rank(a)
  <1> DEFINE T == {i \in 1 .. Len(q) : rank(q[i]) > rank(a)}
             P(k) == /\ \A i \in 1 .. k - 1 : rank(q[i]) <= rank(a)
                     /\ k <= Len(q) => rank(q[k]) > rank(a)
  <1>1. Len(q) \in Nat
    BY LenProperties
  <1>2. \A b : rank(b) \in 0 .. 2
    BY DEF rank, effective_rank
  <1>3. \E k \in 1 .. Len(q) + 1 : P(k)
    <2>1. CASE T = {}
      <3>1. P(Len(q) + 1)
        BY <1>1, <1>2, <2>1
      <3>. QED BY <1>1, <3>1
    <2>2. CASE T # {}
      <3>1. PICK k \in T : \A n \in T : k <= n
        <4>1. T \in SUBSET Nat
          BY <1>1
        <4> HIDE DEF T
        <4>. QED BY <2>2, <4>1, NatMin
      <3>2. P(k)
        BY <1>1, <1>2, <3>1
      <3>. QED BY <1>1, <3>1, <3>2
    <2>. QED BY <2>1, <2>2
  <1>4. insert_at(q, a) = CHOOSE k \in 1 .. Len(q) + 1 : P(k)
    BY DEF insert_at
  <1> HIDE DEF P
  <1>5. insert_at(q, a) \in 1 .. Len(q) + 1 /\ P(insert_at(q, a))
    BY <1>3, <1>4
  <1>6. PICK k \in 1 .. Len(q) + 1 : k = insert_at(q, a) /\ P(k)
    BY <1>5
  <1>7. enqueue(q, a) = InsertAt(q, k, a)
    BY <1>6 DEF enqueue
  <1>8. /\ InsertAt(q, k, a) \in Seq(Arrivals)
        /\ Len(InsertAt(q, k, a)) = Len(q) + 1
        /\ \A i \in 1 .. Len(q) + 1 : InsertAt(q, k, a)[i] =
             IF i < k THEN q[i] ELSE IF i = k THEN a ELSE q[i - 1]
    BY InsertAtProperties
  <1>. QED BY <1>6, <1>7, <1>8 DEF P

\* _shortest_queue_gate returns a gate of the type it is asked for.
LEMMA ShortestProperties ==
    ASSUME TypeOK, NEW S \in SUBSET Gates, S # {}
    PROVE  shortest_queue_gate(S) \in S
  <1> DEFINE L == {Len(queue[g]) : g \in S}
             P(g) == \A h \in S : \/ Len(queue[g]) < Len(queue[h])
                                  \/ Len(queue[g]) = Len(queue[h]) /\ g <= h
  <1>1. S \subseteq Nat /\ \A g \in S : Len(queue[g]) \in Nat
    BY AirportAssumption, LenProperties DEF TypeOK, Gates, EUGates, ALLGates
  <1>2. PICK m \in L : \A n \in L : m <= n
    <2>1. L \in SUBSET Nat /\ L # {}
      BY <1>1
    <2> HIDE DEF L
    <2>. QED BY <2>1, NatMin
  <1> DEFINE M == {g \in S : Len(queue[g]) = m}
  <1>3. PICK g \in M : \A h \in M : g <= h
    <2>1. M \in SUBSET Nat /\ M # {}
      BY <1>1, <1>2
    <2> HIDE DEF M
    <2>. QED BY <2>1, NatMin
  <1>4. g \in S /\ P(g)
    BY <1>1, <1>2, <1>3
  <1>5. shortest_queue_gate(S) = CHOOSE x \in S : P(x)
    BY DEF shortest_queue_gate
  <1> HIDE DEF P
  <1>. QED BY <1>4, <1>5

\* assign_and_enqueue picks one of the gates, and a well-defined one.
LEMMA AssignedGate ==
    ASSUME TypeOK, NEW body
    PROVE  assigned_gate(body) \in Gates
  <1>1. EUGates \in SUBSET Gates /\ EUGates # {} /\ ALLGates \in SUBSET Gates /\ ALLGates # {}
    <2>1. 1 \in EUGates /\ EU_GATES + 1 \in ALLGates
      BY AirportAssumption DEF EUGates, ALLGates
    <2>. QED BY <2>1 DEF Gates
  <1>2. shortest_queue_gate(EUGates) \in Gates /\ shortest_queue_gate(ALLGates) \in Gates
    BY <1>1, ShortestProperties, Zenon
  <1>. QED BY <1>2 DEF assigned_gate

\* nq is q with a inserted at position k.
Inserted(nq, q, a, k) ==
    /\ nq \in Seq(Arrivals)
    /\ Len(nq) = Len(q) + 1
    /\ \A i \in 1 .. Len(q) + 1 : nq[i] = IF i < k THEN q[i] ELSE IF i = k THEN a ELSE q[i - 1]

\* queue.insert(0, guest), for an interrupted guest.
LEMMA PrependProperties ==
    ASSUME NEW q \in Seq(Arrivals), NEW a \in Arrivals
    PROVE  Inserted(<<a>> \o q, q, a, 1)
  <1>1. <<a>> \in Seq(Arrivals) /\ Len(<<a>>) = 1 /\ <<a>>[1] = a
    OBVIOUS
  <1> DEFINE u == <<a>>
  <1>2. u \in Seq(Arrivals)
    BY <1>1
  <1> HIDE DEF u
  <1>3. /\ u \o q \in Seq(Arrivals)
        /\ Len(u \o q) = Len(u) + Len(q)
        /\ \A i \in 1 .. Len(u) + Len(q) : (u \o q)[i] = IF i <= Len(u) THEN u[i] ELSE q[i - Len(u)]
    BY <1>2, ConcatProperties
  <1>. QED BY <1>1, <1>3, LenProperties DEF Inserted, u

\* enqueue inserts the guest at some place and moves no one else.
LEMMA EnqueueInserts ==
    ASSUME NEW q \in Seq(Arrivals), NEW a \in Arrivals
    PROVE  \E k \in 1 .. Len(q) + 1 : Inserted(enqueue(q, a), q, a, k)
  BY EnqueueProperties DEF Inserted

\* A guest whose row is unfinished enters the queue of its gate, where it was
\* not: the queue keeps its invariant and everybody who was queued still is.
LEMMA InsertStep ==
    ASSUME IInv, NEW a \in Arrivals, NEW nq, NEW k \in 1 .. Len(queue[gate[a]]) + 1,
           gate[a] \in Gates, phase \in {"booting", "running"}, ~ Queued(a, gate[a]), current[gate[a]] # a,
           status[a] = "queued" \/ (phase = "booting" /\ status[a] = "processing"),
           Inserted(nq, queue[gate[a]], a, k),
           queue' = [queue EXCEPT ![gate[a]] = nq],
           rows' \subseteq rows, a \notin rows',
           handler' = [handler EXCEPT ![a] = "done"],
           UNCHANGED <<table, phase, current>>
    PROVE  /\ queue' \in [Gates -> Seq(Arrivals)]
           /\ QueueInv'
           /\ Queued(a, gate[a])'
           /\ \A b \in Arrivals : \A g \in Gates : Queued(b, g) => Queued(b, g)'
  <1> DEFINE h == gate[a]  q == queue[h]
  <1>1. h \in Gates /\ q \in Seq(Arrivals) /\ Len(q) \in Nat /\ k \in 1 .. Len(q) + 1
    BY LenProperties DEF IInv, TypeOK
  <1>2. queue' \in [Gates -> Seq(Arrivals)]
    BY DEF IInv, TypeOK, Inserted
  <1>3. queue'[h] = nq /\ \A g \in Gates \ {h} : queue'[g] = queue[g]
    BY <1>1 DEF IInv, TypeOK
  <1>4. nq[k] = a /\ Len(nq) = Len(q) + 1
    BY <1>1 DEF Inserted
  <1>5. Queued(a, gate[a])'
    BY <1>1, <1>3, <1>4 DEF Queued, table
  <1>6. ASSUME NEW b \in Arrivals, NEW g \in Gates, Queued(b, g) PROVE Queued(b, g)'
    <2>1. CASE g # h
      BY <2>1, <1>3, <1>6 DEF Queued
    <2>2. CASE g = h
      <3>1. PICK i \in 1 .. Len(q) : q[i] = b
        BY <1>6, <2>2 DEF Queued
      <3>2. CASE i < k
        <4>1. nq[i] = b
          BY <1>1, <3>1, <3>2 DEF Inserted
        <4>. QED BY <1>1, <1>3, <1>4, <2>2, <3>1, <4>1 DEF Queued
      <3>3. CASE ~ (i < k)
        <4>1. nq[i + 1] = b
          BY <1>1, <3>1, <3>3 DEF Inserted
        <4>. QED BY <1>1, <1>3, <1>4, <2>2, <3>1, <4>1 DEF Queued
      <3>. QED BY <3>2, <3>3
    <2>. QED BY <2>1, <2>2
  <1>7. QueueInv'
    <2> SUFFICES ASSUME NEW g \in Gates, NEW i \in 1 .. Len(queue'[g])
                 PROVE  /\ gate'[queue'[g][i]] = g
                        /\ handler'[queue'[g][i]] = "done"
                        /\ current'[g] # queue'[g][i]
                        /\ queue'[g][i] \notin rows'
                        /\ phase' # "down"
                        /\ \/ status'[queue'[g][i]] = "queued"
                           \/ phase' = "booting" /\ status'[queue'[g][i]] = "processing"
                        /\ \A j \in 1 .. Len(queue'[g]) : queue'[g][i] = queue'[g][j] => i = j
      BY DEF QueueInv
    <2>0. \A x \in Gates : \A y \in 1 .. Len(queue[x]) : queue[x][y] \in Arrivals
      BY ElementOfSeq DEF IInv, TypeOK
    <2>1. CASE g # h
      BY <2>0, <2>1, <1>3 DEF IInv, TypeOK, QueueInv, table
    <2>2. CASE g = h
      <3>1. \A y \in 1 .. Len(q) : q[y] # a
        BY <1>1 DEF Queued
      <3>2. \A y, z \in 1 .. Len(q) : q[y] = q[z] => y = z
        BY <1>1 DEF IInv, QueueInv
      <3>3. \A y, z \in 1 .. Len(q) + 1 : nq[y] = nq[z] => y = z
        <4> DEFINE o(y) == IF y < k THEN y ELSE y - 1
        <4>1. \A y \in 1 .. Len(q) + 1 : y # k => o(y) \in 1 .. Len(q) /\ nq[y] = q[o(y)]
          BY <1>1 DEF Inserted
        <4>2. \A y, z \in 1 .. Len(q) + 1 : y # k /\ z # k /\ o(y) = o(z) => y = z
          BY <1>1
        <4> HIDE DEF o
        <4>3. ASSUME NEW y \in 1 .. Len(q) + 1, NEW z \in 1 .. Len(q) + 1, nq[y] = nq[z]
              PROVE  y = z
          <5>1. CASE y # k /\ z # k
            <6>1. o(y) = o(z)
              BY <3>2, <4>1, <4>3, <5>1
            <6>. QED BY <4>2, <5>1, <6>1
          <5>2. CASE y = k \/ z = k
            BY <1>4, <3>1, <4>1, <4>3, <5>2
          <5>. QED BY <5>1, <5>2
        <4>. QED BY <4>3
      <3>4. \A y \in 1 .. Len(q) + 1 : nq[y] = a \/ \E z \in 1 .. Len(q) : nq[y] = q[z]
        <4> TAKE y \in 1 .. Len(q) + 1
        <4>1. CASE y < k
          BY <1>1, <4>1 DEF Inserted
        <4>2. CASE y > k
          <5>1. y - 1 \in 1 .. Len(q) /\ nq[y] = q[y - 1]
            BY <1>1, <4>2 DEF Inserted
          <5>. QED BY <5>1
        <4>3. CASE y = k
          BY <1>4, <4>3
        <4>. QED BY <1>1, <4>1, <4>2, <4>3
      <3>5. i \in 1 .. Len(q) + 1 /\ queue'[g] = nq
        BY <1>3, <1>4, <2>2
      <3>6. CASE nq[i] = a
        BY <1>1, <1>4, <2>2, <3>3, <3>5, <3>6 DEF IInv, TypeOK, table
      <3>7. CASE \E z \in 1 .. Len(q) : nq[i] = q[z]
        <4>1. PICK z \in 1 .. Len(q) : nq[i] = q[z]
          BY <3>7
        <4>2. /\ gate[q[z]] = h /\ handler[q[z]] = "done" /\ current[h] # q[z] /\ q[z] \notin rows
              /\ status[q[z]] = "queued" \/ (phase = "booting" /\ status[q[z]] = "processing")
          BY <1>1, <4>1 DEF IInv, QueueInv
        <4>3. q[z] \in Arrivals /\ q[z] # a
          BY <1>1, <2>0, <3>1, <4>1
        <4>. QED BY <1>1, <1>4, <2>2, <3>3, <3>5, <4>1, <4>2, <4>3 DEF IInv, TypeOK, table
      <3>. QED BY <3>4, <3>5, <3>6, <3>7
    <2>. QED BY <2>1, <2>2
  <1>. QED BY <1>2, <1>5, <1>6, <1>7

\* _effective_rank is 0, 1 or 2.
LEMMA RankIsNat == \A a : rank(a) \in 0 .. 2
  BY DEF rank, effective_rank

\* enqueue keeps every inversion across the resumed guest.
LEMMA EnqueueKeepsRankOrder ==
    ASSUME IInv, NEW a \in Arrivals, gate[a] \in Gates,
           queue' = [queue EXCEPT ![gate[a]] = enqueue(@, a)],
           UNCHANGED <<guest, resumed>>
    PROVE  RankOrder'
  <1> DEFINE h == gate[a]  q == queue[h]  nq == enqueue(q, a)
  <1>1. q \in Seq(Arrivals) /\ Len(q) \in Nat
    BY LenProperties DEF IInv, TypeOK
  <1>2. PICK k \in 1 .. Len(q) + 1 :
            /\ Len(nq) = Len(q) + 1
            /\ \A i \in 1 .. Len(q) + 1 : nq[i] = IF i < k THEN q[i] ELSE IF i = k THEN a ELSE q[i - 1]
            /\ \A i \in 1 .. k - 1 : rank(q[i]) <= rank(a)
            /\ k <= Len(q) => rank(q[k]) > rank(a)
    BY <1>1, EnqueueProperties
  <1>3. queue'[h] = nq /\ \A g \in Gates \ {h} : queue'[g] = queue[g]
    BY DEF IInv, TypeOK
  <1>4. \A x, y \in 1 .. Len(q) : x < y /\ rank(q[x]) > rank(q[y]) => \E m \in x .. y : q[m] = resumed[h]
    BY DEF IInv, RankOrder
  <1>5. ASSUME NEW i \in 1 .. Len(q) + 1, NEW j \in 1 .. Len(q) + 1, i < j, rank(nq[i]) > rank(nq[j])
        PROVE  \E m \in i .. j : nq[m] = resumed[h]
    <2> HIDE DEF nq
    <2>1. \A m \in 1 .. Len(q) : m >= k => nq[m + 1] = q[m]
      BY <1>1, <1>2
    <2>2. CASE i < k /\ j < k
      <3>1. PICK m \in i .. j : q[m] = resumed[h]
        BY <1>1, <1>2, <1>4, <1>5, <2>2
      <3>. QED BY <1>1, <1>2, <2>2, <3>1
    <2>3. CASE i < k /\ j > k
      <3>1. PICK m \in i .. j - 1 : q[m] = resumed[h]
        <4>1. i < j - 1 /\ nq[i] = q[i] /\ nq[j] = q[j - 1] /\ i \in 1 .. Len(q) /\ j - 1 \in 1 .. Len(q)
          BY <1>1, <1>2, <1>5, <2>3
        <4>. QED BY <1>1, <1>4, <1>5, <2>3, <4>1
      <3>2. CASE m < k
        <4>1. nq[m] = q[m] /\ m \in i .. j
          BY <1>1, <1>2, <2>3, <3>1, <3>2
        <4>. QED BY <3>1, <4>1
      <3>3. CASE ~ (m < k)
        <4>1. nq[m + 1] = q[m] /\ m + 1 \in i .. j
          BY <1>1, <2>1, <2>3, <3>1, <3>3
        <4>. QED BY <3>1, <4>1
      <3>. QED BY <3>2, <3>3
    <2>4. CASE i > k
      <3>1. PICK m \in i - 1 .. j - 1 : q[m] = resumed[h]
        <4>1. nq[i] = q[i - 1] /\ nq[j] = q[j - 1] /\ i - 1 \in 1 .. Len(q) /\ j - 1 \in 1 .. Len(q)
          BY <1>1, <1>2, <1>5, <2>4
        <4>2. i - 1 < j - 1 /\ rank(q[i - 1]) > rank(q[j - 1])
          BY <1>5, <4>1
        <4>. QED BY <1>4, <4>1, <4>2
      <3>2. m \in 1 .. Len(q) /\ m >= k /\ m + 1 \in i .. j
        BY <1>1, <2>4, <3>1
      <3>3. nq[m + 1] = q[m]
        BY <2>1, <3>2
      <3>. QED BY <3>1, <3>2, <3>3
    <2>5. CASE i = k
      <3>1. nq[i] = a /\ nq[j] = q[j - 1] /\ j - 1 \in k .. Len(q) /\ rank(q[k]) > rank(a)
        <4>1. j \in k + 1 .. Len(q) + 1 /\ k <= Len(q)
          BY <1>1, <1>5, <2>5
        <4>2. nq[i] = a /\ nq[j] = q[j - 1]
          BY <1>1, <1>2, <2>5, <4>1
        <4>. QED BY <1>1, <1>2, <4>1, <4>2
      <3>2. k < j - 1 /\ rank(q[k]) > rank(q[j - 1])
        BY <1>5, <3>1, RankIsNat
      <3>3. PICK m \in k .. j - 1 : q[m] = resumed[h]
        <4>1. k \in 1 .. Len(q) /\ j - 1 \in 1 .. Len(q)
          BY <1>1, <1>2, <3>1
        <4>. QED BY <1>4, <3>2, <4>1
      <3>4. nq[m + 1] = q[m] /\ m + 1 \in i .. j
        BY <1>1, <2>1, <2>5, <3>1, <3>3
      <3>. QED BY <3>3, <3>4
    <2>6. CASE j = k
      BY <1>1, <1>2, <1>5, <2>6, RankIsNat
    <2>. QED BY <1>1, <1>5, <2>2, <2>3, <2>4, <2>5, <2>6
  <1>6. \A b : rank(b)' = rank(b)
    BY DEF rank
  <1> SUFFICES ASSUME NEW g \in Gates, NEW i \in 1 .. Len(queue'[g]), NEW j \in 1 .. Len(queue'[g]),
                      i < j, rank(queue'[g][i]) > rank(queue'[g][j])
               PROVE  \E m \in i .. j : queue'[g][m] = resumed'[g]
    BY <1>6 DEF RankOrder, rank
  <1>7. CASE g = h
    BY <1>2, <1>3, <1>5, <1>7
  <1>8. CASE g # h
    BY <1>3, <1>8 DEF IInv, RankOrder
  <1>. QED BY <1>7, <1>8

(***************************************************************************)
(* Every action keeps IInv                                                 *)
(***************************************************************************)

\* The empty table and the process that has not started.
LEMMA InitIInv == Init => IInv
  <1> SUFFICES ASSUME Init PROVE IInv
    OBVIOUS
  <1> USE DEF Init
  <1>1. TypeOK
    BY AirportAssumption DEF TypeOK, Arrivals
  <1>2. HandlerInv
    BY AirportAssumption DEF HandlerInv, InProgress, Arrivals
  <1>3. QueueInv /\ RankOrder
    BY DEF QueueInv, RankOrder
  <1>4. DeskInv /\ DeskRowInv /\ BootInv /\ EventInv /\ NoArrivalLost
    BY DEF DeskInv, DeskRowInv, BootInv, EventInv, NoArrivalLost, Unfinished
  <1>. QED BY <1>1, <1>2, <1>3, <1>4 DEF IInv

\* _rehydrate_from_db runs its query: every unfinished row is to be visited.
LEMMA BootStep == IInv /\ Boot => IInv'
  <1> SUFFICES ASSUME IInv, Boot PROVE IInv'
    OBVIOUS
  <1> USE DEF Boot, table, bounds, IInv
  <1>1. TypeOK'
    BY DEF TypeOK
  <1>2. HandlerInv'
    BY DEF HandlerInv
  <1>3. \A g \in Gates : Len(queue[g]) \in Nat /\ ~ (\E i \in 1 .. Len(queue[g]) : TRUE)
    BY LenProperties DEF TypeOK, QueueInv
  <1>4. QueueInv' /\ RankOrder'
    BY <1>3 DEF QueueInv, RankOrder
  <1>5. DeskInv' /\ DeskRowInv' /\ EventInv' /\ NoArrivalLost'
    BY DEF DeskInv, DeskRowInv, EventInv, NoArrivalLost
  <1>6. BootInv'
    BY DEF BootInv
  <1>. QED BY <1>1, <1>2, <1>4, <1>5, <1>6

\* A crash, and a start that fails, empty the memory; the table stays as it is
\* or has its interrupted rows reset.
LEMMA CrashStep == IInv /\ (Crash \/ BootFails) => IInv'
  <1> SUFFICES ASSUME IInv, Crash \/ BootFails PROVE IInv'
    OBVIOUS
  <1> USE DEF IInv
  <1>1. /\ phase' \in {"down", "halted"}
        /\ LoseMemory
        /\ UNCHANGED <<guest, gate, clock, announced>>
        /\ status' = status \/ status' = resetStatus
        /\ crashes' \in 0 .. MaxCrashes /\ dbErrors' \in 0 .. MaxDbErrors
    BY AirportAssumption DEF Crash, BootFails, table, TypeOK
  <1>2. \A a \in Arrivals :
        \/ status'[a] = status[a]
        \/ status[a] = "processing" /\ status'[a] = "queued"
    BY <1>1 DEF resetStatus, TypeOK
  <1>3. TypeOK'
    BY <1>1 DEF TypeOK, LoseMemory, resetStatus
  <1>4. HandlerInv'
    <2>1. \A a \in Arrivals : handler'[a] = IF handler[a] = "none" THEN "none" ELSE "done"
      BY <1>1 DEF LoseMemory
    <2>. QED BY <1>1, <1>2, <2>1 DEF HandlerInv, InProgress
  <1>5. QueueInv' /\ RankOrder'
    BY <1>1 DEF QueueInv, RankOrder, LoseMemory
  <1>6. DeskInv' /\ NoArrivalLost'
    BY <1>1 DEF DeskInv, NoArrivalLost, LoseMemory
  <1>7. DeskRowInv'
    <2>1. \A a \in Arrivals : status'[a] = "processing" => status[a] = "processing"
      BY <1>2
    <2>2. gate' = gate /\ phase' # "running"
      BY <1>1
    <2>. QED BY <2>1, <2>2 DEF DeskRowInv
  <1>8. EventInv'
    <2>1. \A a \in Arrivals : status[a] = "processed" => status'[a] = "processed"
      BY <1>2
    <2>2. announced' = announced /\ \A g \in Gates : current'[g] = 0
      BY <1>1 DEF LoseMemory
    <2>3. 0 \notin Arrivals
      BY DEF Arrivals
    <2>. QED BY <2>1, <2>2, <2>3 DEF EventInv
  <1>9. BootInv'
    BY <1>1 DEF BootInv, LoseMemory
  <1>. QED BY <1>3, <1>4, <1>5, <1>6, <1>7, <1>8, <1>9

\* The end of rehydration: every unfinished row is in its queue.
LEMMA RehydrateCommitStep == IInv /\ RehydrateCommit => IInv'
  <1> SUFFICES ASSUME IInv, RehydrateCommit PROVE IInv'
    OBVIOUS
  <1> USE DEF RehydrateCommit, resetStatus, bounds, IInv
  <1>0. \A g \in Gates : \A i \in 1 .. Len(queue[g]) : queue[g][i] \in Arrivals
    BY ElementOfSeq DEF TypeOK
  <1>1. TypeOK'
    BY DEF TypeOK
  <1>2. HandlerInv'
    BY DEF HandlerInv, InProgress, TypeOK
  <1>3. QueueInv'
    BY <1>0 DEF QueueInv, TypeOK
  <1>4. RankOrder'
    BY DEF RankOrder, rank
  <1>5. DeskInv' /\ DeskRowInv'
    BY DEF DeskInv, DeskRowInv
  <1>6. EventInv'
    BY DEF EventInv, DeskInv
  <1>7. NoArrivalLost'
    <2> SUFFICES ASSUME NEW a \in Arrivals, status'[a] \in Unfinished
                 PROVE  \E g \in Gates : gate'[a] = g /\ Queued(a, g)'
      BY DEF NoArrivalLost
    <2>1. status[a] \in Unfinished /\ gate[a] \in Gates
      BY DEF Unfinished, TypeOK, HandlerInv
    <2>. QED BY <2>1 DEF BootInv, Queued
  <1>8. BootInv'
    BY DEF BootInv
  <1>. QED BY <1>1, <1>2, <1>3, <1>4, <1>5, <1>6, <1>7, <1>8

\* _rehydrate_from_db puts one row into the queue of its gate.
LEMMA RehydrateRowStep == IInv /\ RehydrateRow => IInv'
  <1> SUFFICES ASSUME IInv, RehydrateRow PROVE IInv'
    OBVIOUS
  <1> USE DEF bounds, IInv
  <1>1. PICK a \in rows :
            /\ rows' = rows \ {a}
            /\ \/ /\ status[a] = "processing"
                  /\ queue' = [queue EXCEPT ![gate[a]] = <<a>> \o @]
                  /\ resumed' = [resumed EXCEPT ![gate[a]] = a]
               \/ /\ status[a] # "processing"
                  /\ queue' = [queue EXCEPT ![gate[a]] = enqueue(@, a)]
                  /\ UNCHANGED resumed
    BY DEF RehydrateRow
  <1>2. /\ phase = "booting"
        /\ UNCHANGED <<status, guest, gate, phase, clock, handler, current, worker, announced, crashes, dbErrors>>
    BY DEF RehydrateRow, table
  <1>3. /\ a \in Arrivals /\ status[a] \in Unfinished /\ gate[a] \in Gates /\ handler[a] = "done"
        /\ ~ Queued(a, gate[a]) /\ current[gate[a]] = 0
    BY <1>1, <1>2 DEF TypeOK, BootInv, HandlerInv, InProgress, Unfinished, QueueInv, Queued, DeskInv
  <1>4. queue[gate[a]] \in Seq(Arrivals)
    BY <1>3 DEF TypeOK
  <1>5. PICK nq \in Seq(Arrivals), k \in 1 .. Len(queue[gate[a]]) + 1 :
            Inserted(nq, queue[gate[a]], a, k) /\ queue' = [queue EXCEPT ![gate[a]] = nq]
    <2>1. 1 \in 1 .. Len(queue[gate[a]]) + 1
      BY <1>4, LenProperties
    <2>2. Inserted(<<a>> \o queue[gate[a]], queue[gate[a]], a, 1)
      BY <1>3, <1>4, PrependProperties
    <2>3. \E k \in 1 .. Len(queue[gate[a]]) + 1 :
             Inserted(enqueue(queue[gate[a]], a), queue[gate[a]], a, k)
      BY <1>3, <1>4, EnqueueInserts
    <2>4. CASE status[a] = "processing"
      BY <1>1, <2>1, <2>2, <2>4 DEF Inserted
    <2>5. CASE status[a] # "processing"
      BY <1>1, <2>3, <2>5 DEF Inserted
    <2>. QED BY <2>4, <2>5
  <1>6. /\ queue' \in [Gates -> Seq(Arrivals)]
        /\ QueueInv'
        /\ Queued(a, gate[a])'
        /\ \A b \in Arrivals : \A g \in Gates : Queued(b, g) => Queued(b, g)'
    <2>1. handler' = [handler EXCEPT ![a] = "done"]
      BY <1>2, <1>3 DEF TypeOK
    <2>2. a # 0
      BY <1>3 DEF Arrivals
    <2>. QED BY <1>1, <1>2, <1>3, <1>5, <2>1, <2>2, InsertStep DEF Unfinished, table
  <1>7. TypeOK'
    <2>1. resumed \in [Gates -> Arrivals \cup {0}] /\ rows \subseteq Arrivals
      BY DEF TypeOK
    <2>2. rows' \subseteq Arrivals
      BY <1>1, <2>1
    <2>3. resumed' \in [Gates -> Arrivals \cup {0}]
      <3>1. CASE UNCHANGED resumed
        BY <2>1, <3>1
      <3>2. CASE resumed' = [resumed EXCEPT ![gate[a]] = a]
        BY ONLY <1>3, <2>1, <3>2
      <3>. QED BY <1>1, <3>1, <3>2
    <2>. QED BY <1>2, <1>6, <2>2, <2>3 DEF TypeOK
  <1>8. HandlerInv' /\ DeskInv' /\ DeskRowInv' /\ EventInv' /\ NoArrivalLost'
    BY <1>2 DEF HandlerInv, DeskInv, DeskRowInv, EventInv, NoArrivalLost
  <1>9. BootInv'
    <2>1. \A b \in rows' : status'[b] \in Unfinished
      BY <1>1, <1>2 DEF BootInv
    <2>2. ASSUME NEW b \in Arrivals, status'[b] \in Unfinished PROVE b \in rows' \/ Queued(b, gate[b])'
      <3>1. gate[b] \in Gates
        BY <1>2, <2>2 DEF HandlerInv, TypeOK, Unfinished
      <3>. QED BY <1>1, <1>2, <1>6, <2>2, <3>1 DEF BootInv
    <2>3. ASSUME NEW g \in Gates, resumed'[g] # 0
          PROVE  /\ status[resumed'[g]] = "processing" /\ gate[resumed'[g]] = g
                 /\ resumed'[g] \notin rows'
      BY <1>1, <1>2, <1>3, <2>3 DEF BootInv, TypeOK
    <2>. QED BY <1>2, <2>1, <2>2, <2>3 DEF BootInv, Queued
  <1>10. RankOrder'
    <2>1. CASE status[a] # "processing"
      BY <1>1, <1>2, <1>3, <2>1, EnqueueKeepsRankOrder
    <2>2. CASE status[a] = "processing"
      <3> DEFINE h == gate[a]  q == queue[h]
      <3>1. queue'[h] = <<a>> \o q /\ \A g \in Gates \ {h} : queue'[g] = queue[g] /\ resumed'[g] = resumed[g]
        BY <1>1, <1>3, <2>2 DEF TypeOK
      <3>2. resumed'[h] = a /\ resumed[h] = 0
        BY <1>1, <1>2, <1>3, <2>2 DEF TypeOK, BootInv, DeskRowInv
      <3>3. Inserted(queue'[h], q, a, 1)
        BY <1>3, <1>4, <3>1, PrependProperties
      <3>4. \A x, y \in 1 .. Len(q) : x < y => rank(q[x]) <= rank(q[y])
        <4>1. \A m \in 1 .. Len(q) : q[m] # 0
          <5>1. \A m \in 1 .. Len(q) : q[m] \in Arrivals
            BY <1>4, ElementOfSeq
          <5>. QED BY <5>1 DEF Arrivals
        <4>2. Len(q) \in Nat
          BY <1>4, LenProperties
        <4> SUFFICES ASSUME NEW x \in 1 .. Len(q), NEW y \in 1 .. Len(q), x < y, rank(q[x]) > rank(q[y])
                     PROVE  FALSE
          BY RankIsNat
        <4>3. PICK m \in x .. y : q[m] = resumed[h]
          BY <1>3 DEF RankOrder
        <4>. QED BY <3>2, <4>1, <4>2, <4>3
      <3> SUFFICES ASSUME NEW g \in Gates, NEW i \in 1 .. Len(queue'[g]), NEW j \in 1 .. Len(queue'[g]),
                          i < j, rank(queue'[g][i]) > rank(queue'[g][j])
                   PROVE  \E m \in i .. j : queue'[g][m] = resumed'[g]
        BY <1>2 DEF RankOrder, rank
      <3>5. CASE g # h
        <4>1. queue'[g] = queue[g] /\ resumed'[g] = resumed[g]
          BY <3>1, <3>5
        <4>. QED BY <4>1 DEF RankOrder
      <3>6. CASE g = h /\ i = 1
        BY <3>2, <3>3, <3>6, <1>4, LenProperties DEF Inserted
      <3>7. CASE g = h /\ i # 1
        <4>1. i - 1 \in 1 .. Len(q) /\ j - 1 \in 1 .. Len(q) /\ queue'[h][i] = q[i - 1] /\ queue'[h][j] = q[j - 1]
          <5>1. Len(q) \in Nat /\ Len(queue'[h]) = Len(q) + 1
            BY <3>3, <1>4, LenProperties DEF Inserted
          <5>2. i \in 2 .. Len(q) + 1 /\ j \in 2 .. Len(q) + 1
            BY <3>7, <5>1
          <5>3. \A x \in 2 .. Len(q) + 1 : queue'[h][x] = q[x - 1]
            BY <3>3, <5>1 DEF Inserted
          <5>4. i - 1 \in 1 .. Len(q) /\ j - 1 \in 1 .. Len(q)
            BY ONLY <5>1, <5>2
          <5>5. queue'[h][i] = q[i - 1]
            BY ONLY <5>2, <5>3
          <5>6. queue'[h][j] = q[j - 1]
            BY ONLY <5>2, <5>3
          <5>. QED BY ONLY <5>4, <5>5, <5>6
        <4>2. rank(q[i - 1]) > rank(q[j - 1])
          BY <3>7, <4>1
        <4>3. rank(q[i - 1]) <= rank(q[j - 1])
          <5>1. i - 1 < j - 1
            OBVIOUS
          <5>. QED BY <3>4, <4>1, <5>1
        <4>. QED BY <4>2, <4>3, RankIsNat
      <3>. QED BY <3>5, <3>6, <3>7
    <2>. QED BY <2>1, <2>2
  <1>. QED BY <1>6, <1>7, <1>8, <1>9, <1>10

\* A request picks its gate and its queued_at.
LEMMA AssignStep == \A body \in Inputs : IInv /\ Assign(body) => IInv'
  <1> SUFFICES ASSUME NEW body \in Inputs, IInv, Assign(body) PROVE IInv'
    OBVIOUS
  <1> USE DEF Assign, memory, bounds, IInv
  <1> DEFINE a == clock + 1
  <1>1. a \in Arrivals /\ clock \in Nat /\ handler[a] = "none" /\ status[a] = "none" /\ phase = "running"
    BY DEF TypeOK, HandlerInv, Arrivals
  <1>2. assigned_gate(body) \in Gates
    BY AssignedGate
  <1>3. TypeOK'
    BY <1>1, <1>2, AirportAssumption DEF TypeOK, Arrivals
  <1>4. HandlerInv'
    BY <1>1, <1>2 DEF HandlerInv, TypeOK, InProgress, Arrivals
  <1>5. \A g \in Gates : \A i \in 1 .. Len(queue[g]) : queue[g][i] \in Arrivals /\ queue[g][i] # a
    BY <1>1, ElementOfSeq DEF TypeOK, QueueInv
  <1>6. QueueInv'
    BY <1>1, <1>5 DEF QueueInv, TypeOK
  <1>7. RankOrder'
    <2>1. \A b \in Arrivals : b # a => rank(b)' = rank(b)
      BY <1>1 DEF rank, TypeOK
    <2>2. UNCHANGED <<queue, resumed>>
      OBVIOUS
    <2> SUFFICES ASSUME NEW g \in Gates, NEW i \in 1 .. Len(queue[g]), NEW j \in 1 .. Len(queue[g]),
                        i < j, rank(queue[g][i])' > rank(queue[g][j])'
                 PROVE  \E m \in i .. j : queue[g][m] = resumed[g]
      BY <2>2 DEF RankOrder, rank
    <2>3. rank(queue[g][i])' = rank(queue[g][i]) /\ rank(queue[g][j])' = rank(queue[g][j])
      BY <1>5, <2>1, <2>2 DEF rank
    <2>. QED BY <2>3 DEF RankOrder
  <1>8. \A g \in Gates : current[g] # a
    BY <1>1 DEF DeskInv, Arrivals
  <1>9. DeskInv'
    BY <1>1, <1>8 DEF DeskInv, TypeOK
  <1>10. DeskRowInv'
    BY <1>1 DEF DeskRowInv, TypeOK
  <1>11. BootInv' /\ EventInv'
    BY <1>1 DEF BootInv, EventInv
  <1>12. NoArrivalLost'
    <2> SUFFICES ASSUME NEW b \in Arrivals, status[b] \in Unfinished
                 PROVE  \/ handler'[b] \in {"committed", "stranded"}
                        \/ \E g \in Gates : gate'[b] = g /\ (Queued(b, g) \/ current[g] = b)
      BY <1>1 DEF NoArrivalLost, Queued
    <2>1. b # a
      BY <1>1 DEF Unfinished
    <2>2. handler'[b] = handler[b] /\ gate'[b] = gate[b]
      BY <1>1, <2>1 DEF TypeOK
    <2>. QED BY <1>1, <2>2 DEF NoArrivalLost
  <1>. QED BY <1>3, <1>4, <1>6, <1>7, <1>9, <1>10, <1>11, <1>12

\* assign_and_enqueue commits the row, and goes on or raises.
LEMMA InsertRowStep == \A a \in Arrivals :
    IInv /\ (InsertRow(a) \/ RaisesAfterCommit(a)) => IInv'
  <1> SUFFICES ASSUME NEW a \in Arrivals, IInv, InsertRow(a) \/ RaisesAfterCommit(a) PROVE IInv'
    OBVIOUS
  <1> USE DEF IInv
  <1>0. PICK h \in {"committed", "stranded"} :
        /\ handler[a] = "assigned" /\ handler' = [handler EXCEPT ![a] = h]
        /\ status' = [status EXCEPT ![a] = "queued"]
        /\ UNCHANGED <<guest, gate, phase, clock, rows, queue, current, worker, resumed, announced, crashes>>
        /\ dbErrors' \in 0 .. MaxDbErrors
    BY AirportAssumption DEF InsertRow, RaisesAfterCommit, memory, bounds, TypeOK
  <1>1. status[a] = "none" /\ phase = "running" /\ gate[a] \in Gates
    BY <1>0 DEF HandlerInv, InProgress
  <1>2. TypeOK'
    BY <1>0 DEF TypeOK
  <1>3. HandlerInv'
    BY <1>0, <1>1 DEF HandlerInv, TypeOK, InProgress
  <1>4. \A g \in Gates : \A i \in 1 .. Len(queue[g]) : queue[g][i] \in Arrivals /\ queue[g][i] # a
    BY <1>1, ElementOfSeq DEF TypeOK, QueueInv
  <1>5. QueueInv'
    BY <1>0, <1>1, <1>4 DEF QueueInv, TypeOK
  <1>6. RankOrder'
    BY <1>0 DEF RankOrder, rank
  <1>7. DeskInv'
    BY <1>0, <1>1 DEF DeskInv, TypeOK, Arrivals
  <1>8. DeskRowInv' /\ BootInv'
    BY <1>0, <1>1 DEF DeskRowInv, BootInv, TypeOK
  <1>9. EventInv'
    BY <1>0, <1>1 DEF EventInv, TypeOK
  <1>10. NoArrivalLost'
    BY <1>0, <1>1 DEF NoArrivalLost, Queued, TypeOK, Unfinished
  <1>. QED BY <1>2, <1>3, <1>5, <1>6, <1>7, <1>8, <1>9, <1>10

\* The commit of assign_and_enqueue raises: there is no row.
LEMMA InsertFailsStep == \A a \in Arrivals : IInv /\ InsertFails(a) => IInv'
  <1> SUFFICES ASSUME NEW a \in Arrivals, IInv, InsertFails(a) PROVE IInv'
    OBVIOUS
  <1> USE DEF InsertFails, memory, table, bounds, IInv
  <1>1. status[a] = "none" /\ phase = "running" /\ gate[a] \in Gates
    BY DEF HandlerInv, InProgress
  <1>2. TypeOK'
    BY AirportAssumption DEF TypeOK
  <1>3. HandlerInv'
    BY <1>1 DEF HandlerInv, TypeOK, InProgress
  <1>4. QueueInv'
    BY <1>1, ElementOfSeq DEF QueueInv, TypeOK
  <1>5. RankOrder'
    BY DEF RankOrder, rank
  <1>6. DeskInv'
    BY <1>1 DEF DeskInv, TypeOK, Arrivals
  <1>7. DeskRowInv' /\ BootInv' /\ EventInv'
    BY <1>1 DEF DeskRowInv, BootInv, EventInv, Queued
  <1>8. NoArrivalLost'
    BY <1>1 DEF NoArrivalLost, Queued, TypeOK, Unfinished
  <1>. QED BY <1>2, <1>3, <1>4, <1>5, <1>6, <1>7, <1>8

\* assign_and_enqueue puts the guest into the queue of the gate.
LEMMA EnqueueStep == \A a \in Arrivals : IInv /\ Enqueue(a) => IInv'
  <1> SUFFICES ASSUME NEW a \in Arrivals, IInv, Enqueue(a) PROVE IInv'
    OBVIOUS
  <1> USE DEF bounds, IInv
  <1>1. /\ handler[a] = "committed"
        /\ handler' = [handler EXCEPT ![a] = "done"]
        /\ queue' = [queue EXCEPT ![gate[a]] = enqueue(@, a)]
        /\ UNCHANGED <<status, guest, gate, phase, clock, rows, current, worker, resumed, announced, crashes, dbErrors>>
    BY DEF Enqueue, table
  <1>2. status[a] = "queued" /\ phase = "running" /\ gate[a] \in Gates /\ rows = {}
    BY <1>1 DEF HandlerInv, InProgress, BootInv
  <1>3. ~ Queued(a, gate[a]) /\ current[gate[a]] # a
    BY <1>1, <1>2 DEF QueueInv, Queued, DeskInv, Arrivals
  <1>4. queue[gate[a]] \in Seq(Arrivals)
    BY <1>2 DEF TypeOK
  <1>5. PICK k \in 1 .. Len(queue[gate[a]]) + 1 : Inserted(enqueue(queue[gate[a]], a), queue[gate[a]], a, k)
    BY <1>4, EnqueueInserts
  <1>6. /\ queue' \in [Gates -> Seq(Arrivals)]
        /\ QueueInv'
        /\ Queued(a, gate[a])'
        /\ \A b \in Arrivals : \A g \in Gates : Queued(b, g) => Queued(b, g)'
    BY <1>1, <1>2, <1>3, <1>5, InsertStep DEF table
  <1>7. TypeOK'
    BY <1>1, <1>6 DEF TypeOK
  <1>8. HandlerInv'
    BY <1>1, <1>2 DEF HandlerInv, TypeOK, InProgress
  <1>9. DeskInv'
    BY <1>1 DEF DeskInv, TypeOK, Arrivals
  <1>10. DeskRowInv' /\ BootInv' /\ EventInv'
    BY <1>1, <1>2 DEF DeskRowInv, BootInv, EventInv
  <1>11. NoArrivalLost'
    <2> SUFFICES ASSUME NEW b \in Arrivals, status[b] \in Unfinished
                 PROVE  \/ handler'[b] \in {"committed", "stranded"}
                        \/ \E g \in Gates : gate[b] = g /\ (Queued(b, g)' \/ current[g] = b)
      BY <1>1 DEF NoArrivalLost
    <2>1. CASE b = a
      BY <1>2, <1>6, <2>1, <1>1
    <2>2. CASE b # a
      BY <1>1, <1>2, <1>6, <2>2 DEF NoArrivalLost, TypeOK
    <2>. QED BY <2>1, <2>2
  <1>12. RankOrder'
    BY <1>1, <1>2, EnqueueKeepsRankOrder
  <1>. QED BY <1>6, <1>7, <1>8, <1>9, <1>10, <1>11, <1>12

\* A worker takes the guest at the head of its queue.
LEMMA PopStep == \A g \in Gates : IInv /\ Pop(g) => IInv'
  <1> SUFFICES ASSUME NEW g \in Gates, IInv, Pop(g) PROVE IInv'
    OBVIOUS
  <1> USE DEF bounds, table, IInv
  <1> DEFINE q == queue[g]
  <1>1. /\ worker[g] = "poll" /\ q # <<>> /\ phase = "running" /\ rows = {}
        /\ queue' = [queue EXCEPT ![g] = Tail(q)]
        /\ current' = [current EXCEPT ![g] = Head(q)]
        /\ worker' = [worker EXCEPT ![g] = "popped"]
        /\ UNCHANGED <<status, guest, gate, phase, clock, handler, rows, resumed, announced, crashes, dbErrors>>
    BY DEF Pop, DeskInv, BootInv
  <1>2. /\ q \in Seq(Arrivals) /\ Len(q) \in Nat \ {0} /\ Head(q) = q[1] /\ q[1] \in Arrivals
        /\ Tail(q) \in Seq(Arrivals) /\ Len(Tail(q)) = Len(q) - 1
        /\ \A i \in 1 .. Len(q) - 1 : Tail(q)[i] = q[i + 1]
    <2>1. q \in Seq(Arrivals)
      BY DEF TypeOK
    <2>2. Tail(q) \in Seq(Arrivals) /\ Len(Tail(q)) = Len(q) - 1
          /\ \A i \in 1 .. Len(Tail(q)) : Tail(q)[i] = q[i + 1]
      BY <1>1, <2>1, HeadTailProperties
    <2>3. Len(q) \in Nat \ {0} /\ Head(q) = q[1]
      BY <1>1, <2>1, EmptySeq
    <2>4. q[1] \in Arrivals
      BY <2>1, <2>3, ElementOfSeq
    <2>. QED BY <2>1, <2>2, <2>3, <2>4
  <1>3. /\ gate[q[1]] = g /\ handler[q[1]] = "done" /\ status[q[1]] = "queued"
        /\ \A i \in 2 .. Len(q) : q[i] # q[1]
    BY <1>1, <1>2 DEF QueueInv
  <1>4. /\ queue'[g] = Tail(q) /\ \A h \in Gates \ {g} : queue'[h] = queue[h]
        /\ Len(queue'[g]) = Len(q) - 1
        /\ \A i \in 1 .. Len(q) - 1 : i + 1 \in 2 .. Len(q) /\ queue'[g][i] = q[i + 1]
    <2>1. queue'[g] = Tail(q) /\ \A h \in Gates \ {g} : queue'[h] = queue[h]
      BY <1>1 DEF TypeOK
    <2>. QED BY <1>2, <2>1
  <1>5. TypeOK'
    BY <1>1, <1>2 DEF TypeOK
  <1>6. HandlerInv' /\ DeskRowInv' /\ BootInv'
    <2>1. HandlerInv' /\ BootInv'
      BY <1>1 DEF HandlerInv, BootInv
    <2>2. DeskRowInv'
      BY <1>1, <1>2, <1>3 DEF DeskRowInv, DeskInv, TypeOK, Arrivals
    <2>. QED BY <2>1, <2>2
  <1>7. QueueInv'
    <2> SUFFICES ASSUME NEW h \in Gates, NEW i \in 1 .. Len(queue'[h])
                 PROVE  /\ gate[queue'[h][i]] = h
                        /\ handler[queue'[h][i]] = "done"
                        /\ current'[h] # queue'[h][i]
                        /\ queue'[h][i] \notin rows
                        /\ status[queue'[h][i]] = "queued"
                        /\ \A j \in 1 .. Len(queue'[h]) : queue'[h][i] = queue'[h][j] => i = j
      BY <1>1 DEF QueueInv
    <2>1. CASE h # g
      BY <1>1, <1>4, <2>1 DEF QueueInv, TypeOK
    <2>2. CASE h = g
      <3>1. i + 1 \in 2 .. Len(q) /\ queue'[h][i] = q[i + 1]
        <4>1. i \in 1 .. Len(q) - 1
          BY <1>4, <2>2
        <4>. QED BY <1>4, <2>2, <4>1, Zenon
      <3>2. \A j \in 1 .. Len(queue'[h]) : j + 1 \in 2 .. Len(q) /\ queue'[h][j] = q[j + 1]
        BY <1>4, <2>2, Zenon
      <3>3. \A j \in 1 .. Len(queue'[h]) : q[i + 1] = q[j + 1] => i + 1 = j + 1
        BY <3>1, <3>2, <1>2 DEF QueueInv
      <3>4. current'[h] = q[1]
        BY <1>1, <1>2, <2>2 DEF TypeOK
      <3>5. gate[q[i + 1]] = g /\ handler[q[i + 1]] = "done" /\ status[q[i + 1]] = "queued"
        BY <1>1, <1>2, <3>1 DEF QueueInv
      <3>6. ASSUME NEW j \in 1 .. Len(queue'[h]), queue'[h][i] = queue'[h][j] PROVE i = j
        <4>1. i + 1 = j + 1 /\ Len(queue'[h]) \in Nat
          BY <1>2, <1>4, <2>2, <3>1, <3>2, <3>3, <3>6
        <4>. QED BY <4>1
      <3>7. q[i + 1] # q[1] /\ q[i + 1] \notin rows
        BY <1>1, <1>3, <3>1
      <3>. QED BY <2>2, <3>1, <3>4, <3>5, <3>6, <3>7
    <2>. QED BY <2>1, <2>2
  <1>8. DeskInv'
    BY <1>1, <1>2, <1>3 DEF DeskInv, TypeOK, Arrivals
  <1>9. EventInv'
    BY <1>1, <1>2, <1>3 DEF EventInv, TypeOK, Arrivals
  <1>10. NoArrivalLost'
    <2> SUFFICES ASSUME NEW b \in Arrivals, status[b] \in Unfinished, handler[b] \notin {"committed", "stranded"}
                 PROVE  \E h \in Gates : gate[b] = h /\ (Queued(b, h)' \/ current'[h] = b)
      BY <1>1 DEF NoArrivalLost
    <2>1. PICK h \in Gates : gate[b] = h /\ (Queued(b, h) \/ current[h] = b)
      BY <1>1 DEF NoArrivalLost
    <2>2. CASE h # g
      BY <1>1, <1>4, <2>1, <2>2 DEF Queued, TypeOK
    <2>3. CASE h = g
      <3>1. PICK i \in 1 .. Len(q) : q[i] = b
        BY <1>1, <2>1, <2>3 DEF Queued, DeskInv, Arrivals
      <3>2. CASE i = 1
        BY <1>1, <1>2, <2>1, <2>3, <3>1, <3>2 DEF TypeOK
      <3>3. CASE i # 1
        <4>1. i - 1 \in 1 .. Len(Tail(q)) /\ Tail(q)[i - 1] = b
          BY <1>2, <3>1, <3>3
        <4>. QED BY <1>4, <2>1, <2>3, <4>1 DEF Queued
      <3>. QED BY <3>2, <3>3
    <2>. QED BY <2>2, <2>3
  <1>11. RankOrder'
    <2>0. UNCHANGED <<guest, resumed>>
      BY <1>1
    <2> SUFFICES ASSUME NEW h \in Gates, NEW i \in 1 .. Len(queue'[h]), NEW j \in 1 .. Len(queue'[h]),
                        i < j, rank(queue'[h][i]) > rank(queue'[h][j])
                 PROVE  \E m \in i .. j : queue'[h][m] = resumed[h]
      BY <2>0 DEF RankOrder, rank
    <2>1. CASE h # g
      <3>1. queue'[h] = queue[h]
        BY <1>4, <2>1
      <3>. QED BY <3>1 DEF RankOrder
    <2>2. CASE h = g
      <3>1. \A x \in 1 .. Len(q) - 1 : queue'[h][x] = q[x + 1]
        BY <1>2, <1>4, <2>2
      <3>2. i \in 1 .. Len(q) - 1 /\ j \in 1 .. Len(q) - 1
        BY <1>2, <1>4, <2>2
      <3>3. rank(q[i + 1]) > rank(q[j + 1]) /\ i + 1 \in 1 .. Len(q) /\ j + 1 \in 1 .. Len(q) /\ i + 1 < j + 1
        BY <1>2, <3>1, <3>2
      <3>4. PICK m \in i + 1 .. j + 1 : q[m] = resumed[h]
        BY <2>2, <3>3 DEF RankOrder
      <3>5. m - 1 \in i .. j /\ queue'[h][m - 1] = q[m]
        <4>1. m - 1 \in i .. j /\ m - 1 \in 1 .. Len(q) - 1 /\ (m - 1) + 1 = m
          BY <1>2, <3>2, <3>4
        <4>. QED BY <3>1, <4>1
      <3>. QED BY <3>4, <3>5
    <2>. QED BY <2>1, <2>2
  <1>. QED BY <1>5, <1>6, <1>7, <1>8, <1>9, <1>10, <1>11

\* A worker's write to the row of the guest at its desk.
LEMMA CommitStep == \A g \in Gates :
    IInv /\ (CommitProcessing(g) \/ CommitProcessed(g) \/ DiesAfterCommit(g)) => IInv'
  <1> SUFFICES ASSUME NEW g \in Gates, IInv,
                      CommitProcessing(g) \/ CommitProcessed(g) \/ DiesAfterCommit(g)
               PROVE  IInv'
    OBVIOUS
  <1> USE DEF bounds, IInv
  <1> DEFINE a == current[g]
  <1>1. PICK v \in {"processing", "processed"} :
        /\ \/ worker[g] = "popped" /\ v = "processing"
              /\ \E w \in {"serving", "dead"} : worker' = [worker EXCEPT ![g] = w]
           \/ worker[g] = "serving" /\ v = "processed"
              /\ \E w \in {"served", "dead"} : worker' = [worker EXCEPT ![g] = w]
        /\ status' = [status EXCEPT ![a] = IF @ = "none" THEN @ ELSE v]
        /\ UNCHANGED <<guest, gate, phase, clock, handler, rows, queue, current, resumed, announced, crashes>>
        /\ dbErrors' \in 0 .. MaxDbErrors
    BY AirportAssumption DEF Commit, CommitProcessing, CommitProcessed, DiesAfterCommit, TypeOK
  <1>2. /\ phase = "running" /\ rows = {}
        /\ a \in Arrivals /\ gate[a] = g /\ handler[a] = "done"
        /\ worker[g] = "popped" => status[a] = "queued"
        /\ worker[g] = "serving" => status[a] = "processing"
    BY <1>1 DEF DeskInv, TypeOK, BootInv
  <1>3. status'[a] = v /\ \A b \in Arrivals \ {a} : status'[b] = status[b]
    BY <1>1, <1>2 DEF TypeOK
  <1>4. TypeOK'
    BY <1>1, <1>2 DEF TypeOK
  <1>5. HandlerInv'
    BY <1>1, <1>2, <1>3 DEF HandlerInv
  <1>6. \A h \in Gates : \A i \in 1 .. Len(queue[h]) : queue[h][i] \in Arrivals /\ queue[h][i] # a
    BY <1>2, ElementOfSeq DEF TypeOK, QueueInv
  <1>7. QueueInv'
    BY <1>1, <1>3, <1>6 DEF QueueInv
  <1>8. \A h \in Gates \ {g} : current[h] # a
    BY <1>2 DEF DeskInv, Arrivals
  <1>9. DeskInv'
    BY <1>1, <1>2, <1>3, <1>8 DEF DeskInv, TypeOK, Arrivals
  <1>10. DeskRowInv'
    <2>1. \A b \in Arrivals \ {a} : gate[b] = g => status[b] # "processing"
      BY <1>2 DEF DeskRowInv
    <2>. QED BY <1>1, <1>2, <1>3, <2>1 DEF DeskRowInv
  <1>11. BootInv'
    BY <1>1, <1>2 DEF BootInv
  <1>12. EventInv'
    BY <1>1, <1>2, <1>3, <1>8 DEF EventInv, TypeOK
  <1>13. NoArrivalLost'
    BY <1>1, <1>2, <1>3 DEF NoArrivalLost, Queued
  <1>14. RankOrder'
    BY <1>1 DEF RankOrder, rank
  <1>. QED BY <1>4, <1>5, <1>7, <1>9, <1>10, <1>11, <1>12, <1>13, <1>14

\* Publishing, leaving the desk and dying leave the table and the queues alone.
LEMMA DeskStep == \A g \in Gates :
    IInv /\ (Publish(g) \/ Release(g) \/ WorkerDies(g)) => IInv'
  <1> SUFFICES ASSUME NEW g \in Gates, IInv, Publish(g) \/ Release(g) \/ WorkerDies(g) PROVE IInv'
    OBVIOUS
  <1> USE DEF Publish, Release, WorkerDies, bounds, table, IInv
  <1>1. /\ UNCHANGED <<status, guest, gate, phase, clock, handler, rows, queue, resumed, crashes>>
        /\ phase = "running" /\ worker[g] \notin {"stopped", "poll"} /\ current[g] \in Arrivals
        /\ \A h \in Gates \ {g} : current'[h] = current[h] /\ worker'[h] = worker[h]
    BY DEF DeskInv, TypeOK
  <1>2. TypeOK'
    <2>1. CASE Publish(g)
      BY <1>1, <2>1 DEF TypeOK
    <2>2. CASE Release(g)
      BY <1>1, <2>2 DEF TypeOK
    <2>3. CASE WorkerDies(g)
      <3>1. dbErrors' \in 0 .. MaxDbErrors
        BY <2>3, AirportAssumption DEF TypeOK
      <3>. QED BY <1>1, <2>3, <3>1 DEF TypeOK
    <2>. QED BY <2>1, <2>2, <2>3
  <1>3. HandlerInv' /\ RankOrder' /\ BootInv'
    BY <1>1 DEF HandlerInv, RankOrder, rank, BootInv
  <1>4. current'[g] \in {current[g], 0}
    BY <1>1 DEF TypeOK
  <1>5. QueueInv'
    <2>1. \A h \in Gates : \A i \in 1 .. Len(queue[h]) : queue[h][i] # 0
      <3>1. \A h \in Gates : \A i \in 1 .. Len(queue[h]) : queue[h][i] \in Arrivals
        BY ElementOfSeq DEF TypeOK
      <3>. QED BY <3>1 DEF Arrivals
    <2>. QED BY <1>1, <1>4, <2>1 DEF QueueInv
  <1>6. DeskInv'
    BY <1>1 DEF DeskInv, TypeOK, Arrivals, Unfinished
  <1>7. \A h \in Gates \ {g} : current[h] # current[g]
    BY <1>1 DEF DeskInv, Arrivals
  <1>8. EventInv'
    <2>1. CASE Publish(g)
      <3>1. announced[current[g]] = 0 /\ status[current[g]] = "processed"
        BY <1>1, <2>1 DEF EventInv, DeskInv, TypeOK, Arrivals
      <3>. QED BY <1>1, <1>7, <2>1, <3>1 DEF EventInv, TypeOK
    <2>2. CASE Release(g)
      BY <1>1, <2>2 DEF EventInv, TypeOK, Arrivals
    <2>3. CASE WorkerDies(g)
      BY <1>1, <2>3 DEF EventInv, TypeOK, DeskInv
    <2>. QED BY <2>1, <2>2, <2>3
  <1>9. DeskRowInv'
    <2>1. Release(g) => status[current[g]] = "processed"
      BY <1>1 DEF DeskInv, Arrivals
    <2>2. \A b \in Arrivals : status[b] = "processing" => current'[gate[b]] = current[gate[b]]
      <3>1. ASSUME NEW b \in Arrivals, status[b] = "processing" PROVE current'[gate[b]] = current[gate[b]]
        <4>1. gate[b] \in Gates /\ current[gate[b]] = b
          BY <1>1, <3>1 DEF DeskRowInv, HandlerInv, TypeOK
        <4>. QED BY <1>1, <2>1, <3>1, <4>1 DEF TypeOK
      <3>. QED BY <3>1
    <2>. QED BY <1>1, <2>2 DEF DeskRowInv
  <1>10. NoArrivalLost'
    <2>1. worker[g] = "published" => status[current[g]] = "processed"
      BY <1>1 DEF DeskInv, Arrivals
    <2>2. \A b \in Arrivals : status[b] \in Unfinished =>
            \A h \in Gates : current[h] = b => current'[h] = b
      BY <1>1, <2>1 DEF Unfinished, TypeOK
    <2>. QED BY <1>1, <2>2 DEF NoArrivalLost, Queued
  <1>. QED BY <1>2, <1>3, <1>5, <1>6, <1>8, <1>9, <1>10

\* Every step of the specification keeps the inductive invariant.
LEMMA NextIInv == IInv /\ [Next]_vars => IInv'
  <1> SUFFICES ASSUME IInv, [Next]_vars PROVE IInv'
    OBVIOUS
  <1>1. CASE UNCHANGED vars
    BY <1>1 DEF vars, table, memory, bounds, IInv, TypeOK, HandlerInv, QueueInv, DeskInv,
        DeskRowInv, BootInv, EventInv, NoArrivalLost, RankOrder, rank, Queued
  <1>2. CASE Next
    BY <1>2, BootStep, RehydrateRowStep, RehydrateCommitStep, CrashStep, AssignStep, InsertRowStep,
       InsertFailsStep, EnqueueStep, PopStep, CommitStep, DeskStep DEF Next
  <1>. QED BY <1>1, <1>2

(***************************************************************************)
(* Theorems                                                                *)
(***************************************************************************)

\* The inductive invariant holds in every state.
LEMMA Invariance == Spec => []IInv
  BY InitIInv, NextIInv, PTL DEF Spec

\* The state of passport control keeps its type.
THEOREM TypeCorrect == Spec => []TypeOK
  <1>1. IInv => TypeOK
    BY DEF IInv
  <1>. QED BY <1>1, Invariance, PTL

\* For any number of gates, guests, request threads, crashes and database
\* errors: no unfinished arrival is lost by the running process, but for those
\* whose request raised after its commit in this very process.
THEOREM ArrivalsAreKept == Spec => []NoArrivalLost
  <1>1. IInv => NoArrivalLost
    BY DEF IInv
  <1>. QED BY <1>1, Invariance, PTL

\* Nobody is queued twice, or queued and at a desk, or queued without waiting.
THEOREM ArrivalsAreInOnePlace == Spec => []InOnePlace
  <1>1. IInv => InOnePlace
    BY DEF IInv, QueueInv, InOnePlace
  <1>. QED BY <1>1, Invariance, PTL

\* publish_event is called at most once for an arrival, after the commit.
THEOREM EventsFollowCommits == Spec => []AnnouncedOnce
  <1>1. IInv => AnnouncedOnce
    BY DEF IInv, EventInv, AnnouncedOnce
  <1>. QED BY <1>1, Invariance, PTL

\* A queue is in rank order but for the guest resumed after a crash.
THEOREM QueuesAreRanked == Spec => []RankOrder
  <1>1. IInv => RankOrder
    BY DEF IInv
  <1>. QED BY <1>1, Invariance, PTL

\* Airport implements PassportControl: its table only takes the steps of the
\* documented lifecycle, one guest at a desk at a time.
THEOREM Refinement == Spec => ImplementsPassportControl
  <1> DEFINE d == [a \in Arrivals |-> status[a]]
             t == [a \in Arrivals |-> IF status[a] = "none" THEN 0 ELSE gate[a]]
  <1>1. Init => PC!Init
    BY DEF Init, PC!Init
  <1>2. IInv /\ IInv' /\ [Next]_vars => [PC!Next]_<<d, t>>
    <2> SUFFICES ASSUME IInv, IInv', [Next]_vars PROVE PC!Next \/ UNCHANGED <<d, t>>
      OBVIOUS
    <2>0. d = status /\ d' = status'
      BY DEF IInv, TypeOK
    <2>1. ASSUME UNCHANGED <<status, gate>> PROVE UNCHANGED <<d, t>>
      BY <2>1
    <2>2. CASE UNCHANGED vars \/ Boot \/ RehydrateRow \/ Crash \/ (BootFails /\ status' = status)
      BY <2>1, <2>2 DEF vars, table, Boot, RehydrateRow, Crash, BootFails
    <2>3. CASE \E a \in Arrivals : InsertFails(a) \/ Enqueue(a)
      BY <2>1, <2>3 DEF table, InsertFails, Enqueue
    <2>4. CASE \E g \in Gates : Pop(g) \/ Publish(g) \/ Release(g) \/ WorkerDies(g)
      BY <2>1, <2>4 DEF table, Pop, Publish, Release, WorkerDies
    <2>5. CASE RehydrateCommit \/ (BootFails /\ status' = resetStatus)
      <3>1. d' = [a \in Arrivals |-> IF d[a] = "processing" THEN "queued" ELSE d[a]] /\ t' = t
        BY <2>5 DEF RehydrateCommit, BootFails, resetStatus
      <3>. QED BY <3>1 DEF PC!Next, PC!Restart
    <2>6. ASSUME NEW body \in Inputs, Assign(body) PROVE UNCHANGED <<d, t>>
      <3>1. status[clock + 1] = "none" /\ clock + 1 \in Arrivals
        BY <2>6 DEF Assign, IInv, TypeOK, HandlerInv, Arrivals
      <3>2. \A b \in Arrivals : status[b] # "none" => gate'[b] = gate[b]
        BY <2>6, <3>1 DEF Assign, IInv, TypeOK
      <3>3. status' = status
        BY <2>6 DEF Assign
      <3>. QED BY <3>2, <3>3
    <2>7. ASSUME NEW a \in Arrivals, InsertRow(a) \/ RaisesAfterCommit(a) PROVE PC!Next
      <3>1. d[a] = "none" /\ gate[a] \in Gates
        BY <2>7 DEF InsertRow, RaisesAfterCommit, IInv, HandlerInv
      <3>2. d' = [d EXCEPT ![a] = "queued"]
        BY <2>0, <2>7 DEF InsertRow, RaisesAfterCommit
      <3>3. t' = [t EXCEPT ![a] = gate[a]]
        BY <2>7 DEF InsertRow, RaisesAfterCommit, IInv, TypeOK
      <3>. QED BY <3>1, <3>2, <3>3 DEF PC!Next, PC!Register
    <2>8. ASSUME NEW g \in Gates, CommitProcessing(g) \/ Commit(g, "popped", "dead", "processing") PROVE PC!Next
      <3> DEFINE a == current[g]
      <3>1. a \in Arrivals /\ gate[a] = g /\ status[a] = "queued" /\ phase = "running"
        BY <2>8 DEF CommitProcessing, Commit, IInv, DeskInv, TypeOK
      <3>2. status' = [status EXCEPT ![a] = "processing"] /\ gate' = gate
        BY <2>8, <3>1 DEF CommitProcessing, Commit
      <3>3. t' = t
        BY <3>1, <3>2 DEF IInv, TypeOK
      <3>4. \A b \in Arrivals : t[b] = t[a] => d[b] # "processing"
        BY <3>1 DEF IInv, DeskRowInv
      <3>. QED BY <2>0, <3>1, <3>2, <3>3, <3>4 DEF PC!Next, PC!Call
    <2>9. ASSUME NEW g \in Gates, CommitProcessed(g) \/ Commit(g, "serving", "dead", "processed") PROVE PC!Next
      <3> DEFINE a == current[g]
      <3>1. a \in Arrivals /\ status[a] = "processing"
        BY <2>9 DEF CommitProcessed, Commit, IInv, DeskInv, TypeOK
      <3>2. status' = [status EXCEPT ![a] = "processed"] /\ gate' = gate
        BY <2>9, <3>1 DEF CommitProcessed, Commit
      <3>3. t' = t
        BY <3>1, <3>2 DEF IInv, TypeOK
      <3>. QED BY <2>0, <3>1, <3>2, <3>3 DEF PC!Next, PC!Clear
    <2>10. BootFails => status' = status \/ status' = resetStatus
      BY DEF BootFails
    <2>. QED BY <2>2, <2>3, <2>4, <2>5, <2>6, <2>7, <2>8, <2>9, <2>10 DEF Next, DiesAfterCommit
  <1>. QED BY <1>1, <1>2, Invariance, PTL DEF Spec, PC!Spec, ImplementsPassportControl
====
