------------------------------- MODULE Airport -------------------------------
(***************************************************************************)
(* Passport control (src/services/airport): Flask request threads, one     *)
(* worker thread per gate, the in-memory gate queues and the SQLite table  *)
(* of arrivals, with process crashes and the rehydration that follows.     *)
(*                                                                         *)
(* An arrival is named by its queued_at stamp: game_now() grows between    *)
(* two calls, and the code uses the autoincrement id only as a unique key. *)
(* Gates are numbered in the order GateManager.__init__ creates them, EU   *)
(* gates first; 0 stands for None.                                         *)
(***************************************************************************)
EXTENDS Integers, SequencesExt

CONSTANTS
    EU_GATES,     \* number of EU gates
    ALL_GATES,    \* number of ALL gates
    Guests,       \* guest ids
    Inputs,       \* the request bodies that pass ArrivalInputSchema
    Threads,      \* request threads: POSTs in progress at once
    MaxArrivals,  \* bound: POSTs accepted
    MaxCrashes,   \* bound: crashes of the process
    MaxDbErrors   \* bound: database statements that raise

GuestInput == [guest_id : Guests, passport_type : {"EU", "non-EU"},
               priority : {"standard", "fast"}, disability : BOOLEAN]

ASSUME AirportAssumption ==
    /\ EU_GATES \in Nat \ {0} /\ ALL_GATES \in Nat \ {0}
    /\ Inputs \subseteq GuestInput
    /\ Threads \in Nat \ {0}
    /\ MaxArrivals \in Nat /\ MaxCrashes \in Nat /\ MaxDbErrors \in Nat

Arrivals == 1 .. MaxArrivals
EUGates == 1 .. EU_GATES
ALLGates == EU_GATES + 1 .. EU_GATES + ALL_GATES
Gates == EUGates \cup ALLGates

NoGuest == [guest_id |-> "none"]

VARIABLES
    \* The table "arrivals", on disk. guest and gate are also fields of the
    \* guest dict that memory shares; status is the column.
    status,     \* "none" (no row), "queued", "processing" or "processed"
    guest,      \* the body of the request
    gate,       \* the assigned gate
    \* The process.
    phase,      \* "down", "booting", "running" or "halted" (the start failed)
    rows,       \* booting: rows of the rehydration query not yet visited
    clock,      \* the last queued_at handed out
    handler,    \* where the POST of an arrival stands
    queue,      \* Gate.queue
    current,    \* Gate.currently_processing
    worker,     \* where Gate._run stands
    \* History and bounds.
    resumed,    \* the guest this rehydration found "processing" at a gate
    announced,  \* calls of publish_event for an arrival
    crashes, dbErrors

table == <<status, guest, gate>>
memory == <<rows, queue, current, worker, resumed>>
bounds == <<crashes, dbErrors>>
vars == <<table, phase, clock, handler, memory, announced, bounds>>

Unfinished == {"queued", "processing"}
InProgress == {"assigned", "committed"}

(***************************************************************************)
(* Gate queues                                                             *)
(***************************************************************************)
effective_rank(body) ==
    IF body.disability THEN 0 ELSE IF body.priority = "fast" THEN 1 ELSE 2

rank(a) == effective_rank(guest[a])

\* The guest is put before the first one of a greater rank, else at the end.
insert_at(q, a) ==
    CHOOSE k \in 1 .. Len(q) + 1 :
        /\ \A i \in 1 .. k - 1 : rank(q[i]) <= rank(a)
        /\ k <= Len(q) => rank(q[k]) > rank(a)

\* Mutant: every guest goes to the end.
enqueue_last(q, a) == Append(q, a)

enqueue(q, a) == InsertAt(q, insert_at(q, a), a)

\* min() over the gates of a type: the first of the shortest.
shortest_queue_gate(S) ==
    CHOOSE g \in S : \A h \in S :
        \/ Len(queue[g]) < Len(queue[h])
        \/ Len(queue[g]) = Len(queue[h]) /\ g <= h

assigned_gate(body) ==
    LET eu == shortest_queue_gate(EUGates)
        all == shortest_queue_gate(ALLGates)
    IN  IF body.passport_type = "EU" /\ Len(queue[all]) >= Len(queue[eu])
        THEN eu ELSE all

(***************************************************************************)
(* Start of the process: GateManager.__init__, _rehydrate_from_db and      *)
(* start_all. No request and no worker runs before it is over.             *)
(***************************************************************************)
Init ==
    /\ status = [a \in Arrivals |-> "none"]
    /\ guest = [a \in Arrivals |-> NoGuest]
    /\ gate = [a \in Arrivals |-> 0]
    /\ phase = "down"
    /\ rows = {}
    /\ clock = 0
    /\ handler = [a \in Arrivals |-> "none"]
    /\ queue = [g \in Gates |-> <<>>]
    /\ current = [g \in Gates |-> 0]
    /\ worker = [g \in Gates |-> "stopped"]
    /\ resumed = [g \in Gates |-> 0]
    /\ announced = [a \in Arrivals |-> 0]
    /\ crashes = 0 /\ dbErrors = 0

\* Mutant: the query forgets the rows that were being processed.
BootQueuedOnly ==
    /\ phase \in {"down", "halted"}
    /\ phase' = "booting"
    /\ rows' = {a \in Arrivals : status[a] = "queued"}
    /\ UNCHANGED <<table, clock, handler, queue, current, worker, resumed, announced, bounds>>

\* The query: unfinished rows, visited in the order of queued_at.
Boot ==
    /\ phase \in {"down", "halted"}
    /\ phase' = "booting"
    /\ rows' = {a \in Arrivals : status[a] \in Unfinished}
    /\ UNCHANGED <<table, clock, handler, queue, current, worker, resumed, announced, bounds>>

RehydrateRow ==
    /\ phase = "booting"
    /\ \E a \in rows :
        /\ \A b \in rows : a <= b
        /\ rows' = rows \ {a}
        /\ \/ /\ status[a] = "processing"
              /\ queue' = [queue EXCEPT ![gate[a]] = <<a>> \o @]
              /\ resumed' = [resumed EXCEPT ![gate[a]] = a]
           \/ /\ status[a] # "processing"
              /\ queue' = [queue EXCEPT ![gate[a]] = enqueue(@, a)]
              /\ UNCHANGED resumed
    /\ UNCHANGED <<table, phase, clock, handler, current, worker, announced, bounds>>

\* Mutant: the commit resets no row.
RehydrateCommitNone ==
    /\ phase = "booting"
    /\ rows = {}
    /\ phase' = "running"
    /\ worker' = [g \in Gates |-> "poll"]
    /\ UNCHANGED <<status, guest, gate, clock, handler, rows, queue, current, resumed, announced, bounds>>

resetStatus == [a \in Arrivals |-> IF status[a] = "processing" THEN "queued" ELSE status[a]]

\* One commit resets every interrupted row; then the workers start.
RehydrateCommit ==
    /\ phase = "booting"
    /\ rows = {}
    /\ status' = resetStatus
    /\ phase' = "running"
    /\ worker' = [g \in Gates |-> "poll"]
    /\ UNCHANGED <<guest, gate, clock, handler, rows, queue, current, resumed, announced, bounds>>

\* Everything in memory is gone, requests in progress get no answer.
LoseMemory ==
    /\ rows' = {}
    /\ handler' = [a \in Arrivals |-> IF handler[a] = "none" THEN "none" ELSE "done"]
    /\ queue' = [g \in Gates |-> <<>>]
    /\ current' = [g \in Gates |-> 0]
    /\ worker' = [g \in Gates |-> "stopped"]
    /\ resumed' = [g \in Gates |-> 0]

Crash ==
    /\ phase \in {"booting", "running"}
    /\ crashes < MaxCrashes
    /\ crashes' = crashes + 1
    /\ phase' = "down"
    /\ LoseMemory
    /\ UNCHANGED <<table, clock, announced, dbErrors>>

\* A statement of the rehydration raises, the commit possibly after it is
\* durable: create_app fails, and a worker that cannot boot ends gunicorn.
BootFails ==
    /\ phase = "booting"
    /\ dbErrors < MaxDbErrors
    /\ dbErrors' = dbErrors + 1
    /\ phase' = "halted"
    /\ status' \in {status} \cup (IF rows = {} THEN {resetStatus} ELSE {})
    /\ LoseMemory
    /\ UNCHANGED <<guest, gate, clock, announced, crashes>>

(***************************************************************************)
(* POST /arrivals: create_arrival and assign_and_enqueue.                  *)
(***************************************************************************)

\* The queue lengths are read without a lock; the choice is stale by the
\* time the guest is inserted.
Assign(body) ==
    LET a == clock + 1 IN
    /\ phase = "running"
    /\ a \in Arrivals
    /\ Cardinality({b \in Arrivals : handler[b] \in InProgress}) < Threads
    /\ clock' = a
    /\ guest' = [guest EXCEPT ![a] = body]
    /\ gate' = [gate EXCEPT ![a] = assigned_gate(body)]
    /\ handler' = [handler EXCEPT ![a] = "assigned"]
    /\ UNCHANGED <<status, phase, memory, announced, bounds>>

InsertRow(a) ==
    /\ handler[a] = "assigned"
    /\ handler' = [handler EXCEPT ![a] = "committed"]
    /\ status' = [status EXCEPT ![a] = "queued"]
    /\ UNCHANGED <<guest, gate, phase, clock, memory, announced, bounds>>

\* The insert or the commit raises and no row is written.
InsertFails(a) ==
    /\ handler[a] = "assigned"
    /\ dbErrors < MaxDbErrors
    /\ dbErrors' = dbErrors + 1
    /\ handler' = [handler EXCEPT ![a] = "done"]
    /\ UNCHANGED <<table, phase, clock, memory, announced, crashes>>

\* The row is durable, but the commit raises all the same, or the SELECT that
\* reloads the expired arrival.id does: the request ends before enqueue.
RaisesAfterCommit(a) ==
    /\ handler[a] = "assigned"
    /\ dbErrors < MaxDbErrors
    /\ dbErrors' = dbErrors + 1
    /\ handler' = [handler EXCEPT ![a] = "stranded"]
    /\ status' = [status EXCEPT ![a] = "queued"]
    /\ UNCHANGED <<guest, gate, phase, clock, memory, announced, crashes>>

Enqueue(a) ==
    /\ handler[a] = "committed"
    /\ handler' = [handler EXCEPT ![a] = "done"]
    /\ queue' = [queue EXCEPT ![gate[a]] = enqueue(@, a)]
    /\ UNCHANGED <<table, phase, clock, rows, current, worker, resumed, announced, bounds>>

(***************************************************************************)
(* Gate._run                                                               *)
(***************************************************************************)
\* Mutants: the guest at the head is not removed; the last guest never is.
PopAs(g, rest, least) ==
    /\ worker[g] = "poll"
    /\ Len(queue[g]) >= least
    /\ queue' = [queue EXCEPT ![g] = rest]
    /\ current' = [current EXCEPT ![g] = Head(queue[g])]
    /\ worker' = [worker EXCEPT ![g] = "popped"]
    /\ UNCHANGED <<table, phase, clock, handler, rows, resumed, announced, bounds>>
PopPeek(g) == PopAs(g, queue[g], 1)
PopOffByOne(g) == PopAs(g, Tail(queue[g]), 2)

Pop(g) ==
    /\ worker[g] = "poll"
    /\ queue[g] # <<>>
    /\ queue' = [queue EXCEPT ![g] = Tail(@)]
    /\ current' = [current EXCEPT ![g] = Head(queue[g])]
    /\ worker' = [worker EXCEPT ![g] = "popped"]
    /\ UNCHANGED <<table, phase, clock, handler, rows, resumed, announced, bounds>>

\* A commit of the worker: nothing is written when the row is not there.
Commit(g, from, to, value) ==
    /\ worker[g] = from
    /\ worker' = [worker EXCEPT ![g] = to]
    /\ status' = [status EXCEPT ![current[g]] = IF @ = "none" THEN @ ELSE value]
    /\ UNCHANGED <<guest, gate, phase, clock, handler, rows, queue, current, resumed, announced, crashes>>

CommitProcessing(g) == Commit(g, "popped", "serving", "processing") /\ UNCHANGED dbErrors

\* After the processing time has passed.
CommitProcessed(g) == Commit(g, "serving", "served", "processed") /\ UNCHANGED dbErrors

\* Mutant: the event goes out before the commit.
PublishEarly(g) ==
    /\ worker[g] = "serving"
    /\ worker' = [worker EXCEPT ![g] = "published"]
    /\ announced' = [announced EXCEPT ![current[g]] = @ + 1]
    /\ UNCHANGED <<table, phase, clock, handler, rows, queue, current, resumed, bounds>>

\* publish_event tries once and swallows every failure; whether the event
\* arrives is the hub's matter.
Publish(g) ==
    /\ worker[g] = "served"
    /\ worker' = [worker EXCEPT ![g] = "published"]
    /\ announced' = [announced EXCEPT ![current[g]] = @ + 1]
    /\ UNCHANGED <<table, phase, clock, handler, rows, queue, current, resumed, bounds>>

Release(g) ==
    /\ worker[g] = "published"
    /\ worker' = [worker EXCEPT ![g] = "poll"]
    /\ current' = [current EXCEPT ![g] = 0]
    /\ UNCHANGED <<table, phase, clock, handler, rows, queue, resumed, announced, bounds>>

\* _run catches nothing: a statement that raises ends the thread for good.
WorkerDies(g) ==
    /\ worker[g] \in {"popped", "serving"}
    /\ dbErrors < MaxDbErrors
    /\ dbErrors' = dbErrors + 1
    /\ worker' = [worker EXCEPT ![g] = "dead"]
    /\ UNCHANGED <<table, phase, clock, handler, rows, queue, current, resumed, announced, crashes>>

\* The commit raises after it is durable.
DiesAfterCommit(g) ==
    /\ dbErrors < MaxDbErrors
    /\ dbErrors' = dbErrors + 1
    /\ \/ Commit(g, "popped", "dead", "processing")
       \/ Commit(g, "serving", "dead", "processed")

Next ==
    \/ Boot \/ RehydrateRow \/ RehydrateCommit \/ Crash \/ BootFails
    \/ \E body \in Inputs : Assign(body)
    \/ \E a \in Arrivals : InsertRow(a) \/ InsertFails(a) \/ RaisesAfterCommit(a) \/ Enqueue(a)
    \/ \E g \in Gates :
        \/ Pop(g) \/ CommitProcessing(g) \/ CommitProcessed(g)
        \/ Publish(g) \/ Release(g) \/ WorkerDies(g) \/ DiesAfterCommit(g)

\* gunicorn's master starts a new process when one ends, unless it failed to
\* boot; a request thread and a gate's worker keep running. No fairness for
\* clients, crashes, errors and whoever starts a halted container.
Fairness ==
    /\ WF_vars((phase = "down" /\ Boot) \/ RehydrateRow \/ RehydrateCommit)
    /\ \A a \in Arrivals : WF_vars(InsertRow(a) \/ Enqueue(a))
    /\ \A g \in Gates :
        WF_vars(Pop(g) \/ CommitProcessing(g) \/ CommitProcessed(g) \/ Publish(g) \/ Release(g))

Spec == Init /\ [][Next]_vars
FairSpec == Spec /\ Fairness

----------------------------------------------------------------------------
(***************************************************************************)
(* Properties                                                              *)
(***************************************************************************)

\* The type of the state.
TypeOK ==
    /\ status \in [Arrivals -> {"none", "queued", "processing", "processed"}]
    /\ guest \in [Arrivals -> GuestInput \cup {NoGuest}]
    /\ gate \in [Arrivals -> Gates \cup {0}]
    /\ phase \in {"down", "booting", "running", "halted"}
    /\ rows \subseteq Arrivals
    /\ clock \in 0 .. MaxArrivals
    /\ handler \in [Arrivals -> {"none", "assigned", "committed", "stranded", "done"}]
    /\ queue \in [Gates -> Seq(Arrivals)]
    /\ current \in [Gates -> Arrivals \cup {0}]
    /\ worker \in [Gates -> {"stopped", "poll", "popped", "serving", "served", "published", "dead"}]
    /\ resumed \in [Gates -> Arrivals \cup {0}]
    /\ announced \in [Arrivals -> Nat]
    /\ crashes \in 0 .. MaxCrashes
    /\ dbErrors \in 0 .. MaxDbErrors

Queued(a, g) == \E i \in 1 .. Len(queue[g]) : queue[g][i] = a

\* No guest is lost: while the process runs, an unfinished row is in the hands
\* of its request thread, in the queue of its gate or at its desk, whatever
\* crashed, raised or raced before (the row and the queue are written by
\* separate steps of assign_and_enqueue, and memory is rebuilt from the rows).
\* The exception is a row whose request raised after the commit, and only in
\* the process that served the request: the next start queues it.
NoArrivalLost ==
    phase = "running" =>
        \A a \in Arrivals : status[a] \in Unfinished =>
            \/ handler[a] \in {"committed", "stranded"}
            \/ \E g \in Gates : gate[a] = g /\ (Queued(a, g) \/ current[g] = a)

\* No guest is handled twice: an arrival stands in at most one place of one
\* queue, a guest at a desk is in no queue, and whoever is queued has a row
\* that is waiting (rehydration and the request threads both insert).
InOnePlace ==
    \A g \in Gates : \A i \in 1 .. Len(queue[g]) :
        /\ gate[queue[g][i]] = g
        /\ phase = "running" => status[queue[g][i]] = "queued"
        /\ current[g] # queue[g][i]
        /\ \A j \in 1 .. Len(queue[g]) : queue[g][i] = queue[g][j] => i = j

\* At most one event is published for an arrival, and only when its row says
\* "processed" (the hotel reads the row when a client acts on the event).
AnnouncedOnce ==
    \A a \in Arrivals :
        announced[a] <= 1 /\ (announced[a] = 1 => status[a] = "processed")

\* Rank order: a guest waits behind one of a greater rank only where the guest
\* interrupted by the last crash stands between them or is one of the two, so
\* once that guest is served the queue is in rank order again.
RankOrder ==
    \A g \in Gates : \A i, j \in 1 .. Len(queue[g]) :
        (i < j /\ rank(queue[g][i]) > rank(queue[g][j])) =>
            \E k \in i .. j : queue[g][k] = resumed[g]

\* What the table promises to the other services.
PC == INSTANCE PassportControl WITH
        desk <- [a \in Arrivals |-> status[a]],
        at <- [a \in Arrivals |-> IF status[a] = "none" THEN 0 ELSE gate[a]]

\* The table goes through the lifecycle models.py documents, with one guest at
\* a desk at a time and a reset of all desks at once on a restart.
ImplementsPassportControl == PC!Spec

\* Every guest whose row was committed is processed in the end, through crashes
\* and restarts. Only a database error stops it: one that kills the worker of
\* the gate, fails the start of the process, or ends the request after its
\* commit; a guest stranded by such a request is served once a process starts.
EveryArrivalServed ==
    \A a \in Arrivals : status[a] = "queued" ~>
        \/ status[a] = "processed"
        \/ handler[a] = "stranded"
        \/ phase = "halted"
        \/ \E g \in Gates : gate[a] = g /\ worker[g] = "dead"
====
