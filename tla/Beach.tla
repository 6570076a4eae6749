-------------------------------- MODULE Beach --------------------------------
(***************************************************************************)
(* Activity bookings (src/services/beach): Ktor request handlers over the  *)
(* PostgreSQL tables activity_bookings and visitors.                       *)
(*                                                                         *)
(* Each repository call is a transaction of its own, so a booking reads    *)
(* the activity, the visitor and the visitor's current booking in three    *)
(* transactions and writes in a fourth. Transactions are REPEATABLE READ:  *)
(* a write transaction works on the snapshot of its first statement and    *)
(* fails when a row it writes was written since, or when the key it        *)
(* inserts is taken. Exposed then runs the block again, a few times.       *)
(***************************************************************************)
EXTENDS Integers, FiniteSets

CONSTANTS
    Activities,   \* ids of table activities
    Capacity,     \* column capacity
    Visitors,     \* visitor ids that are not blank
    NoId,         \* a blank visitor id, an activity id that has no row
    Inputs,       \* the <<activity, visitor>> pairs clients name
    Calls,        \* HTTP calls in progress at once
    MaxAttempts   \* runs of a transaction block before its error is thrown

ASSUME BeachAssumption ==
    /\ IsFiniteSet(Activities) /\ IsFiniteSet(Visitors)
    /\ Capacity \in [Activities -> Nat]
    /\ NoId \notin Activities \cup Visitors
    /\ Inputs \subseteq (Activities \cup {NoId}) \X (Visitors \cup {NoId})
    /\ IsFiniteSet(Calls) /\ Calls # {}
    /\ MaxAttempts \in Nat \ {0}

Requests == [op : {"book", "cancel", "check-in", "check-out"},
             activity : Activities \cup {NoId}, visitor : Visitors \cup {NoId}]
NoRequest == [op |-> "none", activity |-> NoId, visitor |-> NoId]

VARIABLES
    bookings,   \* table activity_bookings: pairs <<activity, visitor>>
    checked,    \* table visitors: "unknown" (no row), "in" or "out"
    request,    \* what a call asks for
    pc,         \* where the call stands
    open,       \* booking: the activity was read with a free place
    snap,       \* transaction: rows of bookings it deletes, as it saw them
    known,      \* transaction: it saw the visitor's row, which it updates
    touched,    \* transaction: a row it writes was written since
    attempts,   \* runs of the transaction block that failed
    held        \* history: during the call its effect was in the tables

tables == <<bookings, checked>>
tx == <<snap, known, touched, attempts>>
vars == <<tables, request, pc, open, tx, held>>

op(s) == request[s].op
visitor(s) == request[s].visitor
row(s) == <<request[s].activity, request[s].visitor>>

bookedVisitors(a) == {v \in Visitors : <<a, v>> \in bookings}
rowsOf(v) == {r \in bookings : r[2] = v}

Init ==
    /\ bookings = {}
    /\ checked = [v \in Visitors |-> "unknown"]
    /\ request = [s \in Calls |-> NoRequest]
    /\ pc = [s \in Calls |-> "idle"]
    /\ open = [s \in Calls |-> FALSE]
    /\ snap = [s \in Calls |-> {}]
    /\ known = [s \in Calls |-> FALSE]
    /\ touched = [s \in Calls |-> FALSE]
    /\ attempts = [s \in Calls |-> 0]
    /\ held = [s \in Calls |-> FALSE]

----------------------------------------------------------------------------
(***************************************************************************)
(* A call up to its write. "rejected" stands for every error answer.       *)
(***************************************************************************)
isFull(a) == Cardinality(bookedVisitors(a)) >= Capacity[a]

Start(s, r, next) ==
    /\ pc[s] = "idle"
    /\ request' = [request EXCEPT ![s] = r]
    /\ pc' = [pc EXCEPT ![s] = next]
    /\ UNCHANGED <<tables, tx>>

\* BookActivityUseCase: the checks of the ids and findById of the activity,
\* whose bookedVisitors are used three transactions later.
Book(s, a, v) ==
    /\ Start(s, [op |-> "book", activity |-> a, visitor |-> v],
             IF v = NoId \/ a = NoId THEN "rejected" ELSE "visitor")
    /\ open' = [open EXCEPT ![s] = a # NoId /\ ~isFull(a)]

ReadVisitor(s) ==
    /\ pc[s] = "visitor"
    /\ pc' = [pc EXCEPT ![s] = IF checked[visitor(s)] = "in" THEN "current" ELSE "rejected"]
    /\ UNCHANGED <<tables, request, open, tx>>

\* Mutant: the place is not checked.
ReadCurrentUnchecked(s) ==
    /\ pc[s] = "current"
    /\ pc' = [pc EXCEPT ![s] = "write"]
    /\ UNCHANGED <<tables, request, open, tx>>

\* findByBookedVisitor returns one of the visitor's rows, whichever comes
\* first; then the two remaining checks.
ReadCurrent(s) ==
    /\ pc[s] = "current"
    /\ \E found \in IF rowsOf(visitor(s)) = {} THEN {<<NoId, NoId>>} ELSE rowsOf(visitor(s)) :
        pc' = [pc EXCEPT ![s] = IF found = row(s) \/ ~open[s] THEN "rejected" ELSE "write"]
    /\ UNCHANGED <<tables, request, open, tx>>

\* CancelActivityUseCase: nothing to delete is a success.
Cancel(s, a, v) ==
    /\ Start(s, [op |-> "cancel", activity |-> a, visitor |-> v],
             IF v = NoId \/ a = NoId THEN "rejected"
             ELSE IF v \in bookedVisitors(a) THEN "write" ELSE "ok")
    /\ UNCHANGED open

CheckIn(s, v) ==
    /\ Start(s, [op |-> "check-in", activity |-> NoId, visitor |-> v],
             IF v = NoId THEN "rejected" ELSE "write")
    /\ UNCHANGED open

CheckOut(s, v) ==
    /\ Start(s, [op |-> "check-out", activity |-> NoId, visitor |-> v],
             IF v = NoId THEN "rejected" ELSE "write")
    /\ UNCHANGED open

----------------------------------------------------------------------------
(***************************************************************************)
(* The write transaction                                                   *)
(***************************************************************************)

\* The rows of activity_bookings that the statements delete.
deletedRows(s) ==
    {r \in rowsOf(visitor(s)) :
        \/ op(s) \in {"book", "check-out"}
        \/ op(s) = "cancel" /\ r = row(s)}

\* Without a row check-in inserts one and check-out updates none.
seesVisitor(s) ==
    op(s) \in {"check-in", "check-out"} /\ checked[visitor(s)] # "unknown"

\* Mutants: one operation forgets its DELETE.
BeginWithout(s, name) ==
    /\ pc[s] = "write"
    /\ pc' = [pc EXCEPT ![s] = "tx"]
    /\ snap' = [snap EXCEPT ![s] = IF op(s) = name THEN {} ELSE deletedRows(s)]
    /\ known' = [known EXCEPT ![s] = seesVisitor(s)]
    /\ UNCHANGED <<tables, request, open, touched, attempts>>
BeginBookInserts(s) == BeginWithout(s, "book")
BeginCheckOutKeeps(s) == BeginWithout(s, "check-out")

\* The first statement fixes the snapshot.
Begin(s) ==
    /\ pc[s] = "write"
    /\ pc' = [pc EXCEPT ![s] = "tx"]
    /\ snap' = [snap EXCEPT ![s] = deletedRows(s)]
    /\ known' = [known EXCEPT ![s] = seesVisitor(s)]
    /\ UNCHANGED <<tables, request, open, touched, attempts>>

conflict(s) ==
    \/ touched[s]
    \/ op(s) = "book" /\ row(s) \in bookings \ snap[s]
    \/ op(s) = "check-in" /\ ~known[s] /\ checked[visitor(s)] # "unknown"

Commit(s) ==
    /\ pc[s] = "tx"
    /\ ~conflict(s)
    /\ bookings' = (bookings \ snap[s]) \cup (IF op(s) = "book" THEN {row(s)} ELSE {})
    /\ checked' = [v \in Visitors |->
                     CASE v = visitor(s) /\ op(s) = "check-in" -> "in"
                       [] v = visitor(s) /\ op(s) = "check-out" /\ known[s] -> "out"
                       [] OTHER -> checked[v]]
    /\ touched' = [t \in Calls |->
                     \/ touched[t]
                     \/ /\ pc[t] = "tx" /\ t # s
                        /\ \/ snap[t] \cap snap[s] # {}
                           \/ known[t] /\ known[s] /\ visitor(s) = visitor(t)]
    /\ snap' = [snap EXCEPT ![s] = {}]
    /\ known' = [known EXCEPT ![s] = FALSE]
    /\ pc' = [pc EXCEPT ![s] = "ok"]
    /\ UNCHANGED <<request, open, attempts>>

Rollback(s) ==
    /\ snap' = [snap EXCEPT ![s] = {}]
    /\ known' = [known EXCEPT ![s] = FALSE]
    /\ touched' = [touched EXCEPT ![s] = FALSE]
    /\ UNCHANGED <<tables, request, open>>

\* Mutants: the error is swallowed; the block is run again for ever.
RetryAs(s, next) ==
    /\ pc[s] = "tx"
    /\ conflict(s)
    /\ pc' = [pc EXCEPT ![s] = next]
    /\ Rollback(s)
    /\ UNCHANGED attempts
RetrySwallowed(s) == RetryAs(s, "ok")
RetryForever(s) == RetryAs(s, "write")

\* A failed transaction is rolled back and its block run again from the
\* start, on a new snapshot, unless it was the last attempt.
Retry(s) ==
    /\ pc[s] = "tx"
    /\ conflict(s)
    /\ attempts' = [attempts EXCEPT ![s] = @ + 1]
    /\ pc' = [pc EXCEPT ![s] = IF attempts[s] + 1 < MaxAttempts THEN "write" ELSE "rejected"]
    /\ Rollback(s)

Answer(s) ==
    /\ pc[s] \in {"ok", "rejected"}
    /\ pc' = [pc EXCEPT ![s] = "idle"]
    /\ request' = [request EXCEPT ![s] = NoRequest]
    /\ open' = [open EXCEPT ![s] = FALSE]
    /\ attempts' = [attempts EXCEPT ![s] = 0]
    /\ UNCHANGED <<tables, snap, known, touched>>

----------------------------------------------------------------------------
effect(s) ==
    CASE op(s) = "book" -> row(s) \in bookings
      [] op(s) = "cancel" -> row(s) \notin bookings
      [] op(s) = "check-in" -> \E v \in Visitors : v = visitor(s) /\ checked[v] = "in"
      [] op(s) = "check-out" -> \A v \in Visitors : v = visitor(s) => checked[v] # "in"
      [] OTHER -> FALSE

History == held' = [s \in Calls |-> pc'[s] # "idle" /\ (held[s] \/ effect(s)')]

Progress(s) ==
    /\ \/ ReadVisitor(s) \/ ReadCurrent(s)
       \/ Begin(s) \/ Commit(s) \/ Retry(s) \/ Answer(s)
    /\ History

Client(s) ==
    /\ \/ \E i \in Inputs : Book(s, i[1], i[2]) \/ Cancel(s, i[1], i[2])
       \/ \E v \in Visitors \cup {NoId} : CheckIn(s, v) \/ CheckOut(s, v)
    /\ History

Next == \E s \in Calls : Client(s) \/ Progress(s)

\* A handler that was started runs on; clients need not call.
Fairness == \A s \in Calls : WF_vars(Progress(s))

Spec == Init /\ [][Next]_vars
FairSpec == Spec /\ Fairness

----------------------------------------------------------------------------
(***************************************************************************)
(* Properties                                                              *)
(***************************************************************************)

\* The type of the state.
TypeOK ==
    /\ bookings \subseteq Activities \X Visitors
    /\ checked \in [Visitors -> {"unknown", "in", "out"}]
    /\ request \in [Calls -> Requests \cup {NoRequest}]
    /\ pc \in [Calls -> {"idle", "visitor", "current", "write", "tx", "ok", "rejected"}]
    /\ open \in [Calls -> BOOLEAN]
    /\ snap \in [Calls -> SUBSET (Activities \X Visitors)]
    /\ known \in [Calls -> BOOLEAN]
    /\ touched \in [Calls -> BOOLEAN]
    /\ attempts \in [Calls -> 0 .. MaxAttempts]
    /\ held \in [Calls -> BOOLEAN]

\* The calls that may still take a place of an activity.
holders(a) ==
    {s \in Calls : /\ op(s) = "book" /\ request[s].activity = a /\ open[s]
                   /\ pc[s] \in {"visitor", "current", "write", "tx"}}

\* isFull is decided on a list read three transactions before the insert, so
\* an activity can be overbooked; but never by more than the calls that hold
\* an old "not full" answer, hence by at most one less than the calls in
\* progress at once. One call at a time never overbooks.
OverbookingBound ==
    \A a \in Activities :
        Cardinality(bookedVisitors(a)) + Cardinality(holders(a))
            <= Capacity[a] + Cardinality(Calls) - 1

\* book() deletes the visitor's other rows, but only those of its snapshot: a
\* visitor can end up in several activities, never in more than there are
\* calls in progress at once.
BookingsPerVisitor ==
    \A v \in Visitors : Cardinality(rowsOf(v)) <= Cardinality(Calls)

\* README.md: "When a guest checks out of the hotel, their activity bookings
\* should be removed". checkOut deletes the bookings and clears the flag in one
\* transaction, but a booking that saw the visitor checked in may commit after
\* it and stays. What a visitor who left still holds comes from calls that
\* overlapped the check-out, which is one of the calls itself; so the README is
\* right when calls come one at a time.
LeftoverBookings ==
    \A v \in Visitors : checked[v] = "out" => Cardinality(rowsOf(v)) < Cardinality(Calls)

\* An answer of success is true: some state between the call and its answer
\* had the booking (or its absence, or the flag) that the call asked for,
\* whichever transactions failed and were run again.
SuccessIsTrue == \A s \in Calls : pc[s] = "ok" => held[s]

\* Every call is answered: conflicting transactions do not run each other's
\* blocks again for ever.
EveryCallAnswered == \A s \in Calls : pc[s] # "idle" ~> pc[s] = "idle"

\* README.md: "Activities have a maximum capacity."
WithinCapacity == \A a \in Activities : Cardinality(bookedVisitors(a)) <= Capacity[a]
====
