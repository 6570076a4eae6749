----------------------------- MODULE BeachProofs -----------------------------
(***************************************************************************)
(* Proofs about activity bookings, for any activities, visitors and calls. *)
(*                                                                         *)
(* OverbookingBound counts the calls that hold an old "not full" answer;   *)
(* it is inductive together with Path, which says what a call has checked  *)
(* when it gets to its write. SuccessIsTrue needs Promise: a transaction   *)
(* that will commit without deleting or updating a row has seen its effect *)
(* already.                                                                *)
(***************************************************************************)
EXTENDS Beach, FiniteSetTheorems, TLAPS

InCall == {"visitor", "current", "write", "tx"}
Ops == {"book", "cancel", "check-in", "check-out"}

Path ==
    \A s \in Calls :
        /\ pc[s] \in InCall => visitor(s) \in Visitors
        /\ pc[s] \in InCall /\ op(s) \in {"book", "cancel"} => request[s].activity \in Activities
        /\ pc[s] \in {"visitor", "current"} => op(s) = "book"
        /\ pc[s] \in {"write", "tx"} => op(s) \in Ops
        /\ pc[s] \in {"write", "tx"} /\ op(s) = "book" => open[s]
        /\ pc[s] \in InCall \cup {"idle"} => attempts[s] < MaxAttempts

Promise ==
    \A s \in Calls :
        pc[s] = "tx" =>
            /\ op(s) = "cancel" => held[s] \/ row(s) \in snap[s]
            /\ op(s) = "check-out" => held[s] \/ known[s]

IInv == TypeOK /\ Path /\ OverbookingBound /\ Promise /\ SuccessIsTrue

\* A finite set of calls or visitors, and what is counted in it.
LEMMA Counts ==
    ASSUME TypeOK, NEW a \in Activities
    PROVE  /\ IsFiniteSet(bookedVisitors(a)) /\ Cardinality(bookedVisitors(a)) \in Nat
           /\ IsFiniteSet(holders(a)) /\ Cardinality(holders(a)) \in Nat
           /\ IsFiniteSet(bookedVisitors(a)') /\ Cardinality(bookedVisitors(a)') \in Nat
           /\ IsFiniteSet(holders(a)') /\ Cardinality(holders(a)') \in Nat
           /\ Cardinality(holders(a)') <= Cardinality(Calls)
           /\ Cardinality(Calls) \in Nat /\ Capacity[a] \in Nat
<1>1. IsFiniteSet(Visitors) /\ IsFiniteSet(Calls) /\ Capacity[a] \in Nat
  BY BeachAssumption
<1>2. /\ bookedVisitors(a) \subseteq Visitors /\ bookedVisitors(a)' \subseteq Visitors
      /\ holders(a) \subseteq Calls /\ holders(a)' \subseteq Calls
  BY DEF bookedVisitors, holders
<1>3. /\ IsFiniteSet(bookedVisitors(a)) /\ IsFiniteSet(bookedVisitors(a)')
      /\ IsFiniteSet(holders(a)) /\ IsFiniteSet(holders(a)')
      /\ Cardinality(holders(a)') <= Cardinality(Calls)
  BY <1>1, <1>2, FS_Subset
<1> QED
  BY <1>1, <1>3, FS_CardinalityType

\* The bound is kept when neither the visitors nor the holders grow.
LEMMA BoundKept ==
    ASSUME TypeOK, OverbookingBound, NEW a \in Activities,
           bookedVisitors(a)' \subseteq bookedVisitors(a), holders(a)' \subseteq holders(a)
    PROVE  Cardinality(bookedVisitors(a)') + Cardinality(holders(a)')
               <= Capacity[a] + Cardinality(Calls) - 1
<1>1. /\ Cardinality(bookedVisitors(a)') <= Cardinality(bookedVisitors(a))
      /\ Cardinality(holders(a)') <= Cardinality(holders(a))
  BY Counts, FS_Subset
<1>2. Cardinality(bookedVisitors(a)) + Cardinality(holders(a))
          <= Capacity[a] + Cardinality(Calls) - 1
  BY DEF OverbookingBound
<1> QED
  BY <1>1, <1>2, Counts

\* The type of the state is kept: every step of every call.
LEMMA TypeStep ==
    ASSUME TypeOK, Path, [Next]_vars
    PROVE  TypeOK'
<1> USE DEF TypeOK
<1>1. CASE UNCHANGED vars
  BY <1>1 DEF vars, tables, tx
<1>2. ASSUME NEW s \in Calls, Client(s)
      PROVE  TypeOK'
  <2>1. held' \in [Calls -> BOOLEAN]
    BY <1>2 DEF Client, History
  <2>2. ASSUME NEW r \in Requests, NEW next \in {"visitor", "write", "ok", "rejected"},
               Start(s, r, next), open' \in [Calls -> BOOLEAN]
        PROVE  TypeOK'
    BY <2>1, <2>2 DEF Start, tables, tx
  <2>3. ASSUME NEW i \in Inputs, Book(s, i[1], i[2])
        PROVE  TypeOK'
    <3>1. [op |-> "book", activity |-> i[1], visitor |-> i[2]] \in Requests
      BY BeachAssumption DEF Requests
    <3> QED
      BY <2>2, <2>3, <3>1 DEF Book
  <2>4. ASSUME NEW i \in Inputs, Cancel(s, i[1], i[2])
        PROVE  TypeOK'
    <3>1. [op |-> "cancel", activity |-> i[1], visitor |-> i[2]] \in Requests
      BY BeachAssumption DEF Requests
    <3> QED
      BY <2>2, <2>4, <3>1 DEF Cancel
  <2>5. ASSUME NEW v \in Visitors \cup {NoId}, CheckIn(s, v)
        PROVE  TypeOK'
    <3>1. [op |-> "check-in", activity |-> NoId, visitor |-> v] \in Requests
      BY DEF Requests
    <3> QED
      BY <2>2, <2>5, <3>1 DEF CheckIn
  <2>6. ASSUME NEW v \in Visitors \cup {NoId}, CheckOut(s, v)
        PROVE  TypeOK'
    <3>1. [op |-> "check-out", activity |-> NoId, visitor |-> v] \in Requests
      BY DEF Requests
    <3> QED
      BY <2>2, <2>6, <3>1 DEF CheckOut
  <2> QED
    BY <1>2, <2>3, <2>4, <2>5, <2>6 DEF Client
<1>3. ASSUME NEW s \in Calls, Progress(s)
      PROVE  TypeOK'
  <2>1. held' \in [Calls -> BOOLEAN]
    BY <1>3 DEF Progress, History
  <2>2. CASE ReadVisitor(s)
    BY <2>1, <2>2 DEF ReadVisitor, tables, tx
  <2>3. CASE ReadCurrent(s)
    BY <2>1, <2>3 DEF ReadCurrent, tables, tx
  <2>4. CASE Begin(s)
    <3>1. deletedRows(s) \subseteq Activities \X Visitors
      BY DEF deletedRows, rowsOf
    <3>2. seesVisitor(s) \in BOOLEAN
      BY DEF seesVisitor
    <3> QED
      BY <2>1, <2>4, <3>1, <3>2 DEF Begin, tables
  <2>5. CASE Commit(s)
    <3>1. op(s) = "book" => row(s) \in Activities \X Visitors
      BY <2>5 DEF Commit, Path, InCall, row, visitor
    <3>2. bookings' \subseteq Activities \X Visitors
      BY <2>5, <3>1 DEF Commit
    <3>3. checked' \in [Visitors -> {"unknown", "in", "out"}]
      BY <2>5 DEF Commit
    <3>4. touched' \in [Calls -> BOOLEAN]
      BY <2>5 DEF Commit
    <3> QED
      BY <2>1, <2>5, <3>2, <3>3, <3>4 DEF Commit
  <2>6. CASE Retry(s)
    <3>1. attempts[s] + 1 \in 0 .. MaxAttempts
      BY <2>6, BeachAssumption DEF Retry, Path, InCall
    <3> QED
      BY <2>1, <2>6, <3>1 DEF Retry, Rollback, tables
  <2>7. CASE Answer(s)
    BY <2>1, <2>7, BeachAssumption DEF Answer, tables
  <2> QED
    BY <1>3, <2>2, <2>3, <2>4, <2>5, <2>6, <2>7 DEF Progress
<1> QED
  BY <1>1, <1>2, <1>3 DEF Next

\* What a call has checked is kept: every step of every call.
LEMMA PathStep ==
    ASSUME TypeOK, Path, [Next]_vars
    PROVE  Path'
<1> USE DEF TypeOK
<1>1. CASE UNCHANGED vars
  BY <1>1 DEF vars, tables, tx, Path, op, visitor
<1>2. ASSUME NEW s \in Calls, Client(s)
      PROVE  Path'
  <2>1. ASSUME NEW i \in Inputs, Book(s, i[1], i[2])
        PROVE  Path'
    <3>1. i[1] \in Activities \cup {NoId} /\ i[2] \in Visitors \cup {NoId}
      BY BeachAssumption
    <3> QED
      BY <2>1, <3>1 DEF Book, Start, tx, Path, InCall, op, visitor
  <2>2. ASSUME NEW i \in Inputs, Cancel(s, i[1], i[2])
        PROVE  Path'
    <3>1. i[1] \in Activities \cup {NoId} /\ i[2] \in Visitors \cup {NoId}
      BY BeachAssumption
    <3> QED
      BY <2>2, <3>1 DEF Cancel, Start, tx, Path, InCall, Ops, op, visitor
  <2>3. ASSUME NEW v \in Visitors \cup {NoId}, CheckIn(s, v)
        PROVE  Path'
    BY <2>3 DEF CheckIn, Start, tx, Path, InCall, Ops, op, visitor
  <2>4. ASSUME NEW v \in Visitors \cup {NoId}, CheckOut(s, v)
        PROVE  Path'
    BY <2>4 DEF CheckOut, Start, tx, Path, InCall, Ops, op, visitor
  <2> QED
    BY <1>2, <2>1, <2>2, <2>3, <2>4 DEF Client
<1>3. ASSUME NEW s \in Calls, Progress(s)
      PROVE  Path'
  <2>1. CASE ReadVisitor(s)
    BY <2>1 DEF ReadVisitor, tables, tx, Path, InCall, Ops, op, visitor
  <2>2. CASE ReadCurrent(s)
    BY <2>2 DEF ReadCurrent, tables, tx, Path, InCall, Ops, op, visitor
  <2>3. CASE Begin(s)
    BY <2>3 DEF Begin, tables, Path, InCall, Ops, op, visitor
  <2>4. CASE Commit(s)
    BY <2>4 DEF Commit, Path, InCall, Ops, op, visitor
  <2>5. CASE Retry(s)
    BY <2>5, BeachAssumption DEF Retry, Rollback, tables, Path, InCall, Ops, op, visitor
  <2>6. CASE Answer(s)
    BY <2>6, BeachAssumption DEF Answer, tables, Path, InCall, Ops, NoRequest, op, visitor
  <2> QED
    BY <1>3, <2>1, <2>2, <2>3, <2>4, <2>5, <2>6 DEF Progress
<1> QED
  BY <1>1, <1>2, <1>3 DEF Next

\* The bound on overbooking is kept: a call becomes a holder only where a
\* place is free, and gives its hold up when it takes a place.
LEMMA BoundStep ==
    ASSUME TypeOK, Path, OverbookingBound, TypeOK', [Next]_vars
    PROVE  OverbookingBound'
<1> SUFFICES ASSUME NEW a \in Activities
             PROVE  Cardinality(bookedVisitors(a)') + Cardinality(holders(a)')
                        <= Capacity[a] + Cardinality(Calls) - 1
  BY DEF OverbookingBound
<1> USE DEF TypeOK
<1>1. CASE UNCHANGED vars
  <2>1. bookedVisitors(a)' = bookedVisitors(a) /\ holders(a)' = holders(a)
    BY <1>1 DEF vars, tables, tx, bookedVisitors, holders, op
  <2> QED
    BY <2>1, BoundKept
<1>2. ASSUME NEW s \in Calls, Client(s)
      PROVE  Cardinality(bookedVisitors(a)') + Cardinality(holders(a)')
                 <= Capacity[a] + Cardinality(Calls) - 1
  <2>1. ASSUME NEW i \in Inputs, Book(s, i[1], i[2])
        PROVE  Cardinality(bookedVisitors(a)') + Cardinality(holders(a)')
                   <= Capacity[a] + Cardinality(Calls) - 1
    <3>1. bookedVisitors(a)' = bookedVisitors(a)
      BY <2>1 DEF Book, Start, tables, bookedVisitors
    <3>2. CASE isFull(a) \/ i[1] # a
      <4>1. /\ request'[s].activity = i[1]
            /\ open'[s] = (i[1] # NoId /\ ~isFull(i[1]))
        BY <2>1 DEF Book, Start
      <4>2. s \notin holders(a)'
        BY <3>2, <4>1 DEF holders
      <4>3. \A t \in Calls \ {s} : t \in holders(a)' => t \in holders(a)
        BY <2>1 DEF Book, Start, holders, op
      <4>4. holders(a)' \subseteq holders(a)
        BY <4>2, <4>3 DEF holders
      <4> QED
        BY <3>1, <4>4, BoundKept
    <3>3. CASE ~isFull(a)
      <4>1. Cardinality(bookedVisitors(a)') <= Capacity[a] - 1
        BY <3>1, <3>3, Counts DEF isFull
      <4> QED
        BY <4>1, Counts
    <3> QED
      BY <3>2, <3>3
  <2>2. ASSUME NEW r, NEW next, Start(s, r, next), r.op # "book", UNCHANGED open
        PROVE  Cardinality(bookedVisitors(a)') + Cardinality(holders(a)')
                   <= Capacity[a] + Cardinality(Calls) - 1
    <3>1. bookedVisitors(a)' = bookedVisitors(a) /\ holders(a)' \subseteq holders(a)
      BY <2>2 DEF Start, tables, bookedVisitors, holders, op
    <3> QED
      BY <3>1, BoundKept
  <2>3. ASSUME NEW i \in Inputs, Cancel(s, i[1], i[2])
        PROVE  Cardinality(bookedVisitors(a)') + Cardinality(holders(a)')
                   <= Capacity[a] + Cardinality(Calls) - 1
    BY <2>2, <2>3 DEF Cancel
  <2>4. ASSUME NEW v \in Visitors \cup {NoId}, CheckIn(s, v) \/ CheckOut(s, v)
        PROVE  Cardinality(bookedVisitors(a)') + Cardinality(holders(a)')
                   <= Capacity[a] + Cardinality(Calls) - 1
    BY <2>2, <2>4 DEF CheckIn, CheckOut
  <2> QED
    BY <1>2, <2>1, <2>3, <2>4 DEF Client
<1>3. ASSUME NEW s \in Calls, Progress(s)
      PROVE  Cardinality(bookedVisitors(a)') + Cardinality(holders(a)')
                 <= Capacity[a] + Cardinality(Calls) - 1
  <2>1. CASE ReadVisitor(s) \/ ReadCurrent(s) \/ Begin(s) \/ Retry(s) \/ Answer(s)
    <3>1. bookedVisitors(a)' = bookedVisitors(a)
      BY <2>1 DEF ReadVisitor, ReadCurrent, Begin, Retry, Rollback, Answer, tables, bookedVisitors
    <3>2. holders(a)' \subseteq holders(a)
      BY <2>1 DEF ReadVisitor, ReadCurrent, Begin, Retry, Rollback, Answer, holders, op, NoRequest
    <3> QED
      BY <3>1, <3>2, BoundKept
  <2>2. CASE Commit(s)
    <3>1. holders(a)' = holders(a) \ {s}
      BY <2>2 DEF Commit, holders, op
    <3>2. CASE op(s) = "book" /\ request[s].activity = a
      <4>1. s \in holders(a)
        BY <2>2, <3>2 DEF Commit, Path, holders, op
      <4>2. bookedVisitors(a)' \subseteq bookedVisitors(a) \cup {visitor(s)}
        BY <2>2, <3>2 DEF Commit, bookedVisitors, row, visitor
      <4>3. Cardinality(holders(a)') = Cardinality(holders(a)) - 1
        BY <3>1, <4>1, Counts, FS_RemoveElement
      <4>4. /\ IsFiniteSet(bookedVisitors(a) \cup {visitor(s)})
            /\ Cardinality(bookedVisitors(a) \cup {visitor(s)})
                  <= Cardinality(bookedVisitors(a)) + 1
        <5>1. /\ IsFiniteSet(bookedVisitors(a))
              /\ Cardinality(bookedVisitors(a)) \in Nat
          BY Counts
        <5>2. /\ IsFiniteSet(bookedVisitors(a) \cup {visitor(s)})
              /\ \/ Cardinality(bookedVisitors(a) \cup {visitor(s)})
                        = Cardinality(bookedVisitors(a))
                 \/ Cardinality(bookedVisitors(a) \cup {visitor(s)})
                        = Cardinality(bookedVisitors(a)) + 1
          BY <5>1, FS_AddElement
        <5> QED
          BY <5>1, <5>2
      <4>5. Cardinality(bookedVisitors(a)')
                <= Cardinality(bookedVisitors(a) \cup {visitor(s)})
        BY <4>2, <4>4, FS_Subset
      <4>6. Cardinality(bookedVisitors(a) \cup {visitor(s)}) \in Nat
        BY <4>4, FS_CardinalityType
      <4> QED
        BY <4>3, <4>4, <4>5, <4>6, Counts DEF OverbookingBound
    <3>3. CASE ~(op(s) = "book" /\ request[s].activity = a)
      <4>1. bookedVisitors(a)' \subseteq bookedVisitors(a)
        BY <2>2, <3>3 DEF Commit, bookedVisitors, row
      <4> QED
        BY <3>1, <4>1, BoundKept
    <3> QED
      BY <3>2, <3>3
  <2> QED
    BY <1>3, <2>1, <2>2 DEF Progress
<1> QED
  BY <1>1, <1>2, <1>3 DEF Next

\* A success is true, and the promise of an open transaction is kept: a step
\* of another call never takes back what a call has seen.
LEMMA SuccessStep ==
    ASSUME TypeOK, Path, Promise, SuccessIsTrue, [Next]_vars
    PROVE  Promise' /\ SuccessIsTrue'
<1> USE DEF TypeOK
<1>1. CASE UNCHANGED vars
  BY <1>1 DEF vars, tables, tx, Promise, SuccessIsTrue, op, row
<1>2. ASSUME NEW s \in Calls, History,
             \A t \in Calls \ {s} :
                /\ pc'[t] = pc[t] /\ request'[t] = request[t]
                /\ snap'[t] = snap[t] /\ known'[t] = known[t],
             pc'[s] = "tx" =>
                /\ op(s)' = "cancel" => effect(s)' \/ row(s)' \in snap'[s]
                /\ op(s)' = "check-out" => effect(s)' \/ known'[s],
             pc'[s] = "ok" => held[s] \/ effect(s)'
      PROVE  Promise' /\ SuccessIsTrue'
  <2>1. \A t \in Calls : pc'[t] # "idle" => (held'[t] <=> held[t] \/ effect(t)')
    BY <1>2 DEF History
  <2>2. \A t \in Calls \ {s} :
            /\ op(t)' = op(t) /\ row(t)' = row(t)
            /\ pc'[t] = "tx" => (held[t] => held'[t])
            /\ pc'[t] = "ok" => (held[t] => held'[t])
    BY <1>2, <2>1 DEF op, row
  <2>3. ASSUME NEW t \in Calls
        PROVE  /\ pc'[t] = "tx" =>
                    /\ op(t)' = "cancel" => held'[t] \/ row(t)' \in snap'[t]
                    /\ op(t)' = "check-out" => held'[t] \/ known'[t]
               /\ pc'[t] = "ok" => held'[t]
    <3>1. CASE t = s
      BY <1>2, <2>1, <3>1
    <3>2. CASE t # s
      BY <1>2, <2>2, <3>2 DEF Promise, SuccessIsTrue
    <3> QED
      BY <3>1, <3>2
  <2> QED
    BY <2>3 DEF Promise, SuccessIsTrue
<1>3. ASSUME NEW s \in Calls, Client(s)
      PROVE  Promise' /\ SuccessIsTrue'
  <2>1. History
    BY <1>3 DEF Client
  <2>2. ASSUME NEW i \in Inputs, Book(s, i[1], i[2])
        PROVE  Promise' /\ SuccessIsTrue'
    BY <1>2, <2>1, <2>2 DEF Book, Start, tx
  <2>3. ASSUME NEW i \in Inputs, Cancel(s, i[1], i[2])
        PROVE  Promise' /\ SuccessIsTrue'
    <3>1. /\ request'[s] = [op |-> "cancel", activity |-> i[1], visitor |-> i[2]]
          /\ pc'[s] = "ok" => <<i[1], i[2]>> \notin bookings
          /\ bookings' = bookings
      BY <2>3, BeachAssumption DEF Cancel, Start, tables, bookedVisitors
    <3>2. pc'[s] = "ok" => effect(s)'
      BY <3>1 DEF effect, op, row
    <3> QED
      BY <1>2, <2>1, <2>3, <3>2 DEF Cancel, Start, tx
  <2>4. ASSUME NEW v \in Visitors \cup {NoId}, CheckIn(s, v) \/ CheckOut(s, v)
        PROVE  Promise' /\ SuccessIsTrue'
    BY <1>2, <2>1, <2>4 DEF CheckIn, CheckOut, Start, tx
  <2> QED
    BY <1>3, <2>2, <2>3, <2>4 DEF Client
<1>4. ASSUME NEW s \in Calls, Progress(s)
      PROVE  Promise' /\ SuccessIsTrue'
  <2>1. History
    BY <1>4 DEF Progress
  <2>2. CASE ReadVisitor(s) \/ ReadCurrent(s) \/ Retry(s) \/ Answer(s)
    BY <1>2, <2>1, <2>2 DEF ReadVisitor, ReadCurrent, Retry, Rollback, Answer, tx
  <2>3. CASE Begin(s)
    <3>1. op(s)' = op(s) /\ row(s)' = row(s) /\ visitor(s)' = visitor(s)
      BY <2>3 DEF Begin, op, row, visitor
    <3>2. op(s) = "cancel" => effect(s)' \/ row(s)' \in snap'[s]
      <4>1. ASSUME op(s) = "cancel", row(s) \in bookings
            PROVE  row(s) \in deletedRows(s)
        BY <2>3, <4>1 DEF deletedRows, rowsOf, row, visitor
      <4> QED
        BY <2>3, <3>1, <4>1 DEF Begin, tables, effect
    <3>3. op(s) = "check-out" => effect(s)' \/ known'[s]
      <4>1. ASSUME op(s) = "check-out", ~seesVisitor(s)
            PROVE  \A v \in Visitors : v = visitor(s)' => checked'[v] # "in"
        BY <2>3, <3>1, <4>1 DEF Begin, tables, seesVisitor
      <4> QED
        BY <2>3, <3>1, <4>1 DEF Begin, effect
    <3>4. \A t \in Calls \ {s} :
            /\ pc'[t] = pc[t] /\ request'[t] = request[t]
            /\ snap'[t] = snap[t] /\ known'[t] = known[t]
      BY <2>3 DEF Begin
    <3>5. pc'[s] = "tx"
      BY <2>3 DEF Begin
    <3> QED
      BY <1>2, <2>1, <3>1, <3>2, <3>3, <3>4, <3>5
  <2>4. CASE Commit(s)
    <3>1. op(s)' = op(s) /\ row(s)' = row(s) /\ visitor(s)' = visitor(s)
      BY <2>4 DEF Commit, op, row, visitor
    <3>2. op(s) \in Ops /\ visitor(s) \in Visitors
      BY <2>4 DEF Commit, Path, InCall
    <3>3. held[s] \/ effect(s)'
      <4>1. CASE op(s) = "book"
        <5>1. row(s) \in bookings'
          BY <2>4, <4>1 DEF Commit
        <5> QED
          BY <3>1, <4>1, <5>1 DEF effect
      <4>2. CASE op(s) = "cancel"
        <5>1. row(s) \in snap[s] => row(s) \notin bookings'
          BY <2>4, <4>2 DEF Commit
        <5>2. held[s] \/ row(s) \in snap[s]
          BY <2>4, <4>2 DEF Commit, Promise
        <5> QED
          BY <3>1, <4>2, <5>1, <5>2 DEF effect
      <4>3. CASE op(s) = "check-in"
        <5>1. checked'[visitor(s)] = "in"
          BY <2>4, <3>2, <4>3 DEF Commit
        <5> QED
          BY <3>1, <3>2, <4>3, <5>1 DEF effect
      <4>4. CASE op(s) = "check-out"
        <5>1. known[s] => checked'[visitor(s)] = "out"
          BY <2>4, <3>2, <4>4 DEF Commit
        <5>2. held[s] \/ known[s]
          BY <2>4, <4>4 DEF Commit, Promise
        <5> QED
          BY <3>1, <4>4, <5>1, <5>2 DEF effect
      <4> QED
        BY <3>2, <4>1, <4>2, <4>3, <4>4 DEF Ops
    <3>4. \A t \in Calls \ {s} :
            /\ pc'[t] = pc[t] /\ request'[t] = request[t]
            /\ snap'[t] = snap[t] /\ known'[t] = known[t]
      BY <2>4 DEF Commit
    <3>5. pc'[s] = "ok"
      BY <2>4 DEF Commit
    <3> QED
      BY <1>2, <2>1, <3>3, <3>4, <3>5
  <2> QED
    BY <1>4, <2>2, <2>3, <2>4 DEF Progress
<1> QED
  BY <1>1, <1>3, <1>4 DEF Next

\* The inductive invariant holds in every state.
THEOREM Invariance == Spec => []IInv
<1>1. Init => IInv
  <2> SUFFICES ASSUME Init PROVE IInv
    OBVIOUS
  <2>1. TypeOK
    BY BeachAssumption DEF Init, TypeOK, NoRequest
  <2>2. Path /\ Promise /\ SuccessIsTrue
    BY BeachAssumption DEF Init, Path, Promise, SuccessIsTrue, InCall
  <2>3. ASSUME NEW a \in Activities
        PROVE  Cardinality(bookedVisitors(a)) + Cardinality(holders(a))
                   <= Capacity[a] + Cardinality(Calls) - 1
    <3>1. bookedVisitors(a) = {} /\ holders(a) = {}
      BY DEF Init, bookedVisitors, holders
    <3>2. Cardinality(Calls) # 0 /\ Cardinality(Calls) \in Nat
      BY BeachAssumption, FS_EmptySet, FS_CardinalityType
    <3>3. Cardinality({}) = 0
      BY FS_EmptySet
    <3> QED
      BY <3>1, <3>2, <3>3, BeachAssumption
  <2> QED
    BY <2>1, <2>2, <2>3 DEF IInv, OverbookingBound
<1>2. IInv /\ [Next]_vars => IInv'
  BY TypeStep, PathStep, BoundStep, SuccessStep DEF IInv
<1> QED
  BY <1>1, <1>2, PTL DEF Spec

\* The tables and the calls have their types.
THEOREM TypeCorrect == Spec => []TypeOK
BY Invariance, PTL DEF IInv

\* Stale capacity checks overbook an activity by at most the calls in progress
\* minus one (BookActivityUseCase.execute), for any number of calls.
THEOREM OverbookingIsBounded == Spec => []OverbookingBound
BY Invariance, PTL DEF IInv

\* Every success answered was true at some time during the call, although the
\* write may have been run several times (repository transactions).
THEOREM SuccessesAreTrue == Spec => []SuccessIsTrue
BY Invariance, PTL DEF IInv

\* The capacity of README.md holds when calls come one at a time.
THEOREM OneCallStaysWithinCapacity ==
    ASSUME Cardinality(Calls) = 1
    PROVE  Spec => []WithinCapacity
<1>1. IInv => WithinCapacity
  <2> SUFFICES ASSUME IInv, NEW a \in Activities
               PROVE  Cardinality(bookedVisitors(a)) <= Capacity[a]
    BY DEF WithinCapacity
  <2> QED
    BY Counts DEF IInv, OverbookingBound
<1> QED
  BY <1>1, Invariance, PTL

----------------------------------------------------------------------------
(***************************************************************************)
(* The bookings of one visitor. Only a transaction whose snapshot holds    *)
(* none of the visitor's rows can add to them, and it opens only where     *)
(* there are none; one that deletes a row gives back at least what it      *)
(* takes, because a row of its snapshot that is gone makes it fail.        *)
(***************************************************************************)

\* What a transaction saw: rows of its visitor, still there unless it fails.
SnapInv ==
    \A s \in Calls :
        pc[s] = "tx" =>
            /\ \A r \in snap[s] : r[2] = visitor(s)
            /\ touched[s] \/ snap[s] \subseteq bookings

\* The transactions of a visitor that would delete all rows and saw none.
blind(v) == {s \in Calls : /\ pc[s] = "tx" /\ op(s) \in {"book", "check-out"}
                           /\ visitor(s) = v /\ snap[s] = {}}
blindBooks(v) == {s \in blind(v) : op(s) = "book"}

RowsBound ==
    \A v \in Visitors :
        Cardinality(rowsOf(v)) + Cardinality(blind(v)) <= Cardinality(Calls)

\* The check-out, or a call that came after it, is no booking of the visitor.
Outsider ==
    \A v \in Visitors : checked[v] = "out" =>
        \E c \in Calls : ~ (/\ op(c) = "book" /\ visitor(c) = v
                            /\ pc[c] \in {"current", "write", "tx"})

LeftBound ==
    \A v \in Visitors : checked[v] = "out" =>
        Cardinality(rowsOf(v)) + Cardinality(blindBooks(v)) < Cardinality(Calls)

VisitorInv == SnapInv /\ RowsBound /\ Outsider /\ LeftBound

\* Two finite sets that do not grow.
LEMMA Fewer ==
    ASSUME NEW R, NEW E, NEW S, NEW F, IsFiniteSet(R), IsFiniteSet(E), S \subseteq R, F \subseteq E
    PROVE  /\ Cardinality(R) \in Nat /\ Cardinality(E) \in Nat
           /\ Cardinality(S) \in Nat /\ Cardinality(F) \in Nat
           /\ Cardinality(S) <= Cardinality(R) /\ Cardinality(F) <= Cardinality(E)
<1>1. IsFiniteSet(S) /\ IsFiniteSet(F)
  BY FS_Subset
<1>2. Cardinality(S) <= Cardinality(R) /\ Cardinality(F) <= Cardinality(E)
  BY FS_Subset
<1> QED
  BY <1>1, <1>2, FS_CardinalityType

\* A set that loses one element.
LEMMA OneLess ==
    ASSUME NEW R, IsFiniteSet(R), NEW y \in R
    PROVE  /\ IsFiniteSet(R \ {y}) /\ Cardinality(R) \in Nat
           /\ Cardinality(R \ {y}) = Cardinality(R) - 1
           /\ Cardinality(R \ {y}) \in Nat
<1>1. IsFiniteSet(R \ {y}) /\ Cardinality(R \ {y}) = Cardinality(R) - 1
  BY FS_RemoveElement
<1> QED
  BY <1>1, FS_CardinalityType

\* A set that gains at most one element.
LEMMA OneMore ==
    ASSUME NEW R, IsFiniteSet(R), NEW x
    PROVE  /\ IsFiniteSet(R \cup {x})
           /\ Cardinality(R \cup {x}) \in Nat /\ Cardinality(R) \in Nat
           /\ Cardinality(R \cup {x}) <= Cardinality(R) + 1
<1>1. /\ IsFiniteSet(R \cup {x})
      /\ \/ Cardinality(R \cup {x}) = Cardinality(R)
         \/ Cardinality(R \cup {x}) = Cardinality(R) + 1
  BY FS_AddElement
<1>2. Cardinality(R \cup {x}) \in Nat /\ Cardinality(R) \in Nat
  BY <1>1, FS_CardinalityType
<1> QED
  BY <1>1, <1>2

\* One element comes into R and one leaves E.
LEMMA Moved ==
    ASSUME NEW R, NEW E, NEW S, NEW F, IsFiniteSet(R), IsFiniteSet(E), NEW x, NEW y \in E,
           S \subseteq R \cup {x}, F \subseteq E \ {y}
    PROVE  /\ Cardinality(S) \in Nat /\ Cardinality(F) \in Nat
           /\ Cardinality(S) + Cardinality(F) <= Cardinality(R) + Cardinality(E)
<1>1. /\ IsFiniteSet(R \cup {x}) /\ Cardinality(R) \in Nat
      /\ Cardinality(R \cup {x}) <= Cardinality(R) + 1
  BY OneMore
<1>2. /\ IsFiniteSet(E \ {y}) /\ Cardinality(E) \in Nat
      /\ Cardinality(E \ {y}) = Cardinality(E) - 1
  BY OneLess
<1>3. /\ Cardinality(R \cup {x}) \in Nat /\ Cardinality(E \ {y}) \in Nat
      /\ Cardinality(S) \in Nat /\ Cardinality(F) \in Nat
      /\ Cardinality(S) <= Cardinality(R \cup {x}) /\ Cardinality(F) <= Cardinality(E \ {y})
  BY <1>1, <1>2, Fewer
<1> QED
  BY <1>1, <1>2, <1>3

\* One element comes into R for one that leaves it.
LEMMA Exchanged ==
    ASSUME NEW R, IsFiniteSet(R), NEW S, NEW x, NEW y \in R, S \subseteq (R \ {y}) \cup {x}
    PROVE  Cardinality(S) \in Nat /\ Cardinality(S) <= Cardinality(R)
<1>1. /\ IsFiniteSet(R \ {y}) /\ Cardinality(R) \in Nat
      /\ Cardinality(R \ {y}) = Cardinality(R) - 1
  BY OneLess
<1> DEFINE Q == R \ {y}
<1> HIDE DEF Q
<1>2. IsFiniteSet(Q)
  BY <1>1 DEF Q
<1>3. /\ IsFiniteSet(Q \cup {x}) /\ Cardinality(Q) \in Nat
      /\ Cardinality(Q \cup {x}) \in Nat
      /\ Cardinality(Q \cup {x}) <= Cardinality(Q) + 1
  BY <1>2, OneMore
<1>4. S \subseteq Q \cup {x}
  BY DEF Q
<1>5. Cardinality(S) \in Nat /\ Cardinality(S) <= Cardinality(Q \cup {x})
  BY <1>3, <1>4, Fewer
<1>6. Cardinality(Q) = Cardinality(R) - 1
  BY <1>1 DEF Q
<1> QED
  BY <1>1, <1>3, <1>5, <1>6

\* The rows and the transactions of a visitor can be counted.
LEMMA VisitorCounts ==
    ASSUME TypeOK, NEW v \in Visitors
    PROVE  /\ IsFiniteSet(rowsOf(v)) /\ IsFiniteSet(blind(v)) /\ IsFiniteSet(blindBooks(v))
           /\ Cardinality(rowsOf(v)) \in Nat /\ Cardinality(blind(v)) \in Nat
           /\ Cardinality(blindBooks(v)) \in Nat
           /\ Cardinality(blind(v)) <= Cardinality(Calls)
           /\ Cardinality(Calls) \in Nat
<1>1. IsFiniteSet(Activities \X Visitors) /\ IsFiniteSet(Calls)
  BY BeachAssumption, FS_Product
<1>2. /\ rowsOf(v) \subseteq Activities \X Visitors
      /\ blind(v) \subseteq Calls /\ blindBooks(v) \subseteq Calls
  BY DEF TypeOK, rowsOf, blind, blindBooks
<1>3. /\ IsFiniteSet(rowsOf(v)) /\ IsFiniteSet(blind(v)) /\ IsFiniteSet(blindBooks(v))
      /\ Cardinality(blind(v)) <= Cardinality(Calls)
  BY <1>1, <1>2, FS_Subset
<1> QED
  BY <1>1, <1>3, FS_CardinalityType

\* A transaction's snapshot is kept: a commit that deletes one of its rows
\* makes it fail, and no other step deletes rows.
LEMMA SnapStep ==
    ASSUME TypeOK, Path, SnapInv, [Next]_vars
    PROVE  SnapInv'
<1> USE DEF TypeOK
<1>1. CASE UNCHANGED vars
  BY <1>1 DEF vars, tables, tx, SnapInv, visitor
<1>2. ASSUME NEW s \in Calls, Client(s)
      PROVE  SnapInv'
  <2>1. /\ UNCHANGED <<bookings, snap, touched>>
        /\ pc'[s] # "tx"
        /\ \A t \in Calls \ {s} : pc'[t] = pc[t] /\ request'[t] = request[t]
    BY <1>2 DEF Client, Book, Cancel, CheckIn, CheckOut, Start, tables, tx
  <2> QED
    BY <2>1 DEF SnapInv, visitor
<1>3. ASSUME NEW s \in Calls, Progress(s)
      PROVE  SnapInv'
  <2>1. CASE ReadVisitor(s) \/ ReadCurrent(s)
    BY <2>1 DEF ReadVisitor, ReadCurrent, tables, tx, SnapInv, visitor
  <2>2. CASE Begin(s)
    <3>1. /\ bookings' = bookings /\ touched' = touched /\ request' = request
          /\ snap'[s] = deletedRows(s)
          /\ \A t \in Calls \ {s} : pc'[t] = pc[t] /\ snap'[t] = snap[t]
      BY <2>2 DEF Begin, tables
    <3>2. /\ deletedRows(s) \subseteq bookings
          /\ \A r \in deletedRows(s) : r[2] = visitor(s)
      BY DEF deletedRows, rowsOf
    <3> QED
      BY <3>1, <3>2 DEF SnapInv, visitor
  <2>3. CASE Commit(s)
    <3>1. /\ request' = request /\ pc'[s] = "ok"
          /\ bookings \ snap[s] \subseteq bookings'
          /\ \A t \in Calls \ {s} :
                /\ pc'[t] = pc[t] /\ snap'[t] = snap[t]
                /\ touched[t] => touched'[t]
                /\ pc[t] = "tx" /\ snap[t] \cap snap[s] # {} => touched'[t]
      BY <2>3 DEF Commit
    <3>2. ASSUME NEW t \in Calls, pc'[t] = "tx"
          PROVE  /\ \A r \in snap'[t] : r[2] = visitor(t)'
                 /\ touched'[t] \/ snap'[t] \subseteq bookings'
      <4>1. t # s /\ pc[t] = "tx" /\ snap'[t] = snap[t] /\ visitor(t)' = visitor(t)
        BY <3>1, <3>2 DEF visitor
      <4>2. /\ \A r \in snap[t] : r[2] = visitor(t)
            /\ touched[t] \/ snap[t] \subseteq bookings
        BY <4>1 DEF SnapInv
      <4>3. touched'[t] \/ snap[t] \subseteq bookings'
        BY <3>1, <4>1, <4>2
      <4> QED
        BY <4>1, <4>2, <4>3
    <3> QED
      BY <3>2 DEF SnapInv
  <2>4. CASE Retry(s)
    <3>1. /\ bookings' = bookings /\ request' = request /\ pc'[s] # "tx"
          /\ \A t \in Calls \ {s} : pc'[t] = pc[t] /\ snap'[t] = snap[t] /\ touched'[t] = touched[t]
      BY <2>4 DEF Retry, Rollback, tables
    <3> QED
      BY <3>1 DEF SnapInv, visitor
  <2>5. CASE Answer(s)
    <3>1. /\ UNCHANGED <<bookings, snap, touched>>
          /\ pc'[s] # "tx"
          /\ \A t \in Calls \ {s} : pc'[t] = pc[t] /\ request'[t] = request[t]
      BY <2>5 DEF Answer, tables
    <3> QED
      BY <3>1 DEF SnapInv, visitor
  <2> QED
    BY <1>3, <2>1, <2>2, <2>3, <2>4, <2>5 DEF Progress
<1> QED
  BY <1>1, <1>2, <1>3 DEF Next

\* Steps that neither write a table nor open a transaction leave the rows
\* alone and open none.
LEMMA QuietStep ==
    ASSUME TypeOK, NEW s \in Calls, NEW v \in Visitors,
           \/ Client(s)
           \/ ReadVisitor(s) \/ ReadCurrent(s) \/ Retry(s) \/ Answer(s)
    PROVE  /\ UNCHANGED tables
           /\ blind(v)' \subseteq blind(v)
           /\ blindBooks(v)' \subseteq blindBooks(v)
<1> USE DEF TypeOK
<1>1. CASE Client(s)
  <2>1. /\ UNCHANGED <<bookings, checked, snap>>
        /\ pc'[s] # "tx"
        /\ \A t \in Calls \ {s} : pc'[t] = pc[t] /\ request'[t] = request[t]
    BY <1>1 DEF Client, Book, Cancel, CheckIn, CheckOut, Start, tables, tx
  <2> QED
    BY <2>1 DEF blind, blindBooks, op, visitor, tables
<1>2. CASE ReadVisitor(s) \/ ReadCurrent(s) \/ Answer(s)
  <2>1. /\ UNCHANGED <<bookings, checked, snap>>
        /\ pc'[s] # "tx"
        /\ \A t \in Calls \ {s} : pc'[t] = pc[t] /\ request'[t] = request[t]
    BY <1>2 DEF ReadVisitor, ReadCurrent, Answer, tables, tx
  <2> QED
    BY <2>1 DEF blind, blindBooks, op, visitor, tables
<1>3. CASE Retry(s)
  <2>1. /\ UNCHANGED <<bookings, checked, request>>
        /\ pc'[s] # "tx"
        /\ \A t \in Calls \ {s} : pc'[t] = pc[t] /\ snap'[t] = snap[t]
    BY <1>3 DEF Retry, Rollback, tables
  <2> QED
    BY <2>1 DEF blind, blindBooks, op, visitor, tables
<1> QED
  BY <1>1, <1>2, <1>3

\* A transaction opens: it is counted only when it saw no row of its visitor.
LEMMA BeginStep ==
    ASSUME TypeOK, NEW s \in Calls, NEW v \in Visitors, Begin(s)
    PROVE  /\ UNCHANGED tables
           /\ rowsOf(v) # {} => blind(v)' \subseteq blind(v) /\ blindBooks(v)' \subseteq blindBooks(v)
<1> USE DEF TypeOK
<1>1. /\ UNCHANGED <<bookings, checked, request>>
      /\ snap'[s] = deletedRows(s) /\ pc'[s] = "tx" /\ pc[s] = "write"
      /\ \A t \in Calls \ {s} : pc'[t] = pc[t] /\ snap'[t] = snap[t]
  BY DEF Begin, tables
<1>2. visitor(s) = v /\ op(s) \in {"book", "check-out"} => deletedRows(s) = rowsOf(v)
  BY DEF deletedRows
<1>3. rowsOf(v) # {} => s \notin blind(v)'
  BY <1>1, <1>2 DEF blind, op, visitor
<1>4. \A t \in Calls \ {s} : t \in blind(v)' => t \in blind(v) /\ op(t)' = op(t)
  BY <1>1 DEF blind, op, visitor
<1>5. rowsOf(v) # {} => blind(v)' \subseteq blind(v)
  BY <1>3, <1>4 DEF blind
<1>6. rowsOf(v) # {} => blindBooks(v)' \subseteq blindBooks(v)
  BY <1>3, <1>4, <1>5 DEF blindBooks, blind
<1> QED
  BY <1>1, <1>5, <1>6 DEF tables

\* A transaction commits: what it takes from the rows and from the blind.
LEMMA CommitRows ==
    ASSUME TypeOK, Path, SnapInv, NEW s \in Calls, NEW v \in Visitors, Commit(s)
    PROVE  /\ blind(v)' \subseteq blind(v) \ {s}
           /\ blindBooks(v)' \subseteq blindBooks(v) \ {s}
           /\ snap[s] \subseteq rowsOf(visitor(s))
           /\ op(s) # "book" \/ visitor(s) # v => rowsOf(v)' \subseteq rowsOf(v) \ snap[s]
           /\ op(s) = "book" => rowsOf(v)' \subseteq (rowsOf(v) \ snap[s]) \cup {row(s)}
<1> USE DEF TypeOK
<1>1. /\ request' = request /\ pc'[s] = "ok" /\ pc[s] = "tx" /\ ~touched[s]
      /\ bookings' = (bookings \ snap[s]) \cup (IF op(s) = "book" THEN {row(s)} ELSE {})
      /\ \A t \in Calls \ {s} : pc'[t] = pc[t] /\ snap'[t] = snap[t]
  BY DEF Commit, conflict
<1>2. blind(v)' \subseteq blind(v) \ {s}
  BY <1>1 DEF blind, op, visitor
<1>3. blindBooks(v)' \subseteq blindBooks(v) \ {s}
  BY <1>1, <1>2 DEF blindBooks, op
<1>4. snap[s] \subseteq rowsOf(visitor(s))
  BY <1>1 DEF SnapInv, rowsOf
<1>5. op(s) = "book" => row(s)[2] = visitor(s)
  BY DEF row, visitor
<1>6. op(s) # "book" \/ visitor(s) # v => rowsOf(v)' \subseteq rowsOf(v) \ snap[s]
  BY <1>1, <1>5 DEF rowsOf
<1>7. op(s) = "book" => rowsOf(v)' \subseteq (rowsOf(v) \ snap[s]) \cup {row(s)}
  BY <1>1 DEF rowsOf
<1> QED
  BY <1>2, <1>3, <1>4, <1>6, <1>7

\* A booking that commits is one transaction less among the blind books when
\* it saw no row, and replaces a row when it saw one.
LEMMA BookKeeps ==
    ASSUME TypeOK, TypeOK', Path, SnapInv, NEW s \in Calls, NEW v \in Visitors, Commit(s),
           op(s) = "book", visitor(s) = v
    PROVE  /\ Cardinality(rowsOf(v)') + Cardinality(blind(v)')
                  <= Cardinality(rowsOf(v)) + Cardinality(blind(v))
           /\ Cardinality(rowsOf(v)') + Cardinality(blindBooks(v)')
                  <= Cardinality(rowsOf(v)) + Cardinality(blindBooks(v))
<1>1. /\ blind(v)' \subseteq blind(v) \ {s}
      /\ blindBooks(v)' \subseteq blindBooks(v) \ {s}
      /\ snap[s] \subseteq rowsOf(v)
      /\ rowsOf(v)' \subseteq (rowsOf(v) \ snap[s]) \cup {row(s)}
  BY CommitRows
<1>2. /\ IsFiniteSet(rowsOf(v)) /\ IsFiniteSet(blind(v)) /\ IsFiniteSet(blindBooks(v))
      /\ Cardinality(rowsOf(v)) \in Nat /\ Cardinality(blind(v)) \in Nat
      /\ Cardinality(blindBooks(v)) \in Nat
  BY VisitorCounts
<1>3. CASE snap[s] = {}
  <2>1. s \in blind(v) /\ s \in blindBooks(v)
    BY <1>3 DEF Commit, blind, blindBooks
  <2>2. rowsOf(v)' \subseteq rowsOf(v) \cup {row(s)}
    BY <1>1
  <2>3. Cardinality(rowsOf(v)') + Cardinality(blind(v)')
            <= Cardinality(rowsOf(v)) + Cardinality(blind(v))
    BY <1>1, <1>2, <2>1, <2>2, Moved
  <2>4. Cardinality(rowsOf(v)') + Cardinality(blindBooks(v)')
            <= Cardinality(rowsOf(v)) + Cardinality(blindBooks(v))
    BY <1>1, <1>2, <2>1, <2>2, Moved
  <2> QED
    BY <2>3, <2>4
<1>4. CASE snap[s] # {}
  <2>1. PICK y \in snap[s] : TRUE
    BY <1>4
  <2>2. y \in rowsOf(v) /\ rowsOf(v)' \subseteq (rowsOf(v) \ {y}) \cup {row(s)}
    BY <1>1, <2>1
  <2>3. Cardinality(rowsOf(v)') \in Nat /\ Cardinality(rowsOf(v)') <= Cardinality(rowsOf(v))
    BY <1>2, <2>2, Exchanged
  <2>4. blind(v)' \subseteq blind(v) /\ blindBooks(v)' \subseteq blindBooks(v)
    BY <1>1
  <2>5. /\ Cardinality(blind(v)') \in Nat /\ Cardinality(blindBooks(v)') \in Nat
        /\ Cardinality(blind(v)') <= Cardinality(blind(v))
        /\ Cardinality(blindBooks(v)') <= Cardinality(blindBooks(v))
    BY <1>2, <2>4, Fewer
  <2> QED
    BY <1>2, <2>3, <2>5
<1> QED
  BY <1>3, <1>4

\* Neither the rows nor the blind transactions grow: both sums are kept.
LEMMA BothFewer ==
    ASSUME TypeOK, NEW v \in Visitors, rowsOf(v)' \subseteq rowsOf(v),
           blind(v)' \subseteq blind(v), blindBooks(v)' \subseteq blindBooks(v)
    PROVE  /\ Cardinality(rowsOf(v)') + Cardinality(blind(v)')
                  <= Cardinality(rowsOf(v)) + Cardinality(blind(v))
           /\ Cardinality(rowsOf(v)') + Cardinality(blindBooks(v)')
                  <= Cardinality(rowsOf(v)) + Cardinality(blindBooks(v))
<1>1. /\ IsFiniteSet(rowsOf(v)) /\ IsFiniteSet(blind(v)) /\ IsFiniteSet(blindBooks(v))
  BY VisitorCounts
<1>2. /\ Cardinality(rowsOf(v)) \in Nat /\ Cardinality(blind(v)) \in Nat
      /\ Cardinality(rowsOf(v)') \in Nat /\ Cardinality(blind(v)') \in Nat
      /\ Cardinality(rowsOf(v)') <= Cardinality(rowsOf(v))
      /\ Cardinality(blind(v)') <= Cardinality(blind(v))
  BY <1>1, Fewer
<1>3. /\ Cardinality(blindBooks(v)) \in Nat /\ Cardinality(blindBooks(v)') \in Nat
      /\ Cardinality(blindBooks(v)') <= Cardinality(blindBooks(v))
  BY <1>1, Fewer
<1> QED
  BY <1>2, <1>3

\* Every step but the opening of a transaction keeps both sums.
LEMMA SumsKept ==
    ASSUME TypeOK, TypeOK', Path, SnapInv, NEW s \in Calls, NEW v \in Visitors,
           \/ Client(s)
           \/ ReadVisitor(s) \/ ReadCurrent(s) \/ Retry(s) \/ Answer(s) \/ Commit(s)
           \/ Begin(s) /\ rowsOf(v) # {}
    PROVE  /\ Cardinality(rowsOf(v)') + Cardinality(blind(v)')
                  <= Cardinality(rowsOf(v)) + Cardinality(blind(v))
           /\ Cardinality(rowsOf(v)') + Cardinality(blindBooks(v)')
                  <= Cardinality(rowsOf(v)) + Cardinality(blindBooks(v))
<1>1. CASE \/ Client(s)
           \/ ReadVisitor(s) \/ ReadCurrent(s) \/ Retry(s) \/ Answer(s)
  <2>1. /\ UNCHANGED tables
        /\ blind(v)' \subseteq blind(v)
        /\ blindBooks(v)' \subseteq blindBooks(v)
    BY <1>1, QuietStep
  <2>2. rowsOf(v)' \subseteq rowsOf(v)
    BY <2>1 DEF tables, rowsOf
  <2> QED
    BY <2>1, <2>2, BothFewer
<1>2. CASE Begin(s) /\ rowsOf(v) # {}
  <2>1. /\ UNCHANGED tables
        /\ blind(v)' \subseteq blind(v)
        /\ blindBooks(v)' \subseteq blindBooks(v)
    BY <1>2, BeginStep
  <2>2. rowsOf(v)' \subseteq rowsOf(v)
    BY <2>1 DEF tables, rowsOf
  <2> QED
    BY <2>1, <2>2, BothFewer
<1>3. CASE Commit(s) /\ op(s) = "book" /\ visitor(s) = v
  BY <1>3, BookKeeps
<1>4. CASE Commit(s) /\ ~(op(s) = "book" /\ visitor(s) = v)
  <2>1. /\ rowsOf(v)' \subseteq rowsOf(v)
        /\ blind(v)' \subseteq blind(v)
        /\ blindBooks(v)' \subseteq blindBooks(v)
    BY <1>4, CommitRows
  <2> QED
    BY <2>1, BothFewer
<1> QED
  BY <1>1, <1>2, <1>3, <1>4

\* The bound on a visitor's rows is kept.
LEMMA RowsStep ==
    ASSUME TypeOK, TypeOK', Path, SnapInv, RowsBound, [Next]_vars
    PROVE  RowsBound'
<1> SUFFICES ASSUME NEW v \in Visitors
             PROVE  Cardinality(rowsOf(v)') + Cardinality(blind(v)') <= Cardinality(Calls)
  BY DEF RowsBound
<1>1. /\ Cardinality(rowsOf(v)) \in Nat /\ Cardinality(blind(v)) \in Nat
      /\ Cardinality(Calls) \in Nat
      /\ Cardinality(rowsOf(v)) + Cardinality(blind(v)) <= Cardinality(Calls)
  BY VisitorCounts DEF RowsBound
<1>2. /\ Cardinality(rowsOf(v)') \in Nat /\ Cardinality(blind(v)') \in Nat
      /\ Cardinality(blind(v)') <= Cardinality(Calls)
  <2>1. IsFiniteSet(Activities \X Visitors) /\ IsFiniteSet(Calls)
    BY BeachAssumption, FS_Product
  <2>2. rowsOf(v)' \subseteq Activities \X Visitors /\ blind(v)' \subseteq Calls
    BY DEF TypeOK, rowsOf, blind
  <2> QED
    BY <2>1, <2>2, Fewer
<1>3. CASE UNCHANGED vars
  <2>1. rowsOf(v)' = rowsOf(v) /\ blind(v)' = blind(v)
    BY <1>3 DEF vars, tables, tx, rowsOf, blind, op, visitor
  <2> QED
    BY <1>1, <2>1
<1>4. ASSUME NEW s \in Calls, Begin(s), rowsOf(v) = {}
      PROVE  Cardinality(rowsOf(v)') + Cardinality(blind(v)') <= Cardinality(Calls)
  <2>1. rowsOf(v)' = {}
    BY <1>4 DEF Begin, tables, rowsOf
  <2>2. Cardinality(rowsOf(v)') = 0
    BY <2>1, FS_EmptySet
  <2> QED
    BY <1>1, <1>2, <2>2
<1>5. ASSUME NEW s \in Calls,
             \/ Client(s)
             \/ ReadVisitor(s) \/ ReadCurrent(s) \/ Retry(s) \/ Answer(s) \/ Commit(s)
             \/ Begin(s) /\ rowsOf(v) # {}
      PROVE  Cardinality(rowsOf(v)') + Cardinality(blind(v)') <= Cardinality(Calls)
  <2>1. Cardinality(rowsOf(v)') + Cardinality(blind(v)')
            <= Cardinality(rowsOf(v)) + Cardinality(blind(v))
    BY <1>5, SumsKept
  <2> QED
    BY <1>1, <1>2, <2>1
<1> QED
  BY <1>3, <1>4, <1>5 DEF Next, Progress

\* After a check-out some call is no booking of the visitor on its way to the
\* table: the check-out itself, and later a call that has to read the flag.
LEMMA OutsiderStep ==
    ASSUME TypeOK, Path, Outsider, [Next]_vars
    PROVE  Outsider'
<1> SUFFICES ASSUME NEW v \in Visitors, checked'[v] = "out"
             PROVE  \E c \in Calls : ~ (/\ op(c)' = "book" /\ visitor(c)' = v
                                        /\ pc'[c] \in {"current", "write", "tx"})
  BY DEF Outsider
<1> USE DEF TypeOK
<1>1. CASE UNCHANGED vars
  BY <1>1 DEF vars, tables, tx, Outsider, op, visitor
<1>2. ASSUME NEW s \in Calls, checked[v] = "out",
             \A t \in Calls \ {s} : pc'[t] = pc[t] /\ request'[t] = request[t],
             \/ pc'[s] \notin {"current", "write", "tx"}
             \/ op(s)' # "book"
             \/ pc[s] \in {"current", "write", "tx"} /\ request'[s] = request[s]
             \/ visitor(s)' # v
      PROVE  \E c \in Calls : ~ (/\ op(c)' = "book" /\ visitor(c)' = v
                                 /\ pc'[c] \in {"current", "write", "tx"})
  <2>1. PICK c \in Calls : ~ (/\ op(c) = "book" /\ visitor(c) = v
                              /\ pc[c] \in {"current", "write", "tx"})
    BY <1>2 DEF Outsider
  <2>2. CASE c = s
    BY <1>2, <2>1, <2>2 DEF op, visitor
  <2>3. CASE c # s
    BY <1>2, <2>1, <2>3 DEF op, visitor
  <2> QED
    BY <2>2, <2>3
<1>3. ASSUME NEW s \in Calls, Client(s)
      PROVE  \E c \in Calls : ~ (/\ op(c)' = "book" /\ visitor(c)' = v
                                 /\ pc'[c] \in {"current", "write", "tx"})
  <2>1. /\ checked' = checked
        /\ \A t \in Calls \ {s} : pc'[t] = pc[t] /\ request'[t] = request[t]
        /\ pc'[s] \notin {"current", "write", "tx"} \/ op(s)' # "book"
    BY <1>3 DEF Client, Book, Cancel, CheckIn, CheckOut, Start, tables, op
  <2> QED
    BY <1>2, <2>1
<1>4. ASSUME NEW s \in Calls, ReadVisitor(s)
      PROVE  \E c \in Calls : ~ (/\ op(c)' = "book" /\ visitor(c)' = v
                                 /\ pc'[c] \in {"current", "write", "tx"})
  <2>1. /\ checked' = checked /\ request' = request
        /\ \A t \in Calls \ {s} : pc'[t] = pc[t]
        /\ pc'[s] = IF checked[visitor(s)] = "in" THEN "current" ELSE "rejected"
    BY <1>4 DEF ReadVisitor, tables
  <2>2. pc'[s] \notin {"current", "write", "tx"} \/ visitor(s)' # v
    BY <2>1 DEF visitor
  <2> QED
    BY <1>2, <2>1, <2>2
<1>5. ASSUME NEW s \in Calls, ReadCurrent(s) \/ Begin(s) \/ Retry(s)
      PROVE  \E c \in Calls : ~ (/\ op(c)' = "book" /\ visitor(c)' = v
                                 /\ pc'[c] \in {"current", "write", "tx"})
  <2>1. /\ checked' = checked /\ request' = request
        /\ \A t \in Calls \ {s} : pc'[t] = pc[t]
        /\ pc[s] \in {"current", "write", "tx"}
    BY <1>5 DEF ReadCurrent, Begin, Retry, Rollback, tables
  <2> QED
    BY <1>2, <2>1
<1>6. ASSUME NEW s \in Calls, Answer(s)
      PROVE  \E c \in Calls : ~ (/\ op(c)' = "book" /\ visitor(c)' = v
                                 /\ pc'[c] \in {"current", "write", "tx"})
  <2>1. /\ checked' = checked
        /\ \A t \in Calls \ {s} : pc'[t] = pc[t] /\ request'[t] = request[t]
        /\ pc'[s] = "idle"
    BY <1>6 DEF Answer, tables
  <2> QED
    BY <1>2, <2>1
<1>7. ASSUME NEW s \in Calls, Commit(s)
      PROVE  \E c \in Calls : ~ (/\ op(c)' = "book" /\ visitor(c)' = v
                                 /\ pc'[c] \in {"current", "write", "tx"})
  BY <1>7 DEF Commit
<1> QED
  BY <1>1, <1>3, <1>4, <1>5, <1>6, <1>7 DEF Next, Progress

\* The flag turns to "out" only where a check-out commits.
LEMMA OutByCheckOut ==
    ASSUME TypeOK, NEW s \in Calls, NEW v \in Visitors, Client(s) \/ Progress(s),
           checked'[v] = "out", checked[v] # "out"
    PROVE  Commit(s) /\ op(s) = "check-out" /\ visitor(s) = v
<1>1. ~ Client(s)
  BY DEF Client, Book, Cancel, CheckIn, CheckOut, Start, tables
<1>2. Commit(s)
  BY <1>1 DEF Progress, ReadVisitor, ReadCurrent, Begin, Retry, Rollback, Answer, tables
<1> QED
  BY <1>2 DEF Commit

\* The bound on the rows of a visitor who left is kept: the check-out gives up
\* a row or its own place among the blind transactions.
LEMMA LeftStep ==
    ASSUME TypeOK, TypeOK', Path, SnapInv, RowsBound, LeftBound, Outsider', [Next]_vars
    PROVE  LeftBound'
<1> SUFFICES ASSUME NEW v \in Visitors, checked'[v] = "out"
             PROVE  Cardinality(rowsOf(v)') + Cardinality(blindBooks(v)') < Cardinality(Calls)
  BY DEF LeftBound
<1>0. IsFiniteSet(Activities \X Visitors) /\ IsFiniteSet(Calls)
  BY BeachAssumption, FS_Product
<1>1. /\ IsFiniteSet(rowsOf(v)) /\ IsFiniteSet(blind(v))
      /\ Cardinality(rowsOf(v)) \in Nat /\ Cardinality(blind(v)) \in Nat
      /\ Cardinality(blindBooks(v)) \in Nat /\ Cardinality(Calls) \in Nat
  BY VisitorCounts
<1>2. Cardinality(rowsOf(v)') \in Nat /\ Cardinality(blindBooks(v)') \in Nat
  <2>1. rowsOf(v)' \subseteq Activities \X Visitors /\ blindBooks(v)' \subseteq Calls
    BY DEF TypeOK, rowsOf, blind, blindBooks
  <2> QED
    BY <1>0, <2>1, Fewer
<1>3. CASE UNCHANGED vars
  <2>1. rowsOf(v)' = rowsOf(v) /\ blindBooks(v)' = blindBooks(v) /\ checked' = checked
    BY <1>3 DEF vars, tables, tx, rowsOf, blind, blindBooks, op, visitor
  <2> QED
    BY <2>1 DEF LeftBound
<1>4. ASSUME NEW s \in Calls, Begin(s), rowsOf(v) = {}
      PROVE  Cardinality(rowsOf(v)') + Cardinality(blindBooks(v)') < Cardinality(Calls)
  <2>1. rowsOf(v)' = {}
    BY <1>4 DEF Begin, tables, rowsOf
  <2>2. Cardinality(rowsOf(v)') = 0
    BY <2>1, FS_EmptySet
  <2>3. PICK c \in Calls : ~ (/\ op(c)' = "book" /\ visitor(c)' = v
                              /\ pc'[c] \in {"current", "write", "tx"})
    BY DEF Outsider
  <2>4. blindBooks(v)' \subseteq Calls \ {c}
    BY <2>3 DEF blindBooks, blind
  <2>5. /\ IsFiniteSet(Calls \ {c})
        /\ Cardinality(Calls \ {c}) = Cardinality(Calls) - 1
    BY <1>0, OneLess
  <2>6. Cardinality(blindBooks(v)') <= Cardinality(Calls \ {c})
    BY <2>4, <2>5, Fewer
  <2> QED
    BY <1>1, <1>2, <2>2, <2>5, <2>6
<1>5. ASSUME NEW s \in Calls, checked[v] = "out",
             \/ Client(s)
             \/ ReadVisitor(s) \/ ReadCurrent(s) \/ Retry(s) \/ Answer(s) \/ Commit(s)
             \/ Begin(s) /\ rowsOf(v) # {}
      PROVE  Cardinality(rowsOf(v)') + Cardinality(blindBooks(v)') < Cardinality(Calls)
  <2>1. Cardinality(rowsOf(v)') + Cardinality(blindBooks(v)')
            <= Cardinality(rowsOf(v)) + Cardinality(blindBooks(v))
    BY <1>5, SumsKept
  <2>2. Cardinality(rowsOf(v)) + Cardinality(blindBooks(v)) < Cardinality(Calls)
    BY <1>5 DEF LeftBound
  <2> QED
    BY <1>1, <1>2, <2>1, <2>2
<1>6. ASSUME NEW s \in Calls, Commit(s), op(s) = "check-out", visitor(s) = v
      PROVE  Cardinality(rowsOf(v)') + Cardinality(blindBooks(v)') < Cardinality(Calls)
  <2>1. /\ blindBooks(v)' \subseteq blindBooks(v) \ {s}
        /\ snap[s] \subseteq rowsOf(v)
        /\ rowsOf(v)' \subseteq rowsOf(v) \ snap[s]
    BY <1>6, CommitRows
  <2>2. blindBooks(v)' \subseteq blind(v) \ {s}
    BY <2>1 DEF blindBooks
  <2>3. Cardinality(rowsOf(v)) + Cardinality(blind(v)) <= Cardinality(Calls)
    BY DEF RowsBound
  <2>4. CASE snap[s] = {}
    <3>1. s \in blind(v)
      BY <1>6, <2>4 DEF Commit, blind
    <3>2. /\ IsFiniteSet(blind(v) \ {s})
          /\ Cardinality(blind(v) \ {s}) = Cardinality(blind(v)) - 1
      BY <1>1, <3>1, OneLess
    <3>3. rowsOf(v)' \subseteq rowsOf(v)
      BY <2>1
    <3>4. /\ Cardinality(rowsOf(v)') <= Cardinality(rowsOf(v))
          /\ Cardinality(blindBooks(v)') <= Cardinality(blind(v) \ {s})
      BY <1>1, <2>2, <3>2, <3>3, Fewer
    <3> QED
      BY <1>1, <1>2, <2>3, <3>2, <3>4
  <2>5. CASE snap[s] # {}
    <3>1. PICK y \in snap[s] : TRUE
      BY <2>5
    <3>2. y \in rowsOf(v) /\ rowsOf(v)' \subseteq rowsOf(v) \ {y} /\ blindBooks(v)' \subseteq blind(v)
      BY <2>1, <2>2, <3>1
    <3>3. /\ IsFiniteSet(rowsOf(v) \ {y})
          /\ Cardinality(rowsOf(v) \ {y}) = Cardinality(rowsOf(v)) - 1
      BY <1>1, <3>2, OneLess
    <3>4. /\ Cardinality(rowsOf(v)') <= Cardinality(rowsOf(v) \ {y})
          /\ Cardinality(blindBooks(v)') <= Cardinality(blind(v))
      BY <1>1, <3>2, <3>3, Fewer
    <3> QED
      BY <1>1, <1>2, <2>3, <3>3, <3>4
  <2> QED
    BY <2>4, <2>5
<1>7. ASSUME NEW s \in Calls, Client(s) \/ Progress(s)
      PROVE  Cardinality(rowsOf(v)') + Cardinality(blindBooks(v)') < Cardinality(Calls)
  <2>1. CASE checked[v] = "out"
    BY <1>4, <1>5, <1>7, <2>1 DEF Progress
  <2>2. CASE checked[v] # "out"
    BY <1>6, <1>7, <2>2, OutByCheckOut
  <2> QED
    BY <2>1, <2>2
<1> QED
  BY <1>3, <1>7 DEF Next

\* The invariant of a visitor's rows holds in every state.
THEOREM VisitorInvariance == Spec => []VisitorInv
<1>1. Init => VisitorInv
  <2> SUFFICES ASSUME Init PROVE VisitorInv
    OBVIOUS
  <2>1. SnapInv /\ Outsider
    BY DEF Init, SnapInv, Outsider
  <2>2. \A v \in Visitors : checked[v] # "out"
    BY DEF Init
  <2>3. ASSUME NEW v \in Visitors
        PROVE  Cardinality(rowsOf(v)) + Cardinality(blind(v)) <= Cardinality(Calls)
    <3>1. rowsOf(v) = {} /\ blind(v) = {}
      BY DEF Init, rowsOf, blind
    <3>2. Cardinality({}) = 0 /\ Cardinality(Calls) \in Nat
      BY BeachAssumption, FS_EmptySet, FS_CardinalityType
    <3> QED
      BY <3>1, <3>2
  <2> QED
    BY <2>1, <2>2, <2>3 DEF VisitorInv, RowsBound, LeftBound
<1>2. IInv /\ IInv' /\ VisitorInv /\ [Next]_vars => VisitorInv'
  BY SnapStep, RowsStep, OutsiderStep, LeftStep DEF IInv, VisitorInv
<1> QED
  BY <1>1, <1>2, Invariance, PTL DEF Spec

\* A visitor is never in more activities than there are calls in progress at
\* once, however the bookings of one visitor race (book() deletes only the
\* rows of its snapshot), for any number of calls.
THEOREM BookingsAreBounded == Spec => []BookingsPerVisitor
<1>1. TypeOK /\ RowsBound => BookingsPerVisitor
  <2> SUFFICES ASSUME TypeOK, RowsBound, NEW v \in Visitors
               PROVE  Cardinality(rowsOf(v)) <= Cardinality(Calls)
    BY DEF BookingsPerVisitor
  <2>1. /\ Cardinality(rowsOf(v)) \in Nat /\ Cardinality(blind(v)) \in Nat
        /\ Cardinality(Calls) \in Nat
    BY VisitorCounts
  <2> QED
    BY <2>1 DEF RowsBound
<1> QED
  BY <1>1, Invariance, VisitorInvariance, PTL DEF IInv, VisitorInv

\* What a visitor who checked out still holds is less than the calls in
\* progress at once (checkOut deletes and clears in one transaction): with one
\* call at a time, nothing.
THEOREM LeftoversAreBounded == Spec => []LeftoverBookings
<1>1. TypeOK /\ LeftBound => LeftoverBookings
  <2> SUFFICES ASSUME TypeOK, LeftBound, NEW v \in Visitors, checked[v] = "out"
               PROVE  Cardinality(rowsOf(v)) < Cardinality(Calls)
    BY DEF LeftoverBookings
  <2>1. /\ Cardinality(rowsOf(v)) \in Nat /\ Cardinality(blindBooks(v)) \in Nat
        /\ Cardinality(Calls) \in Nat
    BY VisitorCounts
  <2>2. Cardinality(rowsOf(v)) + Cardinality(blindBooks(v)) < Cardinality(Calls)
    BY DEF LeftBound
  <2> QED
    BY <2>1, <2>2
<1> QED
  BY <1>1, Invariance, VisitorInvariance, PTL DEF IInv, VisitorInv
====
