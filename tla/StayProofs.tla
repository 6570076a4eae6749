----------------------------- MODULE StayProofs -----------------------------
(***************************************************************************)
(* What a tab does to the wallet are operations of the wallet, whatever    *)
(* the services answer and in whichever order (StayImplementsWallet); the  *)
(* wallet accounts for every token (WalletLedger). For a guest who waits,  *)
(* and without faults, the tab and the services agree (ViewsAreInAgreement *)
(* and WalletIsSettled).                                                   *)
(***************************************************************************)
EXTENDS Stay, SequenceTheorems, TLAPS

WalletInv == WalletTypeOK /\ Ledger

\* creditReservationTokens keeps the wallet's invariant.
LEMMA CreditKept ==
    ASSUME NEW r \in Reservations, WalletInv, creditReservationTokens(r)
    PROVE  WalletInv'
<1>1. getReservationTokenAllowance(r) \in Nat
  <2>. DEFINE p == Package[r]
              nights == p.check_out_day - p.check_in_day
  <2>1. p.room_type \in Rooms /\ nights \in Int
    BY WalletAssumption
  <2>2. Rate[p.room_type] \in Nat
    BY <2>1, WalletAssumption
  <2>. HIDE DEF p, nights
  <2>3. Rate[p.room_type] * (IF nights > 1 THEN nights ELSE 1) \in Nat
    BY <2>1, <2>2
  <2>. QED
    BY <2>3 DEF getReservationTokenAllowance, getPackageTokenAllowance, p, nights
<1>2. paid(tracked) \in Nat
  BY WalletAssumption DEF paid
<1>3. paid(tracked)' = paid(tracked)
  BY DEF creditReservationTokens, paid
<1>. QED
  BY <1>1, <1>2, <1>3 DEF WalletInv, WalletTypeOK, Ledger, creditReservationTokens

\* spendActivityTokens keeps the wallet's invariant, for whatever booking the
\* caller believes to be replaced.
LEMMA SpendKept ==
    ASSUME NEW a \in Activities, NEW current \in Activities \cup {NoId},
           WalletInv, spendActivityTokens(a, current)
    PROVE  WalletInv'
<1>1. CASE UNCHANGED wallet
  BY <1>1 DEF wallet, WalletInv, WalletTypeOK, Ledger, paid
<1>2. CASE ~(tracked = a \/ ~spendable(a, current))
  <2>. DEFINE rc == getRefundableCost(current)
              pt == paid(tracked)
              ca == Cost[a]
  <2>1. /\ balance + rc - ca >= 0
        /\ balance' = balance + rc - ca
        /\ tracked' = a
        /\ forfeits' = forfeits + pt - rc
        /\ UNCHANGED <<credited, earned, gifts>>
    BY <1>2 DEF spendActivityTokens, spendable
  <2>2. pt \in Nat /\ rc \in {0, pt} /\ ca \in Nat
    BY WalletAssumption DEF paid, getRefundableCost
  <2>3. paid(tracked)' = ca
    BY <2>1 DEF paid
  <2>4. /\ balance \in Nat /\ credited \subseteq Reservations
        /\ earned \in Nat /\ gifts \in Nat /\ forfeits \in Nat
        /\ balance + pt + forfeits = earned + gifts
    BY DEF WalletInv, WalletTypeOK, Ledger
  <2>. HIDE DEF rc, pt, ca
  <2>5. /\ balance' \in Nat /\ forfeits' \in Nat
        /\ balance' + ca + forfeits' = earned' + gifts'
    BY <2>1, <2>2, <2>4
  <2>6. WalletTypeOK'
    BY <2>1, <2>4, <2>5 DEF WalletTypeOK
  <2>. QED
    BY <2>3, <2>5, <2>6 DEF WalletInv, Ledger
<1>. QED
  BY <1>1, <1>2 DEF spendActivityTokens

\* refundActivityTokens keeps the wallet's invariant, for whatever booking the
\* caller believes to be cancelled.
LEMMA RefundKept ==
    ASSUME NEW a \in Activities, NEW fallback \in Nat,
           WalletInv, refundActivityTokens(a, fallback)
    PROVE  WalletInv'
<1>1. CASE UNCHANGED wallet
  BY <1>1 DEF wallet, WalletInv, WalletTypeOK, Ledger, paid
<1>2. CASE ~(tracked # a /\ (tracked # NoId \/ fallback <= 0))
  <2>1. paid(NoId) = 0 /\ paid(a) \in Nat
    BY WalletAssumption DEF paid
  <2>2. tracked' = NoId /\ UNCHANGED <<credited, earned, forfeits>>
    BY <1>2 DEF refundActivityTokens
  <2>3. paid(tracked)' = 0
    BY <2>1, <2>2 DEF paid
  <2>4. CASE tracked = a
    BY <1>2, <2>1, <2>2, <2>3, <2>4 DEF refundActivityTokens, WalletInv, WalletTypeOK, Ledger
  <2>5. CASE tracked = NoId /\ tracked # a
    BY <1>2, <2>1, <2>2, <2>3, <2>5 DEF refundActivityTokens, WalletInv, WalletTypeOK, Ledger
  <2>. QED
    BY <1>2, <2>4, <2>5
<1>. QED
  BY <1>1, <1>2 DEF refundActivityTokens

\* Every operation of the wallet keeps its invariant.
LEMMA WalletStep == WalletInv /\ [WalletNext]_wallet => WalletInv'
<1>. SUFFICES ASSUME WalletInv, [WalletNext]_wallet PROVE WalletInv'
  OBVIOUS
<1>1. ASSUME NEW r \in Reservations, creditReservationTokens(r) PROVE WalletInv'
  BY <1>1, CreditKept
<1>2. ASSUME NEW a \in Activities, NEW current \in Activities \cup {NoId},
             spendActivityTokens(a, current)
      PROVE  WalletInv'
  BY <1>2, SpendKept
<1>3. ASSUME NEW a \in Activities, NEW fallback \in {0, Cost[a]},
             refundActivityTokens(a, fallback)
      PROVE  WalletInv'
  BY <1>3, RefundKept, WalletAssumption
<1>4. CASE UNCHANGED wallet
  BY <1>4 DEF wallet, WalletInv, WalletTypeOK, Ledger, paid
<1>. QED
  BY <1>1, <1>2, <1>3, <1>4 DEF WalletNext

LEMMA WalletStart == WalletInit => WalletInv
  BY WalletAssumption DEF WalletInit, WalletInv, WalletTypeOK, Ledger, paid

\* The token store accounts for every token, for every order of its calls and
\* every booking its callers believe in.
THEOREM WalletLedger == WalletSpec => []Ledger
<1>1. WalletInv => Ledger
  BY DEF WalletInv
<1>. QED
  BY WalletStart, WalletStep, <1>1, PTL DEF WalletSpec

----------------------------------------------------------------------------
(***************************************************************************)
(* What the wallet is told has its type.                                   *)
(***************************************************************************)
Rec == [op : Ops \cup {"none"}, arg : Reservations \cup Activities \cup {NoId},
        current : Activities \cup {NoId}, mounted : BOOLEAN,
        state : {"idle", "sent", "check-in", "ok", "error", "orphan"},
        seen : Activities \cup {NoId}]

ServicesOK ==
    /\ arrival \in Values("arrival") /\ confirmed \in Seq(Reservations)
    /\ booking \in Activities \cup {NoId}
    /\ found \in [activity : Activities \cup {NoId}, kept : BOOLEAN]
CacheOK ==
    /\ cache = [k \in Keys |-> cache[k]]
    /\ \A k \in Keys : cache[k] \in Values(k) \cup {NoData}
GetOK ==
    /\ get = [k \in Keys |-> get[k]]
    /\ \A k \in Keys : get[k].state = "answered" => get[k].value \in Values(k)
CallOK ==
    /\ call \in [Calls -> Rec]
    /\ \A s \in Calls :
        /\ call[s].op = "reserve" => call[s].arg \in Reservations
        /\ call[s].op \in {"book", "cancel"} => call[s].arg \in Activities

\* The parts of the type invariant.
LEMMA TypeParts == TypeOK <=> WalletTypeOK /\ ServicesOK /\ CacheOK /\ GetOK /\ CallOK
  BY DEF TypeOK, ServicesOK, CacheOK, GetOK, CallOK, Rec

\* ... after a step.
LEMMA TypePartsNext ==
    TypeOK' <=> WalletTypeOK' /\ ServicesOK' /\ CacheOK' /\ GetOK' /\ CallOK'
  BY DEF TypeOK, ServicesOK, CacheOK, GetOK, CallOK, Rec

\* A part that is left alone keeps its type.
LEMMA PartsUnchanged ==
    /\ WalletTypeOK /\ UNCHANGED wallet => WalletTypeOK'
    /\ ServicesOK /\ UNCHANGED services => ServicesOK'
    /\ CacheOK /\ UNCHANGED cache => CacheOK'
    /\ GetOK /\ UNCHANGED get => GetOK'
    /\ CallOK /\ UNCHANGED call => CallOK'
  BY DEF wallet, services, WalletTypeOK, ServicesOK, CacheOK, GetOK, CallOK

\* A GET that is sent has no answer yet.
LEMMA FetchOK ==
    ASSUME NEW g, NEW ks, g = [k \in Keys |-> g[k]],
           \A k \in Keys : g[k].state = "answered" => g[k].value \in Values(k),
           get' = fetch(g, ks)
    PROVE  GetOK'
<1>1. \A k \in Keys : get'[k] = Sent \/ get'[k] = g[k]
  BY DEF fetch
<1>2. get' = [k \in Keys |-> get'[k]]
  BY DEF fetch
<1>. QED
  BY <1>1, <1>2 DEF GetOK, Sent

\* A call that ends, or changes its state only, keeps the type of the calls.
LEMMA CallsEnd ==
    ASSUME CallOK, NEW s \in Calls, call' = [call EXCEPT ![s] = Idle]
    PROVE  CallOK'
  BY DEF CallOK, Rec, Idle, Ops

LEMMA CallsAdvance ==
    ASSUME CallOK, NEW s \in Calls,
           NEW st \in {"idle", "sent", "check-in", "ok", "error", "orphan"},
           call' = [call EXCEPT ![s].state = st]
    PROVE  CallOK'
  BY DEF CallOK, Rec

\* A new call keeps it, if its arguments have the types of its operation.
LEMMA CallsBegin ==
    ASSUME CallOK, NEW s \in Calls, NEW op \in Ops,
           NEW arg \in Reservations \cup Activities \cup {NoId},
           NEW current \in Activities \cup {NoId},
           op = "reserve" => arg \in Reservations,
           op \in {"book", "cancel"} => arg \in Activities,
           mutate(s, op, arg, current)
    PROVE  CallOK'
  BY WalletAssumption DEF CallOK, Rec, mutate

LEMMA BookingOK ==
    ASSUME ServicesOK, NEW a \in Activities \cup {NoId}, Booking(a)
    PROVE  /\ booking' = a
           /\ found' \in [activity : Activities \cup {NoId}, kept : BOOLEAN]
           /\ found'.activity = found.activity
           /\ found'.kept <=> found.kept /\ a = booking
<1>1. /\ booking' = a /\ found' = [found EXCEPT !.kept = found.kept /\ a = booking]
      /\ found \in [activity : Activities \cup {NoId}, kept : BOOLEAN]
  BY DEF Booking, ServicesOK
<1>2. (found.kept /\ a = booking) \in BOOLEAN
  OBVIOUS
<1>. QED
  BY <1>1, <1>2

\* Applying a call keeps the type of the services.
LEMMA AppliedOK ==
    ASSUME ServicesOK, CallOK, NEW s \in Calls, Applied(call[s].op, call[s].arg)
    PROVE  ServicesOK'
<1>. DEFINE op == call[s].op
            arg == call[s].arg
<1>0. /\ op = "reserve" => arg \in Reservations
      /\ op \in {"book", "cancel"} => arg \in Activities
  BY DEF CallOK
<1>. HIDE DEF op, arg
<1>1. CASE op = "arrive" /\ arrival' = "queued" /\ UNCHANGED <<confirmed, booking, found>>
  BY <1>1 DEF ServicesOK, Values
<1>2. ASSUME op = "reserve", UNCHANGED <<arrival, booking, found>>,
             NEW i \in 1 .. Len(confirmed) + 1, confirmed' = InsertAt(confirmed, i, arg)
      PROVE  ServicesOK'
  <2>. DEFINE front == SubSeq(confirmed, 1, i - 1)
              back == SubSeq(confirmed, i, Len(confirmed))
  <2>1. front \in Seq(Reservations) /\ back \in Seq(Reservations)
    BY SubSeqProperties DEF ServicesOK
  <2>2. confirmed' = front \o <<arg>> \o back
    BY <1>2 DEF InsertAt
  <2>3. <<arg>> \in Seq(Reservations)
    BY <1>0, <1>2
  <2>. HIDE DEF front, back
  <2>4. confirmed' \in Seq(Reservations)
    BY <2>1, <2>2, <2>3, ConcatProperties
  <2>. QED
    BY <1>2, <2>4 DEF ServicesOK
<1>3. ASSUME UNCHANGED <<arrival, booking, found>>,
             NEW i \in DOMAIN confirmed, confirmed' = RemoveAt(confirmed, i)
      PROVE  ServicesOK'
  <2>. DEFINE front == SubSeq(confirmed, 1, i - 1)
              back == SubSeq(confirmed, i + 1, Len(confirmed))
  <2>1. front \in Seq(Reservations) /\ back \in Seq(Reservations)
    BY SubSeqProperties DEF ServicesOK
  <2>2. confirmed' = front \o back
    BY <1>3 DEF RemoveAt
  <2>. HIDE DEF front, back
  <2>3. confirmed' \in Seq(Reservations)
    BY <2>1, <2>2, ConcatProperties
  <2>. QED
    BY <1>3, <2>3 DEF ServicesOK
<1>4. CASE UNCHANGED <<arrival, confirmed, booking, found>>
  BY <1>4 DEF ServicesOK
<1>5. CASE op = "book" /\ Booking(arg) /\ UNCHANGED <<arrival, confirmed>>
  BY <1>0, <1>5, BookingOK DEF ServicesOK
<1>6. CASE Booking(IF booking = arg THEN NoId ELSE booking) /\ UNCHANGED <<arrival, confirmed>>
  BY <1>6, BookingOK DEF ServicesOK
<1>. QED
  BY <1>1, <1>2, <1>3, <1>4, <1>5, <1>6 DEF Applied, op, arg

----------------------------------------------------------------------------
(***************************************************************************)
(* Each step of the stay is a step of the wallet or leaves it alone, and   *)
(* keeps the types. Actions that leave a part alone are done by            *)
(* PartsUnchanged.                                                         *)
(***************************************************************************)
Kept == [WalletNext]_wallet /\ ServicesOK' /\ CacheOK' /\ GetOK' /\ CallOK'

Parts == WalletTypeOK /\ ServicesOK /\ CacheOK /\ GetOK /\ CallOK

\* A reservation that is shown is credited: an operation of the wallet.
LEMMA EffectOK ==
    ASSUME NEW r \in Reservations \cup {NoId, NoData}, ReservationEffect(r)
    PROVE  [WalletNext]_wallet
  BY DEF ReservationEffect, WalletNext

\* Opening and closing panels.
LEMMA OpenPanelOK ==
    ASSUME Parts, NEW p \in {"none", "airport", "hotel", "beach"}, OpenPanel(p)
    PROVE  Kept
<1>1. [WalletNext]_wallet
  <2>1. cache["stay"] \in Reservations \cup {NoId, NoData}
    BY DEF Parts, CacheOK, Keys, Values
  <2>2. CASE p \in {"hotel", "beach"}
    BY <2>1, <2>2, EffectOK DEF OpenPanel
  <2>3. CASE p \notin {"hotel", "beach"}
    BY <2>3 DEF OpenPanel
  <2>. QED
    BY <2>2, <2>3
<1>2. CallOK'
  <2>1. tracked \in Activities \cup {NoId}
    BY DEF Parts, WalletTypeOK
  <2>2. call' = [s \in Calls |-> IF call[s].mounted
                     THEN [call[s] EXCEPT !.mounted = FALSE, !.seen = tracked] ELSE call[s]]
    BY DEF OpenPanel, Unmounted
  <2>3. ASSUME NEW s \in Calls
        PROVE  /\ call'[s] \in Rec
               /\ call'[s].op = call[s].op /\ call'[s].arg = call[s].arg
    <3>1. call[s] \in Rec
      BY DEF Parts, CallOK
    <3>. DEFINE left == [call[s] EXCEPT !.mounted = FALSE, !.seen = tracked]
    <3>2. left \in Rec /\ left.op = call[s].op /\ left.arg = call[s].arg
      BY <2>1, <3>1 DEF Rec
    <3>3. call'[s] = IF call[s].mounted THEN left ELSE call[s]
      BY <2>2
    <3>. QED
      BY <3>1, <3>2, <3>3
  <2>. QED
    BY <2>2, <2>3 DEF Parts, CallOK
<1>3. GetOK'
  BY FetchOK DEF Parts, GetOK, OpenPanel
<1>. QED
  BY <1>1, <1>2, <1>3, PartsUnchanged DEF Kept, Parts, OpenPanel

\* The calls the guest makes.
LEMMA MutateKept ==
    ASSUME Parts, NEW s \in Calls, NEW op \in Ops,
           NEW arg \in Reservations \cup Activities \cup {NoId},
           NEW current \in Activities \cup {NoId},
           op = "reserve" => arg \in Reservations,
           op \in {"book", "cancel"} => arg \in Activities,
           mutate(s, op, arg, current)
    PROVE  Kept
<1>1. CallOK'
  BY CallsBegin DEF Parts
<1>. QED
  BY <1>1, PartsUnchanged DEF Kept, Parts, mutate

LEMMA GuestOK == ASSUME Parts, Guest PROVE Kept
<1>1. ASSUME NEW p \in {"none", "airport", "hotel", "beach"}, OpenPanel(p) PROVE Kept
  BY <1>1, OpenPanelOK
<1>2. ASSUME NEW s \in Calls, Board(s) PROVE Kept
  BY <1>2, MutateKept DEF Board, Ops
<1>3. ASSUME NEW s \in Calls, Reserve(s) PROVE Kept
  <2>. DEFINE new == {r \in Reservations \ issued : \A t \in Calls : call[t].arg # r}
              pick == CHOOSE r \in new : TRUE
  <2>1. pick \in Reservations /\ mutate(s, "reserve", pick, NoId)
    BY <1>3 DEF Reserve
  <2>. HIDE DEF pick
  <2>. QED
    BY <2>1, MutateKept DEF Ops
<1>4. ASSUME NEW s \in Calls, Leave(s) PROVE Kept
  <2>1. cache["stay"] \in Reservations
    BY <1>4 DEF Leave, ReservationCardShown, CheckedIn, Parts, CacheOK, Keys, Values
  <2>. QED
    BY <1>4, <2>1, MutateKept DEF Leave, Ops
<1>5. ASSUME NEW s \in Calls, Cancel(s) PROVE Kept
  <2>1. bookedActivityId \in Activities
    BY <1>5 DEF Cancel, bookedActivityId, Parts, CacheOK, Keys, Values
  <2>. QED
    BY <1>5, <2>1, MutateKept DEF Cancel, Ops
<1>6. ASSUME NEW s \in Calls, NEW a \in Activities, Book(s, a) PROVE Kept
  <2>1. bookedActivityId \in Activities \cup {NoId}
    BY <1>6 DEF Book, bookedActivityId, Parts, CacheOK, Keys, Values
  <2>. QED
    BY <1>6, <2>1, MutateKept DEF Book, Ops
<1>. QED
  BY <1>1, <1>2, <1>3, <1>4, <1>5, <1>6 DEF Guest

\* The queries.
LEMMA QueryOK ==
    ASSUME Parts, NEW k \in Keys, ServeGet(k) \/ ReceiveGet(k) \/ FailGet(k)
    PROVE  Kept
<1>1. CASE ServeGet(k)
  <2>1. Answer(k) \in Values(k)
    <3>1. confirmed # <<>> => Head(confirmed) \in Reservations
      BY HeadTailProperties DEF Parts, ServicesOK
    <3>. QED
      BY <3>1 DEF Answer, Active, Values, Parts, ServicesOK, Keys
  <2>2. GetOK'
    BY <1>1, <2>1 DEF ServeGet, Parts, GetOK
  <2>. QED
    BY <1>1, <2>2, PartsUnchanged DEF Kept, Parts, ServeGet
<1>2. CASE ReceiveGet(k)
  <2>1. get[k].value \in Values(k)
    BY <1>2 DEF ReceiveGet, Parts, GetOK
  <2>2. cache' = [cache EXCEPT ![k] = get[k].value]
    BY <1>2 DEF ReceiveGet
  <2>3. CacheOK'
    BY <2>1, <2>2 DEF Parts, CacheOK
  <2>4. GetOK'
    <3>. DEFINE g == [get EXCEPT ![k] = NoGet]
    <3>1. PICK ks : get' = fetch(g, ks)
      BY <1>2 DEF ReceiveGet
    <3>2. /\ g = [j \in Keys |-> g[j]]
          /\ \A j \in Keys : g[j].state = "answered" => g[j].value \in Values(j)
      BY DEF Parts, GetOK, NoGet
    <3>. HIDE DEF g
    <3>. QED
      BY <3>1, <3>2, FetchOK
  <2>5. [WalletNext]_wallet
    <3>1. CASE k = "stay" /\ cache'[k] # cache[k]
      <4>1. cache'["stay"] \in Reservations \cup {NoId, NoData}
        BY <2>3, <3>1 DEF CacheOK, Values
      <4>2. ReservationEffect(cache'[k])
        BY <1>2, <2>2, <3>1 DEF ReceiveGet
      <4>. QED
        BY <3>1, <4>1, <4>2, EffectOK
    <3>2. CASE ~(k = "stay" /\ cache'[k] # cache[k])
      BY <1>2, <2>2, <3>2 DEF ReceiveGet
    <3>. QED
      BY <3>1, <3>2
  <2>. QED
    BY <1>2, <2>3, <2>4, <2>5, PartsUnchanged DEF Kept, Parts, ReceiveGet
<1>3. CASE FailGet(k)
  <2>1. GetOK'
    BY <1>3 DEF FailGet, Parts, GetOK, NoGet
  <2>. QED
    BY <1>3, <2>1, PartsUnchanged DEF Kept, Parts, FailGet
<1>. QED
  BY <1>1, <1>2, <1>3

\* The services answer calls, with or without a tab that listens.
LEMMA ServiceOK ==
    ASSUME Parts, NEW s \in Calls, Service(s) \/ ServeLost(s)
    PROVE  Kept
<1>1. CASE Serve(s)
  <2>1. ServicesOK'
    BY <1>1, AppliedOK, PartsUnchanged DEF Serve, Parts
  <2>2. CallOK'
    BY <1>1, CallsAdvance DEF Serve, Parts
  <2>. QED
    BY <1>1, <2>1, <2>2, PartsUnchanged DEF Kept, Parts, Serve
<1>2. CASE CheckInParty(s)
  <2>1. CallOK'
    BY <1>2, CallsAdvance DEF CheckInParty, Parts
  <2>2. ServicesOK'
    BY <1>2 DEF CheckInParty, Parts, ServicesOK
  <2>. QED
    BY <1>2, <2>1, <2>2, PartsUnchanged DEF Kept, Parts, CheckInParty
<1>3. CASE ServeOrphan(s)
  <2>1. ServicesOK'
    BY <1>3, AppliedOK, PartsUnchanged DEF ServeOrphan, Parts
  <2>2. CallOK'
    BY <1>3, CallsEnd DEF ServeOrphan, Parts
  <2>. QED
    BY <1>3, <2>1, <2>2, PartsUnchanged DEF Kept, Parts, ServeOrphan
<1>4. CASE ServeLost(s)
  <2>1. ServicesOK'
    BY <1>4, AppliedOK DEF ServeLost, Parts
  <2>2. CallOK'
    BY <1>4, CallsAdvance DEF ServeLost, Parts
  <2>. QED
    BY <1>4, <2>1, <2>2, PartsUnchanged DEF Kept, Parts, ServeLost
<1>. QED
  BY <1>1, <1>2, <1>3, <1>4 DEF Service

\* The tab handles an answer.
LEMMA HandlerOK ==
    ASSUME Parts, NEW s \in Calls, Handler(s)
    PROVE  Kept
<1>. USE DEF Settled
<1>1. CallOK'
  BY CallsEnd DEF Handler, Parts, ArriveSuccess, ReserveSuccess, LeaveSuccess,
                  BookSuccess, CancelSuccess, Error
<1>2. ASSUME NEW ks, get' = fetch(get, ks) PROVE GetOK'
  BY <1>2, FetchOK DEF Parts, GetOK
<1>3. CASE ArriveSuccess(s)
  BY <1>1, <1>2, <1>3, PartsUnchanged DEF Kept, Parts, ArriveSuccess
<1>4. CASE ReserveSuccess(s)
  <2>1. call[s].arg \in Reservations
    BY <1>4 DEF ReserveSuccess, Parts, CallOK
  <2>2. [WalletNext]_wallet
    BY <1>4, <2>1 DEF ReserveSuccess, WalletNext
  <2>. QED
    BY <1>1, <1>2, <1>4, <2>2, PartsUnchanged DEF Kept, Parts, ReserveSuccess
<1>5. CASE LeaveSuccess(s)
  <2>. DEFINE seen == IF call[s].mounted THEN tracked ELSE call[s].seen
  <2>1. seen \in Activities \cup {NoId}
    BY DEF Parts, CallOK, Rec, WalletTypeOK
  <2>2. IF seen = NoId THEN UNCHANGED wallet ELSE refundActivityTokens(seen, 0)
    BY <1>5 DEF LeaveSuccess
  <2>3. cache' = [cache EXCEPT !["stay"] = NoId]
    BY <1>5 DEF LeaveSuccess
  <2>. HIDE DEF seen
  <2>4. [WalletNext]_wallet
    BY <2>1, <2>2 DEF WalletNext
  <2>5. CacheOK'
    BY <2>3 DEF Parts, CacheOK, Keys, Values
  <2>. QED
    BY <1>1, <1>2, <1>5, <2>4, <2>5, PartsUnchanged DEF Kept, Parts, LeaveSuccess
<1>6. CASE BookSuccess(s)
  <2>1. call[s].arg \in Activities /\ call[s].current \in Activities \cup {NoId}
    BY <1>6 DEF BookSuccess, Parts, CallOK, Rec
  <2>2. [WalletNext]_wallet
    BY <1>6, <2>1 DEF BookSuccess, WalletNext
  <2>. QED
    BY <1>1, <1>2, <1>6, <2>2, PartsUnchanged DEF Kept, Parts, BookSuccess
<1>7. CASE CancelSuccess(s)
  <2>1. call[s].arg \in Activities
    BY <1>7 DEF CancelSuccess, Parts, CallOK
  <2>2. [WalletNext]_wallet
    BY <1>7, <2>1 DEF CancelSuccess, WalletNext
  <2>. QED
    BY <1>1, <1>2, <1>7, <2>2, PartsUnchanged DEF Kept, Parts, CancelSuccess
<1>8. CASE Error(s)
  BY <1>1, <1>8, PartsUnchanged DEF Kept, Parts, Error
<1>. QED
  BY <1>3, <1>4, <1>5, <1>6, <1>7, <1>8 DEF Handler

\* The page is loaded again.
LEMMA ReloadOK == ASSUME Parts, Reload PROVE Kept
<1>1. CacheOK' /\ GetOK'
  BY DEF Reload, CacheOK, GetOK, Sent
<1>2. CallOK'
  <2>1. ASSUME NEW s \in Calls
        PROVE  /\ call'[s] \in Rec
               /\ call'[s].op = "reserve" => call'[s].arg \in Reservations
               /\ call'[s].op \in {"book", "cancel"} => call'[s].arg \in Activities
    <3>. DEFINE left == [call[s] EXCEPT !.state = "orphan"]
    <3>1. call[s] \in Rec
      BY DEF Parts, CallOK
    <3>2. left \in Rec /\ left.op = call[s].op /\ left.arg = call[s].arg
      BY <3>1 DEF Rec
    <3>3. Idle \in Rec /\ Idle.op = "none"
      BY DEF Idle, Rec, Ops
    <3>4. call'[s] = left \/ call'[s] = Idle
      BY DEF Reload
    <3>. HIDE DEF left
    <3>. QED
      BY <3>2, <3>3, <3>4 DEF Parts, CallOK
  <2>2. call' = [s \in Calls |-> call'[s]]
    BY DEF Reload
  <2>. QED
    BY <2>1, <2>2 DEF CallOK
<1>. QED
  BY <1>1, <1>2, PartsUnchanged DEF Kept, Parts, Reload

\* Every step.
LEMMA StepOK == ASSUME Parts, [Next]_vars PROVE Kept
<1>1. CASE Guest
  BY <1>1, GuestOK
<1>2. CASE Focus \/ Poll
  <2>1. GetOK'
    BY <1>2, FetchOK DEF Focus, Poll, Parts, GetOK, Keys, Sent
  <2>. QED
    BY <1>2, <2>1, PartsUnchanged DEF Kept, Parts, Focus, Poll
<1>3. CASE Land
  <2>1. ServicesOK'
    BY <1>3 DEF Land, Parts, ServicesOK, Values
  <2>. QED
    BY <1>3, <2>1, PartsUnchanged DEF Kept, Parts, Land, client
<1>4. CASE Reload
  BY <1>4, ReloadOK
<1>5. ASSUME NEW k \in Keys, ServeGet(k) \/ ReceiveGet(k) \/ FailGet(k) PROVE Kept
  BY <1>5, QueryOK
<1>6. ASSUME NEW s \in Calls, Service(s) \/ ServeLost(s) PROVE Kept
  BY <1>6, ServiceOK
<1>7. ASSUME NEW s \in Calls, Handler(s) PROVE Kept
  BY <1>7, HandlerOK
<1>8. ASSUME NEW k \in {"in", "out"}, Deliver(k) PROVE Kept
  <2>. DEFINE b == IF k = "out" THEN NoId ELSE booking
  <2>0. ServicesOK /\ b \in Activities \cup {NoId} /\ Booking(b) /\ UNCHANGED <<arrival, confirmed>>
    BY <1>8 DEF Deliver, Parts, ServicesOK
  <2>. HIDE DEF b
  <2>1. ServicesOK'
    BY <2>0, BookingOK DEF ServicesOK
  <2>. QED
    BY <1>8, <2>1, PartsUnchanged DEF Kept, Parts, Deliver
<1>9. ASSUME NEW k \in {"in", "out"}, LoseSync(k) PROVE Kept
  BY <1>9, PartsUnchanged DEF Kept, Parts, LoseSync
<1>10. CASE UNCHANGED vars
  BY <1>10, PartsUnchanged DEF Kept, Parts, vars, client
<1>. QED
  BY <1>1, <1>2, <1>3, <1>4, <1>5, <1>6, <1>7, <1>8, <1>9, <1>10 DEF Next

----------------------------------------------------------------------------
\* The inductive invariant: the types and the ledger.
IInv == TypeOK /\ Ledger

LEMMA InitOK == Init => IInv
<1>. SUFFICES ASSUME Init PROVE IInv
  OBVIOUS
<1>1. WalletInv
  BY WalletStart DEF Init
<1>2. ServicesOK
  <2>. DEFINE first == CHOOSE r \in Reservations : TRUE
  <2>1. first \in Reservations
    BY StayAssumption
  <2>2. booking \in Activities \cup {NoId} /\ arrival \in {"not_started", "processed"}
    BY StayAssumption DEF Init
  <2>5. found \in [activity : Activities \cup {NoId}, kept : BOOLEAN]
    <3>1. (booking # NoId) \in BOOLEAN
      OBVIOUS
    <3>. QED
      BY <2>2, <3>1 DEF Init
  <2>3. confirmed = <<>> \/ confirmed = <<first>>
    BY DEF Init
  <2>. HIDE DEF first
  <2>4. confirmed \in Seq(Reservations)
    <3>1. <<>> \in Seq(Reservations)
      OBVIOUS
    <3>2. <<first>> \in Seq(Reservations)
      BY <2>1
    <3>. QED
      BY <2>3, <3>1, <3>2
  <2>. QED
    BY <2>2, <2>4, <2>5 DEF ServicesOK, Values
<1>3. CacheOK /\ GetOK
  BY DEF Init, CacheOK, GetOK, Sent
<1>4. CallOK
  BY DEF Init, CallOK, Rec, Idle, Ops
<1>. QED
  BY <1>1, <1>2, <1>3, <1>4, TypeParts DEF IInv, WalletInv

LEMMA NextOK == IInv /\ [Next]_vars => IInv' /\ [WalletNext]_wallet
<1>. SUFFICES ASSUME IInv, [Next]_vars PROVE IInv' /\ [WalletNext]_wallet
  OBVIOUS
<1>1. Kept
  BY StepOK, TypeParts DEF IInv, Parts
<1>2. WalletInv'
  BY <1>1, WalletStep DEF Kept, IInv, WalletInv, TypeOK
<1>. QED
  BY <1>1, <1>2, TypePartsNext DEF Kept, IInv, WalletInv

\* The wallet, the cache, the answers on their way and the calls have their
\* types, for any number of calls, faults and hasty steps.
THEOREM StayTypeCorrect == Spec => []TypeOK
<1>1. IInv => TypeOK
  BY DEF IInv
<1>. QED
  BY InitOK, NextOK, <1>1, PTL DEF Spec

\* A stay implements the wallet: whatever the hooks do, closed panels, lost
\* answers and reloads included, is an operation of the token store or leaves
\* it alone.
THEOREM StayImplementsWallet == Spec => WalletSpec
<1>1. Init => WalletInit
  BY DEF Init
<1>. QED
  BY InitOK, NextOK, <1>1, PTL DEF Spec, WalletSpec

\* Every token of a stay is accounted for, and the balance is never negative.
THEOREM StayLedger == Spec => []Ledger
  BY StayImplementsWallet, WalletLedger, PTL

----------------------------------------------------------------------------
(***************************************************************************)
(* A guest who waits until a change has settled, and no faults: one call   *)
(* at a time, which finds everybody in agreement, and what is out of step  *)
(* after it took effect is known until the answer is handled and the       *)
(* queries are fetched again.                                              *)
(***************************************************************************)
CallPanel(op) == CASE op = "arrive" -> "airport"
                   [] op \in {"reserve", "leave"} -> "hotel"
                   [] op \in {"book", "cancel"} -> "beach"

Open(s) == call[s].state # "idle"

\* The booking that this tab paid for.
Own == IF found.kept THEN NoId ELSE booking

\* A call of one of the operations took effect, and its answer was not handled.
Done(ops) == \E s \in Calls : call[s].op \in ops /\ call[s].state \in {"check-in", "ok"}

OneCall ==
    \A s \in Calls : Open(s) =>
        /\ \A t \in Calls : Open(t) => s = t
        /\ call[s].mounted /\ call[s].state # "orphan" /\ call[s].op \in Ops
        /\ call[s].state = "check-in" => call[s].op = "reserve"
        /\ sync["in"] = 0 /\ sync["out"] = 0
        /\ get["stay"] = NoGet /\ get["booked"] = NoGet
        /\ panel = CallPanel(call[s].op)
        /\ panel = "beach" => get["arrival"] = NoGet /\ ActivitiesShown(panel, cache)

CallKnows ==
    \A s \in Calls : Open(s) =>
        /\ call[s].op = "reserve" /\ call[s].state = "sent" => confirmed = <<>>
        /\ call[s].state = "check-in" => confirmed # <<>>
        /\ call[s].op = "leave" /\ call[s].state = "sent" => confirmed = <<call[s].arg>>
        /\ call[s].op = "leave" /\ call[s].state = "ok" => confirmed = <<>>
        /\ call[s].op = "book" =>
            /\ tracked \in {call[s].current, NoId} /\ call[s].arg # tracked
            /\ spendable(call[s].arg, call[s].current)
            /\ call[s].state = "ok" => booking = call[s].arg /\ ~found.kept
        /\ call[s].op = "cancel" =>
            /\ \/ call[s].arg = tracked
               \/ tracked = NoId /\ call[s].arg = found.activity /\ gifts = 0
            /\ call[s].state = "ok" => booking = NoId /\ ~found.kept

StayView ==
    /\ confirmed = <<>> \/ \E r \in Reservations : confirmed = <<r>>
    /\ get["stay"].state = "answered" => get["stay"].value = Active
    /\ get["stay"] = NoGet /\ ~Done({"reserve", "leave"}) => cache["stay"] = Active
    /\ ~Done({"leave"}) => cache["stay"] \in {Active, NoId, NoData}

BeachView ==
    /\ sync["in"] > 0 => confirmed # <<>>
    /\ sync["out"] > 0 => confirmed = <<>> /\ tracked = NoId
    /\ confirmed # <<>> => checkedIn \/ \E s \in Calls : call[s].state = "check-in"
    /\ confirmed = <<>> /\ checkedIn => sync["out"] > 0 \/ Done({"leave"})

BookingView ==
    /\ get["booked"].state = "answered" => get["booked"].value = booking \/ confirmed = <<>>
    /\ ActivitiesShown(panel, cache) /\ get["booked"] = NoGet /\ ~Done({"book", "cancel"}) =>
            cache["booked"] = booking
    /\ sync["out"] = 0 /\ ~Done({"book", "cancel"}) => tracked = Own
    /\ found.kept => booking = found.activity /\ gifts = 0
    /\ gifts \in {0, paid(found.activity)} /\ forfeits = 0

CleanParts == OneCall /\ CallKnows /\ StayView /\ BeachView /\ BookingView

Counts ==
    /\ faults \in Nat /\ haste \in Nat
    /\ sync \in [{"in", "out"} -> Nat] /\ checkedIn \in BOOLEAN

Settling == Parts /\ Counts /\ clean /\ CleanParts

NoneOpen == \A s \in Calls : ~Open(s)

\* Without a call in progress there is nothing to know of one.
LEMMA NoCalls ==
    NoneOpen => OneCall /\ CallKnows /\ (\A ops : ~Done(ops)) /\ \A s \in Calls : call[s].state # "check-in"
  BY DEF NoneOpen, Open, OneCall, CallKnows, Done

LEMMA NoCallsNext ==
    NoneOpen' => /\ OneCall' /\ CallKnows'
                 /\ \A ops : ~Done(ops)'
                 /\ \A s \in Calls : call'[s].state # "check-in"
  BY DEF NoneOpen, Open, OneCall, CallKnows, Done

\* A GET is sent for the keys that have none in flight.
LEMMA FetchFacts ==
    ASSUME NEW g, NEW ks, NEW h, h = fetch(g, ks)
    PROVE  \A k \in Keys : /\ h[k] = Sent \/ h[k] = g[k]
                           /\ k \in ks => h[k] # NoGet
                           /\ k \notin ks => h[k] = g[k]
                           /\ g[k] # NoGet => h[k] = g[k]
                           /\ h[k].state = "answered" => h[k] = g[k]
  BY DEF fetch, Sent, NoGet

\* A reservation of the guest that is shown is the one the hotel has.
LEMMA EffectFacts ==
    ASSUME NEW r, ReservationEffect(r), sync \in [{"in", "out"} -> Nat]
    PROVE  /\ UNCHANGED <<tracked, gifts, forfeits>>
           /\ sync' \in [{"in", "out"} -> Nat]
           /\ sync'["out"] = sync["out"]
           /\ r \in {NoData, NoId} => sync' = sync
<1>1. CASE r \in {NoData, NoId}
  BY <1>1 DEF ReservationEffect, wallet
<1>2. CASE r \notin {NoData, NoId}
  <2>1. sync' = [sync EXCEPT !["in"] = IF @ < MaxSync THEN @ + 1 ELSE @]
    BY <1>2 DEF ReservationEffect, Send
  <2>2. UNCHANGED <<tracked, gifts, forfeits>>
    BY <1>2 DEF ReservationEffect, creditReservationTokens
  <2>. QED
    BY <1>2, <2>1, <2>2
<1>. QED
  BY <1>1, <1>2

\* The hotel has a reservation if and only if it answers with one.
LEMMA ActiveFacts ==
    ASSUME Parts, StayView
    PROVE  /\ confirmed = <<>> <=> Active = NoId
           /\ confirmed # <<>> => confirmed = <<Active>> /\ Active \in Reservations
<1>1. CASE confirmed = <<>>
  BY <1>1 DEF Active
<1>2. ASSUME NEW r \in Reservations, confirmed = <<r>>
      PROVE  Active = r /\ Active # NoId /\ confirmed # <<>>
  BY <1>2, WalletAssumption DEF Active
<1>. QED
  BY <1>1, <1>2 DEF StayView

\* Opening a panel and looking at the page again, when nothing is under way.
LEMMA RefetchSettled ==
    ASSUME Settling, ~Busy, ~Syncing, UNCHANGED <<services, cache>>, NEW ks,
           \A s \in Calls : call'[s].state = call[s].state,
           get' = fetch(get, ks),
           ActivitiesShown(panel', cache) => "booked" \in ks,
           UNCHANGED <<tracked, gifts, forfeits>>,
           sync' \in [{"in", "out"} -> Nat], sync'["out"] = 0,
           sync'["in"] > 0 => cache["stay"] \notin {NoData, NoId}
    PROVE  CleanParts'
<1>1. NoneOpen /\ NoneOpen'
  BY DEF Busy, NoneOpen, Open
<1>2. /\ OneCall' /\ CallKnows'
      /\ \A ops : ~Done(ops) /\ ~Done(ops)'
      /\ \A s \in Calls : call[s].state # "check-in"
  BY <1>1, NoCalls, NoCallsNext
<1>3. \A k \in Keys : /\ get'[k] = NoGet => get[k] = NoGet
                      /\ get'[k].state = "answered" => get'[k] = get[k]
                      /\ k \in ks => get'[k] # NoGet
  BY FetchFacts DEF Sent, NoGet
<1>4. Active' = Active /\ UNCHANGED <<confirmed, checkedIn, booking, found>>
  BY DEF Active, services
<1>5. /\ confirmed = <<>> <=> Active = NoId
      /\ cache["stay"] \in {Active, NoId, NoData}
  BY <1>2, ActiveFacts DEF Settling, CleanParts, StayView
<1>6. sync["in"] = 0 /\ sync["out"] = 0
  BY DEF Syncing, Settling, Counts
<1>7. StayView'
  BY <1>2, <1>3, <1>4 DEF Settling, CleanParts, StayView, Keys
<1>8. BeachView'
  BY <1>2, <1>4, <1>5, <1>6 DEF Settling, CleanParts, BeachView
<1>9. BookingView'
  <2>1. get'["booked"].state = "answered" => get'["booked"].value = booking' \/ confirmed' = <<>>
    BY <1>3, <1>4 DEF Settling, CleanParts, BookingView, Own, paid, Keys
  <2>2. ~(ActivitiesShown(panel', cache') /\ get'["booked"] = NoGet)
    BY <1>3 DEF Keys
  <2>3. /\ tracked' = Own' /\ (found'.kept => booking' = found'.activity /\ gifts' = 0)
        /\ gifts' \in {0, paid(found'.activity)} /\ forfeits' = 0
    BY <1>2, <1>4, <1>6 DEF Settling, CleanParts, BookingView, Own, paid
  <2>. QED
    BY <2>1, <2>2, <2>3 DEF BookingView
<1>. QED
  BY <1>2, <1>7, <1>8, <1>9 DEF CleanParts

\* Without haste a step of the guest waited.
LEMMA Waited ==
    ASSUME Settling, clean', NEW settled \in BOOLEAN, WhenSettled(settled)
    PROVE  settled
  BY DEF Settling, Counts, clean, WhenSettled

LEMMA OpenPanelSettled ==
    ASSUME Settling, clean', NEW p, OpenPanel(p)
    PROVE  CleanParts'
<1>1. ~Busy /\ ~Syncing
  <2>1. (~Busy /\ ~Syncing) \in BOOLEAN
    OBVIOUS
  <2>. QED
    BY <2>1, Waited DEF OpenPanel
<1>2. \A s \in Calls : call'[s].state = call[s].state
  <2>. SUFFICES ASSUME NEW s \in Calls PROVE call'[s].state = call[s].state
    OBVIOUS
  <2>1. call[s] \in Rec
    BY DEF Settling, Parts, CallOK
  <2>2. [call[s] EXCEPT !.mounted = FALSE, !.seen = tracked].state = call[s].state
    BY <2>1 DEF Rec
  <2>. QED
    BY <2>2 DEF OpenPanel, Unmounted
<1>3. /\ get' = fetch(get, Refetched(p, cache)) /\ panel' = p
      /\ UNCHANGED <<services, cache>>
  BY DEF OpenPanel
<1>4. ActivitiesShown(panel', cache) => "booked" \in Refetched(p, cache)
  BY <1>3 DEF Refetched, ActivitiesShown
<1>5. sync \in [{"in", "out"} -> Nat] /\ sync["in"] = 0 /\ sync["out"] = 0
  BY <1>1 DEF Syncing, Settling, Counts
<1>6. /\ UNCHANGED <<tracked, gifts, forfeits>>
      /\ sync' \in [{"in", "out"} -> Nat] /\ sync'["out"] = 0
      /\ sync'["in"] > 0 => cache["stay"] \notin {NoData, NoId}
  <2>1. CASE p \in {"hotel", "beach"}
    <3>1. ReservationEffect(cache["stay"])
      BY <2>1 DEF OpenPanel
    <3>. QED
      BY <1>5, <3>1, EffectFacts
  <2>2. CASE p \notin {"hotel", "beach"}
    BY <1>5, <2>2 DEF OpenPanel, wallet
  <2>. QED
    BY <2>1, <2>2
<1>. QED
  BY <1>1, <1>2, <1>3, <1>4, <1>6, RefetchSettled

LEMMA FocusSettled == ASSUME Settling, clean', Focus PROVE CleanParts'
<1>1. ~Busy /\ ~Syncing
  <2>1. (~Busy /\ ~Syncing) \in BOOLEAN
    OBVIOUS
  <2>. QED
    BY <2>1, Waited DEF Focus
<1>2. sync \in [{"in", "out"} -> Nat] /\ sync["in"] = 0 /\ sync["out"] = 0
  BY <1>1 DEF Syncing, Settling, Counts
<1>. QED
  BY <1>1, <1>2, RefetchSettled DEF Focus, wallet, Keys

\* A new call, when everything is quiet.
LEMMA BeginSettled ==
    ASSUME Settling, clean', NEW s \in Calls, NEW op \in Ops, NEW arg, NEW current,
           mutate(s, op, arg, current),
           panel = CallPanel(op), panel = "beach" => ActivitiesShown(panel, cache),
           op = "reserve" => confirmed = <<>>,
           op = "leave" => confirmed = <<arg>>,
           op = "book" => tracked \in {current, NoId} /\ arg # tracked /\ spendable(arg, current),
           op = "cancel" => arg = tracked \/ (tracked = NoId /\ arg = found.activity /\ gifts = 0)
    PROVE  CleanParts'
<1>. DEFINE new == [op |-> op, arg |-> arg, current |-> current,
                    state |-> "sent", mounted |-> TRUE, seen |-> NoId]
<1>1. Quiet
  <2>1. Quiet \in BOOLEAN
    BY DEF Quiet
  <2>. QED
    BY <2>1, Waited DEF mutate
<1>2. /\ new.op = op /\ new.arg = arg /\ new.current = current
      /\ new.state = "sent" /\ new.mounted = TRUE
  OBVIOUS
<1>3. call' = [call EXCEPT ![s] = new]
  BY DEF mutate
<1>. HIDE DEF new
<1>4. /\ call'[s] = new
      /\ \A t \in Calls : t # s => call'[t] = call[t]
  BY <1>3 DEF Settling, Parts, CallOK
<1>5. /\ UNCHANGED <<balance, tracked, gifts, forfeits, confirmed, checkedIn, booking, found>>
      /\ UNCHANGED <<cache, get, sync, panel>>
  BY DEF mutate, wallet, services
<1>6. /\ NoneOpen /\ sync["in"] = 0 /\ sync["out"] = 0
      /\ get["stay"] = NoGet /\ get["booked"] = NoGet /\ get["arrival"] = NoGet
  BY <1>1 DEF Quiet, Busy, Syncing, NoneOpen, Open, Keys, Settling, Counts
<1>7. OneCall'
  <2>1. \A t \in Calls : Open(t)' => t = s
    BY <1>4, <1>6 DEF Open, NoneOpen
  <2>2. /\ call'[s].mounted /\ call'[s].state = "sent" /\ call'[s].op = op
        /\ sync'["in"] = 0 /\ sync'["out"] = 0
        /\ get'["stay"] = NoGet /\ get'["booked"] = NoGet /\ get'["arrival"] = NoGet
        /\ panel' = CallPanel(op) /\ (panel' = "beach" => ActivitiesShown(panel', cache'))
    BY <1>2, <1>4, <1>5, <1>6
  <2>. QED
    BY <2>1, <2>2 DEF OneCall
<1>8. CallKnows'
  <2>1. \A t \in Calls : Open(t)' => t = s
    BY <1>4, <1>6 DEF Open, NoneOpen
  <2>2. spendable(arg, current) => spendable(arg, current)'
    BY <1>5 DEF spendable, getRefundableCost, paid
  <2>3. /\ call'[s].op = op /\ call'[s].state = "sent"
        /\ call'[s].arg = arg /\ call'[s].current = current
    BY <1>2, <1>4
  <2>4. spendable(call[s].arg, call[s].current)' <=> spendable(arg, current)'
    BY <2>3 DEF spendable, getRefundableCost
  <2>. QED
    BY <1>5, <2>1, <2>2, <2>3, <2>4 DEF CallKnows
<1>9. \A ops : ~Done(ops) /\ ~Done(ops)'
  <2>1. \A t \in Calls : call[t].state = "idle" /\ call'[t].state \in {"idle", "sent"}
    BY <1>2, <1>4, <1>6 DEF NoneOpen, Open
  <2>. QED
    BY <2>1 DEF Done
<1>10. Active' = Active
  BY <1>5 DEF Active
<1>11. StayView'
  BY <1>5, <1>9, <1>10 DEF Settling, CleanParts, StayView
<1>12. BeachView'
  <2>1. \A t \in Calls : call[t].state # "check-in"
    BY <1>6 DEF NoneOpen, Open
  <2>. QED
    BY <1>5, <1>9, <2>1 DEF Settling, CleanParts, BeachView
<1>13. BookingView'
  <2>1. ActivitiesShown(panel', cache') = ActivitiesShown(panel, cache)
    BY <1>5
  <2>. QED
    BY <1>5, <1>9, <2>1 DEF Settling, CleanParts, BookingView, Own, paid
<1>. QED
  BY <1>7, <1>8, <1>11, <1>12, <1>13 DEF CleanParts

\* What is shown when everything is quiet.
LEMMA QuietFacts ==
    ASSUME Settling, Quiet
    PROVE  /\ cache["stay"] = Active /\ tracked = Own
           /\ ActivitiesShown(panel, cache) => cache["booked"] = booking /\ bookedActivityId = booking
           /\ checkedIn = (confirmed # <<>>)
<1>1. NoneOpen /\ sync["in"] = 0 /\ sync["out"] = 0 /\ \A k \in Keys : get[k] = NoGet
  BY DEF Quiet, Busy, Syncing, NoneOpen, Open, Settling, Counts
<1>2. (\A ops : ~Done(ops)) /\ \A s \in Calls : call[s].state # "check-in"
  BY <1>1, NoCalls
<1>3. cache["stay"] = Active
  BY <1>1, <1>2 DEF Settling, CleanParts, StayView, Keys
<1>4. tracked = Own /\ (ActivitiesShown(panel, cache) => cache["booked"] = booking)
  BY <1>1, <1>2 DEF Settling, CleanParts, BookingView, Keys
<1>7. booking # NoData
  BY StayAssumption DEF Settling, Parts, ServicesOK
<1>5. confirmed # <<>> => checkedIn
  BY <1>2 DEF Settling, CleanParts, BeachView
<1>6. confirmed = <<>> => ~checkedIn
  BY <1>1, <1>2 DEF Settling, CleanParts, BeachView
<1>. QED
  BY <1>3, <1>4, <1>5, <1>6, <1>7 DEF Settling, Counts, bookedActivityId

LEMMA MutateQuiet ==
    ASSUME Settling, clean', NEW s, NEW op, NEW arg, NEW current, mutate(s, op, arg, current)
    PROVE  Quiet
<1>1. Quiet \in BOOLEAN
  BY DEF Quiet
<1>. QED
  BY <1>1, Waited DEF mutate

\* The calls of the guest find the views in agreement.
LEMMA GuestSettled == ASSUME Settling, clean', Guest PROVE CleanParts'
<1>1. ASSUME NEW p, OpenPanel(p) PROVE CleanParts'
  BY <1>1, OpenPanelSettled
<1>2. ASSUME NEW s \in Calls, Board(s) PROVE CleanParts'
  <2>1. panel = "airport" /\ mutate(s, "arrive", NoId, NoId)
    BY <1>2 DEF Board, ArrivalFormShown
  <2>2. CallPanel("arrive") = "airport" /\ "arrive" \in Ops
    BY DEF CallPanel, Ops
  <2>. QED
    BY <2>1, <2>2, BeginSettled
<1>3. ASSUME NEW s \in Calls, Reserve(s) PROVE CleanParts'
  <2>1. PICK r : mutate(s, "reserve", r, NoId)
    BY <1>3 DEF Reserve
  <2>2. panel = "hotel" /\ cache["stay"] \in {NoData, NoId}
    BY <1>3 DEF Reserve, ReservationFormShown, CheckedIn
  <2>3. confirmed = <<>>
    <3>1. cache["stay"] = Active
      BY <2>1, MutateQuiet, QuietFacts
    <3>2. confirmed = <<>> \/ Active \in Reservations
      BY ActiveFacts DEF Settling, CleanParts
    <3>. QED
      BY <2>2, <3>1, <3>2, WalletAssumption, StayAssumption
  <2>4. CallPanel("reserve") = "hotel" /\ "reserve" \in Ops
    BY DEF CallPanel, Ops
  <2>. QED
    BY <2>1, <2>2, <2>3, <2>4, BeginSettled
<1>4. ASSUME NEW s \in Calls, Leave(s) PROVE CleanParts'
  <2>1. panel = "hotel" /\ cache["stay"] # NoId /\ mutate(s, "leave", cache["stay"], NoId)
    BY <1>4 DEF Leave, ReservationCardShown, CheckedIn
  <2>2. confirmed = <<cache["stay"]>>
    BY <2>1, MutateQuiet, QuietFacts, ActiveFacts DEF Settling, CleanParts
  <2>3. CallPanel("leave") = "hotel" /\ "leave" \in Ops
    BY DEF CallPanel, Ops
  <2>. QED
    BY <2>1, <2>2, <2>3, BeginSettled
<1>5. ASSUME NEW s \in Calls, Cancel(s) PROVE CleanParts'
  <2>1. ActivitiesShown(panel, cache) /\ mutate(s, "cancel", bookedActivityId, NoId)
    BY <1>5 DEF Cancel
  <2>2. bookedActivityId = booking /\ tracked = Own
    BY <2>1, MutateQuiet, QuietFacts
  <2>5. booking = tracked \/ (tracked = NoId /\ booking = found.activity /\ gifts = 0)
    BY <2>2 DEF Own, Settling, CleanParts, BookingView
  <2>3. CallPanel("cancel") = "beach" /\ "cancel" \in Ops
    BY DEF CallPanel, Ops
  <2>4. panel = "beach"
    BY <2>1 DEF ActivitiesShown
  <2>. QED
    BY <2>1, <2>2, <2>3, <2>4, <2>5, BeginSettled
<1>6. ASSUME NEW s \in Calls, NEW a \in Activities, Book(s, a) PROVE CleanParts'
  <2>1. /\ ActivitiesShown(panel, cache) /\ mutate(s, "book", a, bookedActivityId)
        /\ bookedActivityId # a /\ canAffordActivity(a, bookedActivityId)
    BY <1>6 DEF Book
  <2>2. /\ bookedActivityId = booking /\ tracked \in {booking, NoId}
        /\ a # tracked
    BY <2>1, MutateQuiet, QuietFacts, WalletAssumption DEF Own
  <2>3. CallPanel("book") = "beach" /\ "book" \in Ops
    BY DEF CallPanel, Ops
  <2>4. panel = "beach"
    BY <2>1 DEF ActivitiesShown
  <2>5. spendable(a, booking)
    <3>1. balance \in Nat /\ Cost[a] \in Nat /\ getRefundableCost(booking) \in Nat
      BY WalletAssumption DEF Settling, Parts, WalletTypeOK, paid, getRefundableCost
    <3>2. balance + getRefundableCost(booking) >= Cost[a]
      BY <2>1, <2>2 DEF canAffordActivity
    <3>3. balance + getRefundableCost(booking) - Cost[a] >= 0
      BY <3>1, <3>2
    <3>. QED
      BY <3>3 DEF spendable
  <2>. QED
    BY <2>1, <2>2, <2>3, <2>4, <2>5, BeginSettled
<1>. QED
  BY <1>1, <1>2, <1>3, <1>4, <1>5, <1>6 DEF Guest

\* Calls that are left alone.
LEMMA CallsLeft ==
    ASSUME UNCHANGED call
    PROVE  /\ \A s \in Calls : Open(s)' <=> Open(s)
           /\ \A ops : Done(ops)' <=> Done(ops)
           /\ NoneOpen' <=> NoneOpen
           /\ UNCHANGED <<confirmed, booking, found, balance, tracked, gifts>> /\ CallKnows => CallKnows'
           /\ UNCHANGED <<sync, get, panel, cache>> /\ OneCall => OneCall'
<1>1. UNCHANGED <<balance, tracked>> => \A a, c : spendable(a, c)' <=> spendable(a, c)
  BY DEF spendable, getRefundableCost, paid
<1>2. /\ \A s \in Calls : Open(s)' <=> Open(s)
      /\ \A ops : Done(ops)' <=> Done(ops)
      /\ NoneOpen' <=> NoneOpen
  BY DEF Open, Done, NoneOpen
<1>3. ASSUME UNCHANGED <<confirmed, booking, found, balance, tracked, gifts>>, CallKnows PROVE CallKnows'
  <2>1. \A s \in Calls : spendable(call[s].arg, call[s].current) => spendable(call[s].arg, call[s].current)'
    BY <1>3 DEF spendable, getRefundableCost, paid
  <2>. QED
    BY <1>2, <1>3, <2>1 DEF CallKnows
<1>4. ASSUME UNCHANGED <<sync, get, panel, cache>>, OneCall PROVE OneCall'
  BY <1>2, <1>4 DEF OneCall
<1>. QED
  BY <1>2, <1>3, <1>4

LEMMA LandSettled == ASSUME Settling, Land PROVE CleanParts'
<1>1. /\ UNCHANGED <<call, sync, get, panel, cache>>
      /\ UNCHANGED <<balance, tracked, gifts, forfeits, confirmed, checkedIn, booking, found>>
  BY DEF Land, wallet, client
<1>2. OneCall' /\ CallKnows'
  BY <1>1, CallsLeft DEF Settling, CleanParts
<1>3. (\A ops : Done(ops)' <=> Done(ops)) /\ Active' = Active
  BY <1>1, CallsLeft DEF Active
<1>4. StayView' /\ BeachView'
  BY <1>1, <1>3 DEF Settling, CleanParts, StayView, BeachView
<1>5. BookingView'
  BY <1>1, <1>3 DEF Settling, CleanParts, BookingView, Own, paid
<1>. QED
  BY <1>2, <1>4, <1>5 DEF CleanParts

\* While a call is in progress only the arrival is fetched, and not on the beach.
LEMMA OnlyArrival ==
    ASSUME Settling, NEW k \in Keys, get[k] # NoGet, ~NoneOpen
    PROVE  k = "arrival" /\ panel # "beach"
  BY DEF Settling, CleanParts, OneCall, NoneOpen, Keys

\* Sending and answering a GET.
LEMMA GetSettled ==
    ASSUME Settling, NEW k \in Keys, NEW g,
           get' = [get EXCEPT ![k] = g], g # NoGet,
           ~NoneOpen => k = "arrival" /\ panel # "beach",
           g.state = "answered" /\ k # "arrival" => g.value = Answer(k),
           UNCHANGED <<wallet, services, cache, call, sync, panel>>
    PROVE  CleanParts'
<1>1. /\ UNCHANGED <<balance, tracked, gifts, forfeits, confirmed, checkedIn, booking, found>>
      /\ UNCHANGED <<call, cache, sync, panel>>
  BY DEF wallet, services
<1>2. get'[k] = g /\ \A j \in Keys : j # k => get'[j] = get[j]
  BY DEF Settling, Parts, GetOK
<1>3. /\ \A s \in Calls : Open(s)' <=> Open(s)
      /\ \A ops : Done(ops)' <=> Done(ops)
      /\ CallKnows'
  BY <1>1, CallsLeft DEF Settling, CleanParts
<1>4. Active' = Active
  BY <1>1 DEF Active
<1>5. OneCall'
  <2>1. CASE NoneOpen
    BY <1>3, <2>1 DEF OneCall, NoneOpen
  <2>2. CASE ~NoneOpen
    <3>1. get'["stay"] = get["stay"] /\ get'["booked"] = get["booked"]
      BY <1>2, <2>2 DEF Keys
    <3>. QED
      BY <1>1, <1>3, <2>2, <3>1 DEF OneCall, Settling, CleanParts
  <2>. QED
    BY <2>1, <2>2
<1>6. StayView'
  <2>1. get'["stay"].state = "answered" => get'["stay"].value = Active
    BY <1>2 DEF Settling, CleanParts, StayView, Keys, Answer
  <2>2. get'["stay"] = NoGet => get["stay"] = NoGet
    BY <1>2 DEF Keys
  <2>. QED
    BY <1>1, <1>3, <1>4, <2>1, <2>2 DEF Settling, CleanParts, StayView
<1>7. BeachView'
  BY <1>1, <1>3 DEF Settling, CleanParts, BeachView
<1>8. BookingView'
  <2>1. get'["booked"].state = "answered" => get'["booked"].value = booking \/ confirmed = <<>>
    BY <1>2 DEF Settling, CleanParts, BookingView, Own, paid, Keys, Answer
  <2>2. get'["booked"] = NoGet => get["booked"] = NoGet
    BY <1>2 DEF Keys
  <2>. QED
    BY <1>1, <1>3, <2>1, <2>2 DEF Settling, CleanParts, BookingView, Own, paid
<1>. QED
  BY <1>3, <1>5, <1>6, <1>7, <1>8 DEF CleanParts

LEMMA PollSettled == ASSUME Settling, Poll PROVE CleanParts'
<1>1. ~NoneOpen => panel # "beach"
  BY DEF Poll, NoneOpen, Settling, CleanParts, OneCall, ActivitiesShown
<1>2. Sent # NoGet /\ Sent.state # "answered" /\ "arrival" \in Keys
  BY DEF Sent, NoGet, Keys
<1>. QED
  BY <1>1, <1>2, GetSettled DEF Poll

LEMMA ServeGetSettled == ASSUME Settling, NEW k \in Keys, ServeGet(k) PROVE CleanParts'
<1>. DEFINE g == [state |-> "answered", value |-> Answer(k)]
<1>1. g # NoGet /\ g.value = Answer(k)
  BY DEF NoGet
<1>2. get[k] # NoGet
  BY DEF ServeGet, Sent, NoGet
<1>3. get' = [get EXCEPT ![k] = g]
  BY DEF ServeGet
<1>. HIDE DEF g
<1>. QED
  BY <1>1, <1>2, <1>3, OnlyArrival, GetSettled DEF ServeGet

\* An answer arrives. A reservation that becomes known is the one the hotel has;
\* a list of activities that comes to be shown fetches the booking.
LEMMA ReceiveGetSettled == ASSUME Settling, NEW k \in Keys, ReceiveGet(k) PROVE CleanParts'
<1>. DEFINE mounts == ActivitiesShown(panel, cache') /\ ~ActivitiesShown(panel, cache)
            ks == IF mounts THEN {"booked"} ELSE {}
            g == [get EXCEPT ![k] = NoGet]
<1>1. /\ get[k].state = "answered"
      /\ cache' = [cache EXCEPT ![k] = get[k].value]
      /\ get' = fetch(g, ks)
      /\ UNCHANGED <<services, call, panel>>
  BY DEF ReceiveGet
<1>2. cache'[k] = get[k].value /\ \A j \in Keys : j # k => cache'[j] = cache[j]
  BY <1>1 DEF Settling, Parts, CacheOK
<1>3. g[k] = NoGet /\ \A j \in Keys : j # k => g[j] = get[j]
  BY DEF Settling, Parts, GetOK
<1>4. \A j \in Keys : /\ get'[j] = Sent \/ get'[j] = g[j]
                      /\ j \in ks => get'[j] # NoGet
                      /\ j \notin ks => get'[j] = g[j]
                      /\ get'[j].state = "answered" => get'[j] = g[j]
                      /\ get'[j] = NoGet => g[j] = NoGet
  <2>. HIDE DEF g, ks
  <2>. QED
    BY <1>1, FetchFacts DEF Sent, NoGet
<1>5. /\ UNCHANGED <<tracked, gifts, forfeits>>
      /\ sync' \in [{"in", "out"} -> Nat] /\ sync'["out"] = sync["out"]
      /\ k # "stay" \/ get[k].value \in {NoData, NoId} => sync' = sync
      /\ k # "stay" => UNCHANGED balance
  <2>1. CASE k = "stay" /\ cache'[k] # cache[k]
    <3>1. ReservationEffect(get[k].value)
      BY <1>1, <1>2, <2>1 DEF ReceiveGet
    <3>. QED
      BY <2>1, <3>1, EffectFacts DEF Settling, Counts
  <2>2. CASE ~(k = "stay" /\ cache'[k] # cache[k])
    <3>1. UNCHANGED <<sync, wallet>>
      BY <1>1, <1>2, <2>2 DEF ReceiveGet
    <3>. QED
      BY <3>1 DEF wallet, Settling, Counts
  <2>. QED
    BY <2>1, <2>2
<1>6. /\ UNCHANGED <<call, panel, confirmed, checkedIn, booking, found>>
      /\ Active' = Active
  BY <1>1 DEF services, Active
<1>7. /\ \A s \in Calls : Open(s)' <=> Open(s)
      /\ \A ops : Done(ops)' <=> Done(ops)
      /\ NoneOpen' <=> NoneOpen
  BY <1>1, CallsLeft
<1>8. get[k] # NoGet
  BY <1>1 DEF NoGet
<1>9. ~NoneOpen => k = "arrival" /\ panel # "beach" /\ ks = {}
  BY <1>8, OnlyArrival DEF ActivitiesShown
<1>10. OneCall' /\ CallKnows'
  <2>1. CASE NoneOpen
    BY <1>7, <2>1, NoCallsNext
  <2>2. CASE ~NoneOpen
    <3>1. get'["stay"] = get["stay"] /\ get'["booked"] = get["booked"] /\ sync' = sync
      BY <1>3, <1>4, <1>5, <1>9, <2>2 DEF Keys
    <3>2. CallKnows'
      BY <1>1, <1>5, <1>6, <1>9, <2>2, CallsLeft DEF Settling, CleanParts
    <3>3. OneCall'
      BY <1>6, <1>7, <1>9, <2>2, <3>1 DEF OneCall, Settling, CleanParts
    <3>. QED
      BY <3>2, <3>3
  <2>. QED
    BY <2>1, <2>2
<1>. HIDE DEF g
<1>11. StayView'
  <2>1. CASE k = "stay"
    <3>1. get[k].value = Active
      BY <1>1, <2>1 DEF Settling, CleanParts, StayView
    <3>2. get'["stay"].state # "answered"
      BY <1>3, <1>4, <2>1 DEF NoGet, Keys, Sent
    <3>. QED
      BY <1>2, <1>6, <2>1, <3>1, <3>2 DEF Settling, CleanParts, StayView
  <2>2. CASE k # "stay"
    <3>1. get'["stay"] = get["stay"] /\ cache'["stay"] = cache["stay"]
      BY <1>2, <1>3, <1>4, <2>2 DEF Keys
    <3>. QED
      BY <1>6, <1>7, <3>1 DEF Settling, CleanParts, StayView
  <2>. QED
    BY <2>1, <2>2
<1>12. BeachView'
  <2>1. sync'["in"] > 0 => sync["in"] > 0 \/ confirmed # <<>>
    <3>1. CASE k = "stay" /\ get[k].value # NoId
      <4>1. get[k].value = Active
        BY <1>1, <3>1 DEF Settling, CleanParts, StayView
      <4>. QED
        BY <3>1, <4>1 DEF Active
    <3>2. CASE ~(k = "stay" /\ get[k].value # NoId)
      BY <1>5, <3>2
    <3>. QED
      BY <3>1, <3>2
  <2>. QED
    BY <1>5, <1>6, <1>7, <2>1 DEF Settling, CleanParts, BeachView
<1>13. BookingView'
  <2>1. get'["booked"].state = "answered" => get'["booked"].value = booking' \/ confirmed' = <<>>
    BY <1>3, <1>4, <1>6 DEF Settling, CleanParts, BookingView, Own, paid, Keys, NoGet
  <2>2. ASSUME ActivitiesShown(panel', cache'), get'["booked"] = NoGet, ~Done({"book", "cancel"})
        PROVE  cache'["booked"] = booking
    <3>1. ~mounts /\ ActivitiesShown(panel, cache)
      BY <1>4, <1>6, <2>2 DEF Keys
    <3>2. CASE k = "booked"
      <4>1. get[k].value = booking \/ confirmed = <<>>
        BY <1>1, <3>2 DEF Settling, CleanParts, BookingView, Own, paid
      <4>2. NoneOpen
        BY <1>9, <3>2
      <4>3. cache["stay"] \in {Active, NoId, NoData}
        BY <4>2, NoCalls DEF Settling, CleanParts, StayView
      <4>4. cache["stay"] = Active /\ Active # NoId
        BY <3>1, <4>3 DEF ActivitiesShown, CheckedIn
      <4>. QED
        BY <1>2, <3>2, <4>1, <4>4 DEF Active
    <3>3. CASE k # "booked"
      <4>1. get["booked"] = NoGet /\ cache'["booked"] = cache["booked"]
        BY <1>2, <1>3, <1>4, <2>2, <3>3 DEF Keys
      <4>. QED
        BY <2>2, <3>1, <4>1 DEF Settling, CleanParts, BookingView, Own, paid
    <3>. QED
      BY <3>2, <3>3
  <2>. QED
    BY <1>5, <1>6, <1>7, <2>1, <2>2 DEF Settling, CleanParts, BookingView, Own, paid
<1>. QED
  BY <1>10, <1>11, <1>12, <1>13 DEF CleanParts

\* A check-in or a check-out reaches the beach. No call is in progress then, and
\* the hotel agrees with it.
LEMMA DeliverSettled == ASSUME Settling, NEW k \in {"in", "out"}, Deliver(k) PROVE CleanParts'
<1>1. /\ UNCHANGED <<call, cache, get, panel, confirmed, tracked, gifts, forfeits>>
      /\ sync[k] > 0 /\ sync' = [sync EXCEPT ![k] = @ - 1]
      /\ checkedIn' = (k = "in") /\ Booking(IF k = "out" THEN NoId ELSE booking)
      /\ Active' = Active
  BY DEF Deliver, wallet, Active
<1>10. /\ booking' = (IF k = "out" THEN NoId ELSE booking) /\ found'.activity = found.activity
       /\ found'.kept <=> found.kept /\ booking' = booking
  <2>1. (IF k = "out" THEN NoId ELSE booking) \in Activities \cup {NoId}
    BY DEF Settling, Parts, ServicesOK
  <2>. QED
    BY <1>1, <2>1, BookingOK DEF Settling, Parts
<1>2. NoneOpen
  BY <1>1 DEF NoneOpen, Settling, CleanParts, OneCall
<1>3. NoneOpen'
  BY <1>1, <1>2, CallsLeft
<1>4. /\ OneCall' /\ CallKnows'
      /\ \A ops : ~Done(ops) /\ ~Done(ops)'
  BY <1>2, <1>3, NoCalls, NoCallsNext
<1>5. StayView'
  BY <1>1, <1>4 DEF Settling, CleanParts, StayView
<1>6. sync'[k] = sync[k] - 1 /\ \A j \in {"in", "out"} : j # k => sync'[j] = sync[j]
  BY <1>1 DEF Settling, Counts
<1>7. sync["in"] \in Nat /\ sync["out"] \in Nat
  BY DEF Settling, Counts
<1>8. CASE k = "in"
  <2>1. confirmed # <<>> /\ sync["out"] = 0 /\ sync'["out"] = 0
    BY <1>1, <1>6, <1>7, <1>8 DEF Settling, CleanParts, BeachView
  <2>2. BeachView'
    <3>1. checkedIn'
      BY <1>1, <1>8, Zenon
    <3>2. ~(sync'["out"] > 0) /\ confirmed' # <<>>
      BY <1>1, <2>1
    <3>. QED
      BY <3>1, <3>2 DEF BeachView
  <2>3. BookingView'
    BY <1>1, <1>4, <1>8, <1>10, <2>1 DEF Settling, CleanParts, BookingView, Own, paid
  <2>. QED
    BY <1>4, <1>5, <2>2, <2>3 DEF CleanParts
<1>9. CASE k = "out"
  <2>1. confirmed = <<>> /\ sync["in"] = 0 /\ sync'["in"] = 0 /\ tracked = NoId
    BY <1>1, <1>6, <1>7, <1>9 DEF Settling, CleanParts, BeachView
  <2>2. BeachView'
    <3>1. ~checkedIn'
      <4>1. k # "in"
        BY <1>9
      <4>. QED
        BY <1>1, <4>1, Zenon
    <3>2. ~(sync'["in"] > 0) /\ confirmed' = <<>> /\ tracked' = NoId
      BY <1>1, <2>1
    <3>. QED
      BY <3>1, <3>2 DEF BeachView
  <2>3. ~ActivitiesShown(panel, cache)
    BY <1>4, <2>1 DEF Settling, CleanParts, StayView, Active, ActivitiesShown, CheckedIn
  <2>4. BookingView'
    BY <1>1, <1>4, <1>9, <1>10, <2>1, <2>3 DEF Settling, CleanParts, BookingView, Own, paid
  <2>. QED
    BY <1>4, <1>5, <2>2, <2>4 DEF CleanParts
<1>. QED
  BY <1>8, <1>9

\* A call advances: the services take it up, or refuse it.
LEMMA AdvanceSettled ==
    ASSUME Settling, NEW s \in Calls, Open(s), NEW st \in {"check-in", "ok", "error"},
           call' = [call EXCEPT ![s].state = st],
           st = "check-in" => call[s].op = "reserve",
           UNCHANGED <<wallet, cache, get, sync, panel>>
    PROVE  /\ OneCall'
           /\ call'[s].op = call[s].op /\ call'[s].state = st
           /\ call'[s].arg = call[s].arg /\ call'[s].current = call[s].current
           /\ \A t \in Calls : Open(t)' => t = s
           /\ \A ops : Done(ops)' <=> call[s].op \in ops /\ st # "error"
           /\ \A ops : Done(ops) <=> call[s].op \in ops /\ call[s].state \in {"check-in", "ok"}
           /\ \A a, c : spendable(a, c)' <=> spendable(a, c)
<1>1. call[s] \in Rec
  BY DEF Settling, Parts, CallOK
<1>2. call'[s] = [call[s] EXCEPT !.state = st] /\ \A t \in Calls : t # s => call'[t] = call[t]
  BY DEF Settling, Parts, CallOK
<1>3. /\ call'[s].op = call[s].op /\ call'[s].state = st
      /\ call'[s].arg = call[s].arg /\ call'[s].current = call[s].current
      /\ call'[s].mounted = call[s].mounted
  BY <1>1, <1>2 DEF Rec
<1>4. \A t \in Calls : Open(t) => t = s
  BY DEF Settling, CleanParts, OneCall
<1>5. \A t \in Calls : Open(t)' => t = s
  BY <1>2, <1>4 DEF Open
<1>6. OneCall'
  <2>1. /\ call[s].mounted /\ call[s].op \in Ops
        /\ sync["in"] = 0 /\ sync["out"] = 0
        /\ get["stay"] = NoGet /\ get["booked"] = NoGet
        /\ panel = CallPanel(call[s].op)
        /\ panel = "beach" => get["arrival"] = NoGet /\ ActivitiesShown(panel, cache)
    BY DEF Settling, CleanParts, OneCall
  <2>2. UNCHANGED <<cache, get, sync, panel>>
    OBVIOUS
  <2>3. /\ call'[s].mounted /\ call'[s].op \in Ops /\ call'[s].state # "orphan"
        /\ call'[s].state = "check-in" => call'[s].op = "reserve"
        /\ panel' = CallPanel(call'[s].op)
        /\ panel' = "beach" => get'["arrival"] = NoGet /\ ActivitiesShown(panel', cache')
    BY <1>3, <2>1, <2>2
  <2>. QED
    BY <1>5, <2>1, <2>2, <2>3 DEF OneCall
<1>7. \A ops : Done(ops)' <=> call[s].op \in ops /\ st # "error"
  BY <1>3, <1>5 DEF Done, Open
<1>8. \A ops : Done(ops) <=> call[s].op \in ops /\ call[s].state \in {"check-in", "ok"}
  BY <1>4 DEF Done, Open
<1>9. \A a, c : spendable(a, c)' <=> spendable(a, c)
  BY DEF spendable, getRefundableCost, paid, wallet
<1>. QED
  BY <1>3, <1>5, <1>6, <1>7, <1>8, <1>9

\* The first reservation.
LEMMA InsertFirst == ASSUME NEW r PROVE InsertAt(<<>>, 1, r) = <<r>>
<1>. DEFINE front == SubSeq(<<>>, 1, 0)
            one == <<r>>
<1>1. front = <<>>
  OBVIOUS
<1>2. InsertAt(<<>>, 1, r) = (front \o one) \o front
  BY DEF InsertAt
<1>3. one \in Seq({r})
  OBVIOUS
<1>. HIDE DEF front, one
<1>4. <<>> \o one = one /\ one \o <<>> = one
  BY <1>3, ConcatEmptySeq
<1>. QED
  BY <1>1, <1>2, <1>4 DEF one

LEMMA ServeSettled == ASSUME Settling, NEW s \in Calls, Serve(s) PROVE CleanParts'
<1>. DEFINE op == call[s].op
            arg == call[s].arg
<1>1. Open(s) /\ call[s].state = "sent" /\ UNCHANGED <<wallet, cache, get, sync, panel>>
  BY DEF Serve, Open
<1>2. UNCHANGED <<balance, tracked, gifts, forfeits>>
  BY <1>1 DEF wallet
<1>3. /\ sync["in"] = 0 /\ sync["out"] = 0
      /\ get["stay"] = NoGet /\ get["booked"] = NoGet
      /\ panel = CallPanel(op)
  BY <1>1 DEF Settling, CleanParts, OneCall
<1>4. /\ op = "reserve" => confirmed = <<>>
      /\ op = "leave" => confirmed = <<arg>>
      /\ op = "book" => tracked \in {call[s].current, NoId} /\ arg # tracked
                        /\ spendable(arg, call[s].current)
      /\ op = "cancel" => arg = tracked \/ (tracked = NoId /\ arg = found.activity /\ gifts = 0)
  BY <1>1 DEF Settling, CleanParts, CallKnows
<1>5. \A ops : ~Done(ops)
  BY <1>1 DEF Done, Settling, CleanParts, OneCall, Open
<1>6. /\ cache["stay"] = Active /\ tracked = Own
      /\ ActivitiesShown(panel, cache) => cache["booked"] = booking
      /\ confirmed # <<>> => checkedIn
      /\ confirmed = <<>> => ~checkedIn
  <2>1. \A t \in Calls : call[t].state # "check-in"
    BY <1>1 DEF Settling, CleanParts, OneCall, Open
  <2>. QED
    BY <1>3, <1>5, <2>1 DEF Settling, CleanParts, StayView, BookingView, BeachView
<1>7. confirmed = <<>> \/ \E r \in Reservations : confirmed = <<r>>
  BY DEF Settling, CleanParts, StayView
<1>8. /\ found.kept => booking = found.activity /\ gifts = 0
      /\ gifts \in {0, paid(found.activity)} /\ forfeits = 0
  BY DEF Settling, CleanParts, BookingView
\* What remains to be shown of the new state.
<1>9. ASSUME NEW st \in {"check-in", "ok", "error"},
             call' = [call EXCEPT ![s].state = st],
             st = "check-in" => op = "reserve",
             st = "error" => UNCHANGED <<confirmed, checkedIn, booking, found>>,
             op = "arrive" => UNCHANGED <<confirmed, checkedIn, booking, found>>,
             op = "reserve" /\ st # "error" =>
                /\ st = "check-in" /\ confirmed' = <<arg>> /\ arg \in Reservations
                /\ UNCHANGED <<booking, found>>,
             op = "leave" /\ st # "error" => confirmed' = <<>> /\ UNCHANGED <<booking, found>>,
             op \in {"book", "cancel"} /\ st # "error" =>
                /\ UNCHANGED <<confirmed, checkedIn>>
                /\ booking' = (IF op = "book" THEN arg ELSE NoId)
                /\ ~found'.kept /\ found'.activity = found.activity
      PROVE  CleanParts'
  <2>1. /\ OneCall'
        /\ call'[s].op = op /\ call'[s].state = st
        /\ call'[s].arg = arg /\ call'[s].current = call[s].current
        /\ \A t \in Calls : Open(t)' => t = s
        /\ \A ops : Done(ops)' <=> op \in ops /\ st # "error"
        /\ \A a, c : spendable(a, c)' <=> spendable(a, c)
    BY <1>1, <1>9, AdvanceSettled
  <2>2. op \in Ops
    BY <1>1 DEF Settling, CleanParts, OneCall
  <2>. HIDE DEF op, arg
  <2>3. CallKnows'
    <3>0. found'.activity = found.activity
      BY <1>9, <2>2 DEF Ops
    <3>1. spendable(arg, call[s].current) => spendable(call[s].arg, call[s].current)'
      BY <1>2, <2>1 DEF spendable, getRefundableCost, paid
    <3>2. /\ call'[s].state # "sent"
          /\ st = "check-in" => confirmed' # <<>>
          /\ op = "leave" /\ st = "ok" => confirmed' = <<>>
          /\ op = "book" /\ st = "ok" => booking' = arg /\ ~found'.kept
          /\ op = "cancel" /\ st = "ok" => booking' = NoId /\ ~found'.kept
      BY <1>9, <2>1
    <3>. QED
      BY <1>2, <1>4, <2>1, <3>0, <3>1, <3>2 DEF CallKnows
  <2>4. op \notin {"reserve", "leave"} \/ st = "error" => Active' = Active /\ UNCHANGED confirmed
    BY <1>9, <2>2 DEF Active, Ops
  <2>5. StayView'
    <3>1. confirmed' = <<>> \/ \E r \in Reservations : confirmed' = <<r>>
      BY <1>7, <1>9, <2>2 DEF Ops
    <3>2. get'["stay"] = NoGet /\ get'["stay"].state # "answered" /\ cache'["stay"] = cache["stay"]
      BY <1>1, <1>3 DEF NoGet
    <3>3. ~Done({"reserve", "leave"})' => cache'["stay"] = Active'
      BY <1>6, <2>1, <2>4, <3>2
    <3>4. ~Done({"leave"})' => cache'["stay"] \in {Active', NoId, NoData}
      <4>1. CASE op = "reserve"
        BY <1>4, <1>6, <3>2, <4>1 DEF Active
      <4>2. CASE op # "reserve"
        BY <2>1, <2>4, <1>6, <3>2, <4>2
      <4>. QED
        BY <4>1, <4>2
    <3>. QED
      BY <3>1, <3>2, <3>3, <3>4 DEF StayView
  <2>6. BeachView'
    <3>1. sync'["in"] = 0 /\ sync'["out"] = 0
      BY <1>1, <1>3
    <3>2. confirmed' # <<>> => checkedIn' \/ \E t \in Calls : call'[t].state = "check-in"
      <4>1. CASE op = "reserve" /\ st # "error"
        BY <1>9, <2>1, <4>1
      <4>2. CASE op = "leave" /\ st # "error"
        BY <1>9, <4>2
      <4>3. CASE op \notin {"reserve", "leave"} \/ st = "error"
        <5>1. UNCHANGED <<confirmed, checkedIn>>
          BY <1>9, <2>2, <4>3 DEF Ops
        <5>. QED
          BY <1>6, <5>1
      <4>. QED
        BY <4>1, <4>2, <4>3
    <3>3. confirmed' = <<>> /\ checkedIn' => Done({"leave"})'
      <4>1. CASE op = "reserve" /\ st # "error"
        BY <1>9, <4>1
      <4>2. CASE op = "leave" /\ st # "error"
        BY <2>1, <4>2
      <4>3. CASE op \notin {"reserve", "leave"} \/ st = "error"
        <5>1. UNCHANGED <<confirmed, checkedIn>>
          BY <1>9, <2>2, <4>3 DEF Ops
        <5>. QED
          BY <1>6, <5>1
      <4>. QED
        BY <4>1, <4>2, <4>3
    <3>. QED
      BY <3>1, <3>2, <3>3 DEF BeachView
  <2>7. BookingView'
    <3>1. get'["booked"].state # "answered"
      BY <1>1, <1>3 DEF NoGet
    <3>2. ~Done({"book", "cancel"})' => booking' = booking /\ found' = found
      BY <1>9, <2>1, <2>2 DEF Ops
    <3>4. /\ found'.kept => booking' = found'.activity /\ gifts' = 0
          /\ gifts' \in {0, paid(found'.activity)} /\ forfeits' = 0
      BY <1>2, <1>8, <1>9, <2>2 DEF Ops
    <3>5. ~Done({"book", "cancel"})' => tracked' = Own'
      BY <1>2, <1>6, <3>2 DEF Own
    <3>3. ActivitiesShown(panel', cache') = ActivitiesShown(panel, cache) /\ cache' = cache
      BY <1>1
    <3>. QED
      BY <1>6, <3>1, <3>2, <3>3, <3>4, <3>5 DEF BookingView
  <2>. QED
    BY <2>1, <2>3, <2>5, <2>6, <2>7 DEF CleanParts
<1>10. CASE op \in {"reserve", "book"} /\ call' = [call EXCEPT ![s].state = "error"] /\ UNCHANGED services
  <2>. HIDE DEF op, arg
  <2>. QED
    BY <1>9, <1>10 DEF services
<1>11. ASSUME Applied(op, arg), 
              call' = [call EXCEPT ![s].state = IF op = "reserve" THEN "check-in" ELSE "ok"]
       PROVE  CleanParts'
  <2>1. /\ op = "reserve" => arg \in Reservations
        /\ op \in {"book", "cancel"} => arg \in Activities
    BY DEF Settling, Parts, CallOK
  <2>. HIDE DEF op, arg
  <2>2. CASE op = "arrive"
    <3>1. UNCHANGED <<confirmed, checkedIn, booking, found>> /\ call' = [call EXCEPT ![s].state = "ok"]
      BY <1>11, <2>2 DEF Applied
    <3>. QED
      BY <1>9, <2>2, <3>1
  <2>3. CASE op = "reserve"
    <3>1. PICK i \in 1 .. Len(confirmed) + 1 : confirmed' = InsertAt(confirmed, i, arg)
      BY <1>11, <2>3 DEF Applied
    <3>2. InsertAt(<<>>, 1, arg) = <<arg>>
      BY InsertFirst
    <3>3. i = 1
      BY <1>4, <2>3, <3>1
    <3>4. UNCHANGED <<booking, found>> /\ call' = [call EXCEPT ![s].state = "check-in"]
      BY <1>11, <2>3 DEF Applied
    <3>. QED
      BY <1>4, <1>9, <2>1, <2>3, <3>1, <3>2, <3>3, <3>4
  <2>4. CASE op = "leave"
    <3>1. UNCHANGED <<booking, found>> /\ call' = [call EXCEPT ![s].state = "ok"]
      BY <1>11, <2>4 DEF Applied
    <3>2. confirmed = <<arg>> /\ DOMAIN confirmed = {1} /\ confirmed[1] = arg
      BY <1>4, <2>4
    <3>3. confirmed' = RemoveAt(confirmed, 1)
      BY <1>11, <2>4, <3>2 DEF Applied
    <3>4. RemoveAt(<<arg>>, 1) = <<>>
      BY DEF RemoveAt
    <3>. QED
      BY <1>9, <2>4, <3>1, <3>2, <3>3, <3>4
  <2>5. CASE op = "book"
    <3>1. /\ Booking(arg) /\ booking # arg /\ UNCHANGED <<confirmed, checkedIn>>
          /\ call' = [call EXCEPT ![s].state = "ok"]
      BY <1>11, <2>5 DEF Applied
    <3>2. booking' = arg /\ found'.activity = found.activity /\ ~found'.kept
      BY <2>1, <2>5, <3>1, BookingOK DEF Settling, Parts
    <3>. QED
      BY <1>9, <2>5, <3>1, <3>2
  <2>6. CASE op = "cancel"
    <3>. DEFINE a == IF booking = arg THEN NoId ELSE booking
    <3>1. /\ Booking(a)
          /\ UNCHANGED <<confirmed, checkedIn>> /\ call' = [call EXCEPT ![s].state = "ok"]
      BY <1>11, <2>6 DEF Applied
    <3>2. a = NoId /\ (found.kept => booking # NoId)
      <4>1. CASE arg = tracked
        BY <1>6, <1>8, <2>1, <2>6, <4>1, WalletAssumption DEF Own
      <4>2. CASE tracked = NoId /\ arg = found.activity
        BY <1>6, <1>8, <2>1, <2>6, <4>2, WalletAssumption DEF Own
      <4>. QED
        BY <1>4, <2>6, <4>1, <4>2
    <3>3. booking' = NoId /\ found'.activity = found.activity /\ ~found'.kept
      <4>1. NoId \in Activities \cup {NoId} /\ Booking(NoId)
        BY <3>1, <3>2
      <4>. QED
        BY <3>2, <4>1, BookingOK DEF Settling, Parts
    <3>. QED
      BY <1>9, <2>6, <3>1, <3>3
  <2>. QED
    BY <1>11, <2>2, <2>3, <2>4, <2>5, <2>6 DEF Applied
<1>. QED
  BY <1>10, <1>11 DEF Serve

\* The party is checked in; the beach then agrees with the hotel.
LEMMA CheckInSettled ==
    ASSUME Settling, clean', NEW s \in Calls, CheckInParty(s) PROVE CleanParts'
<1>1. /\ Open(s) /\ call[s].state = "check-in" /\ call' = [call EXCEPT ![s].state = "ok"]
      /\ UNCHANGED <<wallet, cache, get, sync, panel>>
      /\ UNCHANGED <<confirmed, booking, found>>
  BY DEF CheckInParty, Open
<1>2. call[s].op = "reserve"
  BY <1>1 DEF Settling, CleanParts, OneCall
<1>3. checkedIn'
  <2>1. ~(faults' = faults + 1)
    BY DEF Settling, Counts, clean
  <2>. QED
    BY <2>1, Zenon DEF CheckInParty
<1>4. /\ OneCall'
      /\ call'[s].op = "reserve" /\ call'[s].state = "ok"
      /\ \A t \in Calls : Open(t)' => t = s
      /\ \A ops : Done(ops)' <=> Done(ops)
  BY <1>1, <1>2, AdvanceSettled
<1>5. confirmed # <<>>
  BY <1>1 DEF Settling, CleanParts, CallKnows
<1>6. CallKnows'
  BY <1>4 DEF CallKnows
<1>7. StayView'
  <2>1. Active' = Active
    BY <1>1 DEF Active
  <2>. QED
    BY <1>1, <1>4, <2>1 DEF Settling, CleanParts, StayView
<1>8. BeachView'
  <2>1. sync'["out"] = 0 /\ sync'["in"] = 0
    BY <1>1 DEF Settling, CleanParts, OneCall
  <2>. QED
    BY <1>1, <1>3, <1>5, <2>1 DEF BeachView
<1>9. BookingView'
  <2>1. UNCHANGED <<tracked, gifts, forfeits>>
    BY <1>1 DEF wallet
  <2>. QED
    BY <1>1, <1>4, <2>1 DEF Settling, CleanParts, BookingView, Own, paid
<1>. QED
  BY <1>4, <1>6, <1>7, <1>8, <1>9 DEF CleanParts

\* The state when a call has been answered.
LEMMA AnsweredFacts ==
    ASSUME Settling, NEW s \in Calls, call[s].state \in {"ok", "error"}
    PROVE  /\ sync["in"] = 0 /\ sync["out"] = 0
           /\ get["stay"] = NoGet /\ get["booked"] = NoGet
           /\ call[s].mounted /\ panel = CallPanel(call[s].op)
           /\ confirmed # <<>> => checkedIn
           /\ \A ops : Done(ops) <=> call[s].op \in ops /\ call[s].state = "ok"
<1>1. Open(s)
  BY DEF Open
<1>2. \A t \in Calls : Open(t) => t = s
  BY <1>1 DEF Settling, CleanParts, OneCall
<1>3. \A t \in Calls : call[t].state # "check-in"
  BY <1>2 DEF Open
<1>4. \A ops : Done(ops) <=> call[s].op \in ops /\ call[s].state = "ok"
  BY <1>2 DEF Done, Open
<1>. QED
  BY <1>1, <1>3, <1>4 DEF Settling, CleanParts, OneCall, BeachView

\* What the handler of an answer has to achieve, when it fetches some keys.
Handles(s, ks) ==
    /\ call[s].state \in {"ok", "error"} /\ call' = [call EXCEPT ![s] = Idle]
    /\ UNCHANGED <<services, panel>>
    /\ get' = fetch(get, ks) \/ (ks = {} /\ get' = get)
    /\ cache'["stay"] \in {Active, NoId, NoData}
    /\ "stay" \in ks \/ cache'["stay"] = Active
    /\ sync'["in"] = 0
    /\ sync'["out"] > 0 => confirmed = <<>> /\ tracked' = NoId
    /\ confirmed = <<>> /\ checkedIn => sync'["out"] > 0
    /\ ActivitiesShown(panel, cache') => "booked" \in ks \/ cache'["booked"] = booking
    /\ sync'["out"] = 0 => tracked' = Own
    /\ found.kept => gifts' = 0
    /\ gifts' \in {0, paid(found.activity)} /\ forfeits' = 0

LEMMA HandledSettled ==
    ASSUME Settling, NEW s \in Calls, NEW ks, Handles(s, ks)
    PROVE  CleanParts'
<1>. USE DEF Handles
<1>1. NoneOpen'
  <2>1. \A t \in Calls : t # s => call[t].state = "idle"
    BY DEF Settling, CleanParts, OneCall, Open
  <2>2. \A t \in Calls : call'[t].state = "idle"
    BY <2>1 DEF Idle, Settling, Parts, CallOK
  <2>. QED
    BY <2>2 DEF NoneOpen, Open
<1>2. OneCall' /\ CallKnows' /\ \A ops : ~Done(ops)'
  BY <1>1, NoCallsNext
<1>3. \A k \in {"stay", "booked"} : /\ get'[k].state # "answered"
                                    /\ k \in ks => get'[k] # NoGet
  <2>1. get["stay"] = NoGet /\ get["booked"] = NoGet
    BY AnsweredFacts
  <2>2. CASE get' = fetch(get, ks)
    BY <2>1, <2>2, FetchFacts DEF Keys, NoGet
  <2>3. CASE ks = {} /\ get' = get
    BY <2>1, <2>3 DEF NoGet
  <2>. QED
    BY <2>2, <2>3
<1>4. Active' = Active /\ UNCHANGED <<confirmed, checkedIn, booking, found, panel>>
  BY DEF Active, services
<1>5. StayView'
  BY <1>3, <1>4 DEF Settling, CleanParts, StayView
<1>6. BeachView'
  <2>1. confirmed # <<>> => checkedIn
    BY AnsweredFacts
  <2>. QED
    BY <1>4, <2>1 DEF BeachView
<1>7. BookingView'
  <2>1. found.kept => booking = found.activity
    BY DEF Settling, CleanParts, BookingView
  <2>. QED
    BY <1>3, <1>4, <2>1 DEF BookingView, Own, paid
<1>. QED
  BY <1>2, <1>5, <1>6, <1>7 DEF CleanParts

\* The handlers.
LEMMA HandlerSettled == ASSUME Settling, NEW s \in Calls, Handler(s) PROVE CleanParts'
<1>. USE DEF Settled
<1>1. ASSUME call[s].state \in {"ok", "error"},
             call[s].state = "ok" => call[s].op \notin {"reserve", "leave"}
      PROVE  cache["stay"] = Active
  <2>1. get["stay"] = NoGet /\ ~Done({"reserve", "leave"})
    BY <1>1, AnsweredFacts
  <2>. QED
    BY <2>1 DEF Settling, CleanParts, StayView
<1>2. ASSUME call[s].state \in {"ok", "error"},
             call[s].state = "ok" => call[s].op \notin {"book", "cancel"}
      PROVE  /\ tracked = Own
             /\ ActivitiesShown(panel, cache) => cache["booked"] = booking
  <2>1. get["booked"] = NoGet /\ ~Done({"book", "cancel"}) /\ sync["out"] = 0
    BY <1>2, AnsweredFacts
  <2>. QED
    BY <2>1 DEF Settling, CleanParts, BookingView, Own, paid
<1>3. ASSUME call[s].state \in {"ok", "error"}, call[s].state = "ok" => call[s].op # "leave"
      PROVE  ~(confirmed = <<>> /\ checkedIn)
  <2>1. ~Done({"leave"}) /\ sync["out"] = 0
    BY <1>3, AnsweredFacts
  <2>. QED
    BY <2>1 DEF Settling, CleanParts, BeachView
<1>4. (found.kept => gifts = 0) /\ gifts \in {0, paid(found.activity)} /\ forfeits = 0
  BY DEF Settling, CleanParts, BookingView
<1>5. call[s].state \in {"ok", "error"} => sync["in"] = 0 /\ sync["out"] = 0
  BY AnsweredFacts
<1>6. CASE ArriveSuccess(s)
  <2>1. /\ call[s].op = "arrive" /\ call[s].state = "ok" /\ call' = [call EXCEPT ![s] = Idle]
        /\ get' = fetch(get, {"arrival"})
        /\ UNCHANGED <<services, cache, sync, panel, tracked, gifts, forfeits>>
    BY <1>6 DEF ArriveSuccess, wallet
  <2>2. Handles(s, {"arrival"})
    BY <1>1, <1>2, <1>3, <1>4, <1>5, <2>1 DEF Handles
  <2>. QED
    BY <2>2, HandledSettled
<1>7. CASE ReserveSuccess(s)
  <2>1. /\ call[s].op = "reserve" /\ call[s].state = "ok" /\ call' = [call EXCEPT ![s] = Idle]
        /\ get' = fetch(get, {"stay"})
        /\ UNCHANGED <<services, cache, sync, panel, tracked, gifts, forfeits>>
    BY <1>7 DEF ReserveSuccess, creditReservationTokens
  <2>2. cache["stay"] \in {Active, NoId, NoData}
    <3>1. ~Done({"leave"})
      BY <2>1, AnsweredFacts
    <3>. QED
      BY <3>1 DEF Settling, CleanParts, StayView
  <2>3. Handles(s, {"stay"})
    BY <1>2, <1>3, <1>4, <1>5, <2>1, <2>2 DEF Handles
  <2>. QED
    BY <2>3, HandledSettled
<1>8. CASE LeaveSuccess(s)
  <2>1. /\ call[s].op = "leave" /\ call[s].state = "ok" /\ call' = [call EXCEPT ![s] = Idle]
        /\ get' = fetch(get, {"stay", "booked"}) /\ UNCHANGED <<services, panel>>
        /\ cache' = [cache EXCEPT !["stay"] = NoId] /\ sync' = Send(sync, "out")
    BY <1>8 DEF LeaveSuccess
  <2>2. call[s].mounted
    BY <2>1, AnsweredFacts
  <2>3. IF tracked = NoId THEN UNCHANGED wallet ELSE refundActivityTokens(tracked, 0)
    BY <1>8, <2>2 DEF LeaveSuccess
  <2>4. tracked' = NoId /\ gifts' = gifts /\ forfeits' = 0
    <3>1. gifts \in Nat
      BY DEF Settling, Parts, WalletTypeOK
    <3>. QED
      BY <1>4, <2>3, <3>1 DEF refundActivityTokens, wallet
  <2>5. confirmed = <<>>
    BY <2>1 DEF Settling, CleanParts, CallKnows, Open
  <2>6. cache'["stay"] = NoId
    BY <2>1 DEF Settling, Parts, CacheOK, Keys
  <2>7. sync'["in"] = 0 /\ sync'["out"] = 1
    BY <1>5, <2>1, StayAssumption DEF Send, Settling, Counts
  <2>8. ~ActivitiesShown(panel, cache')
    BY <2>6 DEF ActivitiesShown, CheckedIn
  <2>9. Handles(s, {"stay", "booked"})
    BY <1>4, <2>1, <2>4, <2>5, <2>6, <2>7, <2>8 DEF Handles
  <2>. QED
    BY <2>9, HandledSettled
<1>9. CASE BookSuccess(s)
  <2>1. /\ call[s].op = "book" /\ call[s].state = "ok" /\ call' = [call EXCEPT ![s] = Idle]
        /\ get' = fetch(get, {"booked"}) /\ UNCHANGED <<services, cache, sync, panel>>
        /\ spendActivityTokens(call[s].arg, call[s].current)
    BY <1>9 DEF BookSuccess
  <2>2. /\ tracked \in {call[s].current, NoId} /\ call[s].arg # tracked
        /\ spendable(call[s].arg, call[s].current) /\ booking = call[s].arg /\ ~found.kept
    BY <2>1 DEF Settling, CleanParts, CallKnows, Open
  <2>3. /\ tracked' = call[s].arg /\ gifts' = gifts
        /\ forfeits' = forfeits + paid(tracked) - getRefundableCost(call[s].current)
    BY <2>1, <2>2 DEF spendActivityTokens
  <2>4. paid(tracked) \in Nat /\ getRefundableCost(call[s].current) = paid(tracked)
    BY <2>2, WalletAssumption DEF paid, getRefundableCost
  <2>5. forfeits' = 0 /\ tracked' = Own
    BY <1>4, <2>2, <2>3, <2>4 DEF Own
  <2>6. Handles(s, {"booked"})
    BY <1>1, <1>3, <1>4, <1>5, <2>1, <2>2, <2>3, <2>5 DEF Handles
  <2>. QED
    BY <2>6, HandledSettled
<1>10. CASE CancelSuccess(s)
  <2>1. /\ call[s].op = "cancel" /\ call[s].state = "ok" /\ call' = [call EXCEPT ![s] = Idle]
        /\ get' = fetch(get, {"booked"}) /\ UNCHANGED <<services, cache, sync, panel>>
        /\ refundActivityTokens(call[s].arg, Cost[call[s].arg])
    BY <1>10 DEF CancelSuccess
  <2>2. /\ call[s].arg = tracked \/ (tracked = NoId /\ call[s].arg = found.activity /\ gifts = 0)
        /\ booking = NoId /\ ~found.kept
    BY <2>1 DEF Settling, CleanParts, CallKnows, Open
  <2>3. tracked' = Own /\ tracked' = NoId /\ gifts' \in {0, paid(found.activity)} /\ forfeits' = 0
    <3>1. /\ call[s].arg \in Activities /\ call[s].arg # NoId /\ gifts \in Nat
          /\ Cost[call[s].arg] \in Nat \ {0} /\ paid(call[s].arg) = Cost[call[s].arg]
      BY <2>1, WalletAssumption DEF Settling, Parts, CallOK, WalletTypeOK, paid
    <3>2. tracked' = NoId /\ forfeits' = forfeits
      BY <2>1, <2>2, <3>1 DEF refundActivityTokens
    <3>3. CASE call[s].arg = tracked
      BY <1>4, <2>1, <2>2, <3>1, <3>2, <3>3 DEF refundActivityTokens, Own
    <3>4. CASE tracked = NoId /\ call[s].arg = found.activity /\ gifts = 0
      <4>1. gifts' = 0 + Cost[call[s].arg]
        BY <2>1, <3>1, <3>4 DEF refundActivityTokens
      <4>. QED
        BY <1>4, <2>2, <3>1, <3>2, <3>4, <4>1 DEF Own
    <3>. QED
      BY <2>2, <3>3, <3>4
  <2>4. Handles(s, {"booked"})
    BY <1>1, <1>3, <1>5, <2>1, <2>2, <2>3 DEF Handles
  <2>. QED
    BY <2>4, HandledSettled
<1>11. CASE Error(s)
  <2>1. /\ call[s].state = "error" /\ call' = [call EXCEPT ![s] = Idle]
        /\ UNCHANGED <<services, cache, get, sync, panel, tracked, gifts, forfeits>>
    BY <1>11 DEF Error, wallet
  <2>2. Handles(s, {})
    BY <1>1, <1>2, <1>3, <1>4, <1>5, <2>1 DEF Handles
  <2>. QED
    BY <2>2, HandledSettled
<1>. QED
  BY <1>6, <1>7, <1>8, <1>9, <1>10, <1>11 DEF Handler

\* A step without a fault and without haste keeps the agreement.
LEMMA CleanStep == ASSUME Settling, [Next]_vars, clean' PROVE CleanParts'
<1>1. ~(faults' = faults + 1)
  BY DEF Settling, Counts, clean
<1>2. CASE Guest
  BY <1>2, GuestSettled
<1>3. CASE Focus
  BY <1>3, FocusSettled
<1>4. CASE Poll
  BY <1>4, PollSettled
<1>5. CASE Land
  BY <1>5, LandSettled
<1>6. CASE Reload
  BY <1>1, <1>6 DEF Reload
<1>7. ASSUME NEW k \in Keys, ServeGet(k) \/ ReceiveGet(k) \/ FailGet(k) PROVE CleanParts'
  BY <1>1, <1>7, ServeGetSettled, ReceiveGetSettled DEF FailGet
<1>8. ASSUME NEW s \in Calls, Service(s) PROVE CleanParts'
  <2>1. ~ServeOrphan(s)
    BY DEF ServeOrphan, Settling, CleanParts, OneCall, Open
  <2>. QED
    BY <1>8, <2>1, ServeSettled, CheckInSettled DEF Service
<1>9. ASSUME NEW s \in Calls, ServeLost(s) PROVE CleanParts'
  BY <1>1, <1>9 DEF ServeLost
<1>10. ASSUME NEW s \in Calls, Handler(s) PROVE CleanParts'
  BY <1>10, HandlerSettled
<1>11. ASSUME NEW k \in {"in", "out"}, Deliver(k) \/ LoseSync(k) PROVE CleanParts'
  BY <1>1, <1>11, DeliverSettled DEF LoseSync
<1>12. CASE UNCHANGED vars
  <2>1. /\ UNCHANGED <<call, sync, get, panel, cache>>
        /\ UNCHANGED <<balance, tracked, gifts, forfeits, confirmed, checkedIn, booking, found>>
    BY <1>12 DEF vars, client, services, wallet
  <2>2. OneCall' /\ CallKnows'
    BY <2>1, CallsLeft DEF Settling, CleanParts
  <2>3. (\A ops : Done(ops)' <=> Done(ops)) /\ Active' = Active
    BY <2>1, CallsLeft DEF Active
  <2>4. StayView' /\ BeachView'
    BY <2>1, <2>3 DEF Settling, CleanParts, StayView, BeachView
  <2>5. BookingView'
    BY <2>1, <2>3 DEF Settling, CleanParts, BookingView, Own, paid
  <2>. QED
    BY <2>2, <2>4, <2>5 DEF CleanParts
<1>. QED
  BY <1>2, <1>3, <1>4, <1>5, <1>6, <1>7, <1>8, <1>9, <1>10, <1>11, <1>12 DEF Next

\* Faults and hasty steps are only ever added.
LEMMA CountsStep == ASSUME Counts, [Next]_vars PROVE Counts' /\ (clean' => clean)
<1>1. /\ faults' \in {faults, faults + 1} /\ haste' \in {haste, haste + 1}
      => faults' \in Nat /\ haste' \in Nat /\ (clean' => clean)
  BY DEF Counts, clean
<1>2. \A b : WhenSettled(b) => haste' \in {haste, haste + 1}
  BY DEF WhenSettled
<1>3. \A r : ReservationEffect(r) => sync' \in [{"in", "out"} -> Nat]
  BY EffectFacts DEF Counts
<1>4. CASE Guest
  <2>1. ASSUME NEW p, OpenPanel(p) PROVE Counts' /\ (clean' => clean)
    <3>1. sync' \in [{"in", "out"} -> Nat]
      BY <1>3, <2>1 DEF OpenPanel, Counts
    <3>2. faults' = faults /\ haste' \in {haste, haste + 1} /\ checkedIn' = checkedIn
      BY <1>2, <2>1 DEF OpenPanel, services
    <3>. QED
      BY <1>1, <3>1, <3>2 DEF Counts
  <2>2. ASSUME NEW s, NEW op, NEW arg, NEW current, mutate(s, op, arg, current)
        PROVE  Counts' /\ (clean' => clean)
    <3>1. faults' = faults /\ haste' \in {haste, haste + 1} /\ UNCHANGED <<sync, checkedIn>>
      BY <1>2, <2>2 DEF mutate, services
    <3>. QED
      BY <1>1, <3>1 DEF Counts
  <2>. QED
    BY <1>4, <2>1, <2>2 DEF Guest, Board, Reserve, Leave, Cancel, Book
<1>5. CASE Focus
  <2>1. faults' = faults /\ haste' \in {haste, haste + 1} /\ UNCHANGED <<sync, checkedIn>>
    BY <1>2, <1>5 DEF Focus, services
  <2>. QED
    BY <1>1, <2>1 DEF Counts
<1>6. CASE Poll \/ Land \/ Reload \/ UNCHANGED vars
  <2>1. faults' \in {faults, faults + 1} /\ haste' = haste /\ UNCHANGED <<sync, checkedIn>>
    BY <1>6 DEF Poll, Land, Reload, services, client, vars
  <2>. QED
    BY <1>1, <2>1 DEF Counts
<1>7. ASSUME NEW k \in Keys, ServeGet(k) \/ ReceiveGet(k) \/ FailGet(k)
      PROVE  Counts' /\ (clean' => clean)
  <2>1. faults' \in {faults, faults + 1} /\ haste' = haste /\ checkedIn' = checkedIn
    BY <1>7 DEF ServeGet, ReceiveGet, FailGet, services
  <2>2. sync' \in [{"in", "out"} -> Nat]
    BY <1>3, <1>7 DEF ServeGet, ReceiveGet, FailGet, Counts
  <2>. QED
    BY <1>1, <2>1, <2>2 DEF Counts
<1>8. ASSUME NEW s \in Calls, Service(s) \/ ServeLost(s) PROVE Counts' /\ (clean' => clean)
  <2>1. faults' \in {faults, faults + 1} /\ haste' = haste /\ sync' = sync
    BY <1>8 DEF Service, Serve, CheckInParty, ServeOrphan, ServeLost
  <2>2. checkedIn' \in BOOLEAN
    BY <1>8 DEF Service, Serve, CheckInParty, ServeOrphan, ServeLost, Applied, services, Counts
  <2>. QED
    BY <1>1, <2>1, <2>2 DEF Counts
<1>9. ASSUME NEW s \in Calls, Handler(s) PROVE Counts' /\ (clean' => clean)
  <2>1. faults' = faults /\ haste' = haste /\ checkedIn' = checkedIn
    BY <1>9 DEF Handler, ArriveSuccess, ReserveSuccess, LeaveSuccess, BookSuccess,
                CancelSuccess, Error, services
  <2>2. sync' = sync \/ sync' = Send(sync, "out")
    BY <1>9 DEF Handler, ArriveSuccess, ReserveSuccess, LeaveSuccess, BookSuccess,
                CancelSuccess, Error
  <2>3. sync' \in [{"in", "out"} -> Nat]
    BY <2>2 DEF Send, Counts
  <2>. QED
    BY <1>1, <2>1, <2>3 DEF Counts
<1>10. ASSUME NEW k \in {"in", "out"}, Deliver(k) \/ LoseSync(k) PROVE Counts' /\ (clean' => clean)
  <2>1. /\ faults' \in {faults, faults + 1} /\ haste' = haste
        /\ sync[k] > 0 /\ sync' = [sync EXCEPT ![k] = @ - 1]
    BY <1>10 DEF Deliver, LoseSync
  <2>2. sync' \in [{"in", "out"} -> Nat]
    BY <2>1 DEF Counts
  <2>3. checkedIn' \in BOOLEAN
    BY <1>10 DEF Deliver, LoseSync, services, Counts
  <2>. QED
    BY <1>1, <2>1, <2>2, <2>3 DEF Counts
<1>. QED
  BY <1>4, <1>5, <1>6, <1>7, <1>8, <1>9, <1>10 DEF Next

\* The inductive invariant of a stay without faults and haste.
CleanInv == IInv /\ Counts /\ (clean => CleanParts)

LEMMA CleanStarts == Init => CleanInv
<1>. SUFFICES ASSUME Init PROVE CleanInv
  OBVIOUS
<1>1. IInv
  BY InitOK
<1>2. Counts
  BY DEF Init, Counts
<1>3. /\ \A s \in Calls : call[s].state = "idle"
      /\ \A k \in Keys : get[k].state = "sent" /\ get[k] # NoGet
      /\ cache["stay"] = NoData /\ sync["in"] = 0 /\ sync["out"] = 0
  BY DEF Init, Idle, Sent, NoGet, Keys
<1>4. NoneOpen
  BY <1>3 DEF NoneOpen, Open
<1>5. OneCall /\ CallKnows /\ \A ops : ~Done(ops)
  BY <1>4, NoCalls
<1>6. StayView
  <2>1. confirmed = <<>> \/ \E r \in Reservations : confirmed = <<r>>
    BY StayAssumption DEF Init
  <2>. QED
    BY <1>3, <2>1 DEF StayView, Keys
<1>7. BeachView
  <2>1. confirmed # <<>> => checkedIn
    BY DEF Init
  <2>2. confirmed = <<>> => ~checkedIn
    BY DEF Init
  <2>. QED
    BY <1>3, <2>1, <2>2 DEF BeachView
<1>8. BookingView
  <2>1. /\ found = [activity |-> booking, kept |-> booking # NoId]
        /\ tracked = NoId /\ gifts = 0 /\ forfeits = 0
    BY DEF Init, WalletInit
  <2>2. tracked = Own /\ (found.kept => booking = found.activity)
    BY <2>1 DEF Own
  <2>. QED
    BY <1>3, <2>1, <2>2 DEF BookingView, Keys
<1>. QED
  BY <1>1, <1>2, <1>5, <1>6, <1>7, <1>8 DEF CleanInv, CleanParts

LEMMA CleanKept == CleanInv /\ [Next]_vars => CleanInv'
<1>. SUFFICES ASSUME CleanInv, [Next]_vars PROVE CleanInv'
  OBVIOUS
<1>1. IInv' /\ Counts' /\ (clean' => clean)
  BY NextOK, CountsStep DEF CleanInv
<1>2. clean' => CleanParts'
  BY <1>1, CleanStep, TypeParts DEF CleanInv, Settling, IInv, Parts
<1>. QED
  BY <1>1, <1>2 DEF CleanInv

\* For a guest who waits, and without faults, the reservation shown is the one
\* the hotel has and the beach has the guest checked in if and only if there is
\* one, for any number of calls and however GETs, check-ins and check-outs
\* overlap.
THEOREM ViewsAreInAgreement == Spec => []ViewsAgree
<1>1. CleanInv => ViewsAgree
  <2>. SUFFICES ASSUME CleanInv, clean, Quiet
                PROVE  cache["stay"] = Active /\ checkedIn = (confirmed # <<>>)
    BY DEF ViewsAgree
  <2>1. Settling
    BY TypeParts DEF CleanInv, Settling, IInv, Parts
  <2>. QED
    BY <2>1, QuietFacts
<1>. QED
  BY CleanStarts, CleanKept, <1>1, PTL DEF Spec

\* What the wallet of such a guest tracks and holds once everything is quiet:
\* the booking the beach has, unless it is still the one the tab found there, and
\* all that was earned, less its price. At no time was a token lost, and given
\* away was at most the price of the booking the tab found, when it was no longer
\* there.
SettledWallet ==
    clean => /\ forfeits = 0
             /\ gifts \in {0, IF found.kept THEN 0 ELSE paid(found.activity)}
             /\ Quiet => /\ tracked = IF found.kept THEN NoId ELSE booking
                         /\ balance + paid(tracked) = earned + gifts

\* ... for any number of calls, activities and reservations, of a tab that finds
\* a booking as well as of one that finds none.
THEOREM WalletIsSettled == Spec => []SettledWallet
<1>1. CleanInv => SettledWallet
  <2>. SUFFICES ASSUME CleanInv, clean PROVE SettledWallet
    BY DEF SettledWallet
  <2>1. Settling
    BY TypeParts DEF CleanInv, Settling, IInv, Parts
  <2>2. forfeits = 0 /\ gifts \in {0, IF found.kept THEN 0 ELSE paid(found.activity)}
    BY <2>1 DEF Settling, CleanParts, BookingView
  <2>3. Quiet => tracked = IF found.kept THEN NoId ELSE booking
    BY <2>1, QuietFacts DEF Own
  <2>4. balance + paid(tracked) + forfeits = earned + gifts
    BY DEF CleanInv, IInv, Ledger
  <2>5. balance \in Nat /\ paid(tracked) \in Nat /\ earned \in Nat
    BY <2>1, WalletAssumption DEF Settling, Parts, WalletTypeOK, paid
  <2>6. balance + paid(tracked) = earned + gifts
    BY <2>2, <2>4, <2>5
  <2>. QED
    BY <2>2, <2>3, <2>6 DEF SettledWallet
<1>. QED
  BY CleanStarts, CleanKept, <1>1, PTL DEF Spec
====
