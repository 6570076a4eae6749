---------------------------- MODULE TokenWallet ----------------------------
(***************************************************************************)
(* A guest's token wallet (src/frontend/src/features/tokens), a store of   *)
(* the browser tab. Reservations earn tokens, activities cost tokens, and  *)
(* the store remembers which activity was last paid for. It is told of a   *)
(* booking, a switch or a cancellation only after the beach has answered,  *)
(* with what the caller then believes the guest's booking to be.           *)
(***************************************************************************)
EXTENDS Integers

CONSTANTS
    Activities,     \* activity ids
    Reservations,   \* reservation ids
    NoId,           \* null
    Cost,           \* getActivityTokenCost of an activity
    Rooms,          \* room types
    Rate,           \* ROOM_TOKEN_ALLOWANCE_PER_NIGHT
    Package         \* a reservation's room type and days

ASSUME WalletAssumption ==
    /\ NoId \notin Activities \cup Reservations
    /\ Cost \in [Activities -> Nat \ {0}]
    /\ Rate \in [Rooms -> Nat \ {0}]
    /\ Package \in [Reservations -> [room_type : Rooms, check_in_day : Nat, check_out_day : Nat]]

VARIABLES
    balance,    \* balances[guest]
    credited,   \* creditedReservations of the guest
    tracked,    \* activityBookings[guest], whose cost is Cost[tracked]
    earned,     \* history: tokens credited for reservations
    gifts,      \* history: tokens refunded that no booking had paid
    forfeits    \* history: tokens paid for a booking that was replaced unseen

wallet == <<balance, credited, tracked, earned, gifts, forfeits>>

WalletInit ==
    /\ balance = 0 /\ credited = {} /\ tracked = NoId
    /\ earned = 0 /\ gifts = 0 /\ forfeits = 0

\* A stay of no nights counts as one.
getPackageTokenAllowance(roomType, nights) == Rate[roomType] * (IF nights > 1 THEN nights ELSE 1)

getReservationTokenAllowance(r) ==
    getPackageTokenAllowance(Package[r].room_type, Package[r].check_out_day - Package[r].check_in_day)

\* The cost of a tracked booking.
paid(a) == IF a \in Activities THEN Cost[a] ELSE 0

creditReservationTokens(r) ==
    LET amount == IF r \in credited THEN 0 ELSE getReservationTokenAllowance(r) IN
    /\ balance' = balance + amount
    /\ earned' = earned + amount
    /\ credited' = IF amount > 0 THEN credited \cup {r} ELSE credited
    /\ UNCHANGED <<tracked, gifts, forfeits>>

getRefundableCost(current) == IF tracked = current THEN paid(tracked) ELSE 0

canAffordActivity(a, current) == balance + getRefundableCost(current) >= Cost[a]

\* Whether a booking that succeeded can be entered in the wallet.
spendable(a, current) ==
    tracked = a \/ balance + getRefundableCost(current) - Cost[a] >= 0

spendActivityTokens(a, current) ==
    IF tracked = a \/ ~spendable(a, current)
    THEN UNCHANGED wallet
    ELSE /\ balance' = balance + getRefundableCost(current) - Cost[a]
         /\ tracked' = a
         /\ forfeits' = forfeits + paid(tracked) - getRefundableCost(current)
         /\ UNCHANGED <<credited, earned, gifts>>

\* Mutant: the booking stays tracked.
RefundKeepsTracked(a, fallback) ==
    /\ balance' = balance + (IF tracked = a THEN paid(a) ELSE fallback)
    /\ gifts' = gifts + (IF tracked = a THEN 0 ELSE fallback)
    /\ UNCHANGED <<credited, tracked, earned, forfeits>>

\* Without a tracked booking the fallback is refunded: the tab may not have
\* seen the booking being paid.
refundActivityTokens(a, fallback) ==
    IF tracked # a /\ (tracked # NoId \/ fallback <= 0)
    THEN UNCHANGED wallet
    ELSE /\ balance' = balance + (IF tracked = a THEN paid(a) ELSE fallback)
         /\ gifts' = gifts + (IF tracked = a THEN 0 ELSE fallback)
         /\ tracked' = NoId
         /\ UNCHANGED <<credited, earned, forfeits>>

WalletNext ==
    \/ \E r \in Reservations : creditReservationTokens(r)
    \/ \E a \in Activities :
        \/ \E current \in Activities \cup {NoId} : spendActivityTokens(a, current)
        \/ \E fallback \in {0, Cost[a]} : refundActivityTokens(a, fallback)

WalletSpec == WalletInit /\ [][WalletNext]_wallet

----------------------------------------------------------------------------
(***************************************************************************)
(* Properties                                                              *)
(***************************************************************************)

\* The type of the wallet: the balance is never negative.
WalletTypeOK ==
    /\ balance \in Nat
    /\ credited \subseteq Reservations
    /\ tracked \in Activities \cup {NoId}
    /\ earned \in Nat /\ gifts \in Nat /\ forfeits \in Nat

\* Every token is accounted for: what the guest has and what the tracked
\* booking holds comes from reservations or from a fallback refund, and only a
\* switch whose caller did not know the paid booking loses tokens.
Ledger == balance + paid(tracked) + forfeits = earned + gifts
====
