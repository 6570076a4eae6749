----------------------------- MODULE RateLimiter -----------------------------
(***************************************************************************)
(* The gateway's fixed-window rate limiter (src/gateway/ratelimit.go) and  *)
(* the admin handler that changes it while requests run (admin.go). Each   *)
(* atomic load and store is a step; the body of allow runs under a mutex.  *)
(***************************************************************************)
EXTENDS Integers, Sequences, FiniteSetsExt

CONSTANTS
    Clients,     \* RemoteAddr keys
    Handlers,    \* requests in progress at once
    Admins,      \* admin calls in progress at once
    Bodies,      \* what an admin call may set
    Limit0,      \* the configured limit
    Window0,     \* the configured window
    MaxClock     \* bound: the clock stops there

rateLimitUpdate ==
    [fields : SUBSET {"limit", "window"},   \* those the body has
     limit : Int, window : Int,
     duration : BOOLEAN]                    \* the window parses

ASSUME RateLimiterAssumption ==
    /\ Bodies \subseteq rateLimitUpdate
    /\ Limit0 \in Int /\ Window0 \in Nat \ {0}
    /\ MaxClock \in Nat

Times == 0 .. MaxClock
NoWindow == [count |-> 0, reset |-> -1]   \* no entry in the map
NoUpdate == [fields |-> {}, limit |-> 0, window |-> 0, duration |-> TRUE]

VARIABLES
    limit, per,       \* the two atomics
    clients,          \* the window of a client
    time,             \* time.Now()
    step, client, lim, len,  \* request: step, key, loaded limit and window
    apc, update, alim, aper,  \* admin call: step, body, limit and window
    admitted,         \* history: when allow let requests of a client through
    maxLimit, minPer  \* history: the largest limit, the shortest window set

handler == <<step, client, lim, len>>
admin == <<apc, update, alim, aper>>
history == <<admitted, maxLimit, minPer>>
limiterVars == <<limit, per, clients, time, handler, admin, history>>

\* NewRateLimiter
NewRateLimiter ==
    /\ limit = Limit0 /\ per = Window0
    /\ clients = [c \in Clients |-> NoWindow]
    /\ time = 0
    /\ step = [r \in Handlers |-> "idle"]
    /\ client \in [Handlers -> Clients]
    /\ lim = [r \in Handlers |-> 0] /\ len = [r \in Handlers |-> 0]
    /\ apc = [a \in Admins |-> "idle"]
    /\ update = [a \in Admins |-> NoUpdate]
    /\ alim = [a \in Admins |-> 0] /\ aper = [a \in Admins |-> 0]
    /\ admitted = [c \in Clients |-> <<>>]
    /\ maxLimit = Limit0 /\ minPer = Window0

----------------------------------------------------------------------------
(***************************************************************************)
(* RateLimitMiddleware and allow                                           *)
(***************************************************************************)

\* The middleware's own look at the limit.
Arrive(r, c) ==
    /\ step[r] = "idle"
    /\ client' = [client EXCEPT ![r] = c]
    /\ step' = [step EXCEPT ![r] = IF limit <= 0 THEN "passed" ELSE "limit"]
    /\ UNCHANGED <<limit, per, clients, time, lim, len, admin, history>>

LoadLimit(r) ==
    /\ step[r] = "limit"
    /\ lim' = [lim EXCEPT ![r] = limit]
    /\ step' = [step EXCEPT ![r] = "window"]
    /\ UNCHANGED <<limit, per, clients, time, client, len, admin, history>>

LoadWindow(r) ==
    /\ step[r] = "window"
    /\ len' = [len EXCEPT ![r] = per]
    /\ step' = [step EXCEPT ![r] = "lock"]
    /\ UNCHANGED <<limit, per, clients, time, client, lim, admin, history>>

\* The window the mutex protects, as the request finds or makes it.
windowOf(r) ==
    LET w == clients[client[r]]
    IN  IF w = NoWindow \/ time > w.reset THEN [count |-> 0, reset |-> time + len[r]] ELSE w

\* Mutant: one request too many.
DecideOneMore(r) ==
    LET w == windowOf(r)
        admits == w.count <= lim[r] IN
    /\ step[r] = "lock"
    /\ step' = [step EXCEPT ![r] = IF admits THEN "passed" ELSE "rejected"]
    /\ clients' = [clients EXCEPT ![client[r]] = IF admits THEN [w EXCEPT !.count = @ + 1] ELSE w]
    /\ admitted' = [admitted EXCEPT ![client[r]] = IF admits THEN Append(@, time) ELSE @]
    /\ UNCHANGED <<limit, per, time, client, lim, len, admin, maxLimit, minPer>>

Decide(r) ==
    /\ step[r] = "lock"
    /\ LET w == windowOf(r) IN
        \/ /\ w.count >= lim[r]
           /\ clients' = [clients EXCEPT ![client[r]] = w]
           /\ step' = [step EXCEPT ![r] = "rejected"]
           /\ UNCHANGED admitted
        \/ /\ w.count < lim[r]
           /\ clients' = [clients EXCEPT ![client[r]] = [w EXCEPT !.count = @ + 1]]
           /\ step' = [step EXCEPT ![r] = "passed"]
           /\ admitted' = [admitted EXCEPT ![client[r]] = Append(@, time)]
    /\ UNCHANGED <<limit, per, time, client, lim, len, admin, maxLimit, minPer>>

Answer(r) ==
    /\ step[r] \in {"passed", "rejected"}
    /\ step' = [step EXCEPT ![r] = "idle"]
    /\ lim' = [lim EXCEPT ![r] = 0]
    /\ len' = [len EXCEPT ![r] = 0]
    /\ UNCHANGED <<limit, per, clients, time, client, admin, history>>

----------------------------------------------------------------------------
(***************************************************************************)
(* AdminRateLimitHandler: what the body leaves out is read first, and      *)
(* written back later.                                                     *)
(***************************************************************************)
AdminReadLimit(a, b) ==
    /\ apc[a] = "idle"
    /\ update' = [update EXCEPT ![a] = b]
    /\ alim' = [alim EXCEPT ![a] = IF "limit" \in b.fields THEN b.limit ELSE limit]
    /\ apc' = [apc EXCEPT ![a] = "window"]
    /\ UNCHANGED <<limit, per, clients, time, handler, aper, history>>

AdminReadWindow(a) ==
    /\ apc[a] = "window"
    /\ aper' = [aper EXCEPT ![a] = IF "window" \in update[a].fields THEN update[a].window ELSE per]
    /\ apc' = [apc EXCEPT ![a] = IF "window" \in update[a].fields /\ ~update[a].duration
                                 THEN "done" ELSE "setLimit"]
    /\ UNCHANGED <<limit, per, clients, time, handler, update, alim, history>>

SetLimit(a) ==
    /\ apc[a] = "setLimit"
    /\ limit' = alim[a]
    /\ maxLimit' = IF alim[a] > maxLimit THEN alim[a] ELSE maxLimit
    /\ apc' = [apc EXCEPT ![a] = "setWindow"]
    /\ UNCHANGED <<per, clients, time, handler, update, alim, aper, admitted, minPer>>

SetWindow(a) ==
    /\ apc[a] = "setWindow"
    /\ per' = IF aper[a] > 0 THEN aper[a] ELSE per
    /\ minPer' = IF aper[a] > 0 /\ aper[a] < minPer THEN aper[a] ELSE minPer
    /\ apc' = [apc EXCEPT ![a] = "done"]
    /\ UNCHANGED <<limit, clients, time, handler, update, alim, aper, admitted, maxLimit>>

AdminRespond(a) ==
    /\ apc[a] = "done"
    /\ apc' = [apc EXCEPT ![a] = "idle"]
    /\ update' = [update EXCEPT ![a] = NoUpdate]
    /\ alim' = [alim EXCEPT ![a] = 0]
    /\ aper' = [aper EXCEPT ![a] = 0]
    /\ UNCHANGED <<limit, per, clients, time, handler, history>>

Advance ==
    /\ time < MaxClock
    /\ time' = time + 1
    /\ UNCHANGED <<limit, per, clients, handler, admin, history>>

LimiterNext ==
    \/ \E r \in Handlers :
        \/ \E c \in Clients : Arrive(r, c)
        \/ LoadLimit(r) \/ LoadWindow(r) \/ Decide(r) \/ Answer(r)
    \/ \E a \in Admins :
        \/ \E b \in Bodies : AdminReadLimit(a, b)
        \/ AdminReadWindow(a) \/ SetLimit(a) \/ SetWindow(a) \/ AdminRespond(a)
    \/ Advance

LimiterSpec == NewRateLimiter /\ [][LimiterNext]_limiterVars

----------------------------------------------------------------------------
(***************************************************************************)
(* Properties                                                              *)
(***************************************************************************)

\* How many requests of a client allow let through from t for one window.
burst(c, t) ==
    Cardinality({i \in DOMAIN admitted[c] :
                    t <= admitted[c][i] /\ admitted[c][i] <= t + minPer})

\* Limits loaded before the lock, windows opened with an older length and
\* admin calls in between: still, no stretch of time as long as the shortest
\* window sees more than two windows, so at most twice the largest limit.
BurstBound == \A c \in Clients, t \in Times : burst(c, t) <= 2 * Max({maxLimit, 0})
====
