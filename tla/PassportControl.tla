--------------------------- MODULE PassportControl ---------------------------
(***************************************************************************)
(* What passport control promises to whoever reads its table: an arrival   *)
(* is queued, called to the desk of its gate and processed, a gate serves  *)
(* one guest at a time, a processed guest stays processed, and a restart   *)
(* sends every guest at a desk back to the queue at once.                  *)
(***************************************************************************)
CONSTANTS Arrivals, Gates

VARIABLES
    desk,   \* "none", "queued", "processing" or "processed"
    at      \* the gate of a registered arrival

Init ==
    /\ desk = [a \in Arrivals |-> "none"]
    /\ at = [a \in Arrivals |-> 0]

Register(a, g) ==
    /\ desk[a] = "none"
    /\ desk' = [desk EXCEPT ![a] = "queued"]
    /\ at' = [at EXCEPT ![a] = g]

Call(a) ==
    /\ desk[a] = "queued"
    /\ \A b \in Arrivals : at[b] = at[a] => desk[b] # "processing"
    /\ desk' = [desk EXCEPT ![a] = "processing"]
    /\ UNCHANGED at

Clear(a) ==
    /\ desk[a] = "processing"
    /\ desk' = [desk EXCEPT ![a] = "processed"]
    /\ UNCHANGED at

Restart ==
    /\ desk' = [a \in Arrivals |-> IF desk[a] = "processing" THEN "queued" ELSE desk[a]]
    /\ UNCHANGED at

Next ==
    \/ \E a \in Arrivals : Call(a) \/ Clear(a) \/ \E g \in Gates : Register(a, g)
    \/ Restart

Spec == Init /\ [][Next]_<<desk, at>>
====
