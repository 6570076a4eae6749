---------------------------- MODULE MCRateLimiter ----------------------------
(***************************************************************************)
(* Two requests of one client and one admin call at a time, over a clock   *)
(* long enough for three of the shorter windows.                           *)
(***************************************************************************)
EXTENDS RateLimiter, TLC

Update(fields, lim0, win, ok) ==
    [fields |-> fields, limit |-> lim0, window |-> win, duration |-> ok]

MCBodies == {Update({"limit"}, 0, 0, TRUE), Update({"limit", "window"}, 2, 1, TRUE),
             Update({"window"}, 0, 0, TRUE), Update({"window"}, 0, 0, FALSE)}
MCSymmetry == Permutations(Handlers)
====
