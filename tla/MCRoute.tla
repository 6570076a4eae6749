------------------------------- MODULE MCRoute -------------------------------
(***************************************************************************)
(* Two clients ask for one path, and the first for another one, with room  *)
(* for two entries. A further request has the key of the first client's,   *)
(* but an escape in its path, a pair that does not parse and a second      *)
(* Authorization header. The other path is written. The counter of the     *)
(* pool has two bits and three backends.                                   *)
(***************************************************************************)
EXTENDS Route

Path(decoded, raw) == [decoded |-> decoded, raw |-> raw]
p == Path("p", "p")
escaped == Path("p", "%70")
q == Path("q", "q")
MCPaths == {p, escaped, q}

Pair(name, parses) == [name |-> name, value |-> "1", parses |-> parses]
Ask(path, query, auth) ==
    [method |-> "GET", path |-> path, query |-> query,
     headers |-> [l \in Labels |-> IF l = "Authorization" THEN auth ELSE <<>>]]

MCAsked == {Ask(p, <<>>, <<"c1">>),
            Ask(p, <<>>, <<"c2">>),
            Ask(escaped, <<Pair("y", FALSE)>>, <<"c1", "c2">>),
            Ask(q, <<Pair("x", TRUE)>>, <<"c1">>)}
MCPosted == {[Ask(q, <<>>, <<"c1">>) EXCEPT !.method = "POST"]}
MCSymmetry == Permutations(Requests)
====
