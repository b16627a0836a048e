----------------------------- MODULE MCSessions -----------------------------
(* Small instances of Sessions for TLC. *)
EXTENDS Sessions, TLC

CONSTANTS w1, w2, w3, s1, p1, p2, p3, n1, n2, k1, k2

\* Two connections of one websocket server, another process whose client comes
\* with a name, and one that continues.
ThreeProcesses == (w1 :> p1) @@ (w2 :> p1) @@ (w3 :> p2) @@ (s1 :> p3)

\* Every client is a process of its own.
OneEach == (w1 :> p1) @@ (w2 :> p2)

Alike == Permutations({n1, n2}) \cup Permutations({w1, w2})
=============================================================================
