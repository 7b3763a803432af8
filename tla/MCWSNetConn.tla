---------------------------- MODULE MCWSNetConn -----------------------------
(* Small instances of WSNetConn for TLC. *)
EXTENDS WSNetConn, TLC

CONSTANTS w1, w2, c1, c2, r1, r2

\* Goroutines of one kind are interchangeable (safety runs only).
Symmetry == Permutations({w1, w2}) \cup Permutations({c1, c2}) \cup Permutations({r1, r2})
=============================================================================
