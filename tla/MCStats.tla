------------------------------- MODULE MCStats -------------------------------
(* A small instance of Stats for TLC. *)
EXTENDS Stats, TLC

CONSTANTS i1, i2

\* The two clients share a bucket.
Collide == (i1 :> 0) @@ (i2 :> 0)
OneUser == <<i1>>

Symmetry == Permutations(Conns) \cup Permutations(Entries) \cup Permutations(Workers)
=============================================================================
