----------------------------- MODULE MCDispatch -----------------------------
(* Small instances of Dispatch for TLC. *)
EXTENDS Dispatch, TLC

\* The names of clients, descriptors and structures are interchangeable.
Symmetry == Permutations(Clients) \cup Permutations(Fds) \cup Permutations(Conns)
=============================================================================
