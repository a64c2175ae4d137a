--------------------------------- MODULE MCRpc ---------------------------------
(* A small instance of Rpc for TLC. *)
EXTENDS Rpc

CONSTANTS c1, c2, c3, b1, b2

\* Every order of three gets of two clients, up to the clients' names, with two
\* backends; and four gets of three clients with one backend, whose
\* responses can be read at once and are more than one event may handle.
MCThreads ==
    {[arrivals |-> <<c1>> \o s, memcache |-> {b1, b2}] : s \in [1..2 -> {c1, c2}]}
    \cup {[arrivals |-> <<c1, c2, c3, c>>, memcache |-> {b1}] : c \in {c1, c2, c3}}
=============================================================================
