---------------------------- MODULE MCConnection ----------------------------
(* Small instances of Connection for TLC. *)
EXTENDS Connection

Get(k)     == [cmd |-> "get", n |-> k]
Set(k)     == [cmd |-> "set", n |-> k]
BadGet(k)  == [cmd |-> "badget", n |-> k]
BadSet(k)  == [cmd |-> "badset", n |-> k]
Unknown(k) == [cmd |-> "unknown", n |-> k]
Plain(c)   == [cmd |-> c, n |-> 0]

\* Pipelined commands of every kind, values shorter and longer than the buffer,
\* a get longer than LineMax, and an unterminated line that must be cut off.
MixedScripts ==
    { <<Get(1), Set(1), Get(1)>>, <<Get(1), Get(1)>>,
      <<Set(6), Plain("stats"), Get(2)>>,
      <<Get(5), Unknown(1)>>,
      <<BadSet(0), BadGet(1), Set(0)>>,
      <<BadSet(2), Get(1)>>,
      <<Unknown(5), Get(1)>> }

\* Scripts every request of which must be answered.
PoliteScripts ==
    { <<Get(1), Set(1), Plain("stats"), Get(1)>>,
      <<Set(6), Plain("badset"), Get(1)>>,
      <<Get(5), Unknown(1), Plain("badget")>> }

ManyGets == { <<Get(1), Get(1), Get(1), Get(1)>> }

Delays == {0, 1}
NoDelays == {}
=============================================================================
