------------------------------ MODULE ByteStream ------------------------------
(***************************************************************************)
(* What a connection's output buffers promise: bytes leave in the order in *)
(* which they were written, each once, and what is pending may be thrown   *)
(* away only while none of it is on the wire.  Bytes are numbered in the   *)
(* order in which they are written.                                        *)
(***************************************************************************)
EXTENDS Naturals, Sequences

VARIABLES pend,     \* bytes written and not sent
          sent,     \* bytes sent
          written,  \* the number of bytes written so far
          started   \* part of the output that is still pending has been sent

bvars == <<pend, sent, written, started>>

Start == pend = <<>> /\ sent = <<>> /\ written = 0 /\ started = FALSE

Write ==
    /\ written' \in Nat /\ written' > written
    /\ pend' = pend \o [i \in 1..written' - written |-> written + i]
    /\ UNCHANGED <<sent, started>>

Send ==
    /\ \E k \in 1..Len(pend) :
        /\ sent' = sent \o SubSeq(pend, 1, k)
        /\ pend' = SubSeq(pend, k + 1, Len(pend))
    /\ started' = (pend' # <<>>)
    /\ UNCHANGED written

Discard ==
    /\ ~started
    /\ pend' = <<>>
    /\ UNCHANGED <<sent, written, started>>

BNext == Write \/ Send \/ Discard
BSpec == Start /\ [][BNext]_bvars
=============================================================================
