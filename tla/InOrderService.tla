---------------------------- MODULE InOrderService ----------------------------
(***************************************************************************)
(* What a client is promised on one connection: its requests are answered  *)
(* one at a time, in the order sent, each with exactly its own reply, until *)
(* the server gives the connection up.  Then nothing more is answered, and  *)
(* of the replies not yet handed to the network any tail may be missing.    *)
(* The connection structure is recycled: a new client starts from scratch.  *)
(*                                                                          *)
(* Two exceptions belong to the promise.  The data block of a refused set   *)
(* is read as a line of its own, and the client gets an ERROR for it behind *)
(* the CLIENT_ERROR.  And a get that runs out of memory may be answered     *)
(* with only some of its values, one of them torn, or with SERVER_ERROR.    *)
(***************************************************************************)
EXTENDS Requests

CONSTANTS Scripts,  \* the request sequences clients send
          Faults    \* memory may run out

VARIABLES open,     \* the server serves this connection
          pending,  \* requests not answered yet
          block,    \* the data block of a refused set is the next line read
          outq,     \* reply units on their way to the client
          replies   \* reply units the client has read

svars == <<open, pending, block, outq, replies>>

Start ==
    /\ open = TRUE
    /\ pending \in Scripts
    /\ block = FALSE
    /\ outq = <<>>
    /\ replies = <<>>

\* Answer the next request.
Serve ==
    /\ open
    /\ ~block
    /\ pending # <<>>
    /\ \/ outq' = outq \o Reply(Head(pending))
       \/ Faults /\ \E u \in OutOfMemoryReplies(Head(pending)) : outq' = outq \o u
    /\ pending' = Tail(pending)
    /\ block' = (Head(pending).cmd = "badset")
    /\ UNCHANGED <<open, replies>>

\* The data block of a refused set is no command.
RefuseBlock ==
    /\ open
    /\ block
    /\ outq' = outq \o <<"ERROR">>
    /\ block' = FALSE
    /\ UNCHANGED <<open, pending, replies>>

\* Out of memory: one last SERVER_ERROR, the remaining requests are forgotten.
Fail ==
    /\ open
    /\ Faults
    /\ outq' = Append(outq, "SERVER_ERROR")
    /\ pending' = <<>>
    /\ block' = FALSE
    /\ UNCHANGED <<open, replies>>

Deliver ==
    /\ outq # <<>>
    /\ replies' = Append(replies, Head(outq))
    /\ outq' = Tail(outq)
    /\ UNCHANGED <<open, pending, block>>

Drop ==
    /\ open
    /\ open' = FALSE
    /\ pending' = <<>>
    /\ block' = FALSE
    /\ \E k \in 0..Len(outq) : outq' = SubSeq(outq, 1, k)
    /\ UNCHANGED replies

Reopen == ~open /\ Start'

SNext == Serve \/ RefuseBlock \/ Fail \/ Deliver \/ Drop \/ Reopen

SSpec == Start /\ [][SNext]_svars
=============================================================================
