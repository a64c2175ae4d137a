---------------------------------- MODULE Rpc ----------------------------------
(***************************************************************************)
(* Forwarding gets to memcached backends (memcache_conn.c): a client's get *)
(* is sent to every backend of its worker, the client waits in             *)
(* conn_rpc_wait, and responses are matched with waiting clients through a *)
(* queue per backend connection.  One worker thread, which drives one      *)
(* connection at a time; its clients, its backend connections, and the     *)
(* backends at their other ends.                                           *)
(*                                                                         *)
(* memcache_get's caller is the version of process_get_command that        *)
(* commands.c keeps in comments; conn_rpc_wait, conn_rpc_done and          *)
(* finish_get_command are compiled in.  A backend's output buffers are in  *)
(* OutputBuffer.  On the wire a hit is a "VALUE" line and a "block" (the   *)
(* value and END), a miss an "END" line.                                   *)
(***************************************************************************)
EXTENDS Integers, Sequences, SequencesExt, FiniteSets

CONSTANTS
    Clients, Backends,
    Threads,      \* the workers, [arrivals, memcache]: the clients whose gets each
                  \* receives, in order, and its own connections to the backends
    RpcInit,      \* MEMCACHE_RPC_QUEUE, 2048 in connections.h
    PtrBytes,     \* sizeof(conn *)
    ReqPerEvent,  \* REQ_PER_EVENT, 20 in server.c
    Split,        \* TRUE: the two parts of a hit may arrive apart
    Faults,       \* TRUE: realloc may fail in conn_ensure_rpc_space and conn_add_iov,
                  \* and libevent in conn_update_event
    Wild,         \* a pointer to no connection
    Null

ASSUME RpcAssumption ==
    /\ Clients # {} /\ Backends # {} /\ IsFiniteSet(Backends)
    /\ RpcInit \in Nat \ {0} /\ PtrBytes \in Nat \ {0}
    /\ ReqPerEvent \in Nat \ {0}
    /\ Split \in BOOLEAN /\ Faults \in BOOLEAN
    /\ Wild \notin Clients \cup Backends /\ Null \notin Clients \cup Backends

ASSUME ThreadsAssumption ==
    /\ Threads # {} /\ Threads \subseteq [arrivals : Seq(Clients), memcache : SUBSET Backends]

VARIABLES
    \* client connections
    cstate,       \* "reading" requests, "conn_rpc_wait", "conn_rpc_done" or "conn_closing"
    cev,          \* the event it is registered for: "read", "write" or "none"
    rpcwaiting,   \* c->rpcwaiting
    \* backend connections
    state, ev,    \* mc->state, and the event registered: "read", "write" or "none"
    queue,        \* mc->rpc, rpcsize, rpcused and rpcdone
    pending,      \* requests in the output buffers
    rbuf,         \* lines and blocks read and not parsed
    \* network and backends
    sock,         \* what the socket holds
    late,         \* a VALUE line has arrived and its block has not
    asked,        \* requests the backend has not answered
    \* the worker
    thread,       \* which of Threads it is; it shares nothing of this with the others
    run, nreqs,   \* the backend connection that drive_machine runs for, or Null, and
                  \* how many requests it may still begin, both local to drive_machine
    dead,         \* the process has exited, or has gone past the end of an array or
                  \* through a wild pointer
    gets,         \* gets received so far
    owed,         \* history, [Backends]: the clients whose requests are not
                  \* answered yet, in order
    flaws         \* history: which of Flaws have happened

clients == <<cstate, cev, rpcwaiting>>
network == <<sock, late, asked>>
worker == <<run, nreqs>>
vars == <<clients, state, ev, queue, pending, rbuf, network, worker, thread, dead, gets, owed, flaws>>

Init ==
    /\ cstate = [c \in Clients |-> "reading"] /\ cev = [c \in Clients |-> "read"]
    /\ rpcwaiting = [c \in Clients |-> 0]
    /\ state = [b \in Backends |-> "conn_new_cmd"] /\ ev = [b \in Backends |-> "read"]
    /\ queue = [b \in Backends |-> [rpc |-> [i \in 1..RpcInit |-> Wild], size |-> RpcInit,
                                    used |-> 0, done |-> 0]]
    /\ pending = [b \in Backends |-> 0] /\ rbuf = [b \in Backends |-> <<>>]
    /\ sock = [b \in Backends |-> <<>>] /\ late = [b \in Backends |-> FALSE]
    /\ asked = [b \in Backends |-> 0]
    /\ thread \in Threads
    /\ run = Null /\ nreqs = 0 /\ dead = FALSE /\ gets = 0
    /\ owed = [b \in Backends |-> <<>>] /\ flaws = {}

-----------------------------------------------------------------------------
(* memcache_get *)

\* memmove(rpc, rpc + done, used - done), a length in bytes: so many whole slots
\* are moved, and of the next one some bytes, which leaves the old pointer, the
\* new one or neither.
CompactedNotReset(q, torn) == [q EXCEPT !.used = q.used - q.done]    \* mutant: rpcdone stays
Compacted(q, torn) ==
    LET used  == q.used - q.done
        whole == used \div PtrBytes
        slot(i) == CASE i <= whole -> q.rpc[q.done + i]
                     [] i = whole + 1 /\ used % PtrBytes # 0 /\ q.rpc[i] # q.rpc[q.done + i] ->
                            CASE torn = "old" -> q.rpc[i]
                              [] torn = "new" -> q.rpc[q.done + i]
                              [] OTHER        -> Wild
                     [] OTHER -> q.rpc[i]
    IN  [q EXCEPT !.rpc = [i \in DOMAIN @ |-> slot(i)], !.used = used, !.done = 0]

\* conn_ensure_rpc_space; when it fails nothing changes
HasRoomLate(q) == q.used <= q.size    \* mutant: one slot too many
HasRoom(q) == q.used < q.size
Doubled(q) == [q EXCEPT !.rpc = @ \o [i \in 1..q.size |-> Wild], !.size = 2 * @]
EnsureRpcSpace(q, how) ==
    CASE HasRoom(q)              -> q
      [] q.done # 0 /\ ~HasRoom(q) -> Compacted(q, how)
      [] OTHER                   -> IF how = "fail" /\ Faults THEN q ELSE Doubled(q)

\* The client is put behind the others, past the end of the array if need be.
EnqueueFirst(q, c) == [q EXCEPT !.rpc[q.done + 1] = c, !.used = @ + 1]    \* mutant
Enqueue(q, c) ==
    [q EXCEPT !.rpc  = IF q.used < Len(@) THEN [@ EXCEPT ![q.used + 1] = c] ELSE Append(@, c),
              !.used = @ + 1]

\* what a backend connection waits for next, whatever it was doing
InterruptedEvent(b) == ev[b]    \* mutant: the connection is not woken for writing
RequestEvent(b) == "write"

\* What forwarding can meet that the code does not cope with: a compaction that
\* moves too little, because requests are in flight; a queue that cannot grow,
\* which nobody notices; a block that is being swallowed, which is forgotten; a
\* request that finds no memory, of which memcache_get's caller takes no notice; a
\* backend connection or a client that is to be closed and has no event.
Flaws == {"compacted", "full", "interrupted", "unsent", "unscheduled", "stranded"}
FlawsMet(sent, scheduled) ==
    {f \in Flaws :
        CASE f = "compacted"   -> \E b \in sent : ~HasRoom(queue[b]) /\ queue[b].done \notin {0, queue[b].used}
          [] f = "full"        -> \E b \in sent : ~HasRoom(queue[b]) /\ queue'[b].used > queue'[b].size
          [] f = "interrupted" -> \E b \in sent : state[b] = "conn_swallow"
          [] f = "unsent"      -> sent # thread.memcache
          [] f = "unscheduled" -> scheduled # sent
          [] OTHER             -> FALSE}

\* memcache_get for every backend connection: sent are those for which conn_add_iov found
\* memory, scheduled those that are registered for writing.
Forward(c, how, sent, scheduled) ==
    /\ \A b \in sent : ev[b] = "write" => b \in scheduled
    /\ queue' = [b \in Backends |-> IF b \in sent THEN Enqueue(EnsureRpcSpace(queue[b], how[b]), c)
                                                  ELSE queue[b]]
    /\ pending' = [b \in Backends |-> IF b \in sent THEN pending[b] + 1 ELSE pending[b]]
    /\ owed' = [b \in Backends |-> IF b \in sent THEN Append(owed[b], c) ELSE owed[b]]
    /\ rpcwaiting' = [rpcwaiting EXCEPT ![c] = @ + Cardinality(sent)]
    /\ state' = [b \in Backends |-> CASE b \notin sent   -> state[b]
                                      [] b \in scheduled -> "conn_mwrite"
                                      [] OTHER           -> "conn_closing"]
    /\ \E kept \in BOOLEAN :    \* by an event_del that fails
        ev' = [b \in Backends |-> CASE b \notin sent   -> ev[b]
                                     [] b \in scheduled -> RequestEvent(b)
                                     [] OTHER           -> IF kept THEN ev[b] ELSE "none"]
    /\ flaws' = flaws \cup FlawsMet(sent, scheduled)

\* A get arrives and is forwarded to every backend of the worker (t->memcache); the
\* client waits whatever memcache_get returned.  Bound: none follows one that met
\* a flaw.
ProcessGet(c) ==
    /\ run = Null /\ ~dead /\ flaws = {}
    /\ gets < Len(thread.arrivals) /\ c = thread.arrivals[gets + 1]
    /\ cstate[c] = "reading"
    /\ \E how \in [Backends -> {"old", "new", "wild", "fail"}],
          sent \in IF Faults THEN SUBSET thread.memcache ELSE {thread.memcache} :
       \E scheduled \in IF Faults THEN SUBSET sent ELSE {sent} : Forward(c, how, sent, scheduled)
    /\ gets' = gets + 1
    /\ cstate' = [cstate EXCEPT ![c] = "conn_rpc_wait"]
    /\ cev' = [cev EXCEPT ![c] = "none"]
    /\ dead' = ("full" \in flaws')
    /\ UNCHANGED <<rbuf, network, worker, thread>>

\* case conn_rpc_done: finish_get_command, and the reply is written.
FinishGet(c) ==
    /\ run = Null /\ ~dead
    /\ cstate[c] = "conn_rpc_done" /\ cev[c] # "none"
    /\ cstate' = [cstate EXCEPT ![c] = "reading"]
    /\ cev' = [cev EXCEPT ![c] = "read"]
    /\ UNCHANGED <<rpcwaiting, state, ev, queue, pending, rbuf, network, worker, thread, dead, gets, owed, flaws>>

-----------------------------------------------------------------------------
(* drive_machine for a backend connection *)

Event(b) ==
    /\ run = Null /\ ~dead
    /\ ev[b] = "write" \/ (ev[b] = "read" /\ sock[b] # <<>>)
    /\ run' = b /\ nreqs' = ReqPerEvent
    /\ UNCHANGED <<clients, state, ev, queue, pending, rbuf, network, thread, dead, gets, owed, flaws>>

Running(b, s) == run = b /\ ~dead /\ state[b] = s
Goto(b, s) == state' = [state EXCEPT ![b] = s] /\ UNCHANGED <<ev, run>>
Await(b, s, e) ==
    /\ state' = [state EXCEPT ![b] = s]
    /\ ev' = [ev EXCEPT ![b] = e]
    /\ run' = Null /\ nreqs' = 0

\* case conn_new_cmd, which drive_machine goes on to at once: what is left in the
\* buffer is parsed, or conn_waiting awaits more; after REQ_PER_EVENT requests other
\* connections have their turn.
NewCmd(b, buffered) ==
    \/ /\ nreqs > 0 /\ buffered # <<>>
       /\ Goto(b, "conn_parse_cmd")
       /\ nreqs' = nreqs - 1
    \/ nreqs > 0 /\ buffered = <<>> /\ Await(b, "conn_read", "read")
    \/ nreqs = 0 /\ Await(b, "conn_new_cmd", IF buffered # <<>> THEN "write" ELSE "read")

Resume(b) ==
    /\ Running(b, "conn_new_cmd")
    /\ NewCmd(b, rbuf[b])
    /\ UNCHANGED <<clients, queue, pending, rbuf, network, thread, dead, gets, owed, flaws>>

\* case conn_closing
Close(b) ==
    /\ Running(b, "conn_closing")
    /\ Await(b, "closed", "none")
    /\ UNCHANGED <<clients, queue, pending, rbuf, network, thread, dead, gets, owed, flaws>>

\* case conn_mwrite: the requests are handed to the network
Write(b) ==
    /\ Running(b, "conn_mwrite")
    /\ asked' = [asked EXCEPT ![b] = @ + pending[b]]
    /\ pending' = [pending EXCEPT ![b] = 0]
    /\ NewCmd(b, rbuf[b])
    /\ UNCHANGED <<clients, queue, rbuf, sock, late, thread, dead, gets, owed, flaws>>

\* case conn_read
Read(b) ==
    /\ Running(b, "conn_read")
    /\ rbuf' = [rbuf EXCEPT ![b] = @ \o sock[b]]
    /\ sock' = [sock EXCEPT ![b] = <<>>]
    /\ IF sock[b] # <<>> THEN Goto(b, "conn_parse_cmd") /\ UNCHANGED nreqs
                          ELSE Await(b, "conn_read", "read")
    /\ UNCHANGED <<clients, queue, pending, late, asked, thread, dead, gets, owed, flaws>>

\* the client waits for nothing more
NoneLeftEarly(n) == n <= 1    \* mutant: the last response is not waited for
NoneLeft(n) == n = 0

\* what follows a VALUE line is not for memcached_response
AfterHitRead(b) == NewCmd(b, Tail(rbuf[b]))    \* mutant: the block is read as a response
AfterHit(b) == Goto(b, "conn_swallow") /\ UNCHANGED nreqs

\* The client is registered for writing; when that fails it is to be closed, and
\* nothing is registered ("TODO: we need to reschedule c").
Reply(c) ==
    \/ /\ cstate' = [cstate EXCEPT ![c] = "conn_rpc_done"]
       /\ cev' = [cev EXCEPT ![c] = "write"]
       /\ UNCHANGED flaws
    \/ /\ Faults /\ cev[c] # "write"
       /\ cstate' = [cstate EXCEPT ![c] = "conn_closing"]
       /\ flaws' = flaws \cup {"stranded"}
       /\ UNCHANGED cev

\* process_hit_response and process_miss_response: one response fewer for the
\* client at the head of the queue
Respond(b) ==
    LET q == queue[b]
        c == q.rpc[q.done + 1]
    IN  /\ queue' = [queue EXCEPT ![b].done = @ + 1]
        /\ owed' = [owed EXCEPT ![b] = Tail(@)]
        /\ IF c = Wild
           THEN dead' = TRUE /\ UNCHANGED <<clients, flaws>>
           ELSE /\ rpcwaiting' = [rpcwaiting EXCEPT ![c] = @ - 1]
                /\ IF NoneLeft(rpcwaiting[c] - 1) THEN Reply(c) ELSE UNCHANGED <<cstate, cev, flaws>>
                /\ UNCHANGED dead

\* memcached_response; a line that is no response ends the program
Parse(b) ==
    /\ Running(b, "conn_parse_cmd")
    /\ rbuf' = [rbuf EXCEPT ![b] = Tail(@)]
    /\ \/ Head(rbuf[b]) = "VALUE" /\ Respond(b) /\ AfterHit(b)
       \/ Head(rbuf[b]) = "END"   /\ Respond(b) /\ NewCmd(b, Tail(rbuf[b]))
       \/ /\ Head(rbuf[b]) = "block"
          /\ dead' = TRUE
          /\ UNCHANGED <<clients, state, ev, worker, queue, owed, flaws>>
    /\ UNCHANGED <<pending, network, thread, gets>>

\* case conn_swallow: the block, from the buffer or from the socket
Swallow(b) ==
    /\ Running(b, "conn_swallow")
    /\ CASE rbuf[b] # <<>> ->
              /\ rbuf' = [rbuf EXCEPT ![b] = Tail(@)] /\ UNCHANGED sock
              /\ NewCmd(b, Tail(rbuf[b]))
         [] rbuf[b] = <<>> /\ sock[b] # <<>> ->
              /\ sock' = [sock EXCEPT ![b] = Tail(@)] /\ UNCHANGED rbuf
              /\ NewCmd(b, <<>>)
         [] OTHER -> Await(b, "conn_swallow", "read") /\ UNCHANGED <<rbuf, sock>>
    /\ UNCHANGED <<clients, queue, pending, late, asked, thread, dead, gets, owed, flaws>>

-----------------------------------------------------------------------------
(* The backends and the network *)

\* The backend's next answer arrives, of a hit perhaps only the first part.
Answer(b) ==
    /\ ~dead /\ asked[b] > 0 /\ ~late[b]
    /\ asked' = [asked EXCEPT ![b] = @ - 1]
    /\ \E parts \in {<<"VALUE", "block">>, <<"END">>} \cup (IF Split THEN {<<"VALUE">>} ELSE {}) :
        /\ sock' = [sock EXCEPT ![b] = @ \o parts]
        /\ late' = [late EXCEPT ![b] = (parts = <<"VALUE">>)]
    /\ UNCHANGED <<clients, state, ev, queue, pending, rbuf, worker, thread, dead, gets, owed, flaws>>

Deliver(b) ==
    /\ ~dead /\ late[b]
    /\ sock' = [sock EXCEPT ![b] = Append(@, "block")]
    /\ late' = [late EXCEPT ![b] = FALSE]
    /\ UNCHANGED <<clients, state, ev, queue, pending, rbuf, asked, worker, thread, dead, gets, owed, flaws>>

Drive(b) == Event(b) \/ Resume(b) \/ Write(b) \/ Read(b) \/ Parse(b) \/ Swallow(b) \/ Close(b)

Next ==
    \/ \E c \in Clients : ProcessGet(c) \/ FinishGet(c)
    \/ \E b \in Backends : Drive(b) \/ Answer(b) \/ Deliver(b)

Spec == Init /\ [][Next]_vars

\* libevent reports every connection that stays ready sooner or later, and a
\* backend answers what it is asked.
FairSpec ==
    /\ Spec
    /\ \A c \in Clients : WF_vars(FinishGet(c))
    /\ \A b \in Backends : WF_vars(Drive(b)) /\ SF_vars(Event(b))
                           /\ WF_vars(Answer(b)) /\ WF_vars(Deliver(b))

-----------------------------------------------------------------------------
(* Properties *)

\* Among the types: the queue's indices are in the order of connections.h's
\* diagram and, unless the queue once could not grow, within the array.
TypeOK ==
    /\ cstate \in [Clients -> {"reading", "conn_rpc_wait", "conn_rpc_done", "conn_closing"}]
    /\ rpcwaiting \in [Clients -> Int]
    /\ state \in [Backends -> {"conn_new_cmd", "conn_read", "conn_parse_cmd",
                               "conn_swallow", "conn_mwrite", "conn_closing", "closed"}]
    /\ thread \in Threads /\ flaws \subseteq Flaws
    /\ \A b \in Backends :
        /\ 0 <= queue[b].done /\ queue[b].done <= queue[b].used
        /\ "full" \notin flaws =>
               queue[b].used <= queue[b].size /\ queue[b].size = Len(queue[b].rpc)

\* The queue has always been moved whole and has always had room.
QueueIntact == flaws \cap {"compacted", "full"} = {}

\* "inflight RPC's for connections (ordered queue)" (connections.h): the clients
\* between rpcdone and rpcused are those whose requests are unanswered, in the
\* order asked, while the queue grows, is used up and begins again, as long as it
\* was moved whole and had room.
QueueOrdered ==
    QueueIntact /\ ~dead => \A b \in Backends :
        SubSeq(queue[b].rpc, queue[b].done + 1, queue[b].used) = owed[b]

\* A client leaves conn_rpc_wait (process_hit_response, process_miss_response)
\* only when every backend that was sent its request has answered it, in whatever
\* order the backends do; provided the queue was moved whole and had room.
RespondAfterAll ==
    \A c \in Clients, b \in Backends :
        QueueIntact /\ ~dead /\ cstate[c] # "conn_rpc_wait" => c \notin ToSet(owed[b])

\* Unless a get was forwarded in the middle of one, or the queue was damaged, every
\* block is swallowed, however it is cut up on the way: no part of one is taken for
\* a response, which memcached_response answers by ending the process.
StaysInSync == QueueIntact /\ "interrupted" \notin flaws => ~dead

\* A client that waits in conn_rpc_wait for a response is answered, if some of its
\* requests found no memory, too; unless forwarding met another flaw.
RpcAnswered ==
    \A c \in Clients :
        cstate[c] = "conn_rpc_wait" /\ rpcwaiting[c] # 0 ~> (cstate[c] = "reading" \/ flaws \ {"unsent"} # {})
=============================================================================
