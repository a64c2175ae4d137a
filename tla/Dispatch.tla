------------------------------- MODULE Dispatch -------------------------------
(***************************************************************************)
(* How an accepted socket reaches the worker thread that serves it, and    *)
(* how conn structures are shared by the workers: the main thread accepts  *)
(* and dispatches (drive_machine's conn_listening, dispatch_conn_new), the *)
(* workers adopt (thread_new_conn_handler, conn_new) and close             *)
(* (conn_close) connections, and all of them recycle structures through    *)
(* one free list.  A step is a system call or a section under one mutex.   *)
(*                                                                         *)
(* What a worker does between adopting and closing a connection is the     *)
(* subject of Connection; here a live connection may end at any time.      *)
(***************************************************************************)
EXTENDS Naturals, Sequences

CONSTANTS
    Clients,      \* the clients; each connects at most once
    Fds,          \* the file descriptors the process has for clients
    Conns,        \* addresses of conn structures
    NThreads,     \* config.threads
    FreeTotal,    \* initial size of freeconns, 200 in connections.c
    PipeSize,     \* capacity of a notify pipe
    Faults,       \* TRUE: malloc, realloc, fcntl, event_add and pipe I/O may fail
    None          \* no client, descriptor, structure or thread

ASSUME DispatchAssumption ==
    /\ NThreads \in Nat \ {0}
    /\ FreeTotal \in Nat \ {0}
    /\ PipeSize \in Nat \ {0}
    /\ Faults \in BOOLEAN
    /\ None \notin Clients \cup Fds \cup Conns \cup Nat

Threads == 0..NThreads - 1

VARIABLES
    arrived,      \* clients in the listening socket's backlog
    gone,         \* clients the server has closed, served or refused
    peer,         \* [Fds]: the client at the other end, None when closed
    \* the dispatcher (main thread)
    dfd,          \* the accepted socket it is dispatching
    pushed,       \* dfd is in a queue, the notification is still to be written
    last_thread,  \* NThreads - 1 stands for the initial -1
    \* per worker
    queue,        \* new_conn_queue, the sockets in it
    pipe,         \* bytes in the notify pipe
    lost,         \* history: notifications that could not be written
    pc,           \* what the worker's event loop is executing
    wfd,          \* the socket it is adopting or closing
    wconn,        \* the conn structure it is setting up or tearing down
    \* conn structures
    heap,         \* allocated structures
    sfd,          \* [Conns]: c->sfd
    base,         \* [Conns]: the worker whose event base has c->event, or None
    freeconns,    \* the free list, freeconns[0] .. freeconns[freecurr - 1]
    freetotal

dispatcher == <<dfd, pushed, last_thread>>
notices    == <<pipe, lost>>
worker     == <<pc, wfd, wconn>>
structs    == <<heap, sfd, base>>
freelist   == <<freeconns, freetotal>>

vars == <<arrived, gone, peer, dispatcher, queue, notices, worker, structs, freelist>>

Init ==
    /\ arrived = {} /\ gone = {}
    /\ peer = [f \in Fds |-> None]
    /\ dfd = None /\ pushed = FALSE /\ last_thread = NThreads - 1
    /\ queue = [t \in Threads |-> <<>>]
    /\ pipe = [t \in Threads |-> 0] /\ lost = [t \in Threads |-> 0]
    /\ pc = [t \in Threads |-> "event_loop"]
    /\ wfd = [t \in Threads |-> None]
    /\ wconn = [t \in Threads |-> None]
    /\ heap = {}
    /\ sfd = [c \in Conns |-> None]
    /\ base = [c \in Conns |-> None]
    /\ freeconns = <<>> /\ freetotal = FreeTotal

Known == arrived \cup gone \cup {peer[f] : f \in Fds}

\* A client's connection completes in the kernel.
Connect ==
    /\ \E c \in Clients \ Known : arrived' = arrived \cup {c}
    /\ UNCHANGED <<gone, peer, dispatcher, queue, notices, worker, structs, freelist>>

-----------------------------------------------------------------------------
(* The main thread *)

\* accept(); with no descriptor left (EMFILE) the client stays in the backlog.
\* When fcntl fails the socket is closed again.
Accept ==
    /\ dfd = None
    /\ \E c \in arrived, f \in Fds :
        /\ peer[f] = None
        /\ arrived' = arrived \ {c}
        /\ \/ /\ peer' = [peer EXCEPT ![f] = c]
              /\ dfd' = f
              /\ UNCHANGED gone
           \/ /\ Faults
              /\ gone' = gone \cup {c}
              /\ UNCHANGED <<peer, dfd>>
    /\ UNCHANGED <<pushed, last_thread, queue, notices, worker, structs, freelist>>

NextThreadUnwrapped == last_thread + 1    \* mutant: runs past the last worker
NextThread == (last_thread + 1) % NThreads

ConnQueuePush(t, f) == queue' = [queue EXCEPT ![t] = Append(@, f)]

\* dispatch_conn_new, up to the end of conn_queue_push.
Push ==
    /\ dfd # None /\ ~pushed
    /\ last_thread' = NextThread
    /\ ConnQueuePush(NextThread, dfd)
    /\ pushed' = TRUE
    /\ UNCHANGED <<arrived, gone, peer, dfd, notices, worker, structs, freelist>>

\* The write to the notify pipe, which blocks while the pipe is full.  A failure
\* is logged and otherwise ignored.
Notify ==
    /\ dfd # None /\ pushed
    /\ \/ /\ pipe[last_thread] < PipeSize
          /\ pipe' = [pipe EXCEPT ![last_thread] = @ + 1]
          /\ UNCHANGED lost
       \/ /\ Faults
          /\ lost' = [lost EXCEPT ![last_thread] = @ + 1]
          /\ UNCHANGED pipe
    /\ dfd' = None /\ pushed' = FALSE
    /\ UNCHANGED <<arrived, gone, peer, last_thread, queue, worker, structs, freelist>>

-----------------------------------------------------------------------------
(* A worker adopts a connection: thread_new_conn_handler and conn_new *)

\* bytes one read() of the notify pipe takes
ConsumedAll(t) == pipe[t]    \* mutant: one read empties the pipe
Consumed(t) == 1

\* The pipe is readable.  If read() fails nothing is consumed, and buf[0] is not
\* initialised: it happens to be 'c', or the handler returns without effect.
ReadNotify(t) ==
    /\ pc[t] = "event_loop"
    /\ pipe[t] > 0
    /\ \/ /\ pipe' = [pipe EXCEPT ![t] = @ - Consumed(t)]
          /\ pc' = [pc EXCEPT ![t] = "pop"]
       \/ /\ Faults
          /\ pc' = [pc EXCEPT ![t] = "pop"]
          /\ UNCHANGED pipe
    /\ UNCHANGED <<arrived, gone, peer, dispatcher, queue, lost, wfd, wconn, structs, freelist>>

\* conn_queue_pop; an empty queue is no error.
Pop(t) ==
    /\ pc[t] = "pop"
    /\ IF queue[t] = <<>>
       THEN /\ pc' = [pc EXCEPT ![t] = "event_loop"]
            /\ UNCHANGED <<wfd, queue>>
       ELSE /\ wfd' = [wfd EXCEPT ![t] = Head(queue[t])]
            /\ queue' = [queue EXCEPT ![t] = Tail(@)]
            /\ pc' = [pc EXCEPT ![t] = "conn_new"]
    /\ UNCHANGED <<arrived, gone, peer, dispatcher, notices, wconn, structs, freelist>>

\* conn_new takes a structure from the free list or allocates one; without
\* either the handler closes the socket.
ConnNew(t) ==
    /\ pc[t] = "conn_new"
    /\ \/ /\ freeconns # <<>>
          /\ wconn' = [wconn EXCEPT ![t] = freeconns[Len(freeconns)]]
          /\ freeconns' = SubSeq(freeconns, 1, Len(freeconns) - 1)
          /\ pc' = [pc EXCEPT ![t] = "event_add"]
          /\ UNCHANGED heap
       \/ /\ freeconns = <<>>
          /\ \E c \in Conns \ heap :
                /\ heap' = heap \cup {c}
                /\ wconn' = [wconn EXCEPT ![t] = c]
          /\ pc' = [pc EXCEPT ![t] = "event_add"]
          /\ UNCHANGED freeconns
       \/ /\ freeconns = <<>>
          /\ Faults \/ heap = Conns
          /\ pc' = [pc EXCEPT ![t] = "close"]
          /\ UNCHANGED <<heap, wconn, freeconns>>
    /\ UNCHANGED <<arrived, gone, peer, dispatcher, queue, notices, wfd, sfd, base, freetotal>>

\* The rest of conn_new: from event_add on the connection is live.  If that
\* fails the structure is given back and the handler closes the socket.
EventAdd(t) ==
    /\ pc[t] = "event_add"
    /\ sfd' = [sfd EXCEPT ![wconn[t]] = wfd[t]]
    /\ \/ /\ base' = [base EXCEPT ![wconn[t]] = t]
          /\ wconn' = [wconn EXCEPT ![t] = None]
          /\ wfd' = [wfd EXCEPT ![t] = None]
          /\ pc' = [pc EXCEPT ![t] = "event_loop"]
       \/ /\ Faults
          /\ pc' = [pc EXCEPT ![t] = "give_back_close"]
          /\ UNCHANGED <<base, wconn, wfd>>
    /\ UNCHANGED <<arrived, gone, peer, dispatcher, queue, notices, heap, freelist>>

-----------------------------------------------------------------------------
(* conn_add_to_freelist and close *)

\* conn_add_to_freelist(c), with conn_free when a full list cannot be enlarged.
GiveBack(c) ==
    \/ /\ freeconns' = Append(freeconns, c)
       /\ freetotal' = IF Len(freeconns) < freetotal THEN freetotal ELSE 2 * freetotal
       /\ UNCHANGED heap
    \/ /\ Faults
       /\ Len(freeconns) >= freetotal
       /\ heap' = heap \ {c}
       /\ UNCHANGED freelist

\* conn_close is done; a failed conn_new leaves the socket to its caller.
AfterGiveBackDone(p) == "event_loop"    \* mutant: the caller forgets the socket
AfterGiveBack(p) == IF p = "give_back" THEN "event_loop" ELSE "close"

AddToFreelist(t) ==
    /\ pc[t] \in {"give_back", "give_back_close"}
    /\ GiveBack(wconn[t])
    /\ wconn' = [wconn EXCEPT ![t] = None]
    /\ pc' = [pc EXCEPT ![t] = AfterGiveBack(@)]
    /\ UNCHANGED <<arrived, gone, peer, dispatcher, queue, notices, wfd, sfd, base>>

\* close(fd): from here on the dispatcher may be given the same number again.
CloseFd(t) ==
    /\ pc[t] \in {"close", "conn_close"}
    /\ gone' = gone \cup {peer[wfd[t]]}
    /\ peer' = [peer EXCEPT ![wfd[t]] = None]
    /\ wfd' = [wfd EXCEPT ![t] = None]
    /\ pc' = [pc EXCEPT ![t] = IF @ = "close" THEN "event_loop" ELSE "give_back"]
    /\ UNCHANGED <<arrived, dispatcher, queue, notices, wconn, structs, freelist>>

\* event_del in conn_close: no event of the structure is pending any more.
EventDelNothing(c) == UNCHANGED base    \* mutant: the event stays registered
EventDel(c) == base' = [base EXCEPT ![c] = None]

\* A live connection's state machine arrives in conn_closing.
ConnClose(t) ==
    /\ pc[t] = "event_loop"
    /\ \E c \in Conns :
        /\ base[c] = t
        /\ EventDel(c)
        /\ wconn' = [wconn EXCEPT ![t] = c]
        /\ wfd' = [wfd EXCEPT ![t] = sfd[c]]
    /\ pc' = [pc EXCEPT ![t] = "conn_close"]
    /\ UNCHANGED <<arrived, gone, peer, dispatcher, queue, notices, heap, sfd, freelist>>

-----------------------------------------------------------------------------
Adopt(t) == ReadNotify(t) \/ Pop(t) \/ ConnNew(t) \/ EventAdd(t)
Release(t) == AddToFreelist(t) \/ CloseFd(t)

Next ==
    \/ Connect \/ Accept \/ Push \/ Notify
    \/ \E t \in Threads : Adopt(t) \/ Release(t) \/ ConnClose(t)

Spec == Init /\ [][Next]_vars

\* The main thread and the workers keep running; clients need not connect and
\* live connections need not end.
FairSpec ==
    /\ Spec
    /\ WF_vars(Accept) /\ WF_vars(Push) /\ WF_vars(Notify)
    /\ \A t \in Threads : WF_vars(Adopt(t) \/ Release(t))
-----------------------------------------------------------------------------
(* Properties *)

PCs == {"event_loop", "pop", "conn_new", "event_add", "give_back_close", "close",
        "conn_close", "give_back"}

TypeOK ==
    /\ arrived \subseteq Clients
    /\ gone \subseteq Clients
    /\ peer \in [Fds -> Clients \cup {None}]
    /\ dfd \in Fds \cup {None}
    /\ pushed \in BOOLEAN
    /\ last_thread \in Threads
    /\ queue \in [Threads -> Seq(Fds)]
    /\ pipe \in [Threads -> 0..PipeSize]
    /\ lost \in [Threads -> Nat]
    /\ pc \in [Threads -> PCs]
    /\ wfd \in [Threads -> Fds \cup {None}]
    /\ wconn \in [Threads -> Conns \cup {None}]
    /\ heap \subseteq Conns
    /\ sfd \in [Conns -> Fds \cup {None}]
    /\ base \in [Conns -> Threads \cup {None}]
    /\ freeconns \in Seq(Conns)
    /\ freetotal \in Nat

\* The places a structure is referred to from.
ConnHolders(c) ==
    {<<"freeconns", i>> : i \in {i \in DOMAIN freeconns : freeconns[i] = c}}
    \cup {<<"worker", t>> : t \in {t \in Threads : wconn[t] = c}}
    \cup {<<"live", t>> : t \in {t \in Threads : base[c] = t}}

ExactlyOne(S) == S # {} /\ \A x, y \in S : x = y

\* An allocated conn structure is in one place at any time: once on the free
\* list, in the hands of one worker, or live in one event base; a structure
\* given back to malloc is in none.  Two workers never drive the same one.
ConnExclusive ==
    \A c \in Conns : IF c \in heap THEN ExactlyOne(ConnHolders(c))
                                    ELSE ConnHolders(c) = {}

\* The positions of a socket in the queue of worker t.
Positions(t, f) ==
    {<<"queue", t, i>> : i \in {i \in DOMAIN queue[t] : queue[t][i] = f}}

\* The places a socket is referred to from.
FdHolders(f) ==
    {<<"dispatcher", d>> : d \in {d \in {dfd} : d = f /\ ~pushed}}
    \cup (UNION {Positions(t, f) : t \in Threads})
    \cup {<<"worker", t>> : t \in {t \in Threads : wfd[t] = f}}
    \cup {<<"live", c>> : c \in {c \in Conns : base[c] # None /\ sfd[c] = f}}

\* Every open socket has exactly one holder and no closed one has any, however
\* soon the kernel hands its number out again: no socket is leaked, closed
\* twice, or watched by an event base after it was closed.
FdExclusive ==
    \A f \in Fds : IF peer[f] # None THEN ExactlyOne(FdHolders(f))
                                     ELSE FdHolders(f) = {}

\* Each queued socket is covered by a notification that is still to be written,
\* in the pipe, or already read, so that none waits for the next client to come;
\* only a failed write to the pipe can strand one.
NoneStranded ==
    \A t \in Threads :
        Len(queue[t]) <= pipe[t] + lost[t]
                         + (IF pushed /\ last_thread = t THEN 1 ELSE 0)
                         + (IF pc[t] = "pop" THEN 1 ELSE 0)

Live(c) == \E k \in Conns : base[k] # None /\ peer[sfd[k]] = c

\* Every client that connects is adopted by a worker or closed, as long as
\* there are descriptors for all of them.
Adopted == \A c \in Clients : c \in arrived ~> Live(c) \/ c \in gone
=============================================================================
