------------------------------ MODULE Connection ------------------------------
(***************************************************************************)
(* One client connection: the state machine that drive_machine (server.c)  *)
(* runs for it whenever libevent reports its socket ready, the socket, and *)
(* the client at the other end.  Each iteration of drive_machine's loop is *)
(* one action, as is each iteration of read_network's loop, because bytes  *)
(* may arrive between two system calls.  After conn_close the structure    *)
(* waits on the free list and may be recycled by conn_new.                 *)
(***************************************************************************)
EXTENDS Requests, Integers

CONSTANTS
    Scripts,      \* the request sequences a client may send
    ReqPerEvent,  \* REQ_PER_EVENT, 20 in server.c
    InitRsize,    \* DATA_BUFFER_SIZE, 2048 in connections.h
    MaxAllocs,    \* MAX_ALLOCS, 4 in server.c
    LineMax,      \* a longer unterminated line must be a get, 1024 in server.c
    SndBuf,       \* room in the kernel's send buffer, in reply units
    Waits,        \* the delays config.rtt_* can draw; {} when config.alloc is off
    Faults,       \* TRUE: malloc, realloc and libevent calls may fail
    Hangup,       \* TRUE: the client may half-close or reset the connection
    MaxLives      \* bound: how many clients use the structure

ASSUME ConnectionAssumption ==
    /\ Scripts \subseteq Seq(Request)
    /\ ReqPerEvent \in Nat \ {0}
    /\ InitRsize \in Nat \ {0}
    /\ MaxAllocs \in Nat
    /\ LineMax \in Nat
    /\ SndBuf \in Nat \ {0}
    /\ Waits \subseteq Nat
    /\ Faults \in BOOLEAN
    /\ Hangup \in BOOLEAN
    /\ MaxLives \in Nat
    /\ IntMax \in Nat

VARIABLES
    \* the client
    script,       \* what this client sends in all (never changes in a life)
    todo,         \* requests it has not started to send
    unsent,       \* the rest of the request it is sending
    replies,      \* reply units it has read
    lives,        \* clients so far
    \* the socket
    sock,         \* bytes in the kernel's receive queue
    peer,         \* "open", "shut" (client closed its sending side), "reset"
    snd,          \* reply units in the kernel's send queue
    \* conn: state handling
    active,       \* drive_machine is running for this connection
    state,        \* c->state, or "closed" when on the free list
    after_write,  \* c->after_write
    ev,           \* c->ev_flags: "read", "write", or "none"
    nreqs,        \* drive_machine's nreqs
    \* conn: input
    rbuf,         \* the unparsed bytes, c->rcurr .. c->rcurr + c->rbytes
    roff,         \* c->rcurr - c->rbuf
    rsize,        \* c->rsize
    num_allocs,   \* read_network's num_allocs
    received,     \* read_network's ret is READ_DATA_RECEIVED
    sbytes,       \* c->sbytes, value bytes still to swallow
    \* conn: output and memory
    out,          \* reply units in wbuf or msglist, not handed to the kernel
    ileft,        \* c->ileft, items retained for the reply
    mem_blob,     \* c->mem_blob != NULL
    mem_free_delay, \* c->mem_free_delay
    requests,     \* c->stats->requests, as far as this client raised it
    \* history, read by no action
    handled,      \* command lines processed in this run of drive_machine
    answered,     \* requests of script done with
    refused,      \* the last of them was a set whose data block is still to be read
    stillDue      \* requests the blob must still survive

client == <<script, todo, unsent, replies, lives>>
socket == <<sock, peer, snd>>
input  == <<rbuf, roff, rsize, num_allocs, received>>
output == <<out, ileft>>
blob   == <<mem_blob, mem_free_delay, stillDue>>
progress == <<answered, refused>>
counts == <<requests, handled, progress>>

vars == <<client, socket, active, state, after_write, ev, nreqs, input,
          sbytes, output, blob, counts>>

States == {"conn_new_cmd", "conn_waiting", "conn_read", "conn_parse_cmd",
           "conn_read_value", "conn_write", "conn_mwrite", "conn_closing",
           "closed"}

Lesser(a, b) == IF a <= b THEN a ELSE b
Take(s, k) == SubSeq(s, 1, k)
Drop(s, k) == SubSeq(s, k + 1, Len(s))

-----------------------------------------------------------------------------
\* The first client's connection: conn_new on a freshly allocated structure.
Init ==
    /\ script \in Scripts /\ todo = script /\ unsent = <<>> /\ replies = <<>>
    /\ lives = 1
    /\ sock = <<>> /\ peer = "open" /\ snd = <<>>
    /\ active = FALSE
    /\ state = "conn_new_cmd" /\ after_write = "conn_new_cmd"
    /\ ev = "read"
    /\ nreqs = ReqPerEvent
    /\ rbuf = <<>> /\ roff = 0 /\ rsize = InitRsize
    /\ num_allocs = 0 /\ received = FALSE
    /\ sbytes = 0
    /\ out = <<>> /\ ileft = 0
    /\ mem_blob = FALSE /\ mem_free_delay = 0 /\ stillDue = 0
    /\ requests = 0 /\ handled = 0 /\ answered = 0 /\ refused = FALSE

\* conn_new on a structure from the free list: rsize, sbytes and mem_free_delay
\* keep the values the last client left behind.
ConnNew ==
    /\ state' = "conn_new_cmd" /\ after_write' = "conn_new_cmd"
    /\ ev' = "read"
    /\ rbuf' = <<>> /\ roff' = 0
    /\ out' = <<>> /\ ileft' = 0
    /\ UNCHANGED <<active, nreqs, rsize, num_allocs, received, sbytes, blob>>

\* Another client connects and is given the closed structure.
Recycle ==
    /\ state = "closed"
    /\ lives < MaxLives
    /\ lives' = lives + 1
    /\ script' \in Scripts /\ todo' = script' /\ unsent' = <<>> /\ replies' = <<>>
    /\ sock' = <<>> /\ peer' = "open" /\ snd' = <<>>
    /\ requests' = 0 /\ handled' = 0 /\ answered' = 0 /\ refused' = FALSE
    /\ ConnNew

-----------------------------------------------------------------------------
(* The client and the network. *)

\* One more byte of the client's script reaches the server's socket.
ClientSend ==
    /\ peer = "open"
    /\ state # "closed"
    /\ unsent # <<>> \/ todo # <<>>
    /\ LET s == IF unsent # <<>> THEN unsent ELSE Wire(Head(todo))
       IN  /\ sock' = Append(sock, Head(s))
           /\ unsent' = Tail(s)
    /\ todo' = IF unsent # <<>> THEN todo ELSE Tail(todo)
    /\ UNCHANGED <<script, replies, lives, peer, snd, active, state, after_write,
                   ev, nreqs, input, sbytes, output, blob, counts>>

\* The client reads one reply unit, which makes room in the send buffer.
ClientRecv ==
    /\ snd # <<>>
    /\ replies' = Append(replies, Head(snd))
    /\ snd' = Tail(snd)
    /\ UNCHANGED <<script, todo, unsent, lives, sock, peer, active, state,
                   after_write, ev, nreqs, input, sbytes, output, blob, counts>>

\* The client closes its sending side, or the connection is reset.
ClientHangup ==
    /\ Hangup
    /\ state # "closed"
    /\ \/ peer = "open" /\ peer' \in {"shut", "reset"}
       \/ peer = "shut" /\ peer' = "reset"
    /\ UNCHANGED <<client, sock, snd, active, state, after_write, ev, nreqs,
                   input, sbytes, output, blob, counts>>

Room == SndBuf - Len(snd)

\* read() returns 0 or an error; data queued before a reset may or may not be lost.
StreamEndedByReset == peer = "reset"    \* mutant: end of stream goes unnoticed
StreamEnded == (sock = <<>> /\ peer = "shut") \/ peer = "reset"

-----------------------------------------------------------------------------
(* libevent *)

\* What event_base_loop reports for the registered interest (level-triggered).
Ready ==
    \/ ev = "read"  /\ (sock # <<>> \/ peer # "open")
    \/ ev = "write" /\ (Room > 0 \/ peer = "reset")

\* event_handler enters drive_machine with a fresh request budget.
EventHandler ==
    /\ ~active
    /\ state # "closed"
    /\ Ready
    /\ active' = TRUE
    /\ nreqs' = ReqPerEvent
    /\ handled' = 0
    /\ UNCHANGED <<client, socket, state, after_write, ev, input, sbytes, output,
                   blob, requests, progress>>

Running(s) == active /\ state = s

Goto(s) == state' = s /\ UNCHANGED <<active, ev>>

\* conn_update_event(c, flags), then leave drive_machine in state s.  It fails
\* in event_del (ev_flags kept) or in event_add (ev_flags already replaced);
\* every caller then goes on to conn_closing.
Await(flags, s) ==
    \/ /\ ev' = flags
       /\ state' = s
       /\ active' = FALSE
    \/ /\ Faults
       /\ ev # flags
       /\ ev' \in {ev, flags}
       /\ state' = "conn_closing"
       /\ UNCHANGED active

-----------------------------------------------------------------------------
(* drive_machine, one action per state *)

\* The event that wakes a connection which used up its budget: unparsed bytes
\* are already in rbuf, so the socket may never become readable again.
YieldEventReadOnly == "read"    \* mutant: wait for input although some is buffered
YieldEvent == IF rbuf # <<>> THEN "write" ELSE "read"

MayContinueOnceMore(n) == n >= -1    \* mutant: budget checked one too late
MayContinue(n) == n >= 0

\* reset_cmd_handler; conn_shrink, which it calls, has no body.
ResetCmdHandler == Goto(IF rbuf # <<>> THEN "conn_parse_cmd" ELSE "conn_waiting")

\* case conn_new_cmd
NewCmd ==
    /\ Running("conn_new_cmd")
    /\ mem_blob' = (mem_blob /\ mem_free_delay > 0)
    /\ mem_free_delay' = IF mem_free_delay > 0 THEN mem_free_delay - 1 ELSE 0
    /\ nreqs' = nreqs - 1
    /\ IF MayContinue(nreqs - 1)
       THEN ResetCmdHandler
       ELSE Await(YieldEvent, "conn_new_cmd")
    /\ UNCHANGED <<client, socket, after_write, input, sbytes, output, stillDue, counts>>

\* case conn_waiting
Waiting ==
    /\ Running("conn_waiting")
    /\ Await("read", "conn_read")
    /\ UNCHANGED <<client, socket, after_write, nreqs, input, sbytes, output,
                   blob, counts>>

\* read_network first moves the unparsed bytes to the front of the buffer.
NoCompact == UNCHANGED roff    \* mutant: rcurr is left where it was
Compact == roff' = 0

\* The buffer is doubled when it is full.
Grown == IF Len(rbuf) >= rsize THEN 2 * rsize ELSE rsize

\* read_network returns; its locals are reset for the next call.
ReturnFromRead(s) ==
    /\ num_allocs' = 0
    /\ received' = FALSE
    /\ Goto(s)

AfterRead(got) == IF got THEN "conn_parse_cmd" ELSE "conn_waiting"

\* The buffer is full and was doubled often enough in this call.
ReadEnough ==
    /\ Len(rbuf) >= rsize
    /\ num_allocs = MaxAllocs
    /\ ReturnFromRead(AfterRead(received))
    /\ UNCHANGED <<sock, rbuf, rsize, out, after_write, progress>>

\* realloc fails: READ_MEMORY_ERROR, one last reply and then conn_closing.
ReadNoMemory ==
    /\ Faults
    /\ Len(rbuf) >= rsize
    /\ num_allocs < MaxAllocs
    /\ rbuf' = <<>>
    /\ out' = <<"SERVER_ERROR">>
    /\ ReturnFromRead("conn_write")
    /\ after_write' = "conn_closing"
    /\ answered' = Len(script) /\ refused' = FALSE
    /\ UNCHANGED <<sock, rsize>>

\* read() returns data, as much as fits; a full buffer is read into again.
ReadData ==
    LET avail == Grown - Len(rbuf)
        n == Lesser(avail, Len(sock))
    IN  /\ sock # <<>>
        /\ rbuf' = rbuf \o Take(sock, n)
        /\ sock' = Drop(sock, n)
        /\ IF n < avail
           THEN ReturnFromRead(AfterRead(TRUE))
           ELSE /\ received' = TRUE
                /\ num_allocs' = IF Grown # rsize THEN num_allocs + 1 ELSE num_allocs
                /\ UNCHANGED <<active, state, ev>>

\* read() finds nothing (EAGAIN), the end of the stream, or an error.
ReadNothing ==
    /\ \/ /\ sock = <<>>
          /\ peer = "open"
          /\ ReturnFromRead(AfterRead(received))
       \/ /\ StreamEnded
          /\ ReturnFromRead("conn_closing")
    /\ UNCHANGED <<rbuf, sock>>

\* One read(), into a buffer that has room or has just been doubled.
ReadSome ==
    /\ Len(rbuf) >= rsize => num_allocs < MaxAllocs
    /\ rsize' = Grown
    /\ ReadData \/ ReadNothing
    /\ UNCHANGED <<out, after_write, progress>>

\* case conn_read
Read ==
    /\ Running("conn_read")
    /\ Compact
    /\ ReadEnough \/ ReadNoMemory \/ ReadSome
    /\ UNCHANGED <<client, peer, snd, nreqs, sbytes, ileft, blob, requests, handled>>

-----------------------------------------------------------------------------
(* read_command and process_command *)

NewlineAt(k) ==
    /\ k \in 1..Len(rbuf)
    /\ rbuf[k].end
    /\ \A j \in 1..k - 1 : ~rbuf[j].end

\* Without a '\n' more data is needed; past LineMax bytes only a get may go on.
NeedMoreData ==
    /\ \A k \in 1..Len(rbuf) : ~rbuf[k].end
    /\ Goto(IF Len(rbuf) > LineMax /\ rbuf[1].req.cmd \notin {"get", "badget"}
            THEN "conn_closing" ELSE "conn_waiting")
    /\ UNCHANGED <<rbuf, roff, out, ileft, after_write, sbytes, blob, counts>>

\* One more request passes while the blob, if any, is held.
KeepBlob ==
    /\ UNCHANGED <<mem_blob, mem_free_delay>>
    /\ stillDue' = stillDue - Lesser(1, stillDue)

\* process_get_command draws a blob to hold for some requests, unless one is held.
AllocBlob ==
    IF Waits # {} /\ ~mem_blob
    THEN /\ mem_blob' \in (IF Faults THEN BOOLEAN ELSE {TRUE})
         /\ mem_free_delay' \in Waits
         /\ stillDue' = mem_free_delay'
    ELSE KeepBlob

\* error_response: replaces any pending output.
ErrorResponse(units) ==
    /\ out' = units
    /\ Goto("conn_write")
    /\ after_write' = "conn_new_cmd"

\* c->ileft: one item per key
RetainedLessOne(r) == r.n - 1    \* mutant: the last item is forgotten
Retained(r) == r.n

\* process_get_command, all keys hit
ProcessGet(r) ==
    /\ r.cmd = "get"
    /\ AllocBlob
    /\ out' = Reply(r)
    /\ ileft' = Retained(r)
    /\ Goto("conn_mwrite")
    /\ UNCHANGED <<after_write, sbytes>>

\* conn_expand_items or conn_add_iov fails at key j: the break leaves only the
\* inner loop, the key is cut again and tried until memory is found, and the keys
\* behind it are lost.  When END cannot be added, error_response replaces it all.
GetOutOfMemory(r) ==
    /\ Faults
    /\ r.cmd \in {"get", "badget"}
    /\ AllocBlob
    /\ \E j \in 1..r.n :
          /\ ileft' = j
          /\ \/ /\ \E u \in {"VALUE", "TORN"} : out' = CutReply(j, u)
                /\ Goto("conn_mwrite")
                /\ UNCHANGED after_write
             \/ ErrorResponse(<<"SERVER_ERROR">>)
    /\ UNCHANGED sbytes

\* the value's bytes and the "\r\n" behind them, in an int
SwallowValueAndCR(vlen) == vlen + 1    \* mutant: "\r\n" counted as one byte
SwallowWithoutEnd(vlen) == vlen - 2    \* mutant: the "\r\n" counted the wrong way
SwallowLength(vlen) ==
    IF vlen + 2 <= IntMax THEN vlen + 2 ELSE vlen + 2 - 2 * (IntMax + 1)

\* process_update_command
ProcessUpdate(r) ==
    /\ r.cmd = "set"
    /\ KeepBlob
    /\ out' = <<>>
    /\ sbytes' = SwallowLength(r.n)
    /\ Goto("conn_read_value")
    /\ UNCHANGED <<after_write, ileft>>

\* process_stat_command prints on the server side only
ProcessStat(r) ==
    /\ r.cmd = "stats"
    /\ KeepBlob
    /\ out' = <<>>
    /\ Goto("conn_new_cmd")
    /\ UNCHANGED <<after_write, ileft, sbytes>>

\* lines answered with an error by parse_command or a handler
ProcessBad(r) ==
    /\ r.cmd \in {"badget", "badset", "unknown"}
    /\ IF r.cmd = "badget" THEN AllocBlob ELSE KeepBlob
    /\ ErrorResponse(Reply(r))
    /\ UNCHANGED <<ileft, sbytes>>

\* parse_command: the handler for a line
RunCommand(r) ==
    ProcessGet(r) \/ GetOutOfMemory(r) \/ ProcessUpdate(r) \/ ProcessStat(r) \/ ProcessBad(r)

\* A whole line is taken off the buffer and processed.
ProcessCommand ==
    \E k \in 1..Len(rbuf) :
        /\ NewlineAt(k)
        /\ LET r == ParseCommand(Take(rbuf, k))
           IN  /\ RunCommand(r)
               /\ requests' = IF r.cmd = "unknown" THEN requests ELSE requests + 1
               /\ answered' = IF r.cmd = "set" \/ refused THEN answered ELSE answered + 1
               /\ refused' = (r.cmd = "badset")
        /\ rbuf' = Drop(rbuf, k)
        /\ roff' = roff + k
        /\ handled' = handled + 1

\* case conn_parse_cmd
ParseCmd ==
    /\ Running("conn_parse_cmd")
    /\ NeedMoreData \/ ProcessCommand
    /\ UNCHANGED <<client, socket, nreqs, rsize, num_allocs, received>>

-----------------------------------------------------------------------------
(* conn_read_value, conn_swallow, conn_write and conn_mwrite *)

\* The whole value is swallowed: error_response(c, "STORED").
ValueComplete ==
    /\ sbytes = 0
    /\ ErrorResponse(<<"STORED">>)
    /\ answered' = answered + 1
    /\ UNCHANGED <<sbytes, rbuf, roff, sock, refused>>

\* Value bytes that came with the command line are skipped in the buffer.
SwallowBuffered ==
    /\ sbytes > 0
    /\ rbuf # <<>>
    /\ LET tocopy == Lesser(Len(rbuf), sbytes)
       IN  /\ sbytes' = sbytes - tocopy
           /\ roff' = roff + tocopy
           /\ rbuf' = Drop(rbuf, tocopy)
    /\ UNCHANGED <<active, state, ev, after_write, out, progress, sock>>

\* The others are read from the socket and thrown away.
SwallowSocket ==
    /\ sbytes > 0
    /\ rbuf = <<>>
    /\ \/ /\ sock # <<>>
          /\ LET n == Lesser(Len(sock), Lesser(rsize, sbytes))
             IN  sock' = Drop(sock, n) /\ sbytes' = sbytes - n
          /\ UNCHANGED <<active, state, ev>>
       \/ /\ StreamEnded
          /\ Goto("conn_closing")
          /\ UNCHANGED <<sock, sbytes>>
       \/ /\ sock = <<>>
          /\ peer = "open"
          /\ Await("read", "conn_read_value")
          /\ UNCHANGED <<sock, sbytes>>
    /\ UNCHANGED <<after_write, out, rbuf, roff, progress>>

\* case conn_read_value, falling through to conn_swallow
ReadValue ==
    /\ Running("conn_read_value")
    /\ ValueComplete \/ SwallowBuffered \/ SwallowSocket
    /\ UNCHANGED <<client, peer, snd, nreqs, rsize, num_allocs, received, ileft,
                   blob, requests, handled>>

\* All output is written: a get's items are released, a simple reply goes on
\* to after_write.
TransmitComplete ==
    /\ out = <<>>
    /\ IF state = "conn_mwrite"
       THEN ileft' = 0 /\ Goto("conn_new_cmd")
       ELSE UNCHANGED ileft /\ Goto(after_write)
    /\ UNCHANGED <<out, snd>>

\* sendmsg takes what fits in the send buffer, of one msghdr at a time.
TransmitIncomplete ==
    /\ out # <<>>
    /\ peer # "reset"
    /\ \E n \in 1..Lesser(Len(out), Room) :
          snd' = snd \o Take(out, n) /\ out' = Drop(out, n)
    /\ UNCHANGED <<ileft, active, state, ev>>

\* The send buffer is full (TRANSMIT_SOFT_ERROR): wait until it has room.
TransmitSoftError ==
    /\ out # <<>>
    /\ peer # "reset"
    /\ Room = 0
    /\ Await("write", state)
    /\ UNCHANGED <<out, snd, ileft>>

\* sendmsg fails for good (TRANSMIT_HARD_ERROR).
TransmitHardError ==
    /\ out # <<>>
    /\ peer = "reset"
    /\ Goto("conn_closing")
    /\ UNCHANGED <<out, snd, ileft>>

\* cases conn_write and conn_mwrite: transmit
Transmit ==
    /\ Running("conn_write") \/ Running("conn_mwrite")
    /\ \/ TransmitComplete \/ TransmitIncomplete
       \/ TransmitSoftError \/ TransmitHardError
    /\ UNCHANGED <<client, sock, peer, after_write, nreqs, input, sbytes, blob, counts>>

\* case conn_closing: conn_close
ConnClose ==
    /\ Running("conn_closing")
    /\ state' = "closed"
    /\ active' = FALSE
    /\ ev' = "none"
    /\ mem_blob' = FALSE
    /\ UNCHANGED <<client, socket, after_write, nreqs, input, sbytes, output,
                   mem_free_delay, stillDue, counts>>

-----------------------------------------------------------------------------
DriveMachine == \/ NewCmd \/ Waiting \/ Read \/ ParseCmd \/ ReadValue
                \/ Transmit \/ ConnClose

Next == \/ EventHandler \/ DriveMachine
        \/ ClientSend \/ ClientRecv \/ ClientHangup \/ Recycle

Spec == Init /\ [][Next]_vars

\* The worker's event loop never stops; the client goes on sending and reading.
FairSpec ==
    /\ Spec
    /\ WF_vars(EventHandler \/ DriveMachine)
    /\ WF_vars(ClientSend)
    /\ WF_vars(ClientRecv)
-----------------------------------------------------------------------------
(* Properties *)

TypeOK ==
    /\ script \in Seq(Request)
    /\ todo \in Seq(Request)
    /\ unsent \in Seq(Byte)
    /\ replies \in Seq(Units)
    /\ lives \in Nat
    /\ sock \in Seq(Byte)
    /\ peer \in {"open", "shut", "reset"}
    /\ snd \in Seq(Units)
    /\ active \in BOOLEAN
    /\ state \in States
    /\ after_write \in {"conn_new_cmd", "conn_closing"}
    /\ ev \in {"read", "write", "none"}
    /\ nreqs \in Int
    /\ rbuf \in Seq(Byte)
    /\ roff \in Nat
    /\ rsize \in Nat \ {0}
    /\ num_allocs \in 0..MaxAllocs
    /\ received \in BOOLEAN
    /\ sbytes \in Nat
    /\ out \in Seq(Units)
    /\ ileft \in Nat
    /\ mem_blob \in BOOLEAN
    /\ mem_free_delay \in Nat
    /\ stillDue \in Nat
    /\ requests \in Nat
    /\ handled \in Nat
    /\ answered \in Nat
    /\ refused \in BOOLEAN

NoLineIn(buf) == \A k \in 1..Len(buf) : ~buf[k].end

\* A connection that drive_machine has left is waiting for the right event: to
\* write, when it has output or buffered input to work on; to read, only when
\* it holds no complete command line and no output.  Otherwise it would sleep
\* on work it already has until the client happens to send more.
WakeupArmed ==
    ~active /\ state # "closed" =>
        \/ /\ ev = "write"
           /\ out # <<>> \/ (state = "conn_new_cmd" /\ rbuf # <<>>)
        \/ /\ ev = "read"
           /\ out = <<>>
           /\ NoLineIn(rbuf)

\* The unparsed bytes lie inside the read buffer (the asserts on rcurr in
\* read_command), and read_command is only entered with some (its assert on
\* rbytes), however reads, parsing and swallowing are interleaved.
ReadBufferSound ==
    /\ roff + Len(rbuf) <= rsize
    /\ Running("conn_parse_cmd") => rbuf # <<>>

\* One event makes a connection process at most REQ_PER_EVENT + 1 commands: the
\* budget is charged in conn_new_cmd, and an event that starts in conn_read
\* reaches its first command without passing there.
RequestBudget == handled <= ReqPerEvent + 1

\* Items stay retained (ileft) until the last reply unit that refers to one has
\* been handed to the kernel, over any number of partial writes.
RetainedUntilSent == state = "conn_mwrite" => Len(out) <= ileft + 1

\* The connection answers like InOrderService: every request once, in order and
\* with its own reply, but for the extra ERROR behind a refused set and the replies
\* to a get that ran out of memory; nothing of one client reaches the next one.
Service == INSTANCE InOrderService
    WITH open    <- state # "closed",
         pending <- IF state = "closed" THEN <<>> ELSE Drop(script, answered),
         block   <- state # "closed" /\ refused,
         outq    <- IF state = "closed" THEN snd ELSE snd \o out

ServiceSpec == Service!SSpec

\* A client that keeps sending and reading gets every request answered in full,
\* and so does the next client of the same structure.
AllAnswered ==
    []<>(\/ answered = Len(script) /\ ~refused /\ out = <<>> /\ snd = <<>>
         \/ peer # "open")

\* A connection whose client is gone is eventually closed by the server.
HangupCloses == peer # "open" ~> state = "closed"

\* mem_free_delay is the "number of requests to wait before free'ing mem_blob"
\* (connections.h): a live connection without its blob has waited that long.
BlobHeldForDelay == state # "closed" /\ ~mem_blob => stillDue = 0
=============================================================================
