----------------------------- MODULE OutputBuffer -----------------------------
(***************************************************************************)
(* The vectored output of a connection: conn_add_msghdr, conn_add_iov and  *)
(* conn_ensure_iov_space (connections.c) build a list of message headers   *)
(* over one array of iovecs, transmit (server.c) sends it piecemeal, and   *)
(* process_command and error_response start it afresh.  A client builds a  *)
(* reply and then sends it; on a backend connection memcache_get also adds *)
(* a request while earlier ones are partly sent.  Implements ByteStream.   *)
(*                                                                         *)
(* Bytes are numbered as they are written; an iovec is a run of numbers.   *)
(***************************************************************************)
EXTENDS Integers, Sequences, SequencesExt

CONSTANTS
    MaxPayload,   \* MAX_PAYLOAD_SIZE, 1400 in connections.h
    IovMax,       \* IOV_MAX, 1024 on Linux
    MsgInit,      \* MSG_LIST_INITIAL, 10 in connections.h
    Starts,       \* how a connection may begin: <<whether it is a memcached_conn,
                  \* iovsize>>, at least IOV_LIST_INITIAL (400 in connections.h) and
                  \* more in a structure that grew before it was reused
    Replies,      \* the replies to a client, by the lengths of their fragments
    Requests,     \* and the requests to a backend
    Faults,       \* what may fail: the reallocs of "msglist" and of "iov", and
                  \* "event", transmit's conn_update_event
    MaxBytes      \* bound: no output is begun once so many bytes were written

ASSUME OutputBufferAssumption ==
    /\ MaxPayload \in Nat \ {0} /\ IovMax \in Nat \ {0}
    /\ MsgInit \in Nat /\ MsgInit >= 2
    /\ Starts \subseteq BOOLEAN \X (Nat \ {0})
    /\ Replies \cup Requests \subseteq Seq(Nat \ {0}) \ {<<>>}
    /\ Faults \subseteq {"msglist", "iov", "event"}
    /\ MaxBytes \in Nat

VARIABLES
    backend,  \* c->type = memcached_conn, rather than client_conn
    buf,      \* the fields of conn below
    mode,     \* where the connection is: "read" input, "build" a reply,
              \* conn_"write" or conn_"mwrite", "closing"
    todo,     \* lengths of the fragments still to be added; the first is the
              \* len of the conn_add_iov call under way
    reset,    \* the peer has reset the connection
    unscheduled,  \* history: transmit's conn_update_event has failed
    sent,     \* history: bytes sent
    written,  \* history: number of bytes written
    started   \* history: part of the output that is still pending has been sent

vars == <<backend, buf, mode, todo, reset, unscheduled, sent, written, started>>

\* iov[i + 1] stands for c->iov[i], msglist[i + 1] for c->msglist[i]; iovsize
\* and msgused are the lengths.
Buffer == [msglist : Seq([iov : Nat, len : Nat]), msgsize : Nat, msgcurr : Nat,
           msgbytes : Nat, iov : Seq([base : Nat, len : Nat]), iovused : Nat]

\* an iovec nobody has filled in
Junk == [base |-> 0, len |-> 1]

Bytes(f) == [i \in 1..f.len |-> f.base + i - 1]

Init ==
    /\ \E start \in Starts :
        /\ backend = start[1]
        /\ buf = [msglist |-> <<>>, msgsize |-> MsgInit, msgcurr |-> 0, msgbytes |-> 0,
                  iov |-> [i \in 1..start[2] |-> Junk], iovused |-> 0]
    /\ mode = "read"
    /\ todo = <<>> /\ reset = FALSE /\ unscheduled = FALSE
    /\ sent = <<>> /\ written = 0 /\ started = FALSE

-----------------------------------------------------------------------------
(* connections.c *)

MsglistFullLate(b) == Len(b.msglist) > b.msgsize    \* mutant: one header too many
MsglistFull(b) == Len(b.msglist) = b.msgsize

AddMsghdr(b) ==
    [b EXCEPT !.msgsize  = IF MsglistFull(b) THEN 2 * @ ELSE @,
              !.msglist  = Append(@, [iov |-> b.iovused, len |-> 0]),
              !.msgbytes = 0]

\* conn_add_msghdr: the buffer it leaves behind, unchanged when realloc fails
ConnAddMsghdr(b) ==
    {AddMsghdr(b)} \cup (IF MsglistFull(b) /\ "msglist" \in Faults THEN {b} ELSE {})

\* The output is empty again, as process_command and error_response begin with.
\* No realloc: MSG_LIST_INITIAL is not 0.
Emptied(b) == AddMsghdr([b EXCEPT !.msgcurr = 0, !.msglist = <<>>, !.iovused = 0])

\* After a realloc every header is pointed at the entries that follow those of
\* the headers before it.
NotRepointed(msgs) == [i \in DOMAIN msgs |-> [msgs[i] EXCEPT !.iov = 0]]    \* mutant
Repointed(msgs) ==
    LET before[i \in DOMAIN msgs] ==
            IF i = 1 THEN 0 ELSE before[i - 1] + msgs[i - 1].len
    IN  [i \in DOMAIN msgs |-> [msgs[i] EXCEPT !.iov = before[i]]]

\* conn_ensure_iov_space, when it succeeds
IovFull(b) == b.iovused >= Len(b.iov)
EnsureIovSpace(b) ==
    IF IovFull(b)
    THEN [b EXCEPT !.iov     = @ \o [i \in DOMAIN @ |-> Junk],
                   !.msglist = Repointed(@)]
    ELSE b

\* A header is full at IOV_MAX entries; the first also at MAX_PAYLOAD_SIZE bytes.
HeaderFullLate(b, limit_to_mtu) ==    \* mutant: one entry too many
    Last(b.msglist).len > IovMax \/ (limit_to_mtu /\ b.msgbytes >= MaxPayload)
HeaderFull(b, limit_to_mtu) ==
    Last(b.msglist).len = IovMax \/ (limit_to_mtu /\ b.msgbytes >= MaxPayload)

\* How much of a fragment goes into the current header.
Chunk(b, len, limit_to_mtu) ==
    IF limit_to_mtu /\ len + b.msgbytes > MaxPayload
    THEN MaxPayload - b.msgbytes
    ELSE len

\* The next n bytes become the last entry of the last header.
PutAtIovused(b, n) ==    \* mutant: the header's length is not raised
    [b EXCEPT !.iov[b.iovused + 1] = [base |-> written + 1, len |-> n],
              !.msgbytes = @ + n,
              !.iovused  = @ + 1]
Put(b, n) ==
    LET m == Last(b.msglist)
    IN  [b EXCEPT !.iov[m.iov + m.len + 1] = [base |-> written + 1, len |-> n],
                  !.msglist[Len(b.msglist)].len = @ + 1,
                  !.msgbytes = @ + n,
                  !.iovused  = @ + 1]

\* The caller of conn_add_iov has added its last fragment: conn_set_state(conn_mwrite)
Written(rest) == IF rest = <<>> /\ mode # "write" THEN "mwrite" ELSE mode

\* error_response: the output is replaced by the error line in wbuf.
ErrorResponse(b) ==
    /\ buf' = Emptied(b)
    /\ mode' = "write"
    /\ todo' = <<>>

\* One iteration of conn_add_iov's loop.  A failure of conn_add_msghdr is not
\* looked at.  When the iov array cannot grow the call fails: a client goes on
\* to its next fragment and, after the last, to error_response; in conn_write it
\* closes; memcache_get gives the request up.
AddIov ==
    /\ todo # <<>>
    /\ LET limit_to_mtu == Len(buf.msglist) = 1
           len == Head(todo)
       IN \E b \in IF HeaderFull(buf, limit_to_mtu) THEN ConnAddMsghdr(buf) ELSE {buf} :
            \/ LET n == Chunk(b, len, limit_to_mtu)
               IN  /\ buf' = Put(EnsureIovSpace(b), n)
                   /\ written' = written + n
                   /\ todo' = IF n < len THEN <<len - n>> \o Tail(todo) ELSE Tail(todo)
                   /\ mode' = Written(todo')
            \/ /\ IovFull(b) /\ "iov" \in Faults
               /\ UNCHANGED written
               /\ IF mode = "build" /\ Len(todo) = 1
                  THEN ErrorResponse(b)
                  ELSE /\ buf' = b
                       /\ todo' = IF mode = "build" THEN Tail(todo) ELSE <<>>
                       /\ mode' = IF mode = "write" THEN "closing" ELSE mode
    /\ UNCHANGED <<backend, reset, unscheduled, sent, started>>

-----------------------------------------------------------------------------
(* The callers *)

MayBegin == todo = <<>> /\ written < MaxBytes

\* process_command: a request of a client is answered in as many fragments as
\* it has, a response of a backend is only read.
ProcessCommand ==
    /\ mode = "read" /\ MayBegin
    /\ buf' = Emptied(buf)
    /\ IF backend
       THEN UNCHANGED <<mode, todo>>
       ELSE mode' = "build" /\ todo' \in Replies
    /\ UNCHANGED <<backend, reset, unscheduled, sent, written, started>>

\* The reply under way is replaced by an error, for instance for a key that is
\* too long.
AnswerError ==
    /\ mode = "build" /\ ~backend
    /\ ErrorResponse(buf)
    /\ UNCHANGED <<backend, reset, unscheduled, sent, written, started>>

\* case conn_write, before the first transmit: the error line is added.
BuildError ==
    /\ mode = "write" /\ todo = <<>>
    /\ buf.iovused = 0
    /\ todo' = <<1>>
    /\ UNCHANGED <<backend, buf, mode, reset, unscheduled, sent, written, started>>

\* A get is forwarded to the backend: conn_add_msghdr, then memcache_get.  When
\* the first fails the error line goes to the backend.
MemcacheGet ==
    /\ backend
    /\ mode # "closing" /\ MayBegin
    /\ \E b \in ConnAddMsghdr(buf) :
        IF b = buf
        THEN ErrorResponse(buf)
        ELSE buf' = b /\ todo' \in Requests /\ UNCHANGED mode
    /\ UNCHANGED <<backend, reset, unscheduled, sent, written, started>>

PeerReset == ~reset /\ reset' = TRUE /\ UNCHANGED <<backend, buf, mode, todo, unscheduled, sent, written, started>>

-----------------------------------------------------------------------------
(* transmit *)

\* The first header is left when nothing of it remains.
Current ==
    IF /\ buf.msgcurr < Len(buf.msglist)
       /\ buf.msglist[buf.msgcurr + 1].len = 0
    THEN buf.msgcurr + 1 ELSE buf.msgcurr

\* sendmsg takes the first k iovecs of the current header and r bytes of the next.
AdvanceWhole(cur, k, r) ==    \* mutant: a partly sent iovec is sent again
    [buf EXCEPT !.msgcurr = cur,
                !.msglist[cur + 1] = [iov |-> @.iov + k, len |-> @.len - k]]
Advance(cur, k, r) ==
    LET i == buf.msglist[cur + 1].iov + k + 1
        e == buf.iov[i]
    IN  [buf EXCEPT !.msgcurr = cur,
                    !.msglist[cur + 1] = [iov |-> @.iov + k, len |-> @.len - k],
                    !.iov = IF r = 0 THEN @
                            ELSE [@ EXCEPT ![i] = [base |-> e.base + r, len |-> e.len - r]]]

\* the bytes of entries lo..hi
Entries(b, lo, hi) == FlattenSeq([j \in 1..(hi - lo + 1) |-> Bytes(b.iov[lo + j - 1])])

\* what is still to be sent, in the order in which it will be
Pending ==
    FlattenSeq([j \in 1..(Len(buf.msglist) - buf.msgcurr) |->
        LET m == buf.msglist[buf.msgcurr + j] IN Entries(buf, m.iov + 1, m.iov + m.len)])

Transmitting ==
    /\ todo = <<>>
    /\ mode = "mwrite" \/ (mode = "write" /\ buf.iovused > 0)

Transmit ==
    /\ Transmitting
    /\ Current < Len(buf.msglist)
    /\ LET m == buf.msglist[Current + 1]
       IN  \/ /\ ~reset /\ m.len <= IovMax
              /\ \E k \in 0..m.len : \E r \in 0..(IF k < m.len THEN buf.iov[m.iov + k + 1].len - 1 ELSE 0) :
                    /\ k + r > 0
                    /\ buf' = Advance(Current, k, r)
                    /\ sent' = sent \o Entries(buf, m.iov + 1, m.iov + k)
                                    \o (IF r = 0 THEN <<>>
                                        ELSE SubSeq(Bytes(buf.iov[m.iov + k + 1]), 1, r))
              /\ started' = (Pending' # <<>>)
              /\ UNCHANGED <<mode, unscheduled>>
           \/ \* would block
              /\ ~reset
              /\ buf' = [buf EXCEPT !.msgcurr = Current]
              /\ \/ UNCHANGED <<mode, unscheduled>>
                 \/ "event" \in Faults /\ mode' = "closing" /\ unscheduled' = TRUE
              /\ UNCHANGED <<sent, started>>
           \/ \* an error, or 0 for an empty message
              /\ reset \/ m.len > IovMax \/ m.len = 0
              /\ buf' = [buf EXCEPT !.msgcurr = Current]
              /\ mode' = "closing"
              /\ UNCHANGED <<unscheduled, sent, started>>
    /\ UNCHANGED <<backend, todo, reset, written>>

\* TRANSMIT_COMPLETE
TransmitComplete ==
    /\ Transmitting
    /\ Current >= Len(buf.msglist)
    /\ buf' = [buf EXCEPT !.msgcurr = Current]
    /\ mode' = "read"
    /\ UNCHANGED <<backend, todo, reset, unscheduled, sent, written, started>>

Next ==
    \/ AddIov \/ ProcessCommand \/ AnswerError \/ BuildError \/ MemcacheGet
    \/ PeerReset \/ Transmit \/ TransmitComplete

Spec == Init /\ [][Next]_vars

-----------------------------------------------------------------------------
(* Properties *)

\* The types; headers and iovecs never outgrow their arrays, and transmit's
\* position stays within the headers.
TypeOK ==
    /\ buf \in Buffer
    /\ mode \in {"read", "build", "write", "mwrite", "closing"}
    /\ todo \in Seq(Nat \ {0})
    /\ backend \in BOOLEAN /\ reset \in BOOLEAN /\ unscheduled \in BOOLEAN /\ started \in BOOLEAN
    /\ Len(buf.msglist) <= buf.msgsize
    /\ buf.msgcurr <= Len(buf.msglist)
    /\ buf.iovused <= Len(buf.iov)

\* The headers still to be sent cover the filled part of c->iov without gap or
\* overlap and end at c->iovused, through every growth of a client's array
\* (conn_ensure_iov_space, before anything of its reply is sent) and every partial
\* write (transmit); a backend's array must not need to grow, because Repointed
\* forgets what has been sent.
MsgRanges ==
    LET msgs == buf.msglist
    IN  /\ \A i \in buf.msgcurr + 1..Len(msgs) - 1 :
               msgs[i].iov + msgs[i].len = msgs[i + 1].iov
        /\ msgs # <<>> => Last(msgs).iov + Last(msgs).len = buf.iovused

\* A connection is given up only when its peer has reset it or libevent has failed:
\* transmit never hands sendmsg an empty message or one of more than IOV_MAX entries.
ClosedOnlyByPeer == mode = "closing" => reset \/ unscheduled

\* The output buffers implement the byte stream.
Stream == INSTANCE ByteStream WITH pend <- Pending
StreamSpec == Stream!BSpec
=============================================================================
