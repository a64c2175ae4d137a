--------------------------- MODULE ConnectionProofs ---------------------------
(***************************************************************************)
(* Invariants of Connection, proved for every script, buffer size, budget, *)
(* send buffer and delay, and that it implements InOrderService: the first *)
(* inductive invariant (IInv) is about one connection's control, the       *)
(* second (InStep) about its place in the bytes the client sends.          *)
(***************************************************************************)
EXTENDS Connection, SequenceTheorems, TLAPS

USE ConnectionAssumption DEF progress

(* What the helper operators return. *)

\* The first k elements of a sequence form a sequence of length k.
LEMMA TakeProperties ==
    ASSUME NEW S, NEW s \in Seq(S), NEW k \in 0..Len(s)
    PROVE  /\ Take(s, k) \in Seq(S)
           /\ Len(Take(s, k)) = k
           /\ \A i \in 1..k : Take(s, k)[i] = s[i]
  <1>1. \A i \in 1..k : s[i] \in S
    BY ElementOfSeq, LenProperties
  <1>2. k \in Int /\ 1 \in Int
    BY LenProperties
  <1>3. /\ SubSeq(s, 1, k) \in Seq(S)
        /\ Len(SubSeq(s, 1, k)) = IF 1 <= k THEN k - 1 + 1 ELSE 0
        /\ \A i \in 1..k - 1 + 1 : SubSeq(s, 1, k)[i] = s[1 + i - 1]
    BY <1>1, <1>2, SubSeqProperties
  <1>4. QED
    BY <1>3, LenProperties DEF Take

\* Dropping the first k elements leaves the others, in order.
LEMMA DropProperties ==
    ASSUME NEW S, NEW s \in Seq(S), NEW k \in 0..Len(s)
    PROVE  /\ Drop(s, k) \in Seq(S)
           /\ Len(Drop(s, k)) = Len(s) - k
           /\ \A i \in 1..Len(s) - k : Drop(s, k)[i] = s[k + i]
  <1>1. Len(s) \in Nat /\ k \in Nat
    BY LenProperties
  <1>2. \A i \in k + 1..Len(s) : s[i] \in S
    BY <1>1, ElementOfSeq
  <1>3. /\ SubSeq(s, k + 1, Len(s)) \in Seq(S)
        /\ Len(SubSeq(s, k + 1, Len(s))) = IF k + 1 <= Len(s) THEN Len(s) - (k + 1) + 1 ELSE 0
        /\ \A i \in 1..Len(s) - (k + 1) + 1 : SubSeq(s, k + 1, Len(s))[i] = s[k + 1 + i - 1]
    BY <1>1, <1>2, SubSeqProperties
  <1>4. QED
    BY <1>1, <1>3 DEF Drop

\* A line is a non-empty sequence of bytes.
LEMMA LineType ==
    ASSUME NEW r \in Request
    PROVE  Line(r) \in Seq(Byte) /\ Line(r) # <<>>
  <1>1. LineLength(r) \in Nat \ {0}
    BY DEF LineLength, Request
  <1>2. Line(r) \in [1..LineLength(r) -> Byte]
    BY DEF Line, Byte
  <1>3. Line(r) \in Seq(Byte)
    BY <1>1, <1>2, SeqDef
  <1>4. QED
    BY <1>1, <1>2, <1>3

\* A data block is a sequence of bytes.
LEMMA ValueType ==
    ASSUME NEW n \in Nat
    PROVE  Value(n) \in Seq(Byte) /\ Len(Value(n)) = n + 2
  <1>1. Junk \in Request
    BY DEF Junk, Request, Commands
  <1>2. Value(n) \in [1..n + 2 -> Byte]
    BY <1>1 DEF Value, Byte
  <1>3. Value(n) \in Seq(Byte)
    BY <1>2, SeqDef
  <1>4. QED
    BY <1>2, <1>3, LenProperties

\* What a client writes for a request is a non-empty sequence of bytes.
LEMMA WireType ==
    ASSUME NEW r \in Request
    PROVE  Wire(r) \in Seq(Byte) /\ Wire(r) # <<>>
  <1>1. Line(r) \in Seq(Byte) /\ Line(r) # <<>>
    BY LineType
  <1>2. CASE r.cmd \in {"set", "badset"}
    <2>1. r.n \in Nat
      BY DEF Request
    <2>4. Value(r.n) \in Seq(Byte)
      BY <2>1, ValueType
    <2>5. Line(r) \o Value(r.n) \in Seq(Byte)
      BY <1>1, <2>4, ConcatProperties
    <2>6. Line(r) \o Value(r.n) # <<>>
      BY <1>1, <2>4, ConcatEqualIffEmpty
    <2>7. QED
      BY <1>2, <2>5, <2>6 DEF Wire
  <1>3. CASE r.cmd \notin {"set", "badset"}
    BY <1>1, <1>3 DEF Wire
  <1>4. QED
    BY <1>2, <1>3

\* Replies are sequences of reply units; a get's has one unit more than keys.
LEMMA ReplyType ==
    ASSUME NEW r \in Request
    PROVE  /\ Reply(r) \in Seq(Units)
           /\ r.cmd = "get" => Len(Reply(r)) = r.n + 1
  <1>1. r.n \in Nat /\ r.cmd \in Commands
    BY DEF Request, Commands
  <1>2. CASE r.cmd = "get"
    <2> DEFINE f == [i \in 1..r.n + 1 |-> IF i <= r.n THEN "VALUE" ELSE "END"]
    <2>1. f \in [1..r.n + 1 -> Units]
      BY DEF Units
    <2>2. f \in Seq(Units)
      BY <1>1, <2>1, SeqDef
    <2>3. Len(f) = r.n + 1
      BY <1>1, <2>1, <2>2, LenProperties
    <2>4. Reply(r) = f
      BY <1>2 DEF Reply
    <2>5. QED
      BY <2>2, <2>3, <2>4
  <1>3. CASE r.cmd # "get"
    <2>1. \A u \in Units : <<u>> \in Seq(Units)
      OBVIOUS
    <2>2. {"STORED", "ERROR", "CLIENT_ERROR"} \subseteq Units
      BY DEF Units
    <2>3. Reply(r) \in {<<"STORED">>, <<>>, <<"ERROR">>, <<"CLIENT_ERROR">>}
      <3>1. CASE r.cmd = "set"
        BY <3>1 DEF Reply
      <3>2. CASE r.cmd = "stats"
        BY <3>2 DEF Reply
      <3>3. CASE r.cmd = "unknown"
        BY <3>3 DEF Reply
      <3>4. CASE r.cmd \in {"badget", "badset"}
        BY <3>4 DEF Reply
      <3>5. QED
        BY <1>1, <1>3, <3>1, <3>2, <3>3, <3>4 DEF Commands
    <2>4. QED
      BY <1>3, <2>1, <2>2, <2>3, EmptySeq
  <1>4. QED
    BY <1>2, <1>3

\* So is the reply to a get that ran out of memory at key j, with j values.
LEMMA CutReplyType ==
    ASSUME NEW j \in Nat, NEW u \in {"VALUE", "TORN"}
    PROVE  CutReply(j, u) \in Seq(Units) /\ Len(CutReply(j, u)) = j + 1
  <1>1. CutReply(j, u) \in [1..j + 1 -> Units]
    BY DEF CutReply, Units
  <1>2. CutReply(j, u) \in Seq(Units)
    BY <1>1, SeqDef
  <1>3. QED
    BY <1>1, <1>2, LenProperties

\* The swallow counter of a set in Request does not overflow.
LEMMA SwallowFits ==
    ASSUME NEW r \in Request, r.cmd = "set"
    PROVE  SwallowLength(r.n) = r.n + 2 /\ r.n \in Nat
  BY DEF Request, SwallowLength

\* Whatever bytes form the line, parsing yields a request.
LEMMA ParseType ==
    ASSUME NEW line \in Seq(Byte), line # <<>>
    PROVE  ParseCommand(line) \in Request
  <1>1. line[Len(line)] \in Byte
    BY LenProperties, EmptySeq, ElementOfSeq
  <1>2. Junk \in Request
    BY DEF Junk, Request, Commands
  <1>3. QED
    BY <1>1, <1>2 DEF ParseCommand, Byte
-----------------------------------------------------------------------------
(* The inductive invariant *)

\* The unparsed bytes lie inside the read buffer.
BufferFits == roff + Len(rbuf) <= rsize

\* read_network has data in hand only while it loops, with some in the buffer.
ReadLoop == received => active /\ state = "conn_read" /\ rbuf # <<>>

\* Output exists only in the writing states.
OutputDrained ==
    state \in {"conn_new_cmd", "conn_waiting", "conn_read", "conn_parse_cmd",
               "conn_read_value"} => out = <<>>

\* A connection goes to wait for input without a complete line in its buffer.
LinesParsed ==
    state = "conn_waiting" \/ (state = "conn_read" /\ ~received) => NoLineIn(rbuf)

ParseNonEmpty == state = "conn_parse_cmd" => rbuf # <<>>

\* The states in which drive_machine leaves a connection, and its interest then.
Asleep ==
    /\ ~active =>
        \/ state = "conn_new_cmd" /\ ev = "write" /\ rbuf # <<>>
        \/ state = "conn_new_cmd" /\ ev = "read" /\ rbuf = <<>>
        \/ state = "conn_read" /\ ev = "read"
        \/ state = "conn_read_value" /\ ev = "read" /\ rbuf = <<>>
        \/ state \in {"conn_write", "conn_mwrite"} /\ ev = "write" /\ out # <<>>
        \/ state = "closed"
    /\ state = "closed" => ~active

\* Commands processed against the budget charged so far: the charge for the
\* next command is paid in conn_new_cmd, one command ahead of conn_parse_cmd.
Charged ==
    /\ handled <= ReqPerEvent + 1
    /\ active /\ state \in {"conn_parse_cmd", "conn_waiting", "conn_read"} =>
          nreqs >= 0 /\ handled <= ReqPerEvent - nreqs
    /\ active /\ state \in {"conn_new_cmd", "conn_read_value", "conn_write", "conn_mwrite"} =>
          nreqs >= 0 /\ handled <= ReqPerEvent - nreqs + 1

IInv ==
    /\ TypeOK
    /\ BufferFits
    /\ ReadLoop
    /\ OutputDrained
    /\ LinesParsed
    /\ ParseNonEmpty
    /\ Asleep
    /\ Charged
    /\ RetainedUntilSent
-----------------------------------------------------------------------------
(* Type correctness *)

\* The type invariant is preserved by every step of the connection, the client
\* and the event loop.
LEMMA TypeStep == TypeOK /\ BufferFits /\ [Next]_vars => TypeOK'
  <1> SUFFICES ASSUME TypeOK, BufferFits, [Next]_vars PROVE TypeOK'
    OBVIOUS
  <1>1. CASE EventHandler
    BY <1>1 DEF EventHandler, TypeOK, client, socket, input, output, blob
  <1>2. CASE NewCmd
    <2>1. mem_blob' \in BOOLEAN
      BY <1>2, Zenon DEF NewCmd
    <2>2. /\ mem_free_delay' \in Nat
          /\ nreqs' \in Int
      BY <1>2 DEF NewCmd, TypeOK
    <2>3. /\ active' \in BOOLEAN
          /\ state' \in States
          /\ ev' \in {"read", "write", "none"}
      BY <1>2 DEF NewCmd, ResetCmdHandler, Goto, Await, YieldEvent, MayContinue,
                  TypeOK, States
    <2>4. QED
      BY <1>2, <2>1, <2>2, <2>3
      DEF NewCmd, TypeOK, client, socket, input, output, counts
  <1>3. CASE Waiting
    BY <1>3 DEF Waiting, Await, TypeOK, States, client, socket, input, output,
                blob, counts
  <1>4. CASE Read
    <2>1. Len(rbuf) \in Nat /\ Len(sock) \in Nat
      BY LenProperties DEF TypeOK
    <2>2. Grown \in Nat \ {0} /\ Grown >= rsize /\ (Len(rbuf) < rsize => Grown = rsize)
      BY <2>1 DEF Grown, TypeOK
    <2>3. ReadEnough \/ ReadNoMemory \/ ReadSome
      BY <1>4 DEF Read
    <2>4. /\ UNCHANGED <<client, peer, snd, nreqs, sbytes, ileft, blob, requests, handled>>
          /\ roff' = 0
      BY <1>4 DEF Read, Compact
    <2> DEFINE Returned == /\ num_allocs' \in 0..MaxAllocs /\ received' \in BOOLEAN
                           /\ active' \in BOOLEAN /\ state' \in States
                           /\ ev' \in {"read", "write", "none"}
    <2>a. ASSUME NEW s \in States, ReturnFromRead(s)
          PROVE  Returned
      <3>1. num_allocs' = 0 /\ received' = FALSE /\ state' = s /\ active' = active /\ ev' = ev
        BY <2>a DEF ReturnFromRead, Goto
      <3>2. received' \in BOOLEAN
        BY <3>1, Zenon
      <3>3. 0 \in 0..MaxAllocs
        OBVIOUS
      <3>4. QED
        BY <2>a, <3>1, <3>2, <3>3, Zenon DEF TypeOK
    <2>b. ASSUME NEW b PROVE AfterRead(b) \in States
      <3>1. AfterRead(b) \in {"conn_parse_cmd", "conn_waiting"}
        BY Zenon DEF AfterRead
      <3>2. QED
        BY <3>1 DEF States
    <2>c. "conn_write" \in States /\ "conn_closing" \in States
      BY DEF States
    <2>5. CASE ReadEnough
      <3>1. Returned
        BY <2>5, <2>a, <2>b DEF ReadEnough
      <3>2. UNCHANGED <<sock, rbuf, rsize, out, after_write, progress>>
        BY <2>5 DEF ReadEnough
      <3>3. QED
        BY <2>4, <3>1, <3>2 DEF TypeOK, client, blob
    <2>6. CASE ReadNoMemory
      <3>1. <<"SERVER_ERROR">> \in Seq(Units) /\ Len(script) \in Nat
        BY LenProperties DEF Units, TypeOK
      <3>2. Returned
        BY <2>6, <2>a, <2>c DEF ReadNoMemory
      <3>3. /\ rbuf' = <<>> /\ out' = <<"SERVER_ERROR">>
            /\ after_write' = "conn_closing" /\ answered' = Len(script) /\ refused' = FALSE
            /\ UNCHANGED <<sock, rsize>>
        BY <2>6 DEF ReadNoMemory
      <3>4. refused' \in BOOLEAN
        BY <3>3, Zenon
      <3>5. QED
        BY <2>4, <3>1, <3>2, <3>3, <3>4 DEF TypeOK, client, blob
    <2>7. CASE ReadSome
      <3> DEFINE avail == Grown - Len(rbuf)
                 n == Lesser(avail, Len(sock))
      <3>1. rsize' \in Nat \ {0} /\ UNCHANGED <<out, after_write, progress>>
        BY <2>2, <2>7 DEF ReadSome
      <3>2. CASE ReadData
        <4>0. /\ rbuf' = rbuf \o Take(sock, n)
              /\ sock' = Drop(sock, n)
              /\ IF n < avail
                 THEN ReturnFromRead(AfterRead(TRUE))
                 ELSE /\ received' = TRUE
                      /\ num_allocs' = IF Grown # rsize THEN num_allocs + 1
                                                        ELSE num_allocs
                      /\ UNCHANGED <<active, state, ev>>
          BY <3>2 DEF ReadData
        <4>1. n \in 0..Len(sock)
          <5>1. avail \in Int
            BY <2>1, <2>2
          <5>2. avail >= 0
            BY <2>1 DEF Grown, BufferFits, TypeOK
          <5>3. QED
            BY <2>1, <5>1, <5>2 DEF Lesser
        <4>2. rbuf' \in Seq(Byte) /\ sock' \in Seq(Byte)
          BY <4>0, <4>1, TakeProperties, DropProperties, ConcatProperties DEF TypeOK
        <4>3. num_allocs' \in 0..MaxAllocs
          <5>1. Len(rbuf) >= rsize => num_allocs < MaxAllocs
            BY <2>7 DEF ReadSome
          <5>2. CASE n < avail
            BY <4>0, <5>2 DEF ReturnFromRead
          <5>3. CASE ~(n < avail)
            <6>1. num_allocs' = IF Grown # rsize THEN num_allocs + 1 ELSE num_allocs
              BY <4>0, <5>3
            <6>2. QED
              BY <2>1, <2>2, <5>1, <6>1 DEF TypeOK
          <5>4. QED
            BY <5>2, <5>3
        <4>4. /\ received' \in BOOLEAN /\ active' \in BOOLEAN
              /\ state' \in States /\ ev' \in {"read", "write", "none"}
          <5>1. CASE n < avail
            BY <4>0, <5>1, <2>a, <2>b
          <5>2. CASE ~(n < avail)
            BY <4>0, <5>2 DEF TypeOK
          <5>3. QED
            BY <5>1, <5>2
        <4>5. QED
          BY <2>4, <3>1, <4>2, <4>3, <4>4 DEF TypeOK, client, blob
      <3>3. CASE ReadNothing
        <4>1. Returned
          BY <3>3, <2>a, <2>b, <2>c DEF ReadNothing
        <4>2. UNCHANGED <<rbuf, sock>>
          BY <3>3 DEF ReadNothing
        <4>3. QED
          BY <2>4, <3>1, <4>1, <4>2 DEF TypeOK, client, blob
      <3>4. QED
        BY <2>7, <3>2, <3>3 DEF ReadSome
    <2>8. QED
      BY <2>3, <2>5, <2>6, <2>7
  <1>5. CASE ParseCmd
    <2>1. UNCHANGED <<client, socket, nreqs, rsize, num_allocs, received>>
      BY <1>5 DEF ParseCmd
    <2>2. CASE NeedMoreData
      BY <2>1, <2>2 DEF NeedMoreData, Goto, TypeOK, States, client, socket, blob, counts
    <2>3. CASE ProcessCommand
      <3>1. PICK k \in 1..Len(rbuf) :
              /\ LET r == ParseCommand(Take(rbuf, k))
                 IN  /\ RunCommand(r)
                     /\ requests' = IF r.cmd = "unknown" THEN requests ELSE requests + 1
                     /\ answered' = IF r.cmd = "set" \/ refused THEN answered ELSE answered + 1
                     /\ refused' = (r.cmd = "badset")
              /\ rbuf' = Drop(rbuf, k)
              /\ roff' = roff + k
              /\ handled' = handled + 1
        BY <2>3 DEF ProcessCommand
      <3> DEFINE r == ParseCommand(Take(rbuf, k))
      <3>2. k \in Nat /\ k \in 0..Len(rbuf)
        BY LenProperties DEF TypeOK
      <3>3. Take(rbuf, k) \in Seq(Byte) /\ Take(rbuf, k) # <<>>
        BY <3>2, TakeProperties, EmptySeq DEF TypeOK
      <3>4. r \in Request
        BY <3>3, ParseType
      <3> HIDE DEF r
      <3>5. rbuf' \in Seq(Byte)
        BY <3>1, <3>2, DropProperties DEF TypeOK
      <3>6. /\ roff' \in Nat /\ handled' \in Nat
            /\ requests' \in Nat /\ answered' \in Nat /\ refused' \in BOOLEAN
        <4>1. refused' \in BOOLEAN
          BY <3>1, Zenon
        <4>2. QED
          BY <3>1, <3>2, <4>1 DEF TypeOK
      <3>7. Reply(r) \in Seq(Units) /\ <<>> \in Seq(Units)
        BY <3>4, ReplyType, EmptySeq
      <3>8. KeepBlob => stillDue' \in Nat /\ mem_free_delay' \in Nat /\ mem_blob' \in BOOLEAN
        BY DEF KeepBlob, Lesser, TypeOK
      <3>9. AllocBlob => stillDue' \in Nat /\ mem_free_delay' \in Nat /\ mem_blob' \in BOOLEAN
        BY <3>8 DEF AllocBlob, TypeOK
      <3>10. RunCommand(r)
        BY <3>1 DEF r
      <3>11. /\ stillDue' \in Nat /\ mem_free_delay' \in Nat /\ mem_blob' \in BOOLEAN
             /\ out' \in Seq(Units) /\ ileft' \in Nat /\ sbytes' \in Nat
             /\ after_write' \in {"conn_new_cmd", "conn_closing"}
             /\ active' \in BOOLEAN /\ state' \in States
             /\ ev' \in {"read", "write", "none"}
        <4>1. r.n \in Nat
          BY <3>4 DEF Request
        <4>2. CASE ProcessGet(r)
          BY <3>7, <3>9, <4>1, <4>2 DEF ProcessGet, Retained, Goto, TypeOK, States
        <4>3. CASE ProcessUpdate(r)
          <5>1. SwallowLength(r.n) \in Nat
            BY <3>4, <4>3, SwallowFits DEF ProcessUpdate
          <5>2. QED
            BY <3>7, <3>8, <4>3, <5>1 DEF ProcessUpdate, Goto, TypeOK, States
        <4>4. CASE ProcessStat(r)
          BY <3>7, <3>8, <4>4 DEF ProcessStat, Goto, TypeOK, States
        <4>5. CASE ProcessBad(r)
          BY <3>7, <3>8, <3>9, <4>5 DEF ProcessBad, ErrorResponse, Goto, TypeOK, States
        <4>6. CASE GetOutOfMemory(r)
          <5>1. PICK j \in 1..r.n :
                  /\ ileft' = j
                  /\ \/ /\ \E u \in {"VALUE", "TORN"} : out' = CutReply(j, u)
                        /\ Goto("conn_mwrite") /\ UNCHANGED after_write
                     \/ ErrorResponse(<<"SERVER_ERROR">>)
            BY <4>6 DEF GetOutOfMemory
          <5>2. j \in Nat /\ <<"SERVER_ERROR">> \in Seq(Units)
            BY <4>1 DEF Units
          <5>3. out' \in Seq(Units)
            BY <5>1, <5>2, CutReplyType DEF ErrorResponse
          <5>4. /\ after_write' \in {"conn_new_cmd", "conn_closing"}
                /\ active' \in BOOLEAN /\ state' \in States
                /\ ev' \in {"read", "write", "none"}
            BY <5>1 DEF ErrorResponse, Goto, TypeOK, States
          <5>5. AllocBlob /\ sbytes' = sbytes
            BY <4>6 DEF GetOutOfMemory
          <5>6. QED
            BY <3>9, <5>1, <5>2, <5>3, <5>4, <5>5 DEF TypeOK
        <4>7. QED
          BY <3>10, <4>2, <4>3, <4>4, <4>5, <4>6 DEF RunCommand
      <3>12. QED
        BY <2>1, <3>5, <3>6, <3>11 DEF TypeOK, client, socket
    <2>4. QED
      BY <1>5, <2>2, <2>3 DEF ParseCmd
  <1>6. CASE ReadValue
    <2>1. UNCHANGED <<client, peer, snd, nreqs, rsize, num_allocs, received, ileft,
                      blob, requests, handled>>
      BY <1>6 DEF ReadValue
    <2>2. Len(rbuf) \in Nat /\ Len(sock) \in Nat
      BY LenProperties DEF TypeOK
    <2>3. ValueComplete \/ SwallowBuffered \/ SwallowSocket
      BY <1>6 DEF ReadValue
    <2>4. CASE ValueComplete
      <3>1. <<"STORED">> \in Seq(Units) /\ "conn_write" \in States
        BY DEF Units, States
      <3>2. QED
        BY <2>1, <2>4, <3>1 DEF ValueComplete, ErrorResponse, Goto, TypeOK, client, blob
    <2>5. CASE SwallowBuffered
      <3> DEFINE tocopy == Lesser(Len(rbuf), sbytes)
      <3>1. tocopy \in 0..Len(rbuf) /\ tocopy \in Nat /\ sbytes - tocopy \in Nat
        BY <2>2 DEF Lesser, TypeOK
      <3>2. Drop(rbuf, tocopy) \in Seq(Byte)
        BY <3>1, DropProperties DEF TypeOK
      <3>3. sbytes' \in Nat /\ roff' \in Nat /\ rbuf' \in Seq(Byte)
        <4>1. /\ sbytes' = sbytes - tocopy /\ roff' = roff + tocopy
              /\ rbuf' = Drop(rbuf, tocopy)
          BY <2>5 DEF SwallowBuffered
        <4>2. roff \in Nat
          BY DEF TypeOK
        <4> HIDE DEF tocopy
        <4>3. QED
          BY <3>1, <3>2, <4>1, <4>2
      <3>4. UNCHANGED <<active, state, ev, after_write, out, progress, sock>>
        BY <2>5 DEF SwallowBuffered
      <3>5. QED
        BY <2>1, <3>3, <3>4 DEF TypeOK, client, blob
    <2>6. CASE SwallowSocket
      <3> DEFINE n == Lesser(Len(sock), Lesser(rsize, sbytes))
      <3>1. n \in 0..Len(sock) /\ sbytes - n \in Nat
        BY <2>2 DEF Lesser, TypeOK
      <3>2. Drop(sock, n) \in Seq(Byte)
        BY <3>1, DropProperties DEF TypeOK
      <3>3. sock' \in Seq(Byte) /\ sbytes' \in Nat
        BY <2>6, <3>1, <3>2 DEF SwallowSocket, TypeOK
      <3>4. /\ active' \in BOOLEAN /\ state' \in States
            /\ ev' \in {"read", "write", "none"}
        BY <2>6 DEF SwallowSocket, Goto, Await, TypeOK, States
      <3>5. UNCHANGED <<after_write, out, rbuf, roff, progress>>
        BY <2>6 DEF SwallowSocket
      <3>6. QED
        BY <2>1, <3>3, <3>4, <3>5 DEF TypeOK, client, blob
    <2>7. QED
      BY <2>3, <2>4, <2>5, <2>6
  <1>7. CASE Transmit
    <2>1. UNCHANGED <<client, sock, peer, after_write, nreqs, input, sbytes, blob, counts>>
      BY <1>7 DEF Transmit
    <2>2. Len(out) \in Nat /\ Room \in Int
      BY LenProperties DEF Room, TypeOK
    <2>3. CASE TransmitComplete
      <3>1. /\ ileft' \in Nat /\ active' \in BOOLEAN /\ state' \in States
            /\ ev' \in {"read", "write", "none"}
        BY <2>3 DEF TransmitComplete, Goto, TypeOK, States
      <3>2. QED
        BY <2>1, <2>3, <3>1 DEF TransmitComplete, TypeOK, client, input, blob, counts
    <2>4. CASE TransmitIncomplete
      <3>1. PICK n \in 1..Lesser(Len(out), Room) :
              snd' = snd \o Take(out, n) /\ out' = Drop(out, n)
        BY <2>4 DEF TransmitIncomplete
      <3>2. n \in 0..Len(out)
        BY <2>2 DEF Lesser
      <3>3. snd' \in Seq(Units) /\ out' \in Seq(Units)
        BY <3>1, <3>2, DropProperties, TakeProperties, ConcatProperties DEF TypeOK
      <3>4. QED
        BY <2>1, <2>4, <3>3 DEF TransmitIncomplete, TypeOK, client, input, blob, counts
    <2>5. CASE TransmitSoftError
      <3>1. /\ active' \in BOOLEAN /\ state' \in States
            /\ ev' \in {"read", "write", "none"}
        BY <2>5 DEF TransmitSoftError, Await, TypeOK, States
      <3>2. QED
        BY <2>1, <2>5, <3>1 DEF TransmitSoftError, TypeOK, client, input, blob, counts
    <2>6. CASE TransmitHardError
      BY <2>1, <2>6 DEF TransmitHardError, Goto, TypeOK, States, client, input, blob, counts
    <2>7. QED
      BY <1>7, <2>3, <2>4, <2>5, <2>6 DEF Transmit
  <1>8. CASE ConnClose
    BY <1>8 DEF ConnClose, TypeOK, States, client, socket, input, output, counts
  <1>9. CASE ClientSend
    <2>1. unsent # <<>> \/ todo # <<>>
      BY <1>9 DEF ClientSend
    <2> DEFINE s == IF unsent # <<>> THEN unsent ELSE Wire(Head(todo))
    <2>2. s \in Seq(Byte) /\ s # <<>>
      BY <2>1, WireType, HeadTailProperties DEF TypeOK
    <2>3. Append(sock, Head(s)) \in Seq(Byte) /\ Tail(s) \in Seq(Byte)
      BY <2>2, HeadTailProperties, AppendProperties DEF TypeOK
    <2>4. sock' \in Seq(Byte) /\ unsent' \in Seq(Byte)
      BY <1>9, <2>3 DEF ClientSend
    <2>5. todo' \in Seq(Request)
      BY <1>9, <2>1, HeadTailProperties DEF ClientSend, TypeOK
    <2>6. QED
      BY <1>9, <2>4, <2>5 DEF ClientSend, TypeOK, input, output, blob, counts
  <1>10. CASE ClientRecv
    <2>1. Head(snd) \in Units /\ Tail(snd) \in Seq(Units)
      BY <1>10, HeadTailProperties DEF ClientRecv, TypeOK
    <2>2. Append(replies, Head(snd)) \in Seq(Units)
      BY <2>1, AppendProperties DEF TypeOK
    <2>3. QED
      BY <1>10, <2>1, <2>2 DEF ClientRecv, TypeOK, input, output, blob, counts
  <1>11. CASE ClientHangup
    BY <1>11 DEF ClientHangup, TypeOK, client, input, output, blob, counts
  <1>12. CASE Recycle
    <2>1. refused' \in BOOLEAN
      BY <1>12, Zenon DEF Recycle
    <2>2. QED
      BY <1>12, <2>1 DEF Recycle, ConnNew, TypeOK, States, blob
  <1>13. CASE UNCHANGED vars
    BY <1>13 DEF vars, TypeOK, client, socket, input, output, blob, counts
  <1>14. QED
    BY <1>1, <1>2, <1>3, <1>4, <1>5, <1>6, <1>7, <1>8, <1>9, <1>10, <1>11,
       <1>12, <1>13 DEF Next, DriveMachine

\* The type invariant holds of a fresh connection.
LEMMA TypeInit == Init => TypeOK
  <1> SUFFICES ASSUME Init PROVE TypeOK
    OBVIOUS
  <1>1. <<>> \in Seq(Byte) /\ <<>> \in Seq(Units) /\ 0 \in 0..MaxAllocs
    BY EmptySeq
  <1>2. script \in Seq(Request) /\ todo \in Seq(Request)
    BY DEF Init
  <1>3. active \in BOOLEAN /\ received \in BOOLEAN /\ mem_blob \in BOOLEAN /\ refused \in BOOLEAN
    BY Zenon DEF Init
  <1>4. /\ lives \in Nat /\ peer \in {"open", "shut", "reset"} /\ state \in States
        /\ after_write \in {"conn_new_cmd", "conn_closing"}
        /\ ev \in {"read", "write", "none"} /\ nreqs \in Int /\ roff \in Nat
        /\ rsize \in Nat \ {0} /\ num_allocs \in 0..MaxAllocs /\ sbytes \in Nat
        /\ ileft \in Nat /\ mem_free_delay \in Nat /\ stillDue \in Nat
        /\ requests \in Nat /\ handled \in Nat /\ answered \in Nat
    BY <1>1 DEF Init, States
  <1>5. /\ unsent \in Seq(Byte) /\ replies \in Seq(Units) /\ sock \in Seq(Byte)
        /\ snd \in Seq(Units) /\ rbuf \in Seq(Byte) /\ out \in Seq(Units)
    BY <1>1 DEF Init
  <1>6. QED
    BY <1>2, <1>3, <1>4, <1>5 DEF TypeOK
-----------------------------------------------------------------------------
(* The read buffer *)

\* The unparsed bytes stay inside the read buffer.
LEMMA BufferStep == TypeOK /\ BufferFits /\ [Next]_vars => BufferFits'
  <1> SUFFICES ASSUME TypeOK, BufferFits, [Next]_vars PROVE BufferFits'
    OBVIOUS
  <1>1. /\ Len(rbuf) \in Nat /\ Len(sock) \in Nat /\ roff \in Nat
        /\ rsize \in Nat \ {0} /\ sbytes \in Nat
    BY LenProperties DEF TypeOK
  <1>2. CASE UNCHANGED <<rbuf, roff, rsize>>
    BY <1>2 DEF BufferFits
  <1>3. CASE Read
    <2>1. roff' = 0
      BY <1>3 DEF Read, Compact
    <2>2. CASE ReadEnough
      BY <1>1, <2>1, <2>2 DEF ReadEnough, BufferFits
    <2>3. CASE ReadNoMemory
      BY <1>1, <2>1, <2>3 DEF ReadNoMemory, BufferFits
    <2>4. CASE ReadSome
      <3>1. rsize' = Grown /\ Grown >= Len(rbuf) /\ Grown \in Nat
        BY <1>1, <2>4 DEF ReadSome, Grown, BufferFits
      <3>2. CASE ReadData
        <4> DEFINE n == Lesser(Grown - Len(rbuf), Len(sock))
        <4>1. n \in 0..Len(sock) /\ n <= Grown - Len(rbuf)
          BY <1>1, <3>1 DEF Lesser
        <4>2. rbuf' = rbuf \o Take(sock, n)
          BY <3>2 DEF ReadData
        <4>3. Take(sock, n) \in Seq(Byte) /\ Len(Take(sock, n)) = n
          BY <4>1, TakeProperties DEF TypeOK
        <4>4. Len(rbuf') = Len(rbuf) + n
          BY <4>2, <4>3, ConcatProperties DEF TypeOK
        <4>5. QED
          BY <1>1, <2>1, <3>1, <4>1, <4>4 DEF BufferFits
      <3>3. CASE ReadNothing
        <4>1. rbuf' = rbuf
          BY <3>3 DEF ReadNothing
        <4>2. QED
          BY <1>1, <2>1, <3>1, <4>1 DEF BufferFits
      <3>4. QED
        BY <2>4, <3>2, <3>3 DEF ReadSome
    <2>5. QED
      BY <1>3, <2>2, <2>3, <2>4 DEF Read
  <1>4. CASE ParseCmd
    <2>1. rsize' = rsize
      BY <1>4 DEF ParseCmd
    <2>2. CASE NeedMoreData
      BY <2>1, <2>2, <1>2 DEF NeedMoreData
    <2>3. CASE ProcessCommand
      <3>1. PICK k \in 1..Len(rbuf) : rbuf' = Drop(rbuf, k) /\ roff' = roff + k
        BY <2>3 DEF ProcessCommand
      <3>2. Len(rbuf') = Len(rbuf) - k
        <4>1. rbuf \in Seq(Byte) /\ k \in 0..Len(rbuf)
          BY <1>1 DEF TypeOK
        <4>2. Len(Drop(rbuf, k)) = Len(rbuf) - k
          BY <4>1, DropProperties
        <4>3. QED
          BY <3>1, <4>2
      <3>3. QED
        BY <1>1, <2>1, <3>1, <3>2 DEF BufferFits
    <2>4. QED
      BY <1>4, <2>2, <2>3 DEF ParseCmd
  <1>5. CASE ReadValue
    <2>1. rsize' = rsize
      BY <1>5 DEF ReadValue
    <2>2. CASE ValueComplete \/ SwallowSocket
      BY <1>2, <2>1, <2>2 DEF ValueComplete, SwallowSocket
    <2>3. CASE SwallowBuffered
      <3> DEFINE k == Lesser(Len(rbuf), sbytes)
      <3>1. k \in 0..Len(rbuf)
        BY <1>1 DEF Lesser
      <3>2. rbuf' = Drop(rbuf, k) /\ roff' = roff + k
        BY <2>3 DEF SwallowBuffered
      <3>3. Len(rbuf') = Len(rbuf) - k
        BY <3>1, <3>2, DropProperties DEF TypeOK
      <3>4. QED
        BY <1>1, <2>1, <3>1, <3>2, <3>3 DEF BufferFits
    <2>4. QED
      BY <1>5, <2>2, <2>3 DEF ReadValue
  <1>6. CASE Recycle
    <2>1. rbuf' = <<>> /\ roff' = 0 /\ rsize' = rsize
      BY <1>6 DEF Recycle, ConnNew
    <2>2. QED
      BY <1>1, <2>1 DEF BufferFits
  <1>7. \/ Read \/ ParseCmd \/ ReadValue \/ Recycle
        \/ UNCHANGED <<rbuf, roff, rsize>>
    BY DEF Next, DriveMachine, vars, input, EventHandler, NewCmd, Waiting,
           Transmit, ConnClose, ClientSend, ClientRecv, ClientHangup
  <1>8. QED
    BY <1>2, <1>3, <1>4, <1>5, <1>6, <1>7
-----------------------------------------------------------------------------
(* Control: where the connection is, what it holds and what it waits for *)

Control ==
    /\ ReadLoop
    /\ OutputDrained
    /\ LinesParsed
    /\ ParseNonEmpty
    /\ Asleep
    /\ Charged
    /\ RetainedUntilSent

\* A fresh connection sleeps in conn_new_cmd, with nothing read, owed or charged.
LEMMA ControlInit == Init => Control
  BY DEF Init, Control, ReadLoop, OutputDrained, LinesParsed, ParseNonEmpty,
         Asleep, Charged, RetainedUntilSent

\* Entering drive_machine grants the full budget.
LEMMA EventHandlerControl == IInv /\ EventHandler => Control'
  <1> SUFFICES ASSUME IInv, EventHandler PROVE Control'
    OBVIOUS
  <1>1. /\ active' = TRUE /\ nreqs' = ReqPerEvent /\ handled' = 0 /\ ~active
        /\ UNCHANGED <<state, ev, rbuf, received, out, ileft>> /\ state # "closed"
    BY DEF EventHandler, input, output
  <1>2. ReadLoop' /\ OutputDrained' /\ ParseNonEmpty' /\ RetainedUntilSent' /\ Asleep'
    BY <1>1 DEF IInv, ReadLoop, OutputDrained, ParseNonEmpty, RetainedUntilSent, Asleep
  <1>3. LinesParsed'
    BY <1>1 DEF IInv, LinesParsed, NoLineIn
  <1>4. Charged'
    BY <1>1 DEF IInv, Charged
  <1>5. QED
    BY <1>2, <1>3, <1>4 DEF Control

\* conn_new_cmd charges the next command or puts the connection to sleep.
LEMMA NewCmdControl == IInv /\ NewCmd => Control'
  <1> SUFFICES ASSUME IInv, NewCmd PROVE Control'
    OBVIOUS
  <1>1. /\ active /\ state = "conn_new_cmd" /\ nreqs' = nreqs - 1 /\ out = <<>> /\ ~received
        /\ UNCHANGED <<rbuf, received, out, ileft, handled>>
    BY DEF NewCmd, Running, input, output, counts, IInv, OutputDrained, ReadLoop
  <1>2. CASE nreqs >= 1
    <2>1. /\ UNCHANGED <<active, ev>>
          /\ state' = IF rbuf # <<>> THEN "conn_parse_cmd" ELSE "conn_waiting"
      BY <1>2 DEF NewCmd, MayContinue, ResetCmdHandler, Goto, IInv, TypeOK
    <2>2. ReadLoop' /\ OutputDrained' /\ ParseNonEmpty' /\ RetainedUntilSent' /\ Asleep'
      BY <1>1, <2>1 DEF IInv, ReadLoop, OutputDrained, ParseNonEmpty, RetainedUntilSent, Asleep
    <2>3. LinesParsed'
      BY <1>1, <2>1 DEF LinesParsed, NoLineIn
    <2>4. Charged'
      BY <1>1, <1>2, <2>1 DEF IInv, Charged, TypeOK
    <2>5. QED
      BY <2>2, <2>3, <2>4 DEF Control
  <1>3. CASE nreqs < 1
    <2>1. \/ active' = FALSE /\ state' = "conn_new_cmd" /\ ev' = YieldEvent
          \/ active' = active /\ state' = "conn_closing"
      BY <1>3 DEF NewCmd, MayContinue, Await, IInv, TypeOK
    <2>2. ReadLoop' /\ OutputDrained' /\ ParseNonEmpty' /\ RetainedUntilSent' /\ Asleep'
      BY <1>1, <2>1 DEF IInv, ReadLoop, OutputDrained, ParseNonEmpty, RetainedUntilSent,
                        Asleep, YieldEvent
    <2>3. LinesParsed'
      BY <1>1, <2>1 DEF LinesParsed
    <2>4. Charged'
      BY <1>1, <2>1 DEF IInv, Charged, TypeOK
    <2>5. QED
      BY <2>2, <2>3, <2>4 DEF Control
  <1>4. QED
    BY <1>2, <1>3 DEF IInv, TypeOK

\* conn_waiting sleeps without a complete line in the buffer.
LEMMA WaitingControl == IInv /\ Waiting => Control'
  <1> SUFFICES ASSUME IInv, Waiting PROVE Control'
    OBVIOUS
  <1>1. /\ active /\ state = "conn_waiting" /\ out = <<>> /\ ~received
        /\ UNCHANGED <<rbuf, received, out, ileft, handled, nreqs>>
    BY DEF Waiting, Running, input, output, counts, IInv, OutputDrained, ReadLoop
  <1>2. \/ active' = FALSE /\ state' = "conn_read" /\ ev' = "read"
        \/ active' = active /\ state' = "conn_closing"
    BY DEF Waiting, Await
  <1>3. ReadLoop' /\ OutputDrained' /\ ParseNonEmpty' /\ RetainedUntilSent' /\ Asleep'
    BY <1>1, <1>2 DEF IInv, ReadLoop, OutputDrained, ParseNonEmpty, RetainedUntilSent, Asleep
  <1>4. LinesParsed'
    BY <1>1, <1>2 DEF IInv, LinesParsed, NoLineIn
  <1>5. Charged'
    BY <1>1, <1>2 DEF IInv, Charged
  <1>6. QED
    BY <1>3, <1>4, <1>5 DEF Control

\* read_network leaves for conn_waiting only if it added nothing to the buffer.
LEMMA ReadControl == IInv /\ Read => Control'
  <1> SUFFICES ASSUME IInv, Read PROVE Control'
    OBVIOUS
  <1>1. /\ active /\ state = "conn_read" /\ out = <<>>
        /\ UNCHANGED <<ileft, handled, nreqs>>
        /\ Len(rbuf) \in Nat /\ Len(sock) \in Nat /\ rsize \in Nat \ {0}
    BY LenProperties DEF Read, Running, IInv, OutputDrained, TypeOK
  <1> DEFINE Next3 == {"conn_parse_cmd", "conn_waiting", "conn_closing"}
  \* the three ways to leave
  <1>2. ASSUME NEW s \in Next3, ReturnFromRead(s), out' = <<>>,
               s = "conn_parse_cmd" => rbuf' # <<>>,
               s = "conn_waiting" => NoLineIn(rbuf)'
        PROVE  Control'
    <2>1. received' = FALSE /\ state' = s /\ active' = active /\ ev' = ev
      BY <1>2 DEF ReturnFromRead, Goto
    <2>2. ReadLoop' /\ OutputDrained' /\ ParseNonEmpty' /\ RetainedUntilSent' /\ Asleep'
      BY <1>1, <1>2, <2>1 DEF ReadLoop, OutputDrained, ParseNonEmpty, RetainedUntilSent, Asleep
    <2>3. LinesParsed'
      BY <1>2, <2>1 DEF LinesParsed
    <2>4. Charged'
      BY <1>1, <1>2, <2>1 DEF IInv, Charged
    <2>5. QED
      BY <2>2, <2>3, <2>4 DEF Control
  \* nothing was added by this read
  <1>3. ASSUME ReturnFromRead(AfterRead(received)), out' = <<>>, rbuf' = rbuf
        PROVE  Control'
    <2>1. CASE received
      <3>1. AfterRead(received) = "conn_parse_cmd" /\ rbuf # <<>>
        BY <2>1 DEF AfterRead, IInv, ReadLoop
      <3>2. QED
        BY <1>2, <1>3, <3>1
    <2>2. CASE ~received
      <3>1. AfterRead(received) = "conn_waiting" /\ NoLineIn(rbuf)
        BY <1>1, <2>2 DEF AfterRead, IInv, LinesParsed
      <3>2. NoLineIn(rbuf)'
        BY <1>3, <3>1 DEF NoLineIn
      <3>3. QED
        BY <1>2, <1>3, <3>1, <3>2
    <2>3. QED
      BY <2>1, <2>2
  <1>4. CASE ReadEnough
    BY <1>1, <1>3, <1>4 DEF ReadEnough
  <1>5. CASE ReadNoMemory
    <2>1. /\ received' = FALSE /\ state' = "conn_write" /\ active' = active
      BY <1>5 DEF ReadNoMemory, ReturnFromRead, Goto
    <2>2. ReadLoop' /\ OutputDrained' /\ ParseNonEmpty' /\ RetainedUntilSent' /\ Asleep'
      BY <1>1, <2>1 DEF ReadLoop, OutputDrained, ParseNonEmpty, RetainedUntilSent, Asleep
    <2>3. LinesParsed'
      BY <2>1 DEF LinesParsed
    <2>4. Charged'
      BY <1>1, <2>1 DEF IInv, Charged, TypeOK
    <2>5. QED
      BY <2>2, <2>3, <2>4 DEF Control
  <1>6. CASE ReadSome
    <2>1. out' = <<>>
      BY <1>1, <1>6 DEF ReadSome
    <2>2. CASE ReadData
      <3> DEFINE avail == Grown - Len(rbuf)
                 n == Lesser(avail, Len(sock))
      <3>1. Grown \in Nat /\ avail > 0
        BY <1>1 DEF Grown, IInv, BufferFits, TypeOK
      <3>2. sock # <<>> /\ rbuf' = rbuf \o Take(sock, n)
        BY <2>2 DEF ReadData
      <3>3. Len(sock) > 0
        BY <1>1, <3>2, EmptySeq DEF IInv, TypeOK
      <3>4. n \in 1..Len(sock)
        BY <1>1, <3>1, <3>3 DEF Lesser
      <3>5. Take(sock, n) \in Seq(Byte) /\ Len(Take(sock, n)) = n
        BY <3>4, TakeProperties DEF IInv, TypeOK
      <3>6. rbuf' # <<>>
        BY <1>1, <3>2, <3>4, <3>5, ConcatProperties, EmptySeq DEF IInv, TypeOK
      <3>7. CASE n < avail
        <4>1. ReturnFromRead("conn_parse_cmd")
          BY <2>2, <3>7 DEF ReadData, AfterRead
        <4>2. QED
          BY <1>2, <2>1, <3>6, <4>1
      <3>8. CASE ~(n < avail)
        <4>1. received' = TRUE /\ active' = active /\ state' = state
          BY <2>2, <3>8 DEF ReadData
        <4>2. ReadLoop' /\ OutputDrained' /\ ParseNonEmpty' /\ RetainedUntilSent' /\ Asleep'
          BY <1>1, <2>1, <3>6, <4>1 DEF ReadLoop, OutputDrained, ParseNonEmpty,
                                        RetainedUntilSent, Asleep
        <4>3. LinesParsed'
          BY <1>1, <4>1 DEF LinesParsed
        <4>4. Charged'
          BY <1>1, <4>1 DEF IInv, Charged
        <4>5. QED
          BY <4>2, <4>3, <4>4 DEF Control
      <3>9. QED
        BY <3>7, <3>8
    <2>3. CASE ReadNothing
      BY <1>2, <1>3, <2>1, <2>3 DEF ReadNothing
    <2>4. QED
      BY <1>6, <2>2, <2>3 DEF ReadSome
  <1>7. QED
    BY <1>4, <1>5, <1>6 DEF Read

\* A processed command is charged before the next one; a get retains an item
\* for every VALUE in its reply.
LEMMA ParseCmdControl == IInv /\ ParseCmd => Control'
  <1> SUFFICES ASSUME IInv, ParseCmd PROVE Control'
    OBVIOUS
  <1>1. /\ active /\ state = "conn_parse_cmd" /\ out = <<>> /\ ~received
        /\ UNCHANGED <<nreqs, received>> /\ handled \in Nat /\ nreqs \in Int
    BY DEF ParseCmd, Running, IInv, OutputDrained, ReadLoop, TypeOK
  <1>2. CASE NeedMoreData
    <2>1. /\ state' \in {"conn_closing", "conn_waiting"} /\ active' = active
          /\ UNCHANGED <<rbuf, out, handled>> /\ NoLineIn(rbuf)
      BY <1>2 DEF NeedMoreData, Goto, counts, NoLineIn
    <2>2. ReadLoop' /\ OutputDrained' /\ ParseNonEmpty' /\ RetainedUntilSent' /\ Asleep'
      BY <1>1, <2>1 DEF ReadLoop, OutputDrained, ParseNonEmpty, RetainedUntilSent, Asleep
    <2>3. LinesParsed'
      BY <2>1 DEF LinesParsed, NoLineIn
    <2>4. Charged'
      BY <1>1, <2>1 DEF IInv, Charged
    <2>5. QED
      BY <2>2, <2>3, <2>4 DEF Control
  <1>3. CASE ProcessCommand
    <2>1. PICK k \in 1..Len(rbuf) :
            /\ LET r == ParseCommand(Take(rbuf, k))
               IN  RunCommand(r)
            /\ handled' = handled + 1
      BY <1>3 DEF ProcessCommand
    <2> DEFINE r == ParseCommand(Take(rbuf, k))
    <2>2. k \in 0..Len(rbuf) /\ k # 0
      BY LenProperties DEF IInv, TypeOK
    <2>3. Take(rbuf, k) \in Seq(Byte) /\ Take(rbuf, k) # <<>>
      BY <2>2, TakeProperties, EmptySeq DEF IInv, TypeOK
    <2>4. r \in Request
      BY <2>3, ParseType
    <2> HIDE DEF r
    <2>5. /\ active' = active
          /\ \/ state' = "conn_mwrite" /\ Len(out') = ileft' + 1 /\ ileft' \in Nat
             \/ state' \in {"conn_read_value", "conn_new_cmd"} /\ out' = <<>>
             \/ state' = "conn_write"
      <3>1. CASE ProcessGet(r)
        <4>1. Len(Reply(r)) = r.n + 1 /\ r.n \in Nat
          BY <2>4, <3>1, ReplyType DEF ProcessGet, Request
        <4>2. QED
          BY <3>1, <4>1 DEF ProcessGet, Goto, Retained
      <3>2. CASE ProcessUpdate(r)
        BY <3>2 DEF ProcessUpdate, Goto
      <3>3. CASE ProcessStat(r)
        BY <3>3 DEF ProcessStat, Goto
      <3>4. CASE ProcessBad(r)
        BY <3>4 DEF ProcessBad, ErrorResponse, Goto
      <3>5. CASE GetOutOfMemory(r)
        <4>1. PICK j \in 1..r.n :
                /\ ileft' = j
                /\ \/ /\ \E u \in {"VALUE", "TORN"} : out' = CutReply(j, u)
                      /\ Goto("conn_mwrite")
                   \/ ErrorResponse(<<"SERVER_ERROR">>)
          BY <3>5 DEF GetOutOfMemory
        <4>2. j \in Nat
          BY <2>4 DEF Request
        <4>3. \A u \in {"VALUE", "TORN"} : Len(CutReply(j, u)) = j + 1
          BY <4>2, CutReplyType
        <4>4. QED
          BY <4>1, <4>2, <4>3 DEF ErrorResponse, Goto
      <3>6. QED
        BY <2>1, <3>1, <3>2, <3>3, <3>4, <3>5 DEF r, RunCommand
    <2>6. ReadLoop' /\ OutputDrained' /\ ParseNonEmpty' /\ Asleep' /\ LinesParsed'
      BY <1>1, <2>5 DEF ReadLoop, OutputDrained, ParseNonEmpty, Asleep, LinesParsed
    <2>7. RetainedUntilSent'
      BY <2>5 DEF RetainedUntilSent
    <2>8. Charged'
      BY <1>1, <2>1, <2>5 DEF IInv, Charged
    <2>9. QED
      BY <2>6, <2>7, <2>8 DEF Control
  <1>4. QED
    BY <1>2, <1>3 DEF ParseCmd

\* Swallowing a value sleeps only when the buffer is empty.
LEMMA ReadValueControl == IInv /\ ReadValue => Control'
  <1> SUFFICES ASSUME IInv, ReadValue PROVE Control'
    OBVIOUS
  <1>1. /\ active /\ state = "conn_read_value" /\ out = <<>> /\ ~received
        /\ UNCHANGED <<nreqs, received, ileft, handled>> /\ handled \in Nat /\ nreqs \in Int
    BY DEF ReadValue, Running, IInv, OutputDrained, ReadLoop, TypeOK
  <1>2. \/ active' = active /\ state' = "conn_write"
        \/ active' = active /\ state' = state /\ out' = out
        \/ active' = active /\ state' = "conn_closing"
        \/ active' = FALSE /\ state' = state /\ out' = out /\ ev' = "read" /\ rbuf' = <<>>
    <2>1. CASE ValueComplete
      BY <2>1 DEF ValueComplete, ErrorResponse, Goto
    <2>2. CASE SwallowBuffered
      BY <2>2 DEF SwallowBuffered
    <2>3. CASE SwallowSocket
      BY <1>1, <2>3 DEF SwallowSocket, Goto, Await
    <2>4. QED
      BY <2>1, <2>2, <2>3 DEF ReadValue
  <1>3. ReadLoop' /\ OutputDrained' /\ ParseNonEmpty' /\ RetainedUntilSent' /\ Asleep'
    BY <1>1, <1>2 DEF ReadLoop, OutputDrained, ParseNonEmpty, RetainedUntilSent, Asleep
  <1>4. LinesParsed'
    BY <1>1, <1>2 DEF LinesParsed
  <1>5. Charged'
    BY <1>1, <1>2 DEF IInv, Charged
  <1>6. QED
    BY <1>3, <1>4, <1>5 DEF Control

\* Output only shrinks while it is written, and the items go last.
LEMMA TransmitControl == IInv /\ Transmit => Control'
  <1> SUFFICES ASSUME IInv, Transmit PROVE Control'
    OBVIOUS
  <1>1. /\ active /\ state \in {"conn_write", "conn_mwrite"} /\ ~received
        /\ UNCHANGED <<nreqs, received, rbuf, handled>> /\ handled \in Nat /\ nreqs \in Int
        /\ Len(out) \in Nat /\ ileft \in Nat /\ Room \in Int
        /\ after_write \in {"conn_new_cmd", "conn_closing"}
    BY LenProperties DEF Transmit, Running, IInv, ReadLoop, TypeOK, input, counts, Room
  <1>2. \/ active' = active /\ state' \in {"conn_new_cmd", "conn_closing"} /\ out' = <<>>
        \/ active' = active /\ state' = "conn_closing"
        \/ /\ active' = active /\ state' = state /\ ileft' = ileft
           /\ Len(out') \in Nat /\ Len(out') <= Len(out)
        \/ /\ active' = FALSE /\ state' = state /\ ileft' = ileft /\ out' = out
           /\ ev' = "write" /\ out # <<>>
    <2>1. CASE TransmitComplete
      BY <1>1, <2>1 DEF TransmitComplete, Goto
    <2>2. CASE TransmitIncomplete
      <3>1. PICK n \in 1..Lesser(Len(out), Room) : out' = Drop(out, n)
        BY <2>2 DEF TransmitIncomplete
      <3>2. n \in 0..Len(out) /\ n \in Nat
        BY <1>1 DEF Lesser
      <3>3. Len(out') = Len(out) - n
        BY <3>1, <3>2, DropProperties DEF IInv, TypeOK
      <3>4. Len(out') \in Nat /\ Len(out') <= Len(out)
        BY <1>1, <3>2, <3>3
      <3>5. QED
        BY <2>2, <3>4 DEF TransmitIncomplete
    <2>3. CASE TransmitSoftError
      BY <2>3 DEF TransmitSoftError, Await
    <2>4. CASE TransmitHardError
      BY <2>4 DEF TransmitHardError, Goto
    <2>5. QED
      BY <2>1, <2>2, <2>3, <2>4 DEF Transmit
  <1>3. ReadLoop' /\ OutputDrained' /\ ParseNonEmpty' /\ Asleep' /\ LinesParsed'
    BY <1>1, <1>2 DEF ReadLoop, OutputDrained, ParseNonEmpty, Asleep, LinesParsed
  <1>4. RetainedUntilSent'
    <2> SUFFICES ASSUME state' = "conn_mwrite" PROVE Len(out') <= ileft' + 1
      BY DEF RetainedUntilSent
    <2>0. /\ state = "conn_mwrite" /\ ileft' = ileft
          /\ out' = out \/ (Len(out') \in Nat /\ Len(out') <= Len(out))
      BY <1>1, <1>2, Zenon
    <2>1. Len(out') \in Nat /\ Len(out') <= Len(out)
      BY <1>1, <2>0
    <2>2. Len(out) <= ileft + 1
      BY <2>0 DEF IInv, RetainedUntilSent
    <2>3. QED
      BY <1>1, <2>0, <2>1, <2>2
  <1>5. Charged'
    BY <1>1, <1>2 DEF IInv, Charged
  <1>6. QED
    BY <1>3, <1>4, <1>5 DEF Control

\* Closing and recycling leave nothing active, buffered or owed.
LEMMA CloseControl == IInv /\ (ConnClose \/ Recycle) => Control'
  <1> SUFFICES ASSUME IInv, ConnClose \/ Recycle PROVE Control'
    OBVIOUS
  <1>1. CASE ConnClose
    <2>1. /\ ~received /\ UNCHANGED <<received, handled>>
          /\ state' = "closed" /\ active' = FALSE
      BY <1>1 DEF ConnClose, Running, IInv, ReadLoop, input, counts
    <2>2. QED
      BY <2>1 DEF Control, ReadLoop, OutputDrained, LinesParsed, ParseNonEmpty,
                  Asleep, RetainedUntilSent, IInv, Charged
  <1>2. CASE Recycle
    <2>1. /\ ~received /\ ~active /\ UNCHANGED <<received, active>>
          /\ handled' = 0 /\ state' = "conn_new_cmd" /\ ev' = "read"
          /\ rbuf' = <<>> /\ out' = <<>>
      BY <1>2 DEF Recycle, ConnNew, IInv, ReadLoop, Asleep
    <2>2. QED
      BY <2>1 DEF Control, ReadLoop, OutputDrained, LinesParsed, ParseNonEmpty,
                  Asleep, RetainedUntilSent, Charged
  <1>3. QED
    BY <1>1, <1>2

\* What the client does changes nothing the server relies on.
LEMMA ClientControl ==
    IInv /\ (ClientSend \/ ClientRecv \/ ClientHangup \/ UNCHANGED vars) => Control'
  <1> SUFFICES ASSUME IInv, ClientSend \/ ClientRecv \/ ClientHangup \/ UNCHANGED vars
               PROVE  Control'
    OBVIOUS
  <1>1. UNCHANGED <<active, state, ev, nreqs, rbuf, received, out, ileft, handled>>
    BY DEF ClientSend, ClientRecv, ClientHangup, vars, input, output, counts
  <1>2. LinesParsed'
    BY <1>1 DEF IInv, LinesParsed, NoLineIn
  <1>3. ReadLoop' /\ OutputDrained' /\ ParseNonEmpty' /\ RetainedUntilSent' /\ Asleep'
    BY <1>1 DEF IInv, ReadLoop, OutputDrained, ParseNonEmpty, RetainedUntilSent, Asleep
  <1>4. Charged'
    BY <1>1 DEF IInv, Charged
  <1>5. QED
    BY <1>2, <1>3, <1>4 DEF Control

-----------------------------------------------------------------------------
(* The theorems *)

\* The inductive invariant holds of a fresh connection and is kept by every
\* step of drive_machine, of the event loop and of the client.
THEOREM Invariance == Spec => []IInv
  <1>1. Init => IInv
    <2> SUFFICES ASSUME Init PROVE IInv
      OBVIOUS
    <2>1. BufferFits
      BY DEF Init, BufferFits
    <2>2. QED
      BY <2>1, TypeInit, ControlInit DEF IInv, Control
  <1>2. IInv /\ [Next]_vars => IInv'
    <2> SUFFICES ASSUME IInv, [Next]_vars PROVE IInv'
      OBVIOUS
    <2>1. TypeOK' /\ BufferFits'
      BY TypeStep, BufferStep DEF IInv
    <2>2. Control'
      BY EventHandlerControl, NewCmdControl, WaitingControl, ReadControl,
         ParseCmdControl, ReadValueControl, TransmitControl, CloseControl,
         ClientControl DEF Next, DriveMachine
    <2>3. QED
      BY <2>1, <2>2 DEF IInv, Control
  <1>3. QED
    BY <1>1, <1>2, PTL DEF Spec

\* Every variable of the connection keeps its type; in particular the value
\* bytes still to swallow (sbytes) never go below zero, for sets whose length and
\* "\r\n" fit an int (process_update_command does not check that).
THEOREM TypeCorrect == Spec => []TypeOK
  <1>1. IInv => TypeOK
    BY DEF IInv
  <1>2. QED
    BY <1>1, Invariance, PTL

\* The asserts of read_command and read_network on rcurr, rbytes and rsize never
\* fail, whatever the client sends and however it is split over reads.
THEOREM ReadBufferCorrect == Spec => []ReadBufferSound
  <1>1. IInv => ReadBufferSound
    BY DEF IInv, BufferFits, ParseNonEmpty, ReadBufferSound, Running
  <1>2. QED
    BY <1>1, Invariance, PTL

\* No connection is put to sleep on work it already holds: drive_machine leaves
\* it registered for the event that will resume that work.
THEOREM WakeupCorrect == Spec => []WakeupArmed
  <1>1. IInv => WakeupArmed
    <2> SUFFICES ASSUME IInv, ~active, state # "closed" PROVE
          \/ ev = "write" /\ (out # <<>> \/ (state = "conn_new_cmd" /\ rbuf # <<>>))
          \/ ev = "read" /\ out = <<>> /\ NoLineIn(rbuf)
      BY DEF WakeupArmed
    <2>1. ~received
      BY DEF IInv, ReadLoop
    <2>2. rbuf = <<>> => NoLineIn(rbuf)
      BY DEF NoLineIn
    <2>3. QED
      BY <2>1, <2>2 DEF IInv, Asleep, OutputDrained, LinesParsed
  <1>2. QED
    BY <1>1, Invariance, PTL

\* No event makes a connection process more than REQ_PER_EVENT + 1 commands, so
\* one client cannot starve the others of its worker.
THEOREM BudgetCorrect == Spec => []RequestBudget
  <1>1. IInv => RequestBudget
    BY DEF IInv, Charged, RequestBudget
  <1>2. QED
    BY <1>1, Invariance, PTL

\* The items of a get are not released while a reply unit that points into one
\* of them is still to be written.
THEOREM RetainedCorrect == Spec => []RetainedUntilSent
  <1>1. IInv => RetainedUntilSent
    BY DEF IInv
  <1>2. QED
    BY <1>1, Invariance, PTL
-----------------------------------------------------------------------------
(* Arithmetic, stated apart from the sequences that crowd the provers' context. *)

\* A sum is at least its first term.
LEMMA NatPlus == \A a, b \in Nat : a + b \in Nat /\ a <= a + b
  OBVIOUS

\* A difference that is not negative is a natural number.
LEMMA NatMinus == \A a, b \in Nat : b <= a => a - b \in Nat /\ b \in 0..a
  OBVIOUS

\* Subtraction keeps the order.
LEMMA MinusMonotonic == \A a, b, k \in Nat : a <= b => a - k <= b - k
  OBVIOUS

\* The order is transitive.
LEMMA NatTrans == \A a, b, k \in Nat : a <= b /\ b <= k => a <= k
  OBVIOUS

\* The positions behind the first a of a + b.
LEMMA ShiftedPosition ==
    \A a, b \in Nat : \A p \in 1..b :
        a + p \in 1..a + b /\ ~(a + p <= a) /\ (a + p) - a = p
  OBVIOUS

\* Taking k bytes off the front of a concatenation takes them off its first part.
LEMMA DropConcat ==
    ASSUME NEW S, NEW s \in Seq(S), NEW t \in Seq(S), NEW k \in 0..Len(s)
    PROVE  Drop(s, k) \o t = Drop(s \o t, k)
  <1>1. Len(s) \in Nat /\ Len(t) \in Nat /\ k \in Nat /\ k <= Len(s)
    BY LenProperties
  <1>2. /\ s \o t \in Seq(S) /\ Len(s \o t) = Len(s) + Len(t)
        /\ \A i \in 1..Len(s) + Len(t) : (s \o t)[i] = IF i <= Len(s) THEN s[i] ELSE t[i - Len(s)]
    BY ConcatProperties
  <1>3. /\ Drop(s, k) \in Seq(S) /\ Len(Drop(s, k)) = Len(s) - k
        /\ \A i \in 1..Len(s) - k : Drop(s, k)[i] = s[k + i]
    BY DropProperties
  <1>4. k \in 0..Len(s \o t)
    BY <1>1, <1>2
  <1> DEFINE l == Drop(s, k) \o t
             m == Drop(s \o t, k)
  <1>5. /\ m \in Seq(S) /\ Len(m) = Len(s) + Len(t) - k
        /\ \A i \in 1..Len(s) + Len(t) - k : m[i] = (s \o t)[k + i]
    <2>1. /\ m \in Seq(S) /\ Len(m) = Len(s \o t) - k
          /\ \A i \in 1..Len(s \o t) - k : m[i] = (s \o t)[k + i]
      <3> DEFINE u == s \o t
      <3>1. u \in Seq(S) /\ k \in 0..Len(u)
        BY <1>2, <1>4
      <3> HIDE DEF u
      <3>2. /\ Drop(u, k) \in Seq(S) /\ Len(Drop(u, k)) = Len(u) - k
            /\ \A i \in 1..Len(u) - k : Drop(u, k)[i] = u[k + i]
        BY <3>1, DropProperties
      <3>3. QED
        BY <3>2 DEF u
    <2>2. QED
      BY <1>2, <2>1
  <1>6. /\ l \in Seq(S) /\ Len(l) = Len(s) - k + Len(t)
        /\ \A i \in 1..Len(s) - k + Len(t) :
              l[i] = IF i <= Len(s) - k THEN Drop(s, k)[i] ELSE t[i - (Len(s) - k)]
    <2>1. /\ l \in Seq(S) /\ Len(l) = Len(Drop(s, k)) + Len(t)
          /\ \A i \in 1..Len(Drop(s, k)) + Len(t) :
               l[i] = IF i <= Len(Drop(s, k)) THEN Drop(s, k)[i] ELSE t[i - Len(Drop(s, k))]
      BY <1>3, ConcatProperties
    <2>2. QED
      BY <1>3, <2>1
  <1> HIDE DEF l, m
  <1>7. Len(l) = Len(m)
    BY <1>1, <1>5, <1>6
  <1>8. ASSUME NEW i \in 1..Len(l) PROVE l[i] = m[i]
    <2>1. i \in Nat /\ 1 <= i /\ i <= Len(s) + Len(t) - k
      BY <1>1, <1>6
    <2>2. m[i] = (s \o t)[k + i]
      BY <1>1, <1>5, <2>1
    <2>3. (s \o t)[k + i] = IF k + i <= Len(s) THEN s[k + i] ELSE t[k + i - Len(s)]
      BY <1>1, <1>2, <2>1
    <2>4. l[i] = IF i <= Len(s) - k THEN Drop(s, k)[i] ELSE t[i - (Len(s) - k)]
      BY <1>1, <1>6, <2>1
    <2>5. CASE i <= Len(s) - k
      <3>1. Drop(s, k)[i] = s[k + i] /\ k + i <= Len(s)
        BY <1>1, <1>3, <2>1, <2>5
      <3>2. QED
        BY <2>2, <2>3, <2>4, <2>5, <3>1
    <2>6. CASE ~(i <= Len(s) - k)
      <3>1. ~(k + i <= Len(s)) /\ i - (Len(s) - k) = k + i - Len(s)
        BY <1>1, <2>1, <2>6
      <3>2. QED
        BY <2>2, <2>3, <2>4, <2>6, <3>1
    <2>7. QED
      BY <2>5, <2>6
  <1>9. l = m
    BY <1>5, <1>6, <1>7, <1>8, SeqEqual
  <1>10. QED
    BY <1>9 DEF l, m

\* Splitting a sequence and joining the parts again changes nothing.
LEMMA TakeDrop ==
    ASSUME NEW S, NEW s \in Seq(S), NEW k \in 0..Len(s)
    PROVE  Take(s, k) \o Drop(s, k) = s
  <1>1. Len(s) \in Nat
    BY LenProperties
  <1>2. 1 \in 1..Len(s) + 1 /\ k \in 1 - 1..Len(s) /\ Len(s) \in k..Len(s)
    BY <1>1
  <1>3. SubSeq(s, 1, k) \o SubSeq(s, k + 1, Len(s)) = SubSeq(s, 1, Len(s))
    BY <1>2, ConcatAdjacentSubSeq
  <1>4. QED
    BY <1>3, SubSeqFull DEF Take, Drop

\* Moving the first element of t to the end of s leaves s \o t as it was.
LEMMA ShiftOne ==
    ASSUME NEW S, NEW s \in Seq(S), NEW t \in Seq(S), t # <<>>
    PROVE  /\ Append(s, Head(t)) \o Tail(t) = s \o t
           /\ Append(s, Head(t)) \in Seq(S) /\ Tail(t) \in Seq(S)
  <1>1. Head(t) \in S /\ Tail(t) \in Seq(S)
    BY HeadTailProperties
  <1>2. Append(s, Head(t)) = s \o <<Head(t)>> /\ Append(s, Head(t)) \in Seq(S)
    BY <1>1, AppendIsConcat, AppendProperties
  <1>3. <<Head(t)>> \in Seq(S)
    BY <1>1
  <1>4. (s \o <<Head(t)>>) \o Tail(t) = s \o (<<Head(t)>> \o Tail(t))
    BY <1>1, <1>3, ConcatAssociative
  <1>5. <<Head(t)>> \o Tail(t) = t
    BY <1>1, HeadTailProperties
  <1>6. QED
    BY <1>1, <1>2, <1>4, <1>5

\* A line has its only '\n' at its end.
LEMMA LineShape ==
    ASSUME NEW r \in Request
    PROVE  /\ LineLength(r) \in Nat \ {0}
           /\ Len(Line(r)) = LineLength(r)
           /\ \A p \in 1..LineLength(r) : /\ Line(r)[p].req = r
                                          /\ Line(r)[p].end <=> p = LineLength(r)
  <1>1. LineLength(r) \in Nat \ {0}
    BY DEF LineLength, Request
  <1>2. Line(r) \in [1..LineLength(r) -> Byte]
    BY DEF Line, Byte
  <1>3. Line(r) \in Seq(Byte)
    BY LineType
  <1>4. Len(Line(r)) = LineLength(r)
    BY <1>1, <1>2, <1>3, LenProperties
  <1>5. \A p \in 1..LineLength(r) : Line(r)[p] = [req |-> r, end |-> p = LineLength(r)]
    BY DEF Line
  <1>6. \A p \in 1..LineLength(r) : /\ Line(r)[p].req = r
                                    /\ Line(r)[p].end <=> p = LineLength(r)
    <2> SUFFICES ASSUME NEW p \in 1..LineLength(r)
                 PROVE  Line(r)[p].req = r /\ (Line(r)[p].end <=> p = LineLength(r))
      BY Zenon
    <2>1. Line(r)[p] = [req |-> r, end |-> p = LineLength(r)]
      BY <1>5, Zenon
    <2> DEFINE e == p = LineLength(r)
    <2>2. Line(r)[p] = [req |-> r, end |-> e]
      BY <2>1
    <2> HIDE DEF e
    <2>3. Line(r)[p].req = r /\ Line(r)[p].end = e
      BY <2>2
    <2>4. QED
      BY <2>3, Zenon DEF e
  <1>7. QED
    BY <1>1, <1>4, <1>6, Zenon

\* What a client writes for a request starts with its line; the data block of a
\* set, accepted or refused, follows.
LEMMA WireShape ==
    ASSUME NEW r \in Request
    PROVE  /\ r.n \in Nat
           /\ Len(Wire(r)) = IF r.cmd \in {"set", "badset"} THEN LineLength(r) + (r.n + 2)
                                                            ELSE LineLength(r)
           /\ \A p \in 1..LineLength(r) : Wire(r)[p] = Line(r)[p]
           /\ r.cmd \in {"set", "badset"} =>
                 \A p \in 1..r.n + 2 : Wire(r)[LineLength(r) + p] = Value(r.n)[p]
  <1>1. Line(r) \in Seq(Byte) /\ Len(Line(r)) = LineLength(r) /\ LineLength(r) \in Nat \ {0}
    BY LineType, LineShape
  <1>2. r.n \in Nat
    BY DEF Request
  <1>3. CASE r.cmd \in {"set", "badset"}
    <2>1. Value(r.n) \in Seq(Byte) /\ Len(Value(r.n)) = r.n + 2
      BY <1>2, ValueType
    <2>2. Wire(r) = Line(r) \o Value(r.n)
      BY <1>3 DEF Wire
    <2>3. /\ Len(Wire(r)) = LineLength(r) + (r.n + 2)
          /\ \A p \in 1..LineLength(r) + (r.n + 2) :
               Wire(r)[p] = IF p <= LineLength(r) THEN Line(r)[p] ELSE Value(r.n)[p - LineLength(r)]
      <3> DEFINE l == Line(r)
                 v == Value(r.n)
      <3>1. /\ Len(l \o v) = Len(l) + Len(v)
            /\ \A p \in 1..Len(l) + Len(v) :
                  (l \o v)[p] = IF p <= Len(l) THEN l[p] ELSE v[p - Len(l)]
        BY <1>1, <2>1, ConcatProperties
      <3>2. QED
        BY <1>1, <2>1, <2>2, <3>1
    <2>4. ASSUME NEW p \in 1..r.n + 2 PROVE Wire(r)[LineLength(r) + p] = Value(r.n)[p]
      <3> DEFINE L == LineLength(r)
                 m == r.n + 2
                 W == Wire(r)
                 l == Line(r)
                 v == Value(r.n)
      <3>1. L \in Nat /\ m \in Nat /\ p \in 1..m
        BY <1>1, <1>2
      <3>2. \A q \in 1..L + m : W[q] = IF q <= L THEN l[q] ELSE v[q - L]
        BY <2>3
      <3> HIDE DEF L, m, W, l, v
      <3>3. L + p \in 1..L + m /\ ~(L + p <= L) /\ (L + p) - L = p
        BY <3>1
      <3>4. W[L + p] = v[p]
        BY <3>2, <3>3
      <3>5. QED
        BY <3>4 DEF L, W, v
    <2>5. ASSUME NEW p \in 1..LineLength(r) PROVE Wire(r)[p] = Line(r)[p]
      <3> DEFINE L == LineLength(r)
                 m == r.n + 2
                 W == Wire(r)
                 l == Line(r)
                 v == Value(r.n)
      <3>1. L \in Nat /\ m \in Nat /\ p \in 1..L
        BY <1>1, <1>2
      <3>2. \A q \in 1..L + m : W[q] = IF q <= L THEN l[q] ELSE v[q - L]
        BY <2>3
      <3> HIDE DEF L, m, W, l, v
      <3>3. QED
        BY <3>1, <3>2 DEF W, l
    <2>6. QED
      BY <1>2, <1>3, <2>3, <2>4, <2>5, Zenon
  <1>4. CASE r.cmd \notin {"set", "badset"}
    BY <1>1, <1>2, <1>4 DEF Wire
  <1>5. QED
    BY <1>3, <1>4

\* A data block has its only '\n' at its end, and is no command.
LEMMA ValueShape ==
    ASSUME NEW n \in Nat
    PROVE  /\ \A p \in 1..n + 2 : Value(n)[p].end <=> p = n + 2
           /\ ParseCommand(Value(n)) = Junk
  <1>1. \A p \in 1..n + 2 : Value(n)[p] = [req |-> Junk, end |-> p = n + 2]
    BY DEF Value
  <1>2. ASSUME NEW p \in 1..n + 2
        PROVE  Value(n)[p].req = Junk /\ (Value(n)[p].end <=> p = n + 2)
    <2> DEFINE e == p = n + 2
    <2>1. Value(n)[p] = [req |-> Junk, end |-> e]
      BY <1>1, Zenon
    <2> HIDE DEF e
    <2>2. Value(n)[p].req = Junk /\ Value(n)[p].end = e
      BY <2>1
    <2>3. QED
      BY <2>2, Zenon DEF e
  <1>3. Len(Value(n)) = n + 2 /\ n + 2 \in 1..n + 2
    BY ValueType
  <1>4. Value(n)[Len(Value(n))].req = Junk
    BY <1>2, <1>3
  <1>5. ParseCommand(Value(n)) = Junk
    BY <1>4 DEF ParseCommand
  <1>6. QED
    BY <1>2, <1>5, Zenon
-----------------------------------------------------------------------------
(* Framing *)

\* w is what X holds behind position b, up to position e.
Occupies(w, X, b, e) ==
    /\ e = b + Len(w)
    /\ \A p \in 1..Len(w) : X[b + p] = w[p]

\* X is skip bytes followed by what a client writes for requests lo+1 .. hi of s:
\* c[i] is where request i ends.
Framed(s, X, lo, skip, hi) ==
    \E c \in [Nat -> Nat] :
        /\ c[lo] = skip /\ c[hi] = Len(X)
        /\ \A i, j \in lo..hi : i <= j => c[i] <= c[j]
        /\ \A i \in lo..hi - 1 : Occupies(Wire(s[i + 1]), X, c[i], c[i + 1])

\* Bytes in front of an occupied range can be taken away.
LEMMA OccupiesDrop ==
    ASSUME NEW X \in Seq(Byte), NEW w \in Seq(Byte), NEW b \in Nat, NEW e \in Nat,
           NEW k \in 0..b, e <= Len(X), Occupies(w, X, b, e)
    PROVE  Occupies(w, Drop(X, k), b - k, e - k)
  <1>1. Len(X) \in Nat /\ Len(w) \in Nat /\ k \in Nat /\ k <= b
    BY LenProperties
  <1>2. e = b + Len(w) /\ \A p \in 1..Len(w) : X[b + p] = w[p]
    BY DEF Occupies
  <1>3. k \in 0..Len(X)
    BY <1>1, <1>2
  <1> DEFINE Y == Drop(X, k)
  <1>4. \A i \in 1..Len(X) - k : Y[i] = X[k + i]
    BY <1>3, DropProperties
  <1> HIDE DEF Y
  <1>5. e - k = (b - k) + Len(w)
    BY <1>1, <1>2
  <1>6. ASSUME NEW p \in 1..Len(w) PROVE Y[(b - k) + p] = w[p]
    <2>1. (b - k) + p \in 1..Len(X) - k /\ k + ((b - k) + p) = b + p
      BY <1>1, <1>2
    <2>2. Y[(b - k) + p] = X[b + p]
      BY <1>4, <2>1
    <2>3. QED
      BY <1>2, <2>2
  <1>7. QED
    BY <1>5, <1>6 DEF Occupies, Y

\* Bytes behind an occupied range do not matter.
LEMMA OccupiesConcat ==
    ASSUME NEW X \in Seq(Byte), NEW v \in Seq(Byte), NEW w \in Seq(Byte),
           NEW b \in Nat, NEW e \in Nat, e <= Len(X), Occupies(w, X, b, e)
    PROVE  Occupies(w, X \o v, b, e)
  <1>1. Len(X) \in Nat /\ Len(w) \in Nat /\ Len(v) \in Nat
    BY LenProperties
  <1>2. e = b + Len(w) /\ \A p \in 1..Len(w) : X[b + p] = w[p]
    BY DEF Occupies
  <1> DEFINE Y == X \o v
  <1>3. \A i \in 1..Len(X) + Len(v) : Y[i] = IF i <= Len(X) THEN X[i] ELSE v[i - Len(X)]
    BY ConcatProperties
  <1> HIDE DEF Y
  <1>4. ASSUME NEW p \in 1..Len(w) PROVE Y[b + p] = w[p]
    <2>1. b + p \in 1..Len(X) + Len(v) /\ b + p <= Len(X)
      BY <1>1, <1>2
    <2>2. Y[b + p] = X[b + p]
      BY <1>3, <2>1
    <2>3. QED
      BY <1>2, <2>2
  <1>5. QED
    BY <1>2, <1>4 DEF Occupies, Y

\* The bytes to skip may be taken off one piece at a time.
LEMMA FramedDrop ==
    ASSUME NEW s \in Seq(Request), NEW X \in Seq(Byte), NEW lo \in Nat, NEW hi \in Nat,
           lo <= hi, hi <= Len(s), NEW skip \in Nat, NEW k \in 0..skip,
           Framed(s, X, lo, skip, hi)
    PROVE  k \in 0..Len(X) /\ Framed(s, Drop(X, k), lo, skip - k, hi)
  <1>1. PICK c \in [Nat -> Nat] :
          /\ c[lo] = skip /\ c[hi] = Len(X)
          /\ \A i, j \in lo..hi : i <= j => c[i] <= c[j]
          /\ \A i \in lo..hi - 1 : Occupies(Wire(s[i + 1]), X, c[i], c[i + 1])
    BY DEF Framed
  <1>2. Len(X) \in Nat /\ Len(s) \in Nat /\ k \in Nat /\ k <= skip
    BY LenProperties
  <1>3. ASSUME NEW i \in lo..hi
        PROVE  i \in Nat /\ c[i] \in Nat /\ skip <= c[i] /\ c[i] <= Len(X) /\ k <= c[i]
    <2>1. i \in Nat /\ lo <= i /\ i <= hi /\ lo \in lo..hi /\ hi \in lo..hi
      OBVIOUS
    <2>2. c[lo] <= c[i] /\ c[i] <= c[hi] /\ c[i] \in Nat
      BY <1>1, <2>1
    <2>3. QED
      BY <1>1, <1>2, <2>1, <2>2
  <1>4. k \in 0..Len(X)
    <2>1. hi \in lo..hi
      OBVIOUS
    <2>2. QED
      BY <1>1, <1>2, <1>3, <2>1
  <1> DEFINE d == [i \in Nat |-> IF i \in lo..hi THEN c[i] - k ELSE 0]
             Y == Drop(X, k)
  <1>5. Len(Y) = Len(X) - k
    BY <1>4, DropProperties
  <1>6. d \in [Nat -> Nat]
    <2>1. ASSUME NEW i \in Nat PROVE (IF i \in lo..hi THEN c[i] - k ELSE 0) \in Nat
      <3>1. CASE i \in lo..hi
        <4>1. c[i] \in Nat /\ k <= c[i]
          BY <1>3, <3>1
        <4>2. c[i] - k \in Nat
          BY <1>2, <4>1, NatMinus, Zenon
        <4>3. QED
          BY <3>1, <4>2
      <3>2. CASE i \notin lo..hi
        BY <3>2
      <3>3. QED
        BY <3>1, <3>2
    <2>2. QED
      BY <2>1
  <1>7. \A i \in lo..hi : d[i] = c[i] - k
    BY <1>3
  <1> HIDE DEF d, Y
  <1>8. d[lo] = skip - k /\ d[hi] = Len(Y)
    <2>1. lo \in lo..hi /\ hi \in lo..hi
      OBVIOUS
    <2>2. QED
      BY <1>1, <1>5, <1>7, <2>1
  <1>9. ASSUME NEW i \in lo..hi, NEW j \in lo..hi, i <= j PROVE d[i] <= d[j]
    <2>1. c[i] <= c[j]
      BY <1>1, <1>9
    <2>2. c[i] \in Nat /\ c[j] \in Nat /\ d[i] = c[i] - k /\ d[j] = c[j] - k
      BY <1>3, <1>7
    <2>3. QED
      BY <1>2, <2>1, <2>2, MinusMonotonic, Zenon
  <1>10. ASSUME NEW i \in lo..hi - 1
         PROVE  Occupies(Wire(s[i + 1]), Y, d[i], d[i + 1])
    <2>1. i \in lo..hi /\ i + 1 \in lo..hi /\ i + 1 \in 1..Len(s)
      BY <1>2
    <2>2. Wire(s[i + 1]) \in Seq(Byte)
      BY <2>1, ElementOfSeq, WireType
    <2>3. d[i] = c[i] - k /\ d[i + 1] = c[i + 1] - k
      BY <1>7, <2>1
    <2>4. c[i] \in Nat /\ c[i + 1] \in Nat /\ c[i + 1] <= Len(X) /\ k \in 0..c[i]
      <3>1. c[i] \in Nat /\ k <= c[i]
        BY <1>3, <2>1
      <3>2. c[i + 1] \in Nat /\ c[i + 1] <= Len(X)
        BY <1>3, <2>1
      <3>3. k \in 0..c[i]
        BY <1>2, <3>1, NatMinus, Zenon
      <3>4. QED
        BY <3>1, <3>2, <3>3, Zenon
    <2>5. Occupies(Wire(s[i + 1]), X, c[i], c[i + 1])
      BY <1>1
    <2>6. QED
      BY <2>2, <2>3, <2>4, <2>5, OccupiesDrop DEF Y
  <1>11. Framed(s, Y, lo, skip - k, hi)
    BY <1>6, <1>8, <1>9, <1>10 DEF Framed
  <1>12. QED
    BY <1>4, <1>11 DEF Y

\* When nothing is to be skipped, the stream starts with the next request.
LEMMA FramedFirst ==
    ASSUME NEW s \in Seq(Request), NEW X \in Seq(Byte), X # <<>>, NEW lo \in Nat,
           NEW hi \in Nat, lo <= hi, hi <= Len(s), Framed(s, X, lo, 0, hi)
    PROVE  /\ lo + 1 <= hi
           /\ s[lo + 1] \in Request
           /\ Len(Wire(s[lo + 1])) <= Len(X)
           /\ \A p \in 1..Len(Wire(s[lo + 1])) : X[p] = Wire(s[lo + 1])[p]
           /\ Framed(s, X, lo + 1, Len(Wire(s[lo + 1])), hi)
  <1>1. PICK c \in [Nat -> Nat] :
          /\ c[lo] = 0 /\ c[hi] = Len(X)
          /\ \A i, j \in lo..hi : i <= j => c[i] <= c[j]
          /\ \A i \in lo..hi - 1 : Occupies(Wire(s[i + 1]), X, c[i], c[i + 1])
    BY DEF Framed
  <1>2. Len(X) \in Nat \ {0} /\ Len(s) \in Nat
    BY LenProperties, EmptySeq
  <1>3. lo # hi
    BY <1>1, <1>2
  <1>4. lo + 1 <= hi /\ lo + 1 \in 1..Len(s) /\ lo \in lo..hi - 1
    BY <1>2, <1>3
  <1>5. s[lo + 1] \in Request
    BY <1>4, ElementOfSeq
  <1> DEFINE w == Wire(s[lo + 1])
  <1>6. Len(w) \in Nat
    BY <1>5, WireType, LenProperties
  <1>7. Occupies(w, X, c[lo], c[lo + 1])
    BY <1>1, <1>4
  <1> HIDE DEF w
  <1>8. c[lo + 1] = Len(w) /\ \A p \in 1..Len(w) : X[p] = w[p]
    <2>1. c[lo + 1] = 0 + Len(w) /\ \A p \in 1..Len(w) : X[0 + p] = w[p]
      BY <1>1, <1>7 DEF Occupies
    <2>2. QED
      BY <1>6, <2>1
  <1>9. Len(w) <= Len(X)
    <2>1. lo + 1 \in lo..hi /\ hi \in lo..hi
      BY <1>4
    <2>2. QED
      BY <1>1, <1>4, <1>8, <2>1
  <1>10. Framed(s, X, lo + 1, Len(w), hi)
    <2>1. \A i \in lo + 1..hi : i \in lo..hi
      OBVIOUS
    <2>2. \A i, j \in lo + 1..hi : i <= j => c[i] <= c[j]
      BY <1>1, <2>1
    <2>3. \A i \in lo + 1..hi - 1 : i \in lo..hi - 1
      OBVIOUS
    <2>4. \A i \in lo + 1..hi - 1 : Occupies(Wire(s[i + 1]), X, c[i], c[i + 1])
      BY <1>1, <2>3
    <2>5. QED
      BY <1>1, <1>8, <2>2, <2>4 DEF Framed
  <1>11. QED
    BY <1>4, <1>5, <1>8, <1>9, <1>10 DEF w

\* What the client writes next continues the stream.
LEMMA FramedExtend ==
    ASSUME NEW s \in Seq(Request), NEW X \in Seq(Byte), NEW lo \in Nat, NEW hi \in Nat,
           lo <= hi, hi + 1 <= Len(s), NEW skip \in Nat, Framed(s, X, lo, skip, hi)
    PROVE  Framed(s, X \o Wire(s[hi + 1]), lo, skip, hi + 1)
  <1>1. PICK c \in [Nat -> Nat] :
          /\ c[lo] = skip /\ c[hi] = Len(X)
          /\ \A i, j \in lo..hi : i <= j => c[i] <= c[j]
          /\ \A i \in lo..hi - 1 : Occupies(Wire(s[i + 1]), X, c[i], c[i + 1])
    BY DEF Framed
  <1>2. Len(X) \in Nat /\ Len(s) \in Nat /\ hi + 1 \in 1..Len(s)
    BY LenProperties
  <1>3. s[hi + 1] \in Request
    BY <1>2, ElementOfSeq
  <1> DEFINE w == Wire(s[hi + 1])
             Y == X \o w
             d == [c EXCEPT ![hi + 1] = Len(X) + Len(w)]
  <1>4. w \in Seq(Byte) /\ Len(w) \in Nat
    BY <1>3, WireType, LenProperties
  <1>5. /\ Len(Y) = Len(X) + Len(w)
        /\ \A i \in 1..Len(X) + Len(w) : Y[i] = IF i <= Len(X) THEN X[i] ELSE w[i - Len(X)]
    BY <1>4, ConcatProperties
  <1> HIDE DEF w, Y
  <1>6. d \in [Nat -> Nat] /\ d[hi + 1] = Len(X) + Len(w)
    <2>1. Len(X) + Len(w) \in Nat /\ hi + 1 \in Nat
      BY <1>2, <1>4
    <2>2. QED
      BY <2>1
  <1>7. ASSUME NEW i \in lo..hi PROVE d[i] = c[i] /\ c[i] \in Nat /\ c[i] <= Len(X)
    <2>1. i \in Nat /\ i # hi + 1 /\ i <= hi /\ hi \in lo..hi
      OBVIOUS
    <2>2. c[i] <= c[hi]
      BY <1>1, <2>1
    <2>3. QED
      BY <1>1, <2>1, <2>2
  <1> HIDE DEF d
  <1>8. d[lo] = skip /\ d[hi + 1] = Len(Y)
    <2>1. lo \in lo..hi
      OBVIOUS
    <2>2. QED
      BY <1>1, <1>5, <1>6, <1>7, <2>1
  <1>9. ASSUME NEW i \in lo..hi + 1, NEW j \in lo..hi + 1, i <= j PROVE d[i] <= d[j]
    <2>1. CASE j \in lo..hi
      <3>1. i \in lo..hi
        BY <1>9, <2>1
      <3>2. c[i] <= c[j]
        BY <1>1, <1>9, <2>1, <3>1
      <3>3. QED
        BY <1>7, <2>1, <3>1, <3>2
    <2>2. CASE j = hi + 1 /\ i \in lo..hi
      <3>1. d[i] \in Nat /\ d[i] <= Len(X)
        BY <1>7, <2>2
      <3>2. Len(X) <= Len(X) + Len(w) /\ Len(X) + Len(w) \in Nat
        BY <1>2, <1>4, NatPlus, Zenon
      <3>3. d[j] = Len(X) + Len(w)
        BY <1>6, <2>2
      <3>4. QED
        BY <1>2, <3>1, <3>2, <3>3, NatTrans, Zenon
    <2>3. CASE j = hi + 1 /\ i = hi + 1
      BY <1>2, <1>4, <1>6, <2>3
    <2>4. QED
      BY <1>9, <2>1, <2>2, <2>3
  <1>10. ASSUME NEW i \in lo..(hi + 1) - 1
         PROVE  Occupies(Wire(s[i + 1]), Y, d[i], d[i + 1])
    <2>1. CASE i \in lo..hi - 1
      <3>1. i \in lo..hi /\ i + 1 \in lo..hi /\ i + 1 \in 1..Len(s)
        BY <1>2, <2>1
      <3>2. Wire(s[i + 1]) \in Seq(Byte)
        BY <3>1, ElementOfSeq, WireType
      <3>3. Occupies(Wire(s[i + 1]), X, c[i], c[i + 1])
        BY <1>1, <2>1
      <3>4. d[i] = c[i] /\ d[i + 1] = c[i + 1] /\ c[i] \in Nat /\ c[i + 1] \in Nat
            /\ c[i + 1] <= Len(X)
        BY <1>7, <3>1
      <3>5. QED
        BY <1>4, <3>2, <3>3, <3>4, OccupiesConcat DEF Y
    <2>2. CASE i = hi
      <3>1. d[hi] = Len(X)
        <4>1. hi \in lo..hi
          OBVIOUS
        <4>2. QED
          BY <1>1, <1>7, <4>1
      <3>2. ASSUME NEW p \in 1..Len(w) PROVE Y[Len(X) + p] = w[p]
        <4>1. /\ Len(X) + p \in 1..Len(X) + Len(w)
              /\ ~(Len(X) + p <= Len(X)) /\ (Len(X) + p) - Len(X) = p
          BY <1>2, <1>4, ShiftedPosition, Zenon
        <4>2. QED
          BY <1>5, <4>1
      <3>3. Occupies(w, Y, d[hi], d[hi + 1])
        BY <1>6, <3>1, <3>2 DEF Occupies
      <3>4. QED
        BY <2>2, <3>3 DEF w
    <2>3. QED
      BY <2>1, <2>2
  <1>11. Framed(s, Y, lo, skip, hi + 1)
    BY <1>6, <1>8, <1>9, <1>10 DEF Framed
  <1>12. QED
    BY <1>11 DEF Y, w

\* A stream that starts with a request has its first '\n' where the request's
\* line ends, and the bytes up to there parse as that request.
LEMMA FirstLine ==
    ASSUME NEW r \in Request, NEW X \in Seq(Byte), NEW k \in 1..Len(X),
           Len(Wire(r)) <= Len(X),
           \A p \in 1..Len(Wire(r)) : X[p] = Wire(r)[p],
           X[k].end, \A j \in 1..k - 1 : ~X[j].end
    PROVE  k = LineLength(r) /\ Take(X, k) = Line(r) /\ ParseCommand(Take(X, k)) = r
  <1>1. /\ LineLength(r) \in Nat \ {0}
        /\ Len(Line(r)) = LineLength(r)
        /\ \A p \in 1..LineLength(r) : /\ Line(r)[p].req = r
                                       /\ Line(r)[p].end <=> p = LineLength(r)
    BY LineShape, Zenon
  <1>2. r.n \in Nat /\ Len(X) \in Nat
    BY LenProperties DEF Request
  <1>3. /\ LineLength(r) <= Len(Wire(r))
        /\ Len(Wire(r)) \in Nat
        /\ \A p \in 1..LineLength(r) : Wire(r)[p] = Line(r)[p]
    BY <1>1, <1>2, WireShape, WireType, LenProperties
  <1>4. \A p \in 1..LineLength(r) : X[p] = Line(r)[p]
    BY <1>1, <1>3
  <1>5. k = LineLength(r)
    <2>1. CASE k < LineLength(r)
      <3>1. k \in 1..LineLength(r) /\ k # LineLength(r)
        BY <1>1, <1>2, <2>1
      <3>2. ~Line(r)[k].end
        BY <1>1, <3>1, Zenon
      <3>3. QED
        BY <1>4, <3>1, <3>2
    <2>2. CASE LineLength(r) < k
      <3>1. LineLength(r) \in 1..LineLength(r) /\ LineLength(r) \in 1..k - 1
        BY <1>1, <1>2, <2>2
      <3>2. Line(r)[LineLength(r)].end
        BY <1>1, <3>1, Zenon
      <3>3. QED
        BY <1>4, <3>1, <3>2
    <2>3. QED
      BY <1>1, <1>2, <2>1, <2>2
  <1>6. k \in 0..Len(X)
    BY <1>2
  <1>7. /\ Take(X, k) \in Seq(Byte) /\ Len(Take(X, k)) = k
        /\ \A i \in 1..k : Take(X, k)[i] = X[i]
    BY <1>6, TakeProperties
  <1>8. Take(X, k) = Line(r)
    BY <1>1, <1>4, <1>5, <1>7, LineType, SeqEqual
  <1>9. Line(r)[Len(Line(r))].req = r
    BY <1>1
  <1>10. QED
    BY <1>5, <1>8, <1>9 DEF ParseCommand

\* A stream that starts with a data block has its first '\n' where that ends.
LEMMA FirstBlock ==
    ASSUME NEW n \in Nat, NEW X \in Seq(Byte), NEW k \in 1..Len(X), n + 2 <= Len(X),
           \A p \in 1..n + 2 : X[p] = Value(n)[p],
           X[k].end, \A j \in 1..k - 1 : ~X[j].end
    PROVE  k = n + 2 /\ Take(X, k) = Value(n) /\ ParseCommand(Take(X, k)) = Junk
  <1>1. /\ \A p \in 1..n + 2 : Value(n)[p].end <=> p = n + 2
        /\ ParseCommand(Value(n)) = Junk
    BY ValueShape, Zenon
  <1>2. Len(X) \in Nat
    BY LenProperties
  <1>3. k = n + 2
    <2>1. CASE k < n + 2
      <3>1. k \in 1..n + 2 /\ k # n + 2
        BY <1>2, <2>1
      <3>2. ~Value(n)[k].end
        BY <1>1, <3>1, Zenon
      <3>3. QED
        BY <3>1, <3>2
    <2>2. CASE n + 2 < k
      <3>1. n + 2 \in 1..n + 2 /\ n + 2 \in 1..k - 1
        BY <1>2, <2>2
      <3>2. Value(n)[n + 2].end
        BY <1>1, <3>1, Zenon
      <3>3. QED
        BY <3>1, <3>2
    <2>3. QED
      BY <1>2, <2>1, <2>2
  <1>4. k \in 0..Len(X)
    BY <1>2
  <1>5. /\ Take(X, k) \in Seq(Byte) /\ Len(Take(X, k)) = k
        /\ \A i \in 1..k : Take(X, k)[i] = X[i]
    BY <1>4, TakeProperties
  <1>6. Value(n) \in Seq(Byte) /\ Len(Value(n)) = n + 2
    BY ValueType
  <1>7. Take(X, k) = Value(n)
    BY <1>3, <1>5, <1>6, SeqEqual
  <1>8. QED
    BY <1>1, <1>3, <1>7
-----------------------------------------------------------------------------
(* The second inductive invariant: where the server stands in the client's stream *)

\* The bytes the server has not consumed: buffered, in the socket, or on their way.
Stream == rbuf \o (sock \o unsent)

\* How many requests the client has started to send.
Sent == Len(script) - Len(todo)

\* Requests whose line is parsed, and the bytes of the last one's data block that are
\* still to come: to be swallowed, or to be read as a line.
First == IF state = "conn_read_value" THEN answered + 1 ELSE answered
Skip  == IF state = "conn_read_value" THEN sbytes
         ELSE IF refused THEN script[answered].n + 2 ELSE 0

\* The server goes on to read requests.
Live == state \notin {"conn_closing", "closed"} /\ after_write = "conn_new_cmd"

\* What the client still has to send is the rest of its script.
SentSoFar ==
    /\ Len(todo) <= Len(script)
    /\ \A i \in 1..Len(todo) : todo[i] = script[Sent + i]

\* Only the SERVER_ERROR of a failed read leads to conn_closing.
LastReply ==
    after_write = "conn_closing" => state \in {"conn_write", "conn_closing", "closed"}

\* The stream is the rest of a data block, then whole requests: the server never
\* loses its place in it.
Aligned == Live => First <= Sent /\ Framed(script, Stream, First, Skip, Sent)

\* A value is read only for a set.
SetPending == Live /\ state = "conn_read_value" => script[answered + 1].cmd = "set"

\* A refused set is done with before another line is read...
RefusedLast == refused => answered \in 1..Len(script) /\ state # "conn_read_value"

\* ...and the whole of its data block comes next.
BlockNext ==
    Live /\ refused => \A p \in 1..Skip : Stream[p] = Value(script[answered].n)[p]

InStep == SentSoFar /\ LastReply /\ Aligned /\ SetPending /\ RefusedLast /\ BlockNext

\* The parts of the stream have their types.
LEMMA StreamType ==
    ASSUME IInv, SentSoFar, RefusedLast
    PROVE  /\ Stream \in Seq(Byte) /\ sock \o unsent \in Seq(Byte)
           /\ Sent \in Nat /\ Sent <= Len(script) /\ First \in Nat /\ Skip \in Nat
           /\ script \in Seq(Request) /\ todo \in Seq(Request)
           /\ rbuf \in Seq(Byte) /\ sock \in Seq(Byte) /\ unsent \in Seq(Byte)
           /\ Len(script) \in Nat /\ Len(todo) \in Nat /\ answered \in Nat /\ sbytes \in Nat
  <1>1. /\ script \in Seq(Request) /\ todo \in Seq(Request)
        /\ rbuf \in Seq(Byte) /\ sock \in Seq(Byte) /\ unsent \in Seq(Byte)
        /\ answered \in Nat /\ sbytes \in Nat
    BY DEF IInv, TypeOK
  <1>2. Len(script) \in Nat /\ Len(todo) \in Nat
    BY <1>1, LenProperties
  <1>3. sock \o unsent \in Seq(Byte)
    BY <1>1, ConcatProperties
  <1>4. Stream \in Seq(Byte)
    BY <1>1, <1>3, ConcatProperties DEF Stream
  <1>5. Sent \in Nat /\ Sent <= Len(script)
    BY <1>2 DEF Sent, SentSoFar
  <1>6. First \in Nat /\ Skip \in Nat
    <2>1. refused => script[answered].n \in Nat
      BY <1>1, ElementOfSeq DEF RefusedLast, Request
    <2>2. refused => script[answered].n + 2 \in Nat
      BY <2>1
    <2>3. QED
      BY <1>1, <2>2 DEF First, Skip
  <1>7. QED
    BY <1>1, <1>2, <1>3, <1>4, <1>5, <1>6

\* A step that moves no byte out of the stream and completes no request.
LEMMA InStepKept ==
    ASSUME InStep, UNCHANGED <<script, todo, progress, after_write, Stream>>, LastReply',
           Live' => Live /\ First' = First /\ Skip' = Skip,
           state' = "conn_read_value" => state = "conn_read_value"
    PROVE  InStep'
  <1>1. SentSoFar'
    BY DEF InStep, SentSoFar, Sent
  <1>2. Aligned'
    <2>1. Sent' = Sent
      BY DEF Sent
    <2>2. QED
      BY <2>1 DEF InStep, Aligned
  <1>3. SetPending'
    BY DEF InStep, SetPending
  <1>4. RefusedLast'
    BY DEF InStep, RefusedLast
  <1>5. BlockNext'
    BY DEF InStep, BlockNext
  <1>6. QED
    BY <1>1, <1>2, <1>3, <1>4, <1>5 DEF InStep

\* A step after which the server reads no more requests.
LEMMA InStepOver ==
    ASSUME InStep, UNCHANGED <<script, todo>>, LastReply', RefusedLast', ~Live'
    PROVE  InStep'
  <1>1. SentSoFar'
    BY DEF InStep, SentSoFar, Sent
  <1>2. QED
    BY <1>1 DEF InStep, Aligned, SetPending, BlockNext

\* A fresh connection: nothing sent, nothing answered.
Fresh ==
    /\ script \in Seq(Request) /\ todo = script /\ unsent = <<>>
    /\ sock = <<>> /\ rbuf = <<>> /\ answered = 0 /\ refused = FALSE
    /\ state = "conn_new_cmd" /\ after_write = "conn_new_cmd"

\* On a fresh connection the server is in step.
LEMMA InStepStart == Fresh => InStep
  <1> SUFFICES ASSUME Fresh PROVE InStep
    OBVIOUS
  <1> USE DEF Fresh
  <1>1. Len(script) \in Nat
    BY LenProperties
  <1>2. Sent = 0
    BY <1>1 DEF Sent
  <1>3. SentSoFar
    BY <1>1, <1>2 DEF SentSoFar
  <1>4. First = 0 /\ Skip = 0
    BY DEF First, Skip
  <1>5. Stream = <<>>
    BY EmptySeq, ConcatEmptySeq DEF Stream
  <1>6. Framed(script, <<>>, 0, 0, 0)
    <2> DEFINE c == [i \in Nat |-> 0]
    <2>1. c \in [Nat -> Nat] /\ Len(<<>>) = 0
      BY EmptySeq
    <2>2. c[0] = 0 /\ \A i, j \in 0..0 : i <= j => c[i] <= c[j]
      OBVIOUS
    <2>3. \A i \in 0..0 - 1 : Occupies(Wire(script[i + 1]), <<>>, c[i], c[i + 1])
      OBVIOUS
    <2> HIDE DEF c
    <2>4. QED
      BY <2>1, <2>2, <2>3 DEF Framed
  <1>7. Aligned
    BY <1>2, <1>4, <1>5, <1>6 DEF Aligned
  <1>8. QED
    BY <1>3, <1>7 DEF InStep, LastReply, SetPending, RefusedLast, BlockNext

\* What holds of the buffer's first line holds of the stream's.
LEMMA StreamLine ==
    ASSUME IInv, InStep, NEW k \in 1..Len(rbuf), NewlineAt(k)
    PROVE  /\ Stream # <<>> /\ k \in 1..Len(Stream)
           /\ Stream[k].end /\ \A j \in 1..k - 1 : ~Stream[j].end
           /\ Take(Stream, k) = Take(rbuf, k)
  <1>1. sock \o unsent \in Seq(Byte) /\ rbuf \in Seq(Byte)
    BY StreamType DEF InStep
  <1> DEFINE t == sock \o unsent
  <1>2. /\ Stream = rbuf \o t
        /\ Len(Stream) = Len(rbuf) + Len(t)
        /\ \A i \in 1..Len(rbuf) + Len(t) :
              Stream[i] = IF i <= Len(rbuf) THEN rbuf[i] ELSE t[i - Len(rbuf)]
    BY <1>1, ConcatProperties DEF Stream
  <1>3. Len(rbuf) \in Nat /\ Len(t) \in Nat
    BY <1>1, LenProperties
  <1> HIDE DEF t
  <1>4. \A i \in 1..Len(rbuf) : i \in 1..Len(Stream) /\ Stream[i] = rbuf[i]
    BY <1>2, <1>3
  <1>5. Stream # <<>> /\ k \in 1..Len(Stream)
    <2>1. k \in 1..Len(Stream)
      BY <1>4
    <2>2. QED
      BY <2>1, EmptySeq
  <1>6. Stream[k].end /\ \A j \in 1..k - 1 : ~Stream[j].end
    <2>1. \A j \in 1..k - 1 : j \in 1..Len(rbuf)
      BY <1>3
    <2>2. rbuf[k].end /\ \A j \in 1..k - 1 : ~rbuf[j].end
      BY DEF NewlineAt
    <2>3. QED
      BY <1>4, <2>1, <2>2
  <1>7. Take(Stream, k) = Take(rbuf, k)
    <2>1. 1 \in 1..Len(rbuf)
      BY <1>3
    <2>2. SubSeq(rbuf \o t, 1, k) = SubSeq(rbuf, 1, k)
      BY <1>1, <2>1, SubSeqOfConcat1 DEF t
    <2>3. QED
      BY <1>2, <2>2 DEF Take
  <1>8. QED
    BY <1>5, <1>6, <1>7

\* In conn_parse_cmd the first line in the buffer is that of the next request, unless
\* the data block of a refused set is to come.
LEMMA NextLine ==
    ASSUME IInv, InStep, state = "conn_parse_cmd", ~refused,
           NEW k \in 1..Len(rbuf), NewlineAt(k)
    PROVE  LET r == script[answered + 1]
           IN  /\ r \in Request /\ ParseCommand(Take(rbuf, k)) = r
               /\ k = LineLength(r) /\ k \in Nat /\ k <= Len(Wire(r))
               /\ answered + 1 <= Sent /\ answered + 1 <= Len(script)
               /\ Framed(script, Stream, answered + 1, Len(Wire(r)), Sent)
               /\ Len(Wire(r)) <= Len(Stream)
               /\ \A p \in 1..Len(Wire(r)) : Stream[p] = Wire(r)[p]
  <1>1. /\ Stream \in Seq(Byte) /\ sock \o unsent \in Seq(Byte)
        /\ Sent \in Nat /\ Sent <= Len(script) /\ Len(script) \in Nat /\ answered \in Nat
        /\ script \in Seq(Request) /\ rbuf \in Seq(Byte)
    BY StreamType DEF InStep
  <1>2. after_write = "conn_new_cmd"
    BY DEF InStep, LastReply, IInv, TypeOK
  <1>3. answered <= Sent /\ Framed(script, Stream, answered, 0, Sent)
    BY <1>2 DEF InStep, Aligned, Live, First, Skip
  <1> DEFINE r == script[answered + 1]
  <1>4. /\ Stream # <<>> /\ k \in 1..Len(Stream)
        /\ Stream[k].end /\ \A j \in 1..k - 1 : ~Stream[j].end
        /\ Take(Stream, k) = Take(rbuf, k)
    BY StreamLine
  <1>8. /\ answered + 1 <= Sent
        /\ r \in Request
        /\ Len(Wire(r)) <= Len(Stream)
        /\ \A p \in 1..Len(Wire(r)) : Stream[p] = Wire(r)[p]
        /\ Framed(script, Stream, answered + 1, Len(Wire(r)), Sent)
    BY <1>1, <1>3, <1>4, FramedFirst
  <1> HIDE DEF r
  <1>10. k = LineLength(r) /\ ParseCommand(Take(Stream, k)) = r
    BY <1>1, <1>4, <1>8, FirstLine
  <1>12. k \in Nat /\ k <= Len(Wire(r))
    <2>1. r.n \in Nat
      BY <1>8 DEF Request
    <2>2. LineLength(r) \in Nat
      BY <1>8, LineShape
    <2>3. QED
      BY <1>8, <1>10, <2>1, <2>2, WireShape
  <1>13. answered + 1 <= Len(script)
    BY <1>1, <1>8
  <1>14. QED
    BY <1>4, <1>8, <1>10, <1>12, <1>13 DEF r

\* Behind a refused set, the first line is its data block, and no command.
LEMMA BlockLine ==
    ASSUME IInv, InStep, state = "conn_parse_cmd", refused,
           NEW k \in 1..Len(rbuf), NewlineAt(k)
    PROVE  /\ ParseCommand(Take(rbuf, k)) = Junk
           /\ k \in Nat /\ k = Skip /\ answered <= Sent
           /\ Framed(script, Stream, answered, k, Sent)
  <1>1. /\ Stream \in Seq(Byte) /\ Sent \in Nat /\ Sent <= Len(script)
        /\ answered \in Nat /\ script \in Seq(Request) /\ Skip \in Nat
    BY StreamType DEF InStep
  <1>2. after_write = "conn_new_cmd"
    BY DEF InStep, LastReply, IInv, TypeOK
  <1> DEFINE n == script[answered].n
  <1>3. /\ answered <= Sent /\ Framed(script, Stream, answered, Skip, Sent)
        /\ Skip = n + 2 /\ \A p \in 1..Skip : Stream[p] = Value(n)[p]
    BY <1>2 DEF InStep, Aligned, BlockNext, Live, First, Skip
  <1>4. n \in Nat
    BY <1>1, ElementOfSeq DEF InStep, RefusedLast, Request
  <1>5. Skip \in 0..Skip
    BY <1>1
  <1>6. Skip \in 0..Len(Stream)
    BY <1>1, <1>3, <1>5, FramedDrop
  <1>7. Skip <= Len(Stream)
    BY <1>6
  <1>8. /\ k \in 1..Len(Stream)
        /\ Stream[k].end /\ \A j \in 1..k - 1 : ~Stream[j].end
        /\ Take(Stream, k) = Take(rbuf, k)
    BY StreamLine
  <1> HIDE DEF n
  <1>9. k = n + 2 /\ ParseCommand(Take(Stream, k)) = Junk
    BY <1>1, <1>3, <1>4, <1>7, <1>8, FirstBlock
  <1>10. QED
    BY <1>1, <1>3, <1>8, <1>9

\* Events, yielding, sleeping, writing and hanging up leave the stream alone.
LEMMA QuietInStep ==
    IInv /\ InStep
    /\ (EventHandler \/ NewCmd \/ Waiting \/ Transmit \/ ClientRecv \/ ClientHangup
        \/ UNCHANGED vars)
    => InStep'
  <1> SUFFICES ASSUME IInv, InStep,
                      EventHandler \/ NewCmd \/ Waiting \/ Transmit \/ ClientRecv
                      \/ ClientHangup \/ UNCHANGED vars
               PROVE  InStep'
    OBVIOUS
  <1>1. UNCHANGED <<script, todo, unsent, sock, rbuf, progress, after_write, sbytes>>
    BY DEF EventHandler, NewCmd, Waiting, Transmit, ClientRecv, ClientHangup, vars,
           client, socket, input, counts
  <1>2. Stream' = Stream
    BY <1>1 DEF Stream
  <1>3. \/ state' = state
        \/ /\ state \in {"conn_new_cmd", "conn_waiting"}
           /\ state' \in States \ {"conn_read_value"}
        \/ /\ state \in {"conn_write", "conn_mwrite"}
           /\ state' = "conn_closing" \/ (state' = "conn_new_cmd" /\ state = "conn_mwrite")
                \/ state' = after_write
    <2>1. CASE EventHandler
      BY <2>1 DEF EventHandler
    <2>2. CASE NewCmd
      BY <2>2 DEF NewCmd, Running, ResetCmdHandler, Goto, Await, States
    <2>3. CASE Waiting
      BY <2>3 DEF Waiting, Running, Await, States
    <2>4. CASE Transmit
      BY <2>4 DEF Transmit, Running, TransmitComplete, TransmitIncomplete,
                  TransmitSoftError, TransmitHardError, Goto, Await
    <2>5. CASE ClientRecv \/ ClientHangup \/ UNCHANGED vars
      BY <2>5 DEF ClientRecv, ClientHangup, vars
    <2>6. QED
      BY <2>1, <2>2, <2>3, <2>4, <2>5
  <1>4. after_write \in {"conn_new_cmd", "conn_closing"} /\ LastReply
    BY DEF IInv, TypeOK, InStep
  <1>5. LastReply'
    BY <1>1, <1>3, <1>4 DEF LastReply
  <1>6. state' = "conn_read_value" => state = "conn_read_value"
    BY <1>3, <1>4
  <1>7. Live' => Live /\ First' = First /\ Skip' = Skip
    BY <1>1, <1>3, <1>4 DEF Live, First, Skip
  <1>8. QED
    BY <1>1, <1>2, <1>5, <1>6, <1>7, InStepKept

\* read_network moves bytes from the socket to the buffer, in order.
LEMMA ReadInStep == IInv /\ InStep /\ Read => InStep'
  <1> SUFFICES ASSUME IInv, InStep, Read PROVE InStep'
    OBVIOUS
  <1>1. /\ rbuf \in Seq(Byte) /\ sock \in Seq(Byte) /\ unsent \in Seq(Byte)
        /\ Len(rbuf) \in Nat /\ Len(sock) \in Nat
    BY StreamType, LenProperties DEF InStep
  <1>2. state = "conn_read" /\ UNCHANGED <<script, todo, unsent, sbytes>>
    BY DEF Read, Running, client
  <1>3. after_write = "conn_new_cmd"
    BY <1>2 DEF InStep, LastReply, IInv, TypeOK
  <1>4. ASSUME UNCHANGED <<after_write, progress, Stream>>,
               state' \in {"conn_read", "conn_parse_cmd", "conn_waiting", "conn_closing"}
        PROVE  InStep'
    <2>1. LastReply'
      BY <1>3, <1>4 DEF LastReply
    <2>2. Live' => Live /\ First' = First /\ Skip' = Skip
      BY <1>2, <1>3, <1>4 DEF Live, First, Skip
    <2>3. QED
      BY <1>2, <1>4, <2>1, <2>2, InStepKept
  <1>5. CASE ReadEnough
    <2>1. UNCHANGED <<sock, rbuf, after_write, progress>>
          /\ state' \in {"conn_parse_cmd", "conn_waiting"}
      BY <1>5 DEF ReadEnough, ReturnFromRead, Goto, AfterRead
    <2>2. Stream' = Stream
      BY <1>2, <2>1 DEF Stream
    <2>3. QED
      BY <1>4, <2>1, <2>2
  <1>6. CASE ReadNoMemory
    <2>1. state' = "conn_write" /\ after_write' = "conn_closing" /\ ~refused'
      BY <1>6 DEF ReadNoMemory, ReturnFromRead, Goto
    <2>2. LastReply' /\ RefusedLast' /\ ~Live'
      BY <2>1 DEF LastReply, RefusedLast, Live
    <2>3. QED
      BY <1>2, <2>2, InStepOver
  <1>7. CASE ReadSome
    <2>1. UNCHANGED <<after_write, progress>>
      BY <1>7 DEF ReadSome
    <2>2. CASE ReadNothing
      <3>1. /\ UNCHANGED <<sock, rbuf>>
            /\ state' \in {"conn_parse_cmd", "conn_waiting", "conn_closing"}
        BY <2>2 DEF ReadNothing, ReturnFromRead, Goto, AfterRead
      <3>2. Stream' = Stream
        BY <1>2, <3>1 DEF Stream
      <3>3. QED
        BY <1>4, <2>1, <3>1, <3>2
    <2>3. CASE ReadData
      <3> DEFINE avail == Grown - Len(rbuf)
                 n == Lesser(avail, Len(sock))
      <3>1. /\ rbuf' = rbuf \o Take(sock, n) /\ sock' = Drop(sock, n)
            /\ IF n < avail THEN ReturnFromRead(AfterRead(TRUE)) ELSE UNCHANGED state
        BY <2>3 DEF ReadData
      <3>2. n \in 0..Len(sock)
        <4>1. avail \in Nat
          BY <1>1 DEF Grown, IInv, BufferFits, TypeOK
        <4>2. QED
          BY <1>1, <4>1 DEF Lesser
      <3> HIDE DEF n
      <3>3. state' \in {"conn_read", "conn_parse_cmd"}
        BY <1>2, <3>1 DEF ReturnFromRead, Goto, AfterRead
      <3> DEFINE a == Take(sock, n)
                 b == Drop(sock, n)
      <3>4. a \in Seq(Byte) /\ b \in Seq(Byte) /\ a \o b = sock
        BY <1>1, <3>2, TakeProperties, DropProperties, TakeDrop
      <3> HIDE DEF a, b
      <3>5. Stream' = (rbuf \o a) \o (b \o unsent)
        BY <1>2, <3>1 DEF Stream, a, b
      <3>6. (rbuf \o a) \o (b \o unsent) = rbuf \o ((a \o b) \o unsent)
        <4> DEFINE u == b \o unsent
        <4>1. (a \o b) \o unsent = a \o u /\ u \in Seq(Byte)
          <5>1. a \in Seq(Byte) /\ b \in Seq(Byte) /\ unsent \in Seq(Byte)
            BY <1>1, <3>4
          <5>2. QED
            BY <5>1, ConcatAssociative, ConcatProperties
        <4> HIDE DEF u
        <4>2. (rbuf \o a) \o u = rbuf \o (a \o u)
          <5>1. rbuf \in Seq(Byte) /\ a \in Seq(Byte) /\ u \in Seq(Byte)
            BY <1>1, <3>4, <4>1
          <5>2. QED
            BY <5>1, ConcatAssociative
        <4>3. QED
          BY <4>1, <4>2 DEF u
      <3>7. Stream' = Stream
        BY <3>4, <3>5, <3>6 DEF Stream
      <3>8. QED
        BY <1>4, <2>1, <3>3, <3>7
    <2>4. QED
      BY <1>7, <2>2, <2>3 DEF ReadSome
  <1>8. QED
    BY <1>5, <1>6, <1>7 DEF Read

\* A parsed line takes its own bytes off the stream; a set's value is then skipped, a
\* refused one's is the next line.
LEMMA ParseInStep == IInv /\ InStep /\ ParseCmd => InStep'
  <1> SUFFICES ASSUME IInv, InStep, ParseCmd PROVE InStep'
    OBVIOUS
  <1>1. /\ Stream \in Seq(Byte) /\ sock \o unsent \in Seq(Byte) /\ rbuf \in Seq(Byte)
        /\ Sent \in Nat /\ Sent <= Len(script) /\ answered \in Nat /\ script \in Seq(Request)
    BY StreamType DEF InStep
  <1>2. state = "conn_parse_cmd" /\ UNCHANGED <<script, todo, unsent, sock>>
    BY DEF ParseCmd, Running, client, socket
  <1>3. after_write = "conn_new_cmd"
    BY <1>2 DEF InStep, LastReply, IInv, TypeOK
  <1>4. CASE NeedMoreData
    <2>1. /\ UNCHANGED <<rbuf, after_write, progress, sbytes>>
          /\ state' \in {"conn_closing", "conn_waiting"}
      BY <1>4 DEF NeedMoreData, Goto, counts
    <2>2. Stream' = Stream
      BY <1>2, <2>1 DEF Stream
    <2>3. LastReply' /\ (Live' => Live /\ First' = First /\ Skip' = Skip)
      BY <1>2, <1>3, <2>1 DEF LastReply, Live, First, Skip
    <2>4. QED
      BY <1>2, <2>1, <2>2, <2>3, InStepKept
  <1>5. CASE ProcessCommand
    <2>1. PICK k \in 1..Len(rbuf) :
            /\ NewlineAt(k)
            /\ LET r == ParseCommand(Take(rbuf, k))
               IN  /\ RunCommand(r)
                   /\ answered' = IF r.cmd = "set" \/ refused THEN answered ELSE answered + 1
                   /\ refused' = (r.cmd = "badset")
            /\ rbuf' = Drop(rbuf, k)
      BY <1>5 DEF ProcessCommand
    <2>2. Sent' = Sent /\ SentSoFar'
      BY <1>2 DEF InStep, SentSoFar, Sent
    <2>3. Stream' = Drop(Stream, k)
      <3>1. k \in 0..Len(rbuf)
        OBVIOUS
      <3>2. Drop(rbuf, k) \o (sock \o unsent) = Drop(rbuf \o (sock \o unsent), k)
        <4> DEFINE t == sock \o unsent
        <4>1. rbuf \in Seq(Byte) /\ t \in Seq(Byte)
          BY <1>1
        <4> HIDE DEF t
        <4>2. Drop(rbuf, k) \o t = Drop(rbuf \o t, k)
          BY <3>1, <4>1, DropConcat
        <4>3. QED
          BY <4>2 DEF t
      <3>3. QED
        BY <1>2, <2>1, <3>2 DEF Stream
    <2>4. ASSUME NEW r, RunCommand(r)
          PROVE  /\ after_write' = "conn_new_cmd"
                 /\ \/ /\ r.cmd # "set" /\ state' \in {"conn_mwrite", "conn_new_cmd", "conn_write"}
                    \/ /\ r.cmd = "set" /\ state' = "conn_read_value"
                       /\ sbytes' = SwallowLength(r.n)
      BY <1>3, <2>4 DEF RunCommand, ProcessGet, GetOutOfMemory, ProcessUpdate, ProcessStat,
                        ProcessBad, ErrorResponse, Goto
    <2>5. CASE refused
      <3>1. /\ ParseCommand(Take(rbuf, k)) = Junk /\ k \in Nat /\ answered <= Sent
            /\ Framed(script, Stream, answered, k, Sent)
        BY <1>2, <2>1, <2>5, BlockLine
      <3>2. Junk.cmd = "unknown"
        BY DEF Junk
      <3>3. /\ answered' = answered /\ ~refused' /\ after_write' = "conn_new_cmd"
            /\ state' \in {"conn_mwrite", "conn_new_cmd", "conn_write"}
        BY <2>1, <2>4, <2>5, <3>1, <3>2
      <3>4. First' = answered /\ Skip' = 0
        BY <3>3 DEF First, Skip
      <3>5. Framed(script, Drop(Stream, k), answered, k - k, Sent)
        BY <1>1, <3>1, FramedDrop
      <3>6. k - k = 0
        BY <3>1
      <3>7. Aligned'
        BY <1>2, <2>2, <2>3, <3>1, <3>4, <3>5, <3>6 DEF Aligned
      <3>8. LastReply' /\ SetPending' /\ RefusedLast' /\ BlockNext'
        BY <3>3 DEF LastReply, SetPending, RefusedLast, BlockNext
      <3>9. QED
        BY <2>2, <3>7, <3>8 DEF InStep
    <2>6. CASE ~refused
      <3> DEFINE r == script[answered + 1]
                 w == Wire(r)
      <3>1. /\ r \in Request /\ ParseCommand(Take(rbuf, k)) = r
            /\ k = LineLength(r) /\ k \in Nat /\ k <= Len(w)
            /\ answered + 1 <= Sent
            /\ Framed(script, Stream, answered + 1, Len(w), Sent)
            /\ Len(w) <= Len(Stream) /\ \A p \in 1..Len(w) : Stream[p] = w[p]
        BY <1>2, <2>1, <2>6, NextLine
      <3>2. /\ RunCommand(r)
            /\ answered' = IF r.cmd = "set" THEN answered ELSE answered + 1
            /\ refused' = (r.cmd = "badset")
        BY <2>1, <2>6, <3>1
      <3>3. /\ Len(w) \in Nat /\ r.n \in Nat
            /\ Len(w) = IF r.cmd \in {"set", "badset"} THEN k + (r.n + 2) ELSE k
            /\ r.cmd = "badset" => \A p \in 1..r.n + 2 : w[k + p] = Value(r.n)[p]
        BY <3>1, WireShape, WireType, LenProperties
      <3>4. Framed(script, Drop(Stream, k), answered + 1, Len(w) - k, Sent)
        <4>1. k \in 0..Len(w) /\ answered + 1 \in Nat
          BY <1>1, <3>1, <3>3
        <4>2. QED
          BY <1>1, <3>1, <3>3, <4>1, FramedDrop
      <3>5. /\ after_write' = "conn_new_cmd"
            /\ \/ /\ r.cmd # "set" /\ state' \in {"conn_mwrite", "conn_new_cmd", "conn_write"}
               \/ /\ r.cmd = "set" /\ state' = "conn_read_value"
                  /\ sbytes' = SwallowLength(r.n)
        BY <2>4, <3>2
      <3>6. refused' <=> r.cmd = "badset"
        BY <3>2, Zenon
      <3>7. r.cmd = "badset" => script'[answered'] = r
        BY <1>2, <3>2
      <3>8. r.cmd = "set" => SwallowLength(r.n) = r.n + 2
        BY <3>1, SwallowFits
      <3>9. answered + 1 \in 1..Len(script)
        BY <1>1, <3>1
      <3> HIDE DEF w, r
      <3>10. First' = answered + 1 /\ Skip' = Len(w) - k
        <4>1. CASE r.cmd = "set"
          <5>1. Len(w) - k = r.n + 2
            BY <3>1, <3>3, <4>1
          <5>2. state' = "conn_read_value" /\ sbytes' = r.n + 2 /\ answered' = answered
            BY <3>2, <3>5, <3>8, <4>1
          <5>3. QED
            BY <5>1, <5>2 DEF First, Skip
        <4>2. CASE r.cmd = "badset"
          <5>1. Len(w) - k = r.n + 2
            BY <3>1, <3>3, <4>2
          <5>2. state' # "conn_read_value" /\ refused' /\ answered' = answered + 1
            BY <3>2, <3>5, <3>6, <4>2
          <5>3. QED
            BY <3>7, <4>2, <5>1, <5>2 DEF First, Skip
        <4>3. CASE r.cmd \notin {"set", "badset"}
          <5>1. Len(w) - k = 0
            BY <3>1, <3>3, <4>3
          <5>2. state' # "conn_read_value" /\ ~refused' /\ answered' = answered + 1
            BY <3>2, <3>5, <3>6, <4>3
          <5>3. QED
            BY <5>1, <5>2 DEF First, Skip
        <4>4. QED
          BY <4>1, <4>2, <4>3
      <3>11. Aligned'
        BY <1>2, <2>2, <2>3, <3>1, <3>4, <3>10 DEF Aligned
      <3>12. LastReply'
        BY <3>5 DEF LastReply
      <3>13. SetPending'
        BY <1>2, <3>2, <3>5 DEF SetPending, r
      <3>14. RefusedLast'
        BY <1>2, <3>2, <3>5, <3>6, <3>9 DEF RefusedLast
      <3>15. BlockNext'
        <4> SUFFICES ASSUME Live', refused', NEW p \in 1..Skip'
                     PROVE  Stream'[p] = Value(script'[answered'].n)[p]
          BY DEF BlockNext
        <4>1. r.cmd = "badset" /\ script'[answered'] = r
          BY <3>6, <3>7
        <4>2. Skip' = r.n + 2 /\ Len(w) = k + (r.n + 2)
          BY <3>1, <3>3, <3>10, <4>1
        <4>3. p \in 1..r.n + 2 /\ w[k + p] = Value(r.n)[p]
          BY <3>3, <4>1, <4>2
        <4>4. k \in 0..Len(Stream) /\ p \in 1..Len(Stream) - k /\ k + p \in 1..Len(w)
          <5> DEFINE a == Len(w)
                     b == Len(Stream)
                     m == r.n + 2
          <5>0. b \in Nat
            BY <1>1, LenProperties
          <5>1. a \in Nat /\ b \in Nat /\ m \in Nat /\ k \in Nat /\ p \in 1..m
            <6>1. r.n \in Nat /\ Len(w) \in Nat /\ k \in Nat /\ p \in 1..m
              BY <3>1, <3>3, <4>3, Zenon
            <6>2. m \in Nat
              BY <6>1
            <6>3. QED
              BY <5>0, <6>1, <6>2, Zenon
          <5>2. a = k + m /\ a <= b
            BY <3>1, <4>2
          <5> HIDE DEF a, b, m
          <5>3. k \in 0..b /\ p \in 1..b - k /\ k + p \in 1..a
            BY <5>1, <5>2
          <5>4. QED
            BY <5>3 DEF a, b
        <4>5. Drop(Stream, k)[p] = Stream[k + p]
          BY <1>1, <4>4, DropProperties
        <4>6. Stream[k + p] = w[k + p]
          BY <3>1, <4>4
        <4>7. QED
          BY <2>3, <4>1, <4>3, <4>5, <4>6
      <3>16. QED
        BY <2>2, <3>11, <3>12, <3>13, <3>14, <3>15 DEF InStep
    <2>7. QED
      BY <2>5, <2>6
  <1>6. QED
    BY <1>4, <1>5 DEF ParseCmd

\* Swallowing takes value bytes off the stream, from the buffer or the socket.
LEMMA ReadValueInStep == IInv /\ InStep /\ ReadValue => InStep'
  <1> SUFFICES ASSUME IInv, InStep, ReadValue PROVE InStep'
    OBVIOUS
  <1>1. /\ Stream \in Seq(Byte) /\ sock \o unsent \in Seq(Byte) /\ rbuf \in Seq(Byte)
        /\ sock \in Seq(Byte) /\ unsent \in Seq(Byte) /\ Len(rbuf) \in Nat /\ Len(sock) \in Nat
        /\ Sent \in Nat /\ Sent <= Len(script) /\ answered \in Nat /\ sbytes \in Nat
        /\ script \in Seq(Request)
    BY StreamType, LenProperties DEF InStep
  <1>2. state = "conn_read_value" /\ UNCHANGED <<script, todo, unsent>>
    BY DEF ReadValue, Running, client
  <1>3. after_write = "conn_new_cmd"
    BY <1>2 DEF InStep, LastReply, IInv, TypeOK
  <1>4. /\ answered + 1 <= Sent /\ Framed(script, Stream, answered + 1, sbytes, Sent)
        /\ script[answered + 1].cmd = "set" /\ ~refused
    BY <1>2, <1>3 DEF InStep, Aligned, SetPending, RefusedLast, Live, First, Skip
  <1>5. Sent' = Sent /\ SentSoFar'
    BY <1>2 DEF InStep, SentSoFar, Sent
  \* k value bytes are swallowed
  <1>6. ASSUME NEW k \in 0..sbytes, sbytes' = sbytes - k, Stream' = Drop(Stream, k),
               UNCHANGED <<progress, after_write, state>>
        PROVE  InStep'
    <2>1. Framed(script, Drop(Stream, k), answered + 1, sbytes - k, Sent)
      BY <1>1, <1>4, FramedDrop
    <2>2. First' = answered + 1 /\ Skip' = sbytes - k
      BY <1>2, <1>6 DEF First, Skip
    <2>3. Aligned'
      BY <1>2, <1>4, <1>5, <1>6, <2>1, <2>2 DEF Aligned
    <2>4. LastReply' /\ SetPending' /\ RefusedLast' /\ BlockNext'
      BY <1>2, <1>3, <1>4, <1>6 DEF LastReply, SetPending, RefusedLast, BlockNext
    <2>5. QED
      BY <1>5, <2>3, <2>4 DEF InStep
  <1>7. CASE ValueComplete
    <2>1. /\ sbytes = 0 /\ state' = "conn_write" /\ after_write' = "conn_new_cmd"
          /\ answered' = answered + 1 /\ UNCHANGED <<rbuf, sock, refused>>
      BY <1>7 DEF ValueComplete, ErrorResponse, Goto
    <2>2. Stream' = Stream
      BY <1>2, <2>1 DEF Stream
    <2>3. First' = answered + 1 /\ Skip' = 0
      BY <1>4, <2>1 DEF First, Skip
    <2>4. Aligned'
      BY <1>2, <1>4, <1>5, <2>1, <2>2, <2>3 DEF Aligned
    <2>5. LastReply' /\ SetPending' /\ RefusedLast' /\ BlockNext'
      BY <1>4, <2>1 DEF LastReply, SetPending, RefusedLast, BlockNext
    <2>6. QED
      BY <1>5, <2>4, <2>5 DEF InStep
  <1>8. CASE SwallowBuffered
    <2> DEFINE k == Lesser(Len(rbuf), sbytes)
    <2>1. /\ sbytes' = sbytes - k /\ rbuf' = Drop(rbuf, k)
          /\ UNCHANGED <<progress, after_write, state, sock>>
      BY <1>8 DEF SwallowBuffered
    <2>2. k \in 0..Len(rbuf) /\ k \in 0..sbytes
      BY <1>1 DEF Lesser
    <2> HIDE DEF k
    <2>3. Drop(rbuf, k) \o (sock \o unsent) = Drop(rbuf \o (sock \o unsent), k)
      <3> DEFINE t == sock \o unsent
      <3>1. rbuf \in Seq(Byte) /\ t \in Seq(Byte)
        BY <1>1
      <3> HIDE DEF t
      <3>2. Drop(rbuf, k) \o t = Drop(rbuf \o t, k)
        BY <2>2, <3>1, DropConcat
      <3>3. QED
        BY <3>2 DEF t
    <2>4. Stream' = Drop(Stream, k)
      BY <1>2, <2>1, <2>3 DEF Stream
    <2>5. QED
      BY <1>6, <2>1, <2>2, <2>4
  <1>9. CASE SwallowSocket
    <2>1. rbuf = <<>> /\ UNCHANGED <<progress, after_write, rbuf>>
      BY <1>9 DEF SwallowSocket
    <2>2. CASE UNCHANGED <<sock, sbytes>> /\ state' \in {"conn_closing", "conn_read_value"}
      <3>1. Stream' = Stream
        BY <1>2, <2>1, <2>2 DEF Stream
      <3>2. LastReply' /\ (Live' => Live /\ First' = First /\ Skip' = Skip)
        BY <1>2, <1>3, <2>1, <2>2 DEF LastReply, Live, First, Skip
      <3>3. QED
        BY <1>2, <2>1, <3>1, <3>2, InStepKept
    <2> DEFINE k == Lesser(Len(sock), Lesser(rsize, sbytes))
    <2>3. CASE sock' = Drop(sock, k) /\ sbytes' = sbytes - k /\ UNCHANGED state
      <3>1. k \in 0..Len(sock) /\ k \in 0..sbytes
        <4>1. rsize \in Nat
          BY DEF IInv, TypeOK
        <4>2. QED
          BY <1>1, <4>1 DEF Lesser
      <3> HIDE DEF k
      <3>2. Drop(sock, k) \o unsent = Drop(sock \o unsent, k)
        BY <1>1, <3>1, DropConcat
      <3>3. Stream = sock \o unsent
        BY <1>1, <2>1, ConcatEmptySeq DEF Stream
      <3>4. Drop(sock, k) \o unsent \in Seq(Byte)
        BY <1>1, <3>1, DropProperties, ConcatProperties
      <3>5. Stream' = Drop(sock, k) \o unsent
        BY <1>2, <2>1, <2>3, <3>4, ConcatEmptySeq DEF Stream
      <3>6. Stream' = Drop(Stream, k)
        BY <3>2, <3>3, <3>5
      <3>7. QED
        BY <1>6, <2>1, <2>3, <3>1, <3>6
    <2>4. QED
      BY <1>2, <1>9, <2>2, <2>3 DEF SwallowSocket, Goto, Await
  <1>10. QED
    BY <1>7, <1>8, <1>9 DEF ReadValue

\* The client's bytes enter the stream at its end, one request after the other.
LEMMA SendInStep == IInv /\ InStep /\ ClientSend => InStep'
  <1> SUFFICES ASSUME IInv, InStep, ClientSend PROVE InStep'
    OBVIOUS
  <1>1. /\ Stream \in Seq(Byte) /\ sock \o unsent \in Seq(Byte) /\ rbuf \in Seq(Byte)
        /\ sock \in Seq(Byte) /\ unsent \in Seq(Byte)
        /\ Sent \in Nat /\ Sent <= Len(script) /\ First \in Nat /\ Skip \in Nat
        /\ script \in Seq(Request) /\ todo \in Seq(Request)
        /\ Len(script) \in Nat /\ Len(todo) \in Nat
    BY StreamType DEF InStep
  <1>2. UNCHANGED <<script, state, after_write, rbuf, sbytes, progress>>
    BY DEF ClientSend, input, counts
  <1>3. /\ LastReply' /\ SetPending' /\ RefusedLast'
        /\ Live' = Live /\ First' = First /\ Skip' = Skip
    BY <1>2 DEF InStep, LastReply, SetPending, RefusedLast, Live, First, Skip
  <1>4. CASE unsent # <<>>
    <2>1. sock' = Append(sock, Head(unsent)) /\ unsent' = Tail(unsent) /\ todo' = todo
      BY <1>4 DEF ClientSend
    <2>2. sock' \o unsent' = sock \o unsent
      BY <1>1, <1>4, <2>1, ShiftOne
    <2>3. Stream' = Stream
      BY <1>2, <2>2 DEF Stream
    <2>4. QED
      BY <1>2, <1>3, <2>1, <2>3, InStepKept
  <1>5. CASE unsent = <<>>
    <2> DEFINE w == Wire(Head(todo))
    <2>1. /\ todo # <<>> /\ sock' = Append(sock, Head(w)) /\ unsent' = Tail(w)
          /\ todo' = Tail(todo)
      BY <1>5 DEF ClientSend
    <2>2. /\ Head(todo) \in Request /\ Head(todo) = todo[1] /\ Len(todo) \in Nat \ {0}
          /\ Len(todo') = Len(todo) - 1
          /\ \A i \in 1..Len(todo') : todo'[i] = todo[i + 1]
      BY <1>1, <2>1, HeadTailProperties, EmptySeq
    <2>3. Sent' = Sent + 1 /\ Sent + 1 <= Len(script)
      BY <1>1, <1>2, <2>2 DEF Sent
    <2>4. \A i \in 1..Len(todo) : todo[i] = script[Sent + i]
      BY DEF InStep, SentSoFar
    <2>5. Head(todo) = script[Sent + 1]
      BY <2>2, <2>4
    <2>6. SentSoFar'
      <3>1. Len(todo') <= Len(script')
        BY <1>1, <1>2, <2>2, <2>3 DEF Sent
      <3>2. ASSUME NEW i \in 1..Len(todo') PROVE todo'[i] = script'[Sent' + i]
        <4>1. i + 1 \in 1..Len(todo) /\ Sent + (i + 1) = (Sent + 1) + i
          BY <1>1, <2>2
        <4>2. todo'[i] = script[Sent + (i + 1)]
          BY <2>2, <2>4, <4>1
        <4>3. QED
          BY <1>2, <2>3, <4>1, <4>2
      <3>3. QED
        BY <3>1, <3>2 DEF SentSoFar
    <2>7. w \in Seq(Byte) /\ w # <<>>
      BY <2>2, WireType
    <2> HIDE DEF w
    <2>8. sock' \o unsent' = sock \o w
      <3>1. Append(sock, Head(w)) \o Tail(w) = sock \o w
        BY <1>1, <2>7, ShiftOne, Zenon
      <3>2. QED
        BY <2>1, <3>1
    <2>9. Stream' = Stream \o w
      <3>1. sock \o unsent = sock
        BY <1>1, <1>5, ConcatEmptySeq
      <3>2. (rbuf \o sock) \o w = rbuf \o (sock \o w)
        <4>1. rbuf \in Seq(Byte) /\ sock \in Seq(Byte) /\ w \in Seq(Byte)
          BY <1>1, <2>7
        <4>2. QED
          BY <4>1, ConcatAssociative
      <3>3. QED
        BY <1>2, <2>8, <3>1, <3>2 DEF Stream
    <2>10. ASSUME Live' PROVE First' <= Sent' /\ Framed(script', Stream', First', Skip', Sent')
      <3>1. First <= Sent /\ Framed(script, Stream, First, Skip, Sent)
        BY <1>3, <2>10 DEF InStep, Aligned
      <3>2. Framed(script, Stream \o Wire(script[Sent + 1]), First, Skip, Sent + 1)
        BY <1>1, <2>3, <3>1, FramedExtend
      <3>3. First <= Sent + 1
        BY <1>1, <3>1
      <3>4. QED
        BY <1>2, <1>3, <2>3, <2>5, <2>9, <3>2, <3>3 DEF w
    <2>11. Aligned'
      BY <2>10 DEF Aligned
    <2>12. BlockNext'
      <3> SUFFICES ASSUME Live', refused', NEW p \in 1..Skip'
                   PROVE  Stream'[p] = Value(script'[answered'].n)[p]
        BY DEF BlockNext
      <3>1. First <= Sent /\ Framed(script, Stream, First, Skip, Sent)
        BY <1>3 DEF InStep, Aligned
      <3>2. Stream[p] = Value(script[answered].n)[p]
        BY <1>2, <1>3 DEF InStep, BlockNext
      <3>3. Skip \in 0..Skip
        BY <1>1
      <3>4. Skip \in 0..Len(Stream)
        BY <1>1, <3>1, <3>3, FramedDrop
      <3>5. p \in 1..Len(Stream) /\ Len(Stream) \in Nat /\ Len(w) \in Nat
        BY <1>1, <1>3, <2>7, <3>4, LenProperties
      <3>6. p \in 1..Len(Stream) + Len(w) /\ p <= Len(Stream)
        BY <3>5
      <3>7. (Stream \o w)[p] = Stream[p]
        BY <1>1, <2>7, <3>6, ConcatProperties
      <3>8. QED
        BY <1>2, <2>9, <3>2, <3>7
    <2>13. QED
      BY <1>3, <2>6, <2>11, <2>12 DEF InStep
  <1>6. QED
    BY <1>4, <1>5

\* The server never loses its place in what the client sends (read_command, case
\* conn_read_value): what it has not consumed is the rest of a value and then whole
\* lines of requests and blocks of refused sets, which are read as lines.
THEOREM StaysInStep == Spec => []InStep
  <1>1. Init => InStep
    <2> SUFFICES ASSUME Init PROVE InStep
      OBVIOUS
    <2>1. script \in Seq(Request)
      BY ConnectionAssumption DEF Init
    <2>2. QED
      BY <2>1, InStepStart DEF Init, Fresh
  <1>2. IInv /\ IInv' /\ InStep /\ [Next]_vars => InStep'
    <2> SUFFICES ASSUME IInv, IInv', InStep, [Next]_vars PROVE InStep'
      OBVIOUS
    <2>1. CASE ConnClose
      <3>1. state' = "closed" /\ UNCHANGED <<script, todo, progress>>
        BY <2>1 DEF ConnClose, client, counts
      <3>2. LastReply' /\ RefusedLast' /\ ~Live'
        BY <3>1 DEF InStep, LastReply, RefusedLast, Live
      <3>3. QED
        BY <3>1, <3>2, InStepOver
    <2>2. CASE Recycle
      <3>1. Fresh'
        BY <2>2, ConnectionAssumption DEF Recycle, ConnNew, Fresh
      <3>2. (Fresh => InStep)'
        BY InStepStart, PTL
      <3>3. QED
        BY <3>1, <3>2
    <2>3. QED
      BY <2>1, <2>2, QuietInStep, ReadInStep, ParseInStep, ReadValueInStep, SendInStep
      DEF Next, DriveMachine
  <1>3. QED
    BY <1>1, <1>2, Invariance, PTL DEF Spec
-----------------------------------------------------------------------------
(* The connection implements InOrderService *)

\* Where replies do not move and no request is completed, the client sees nothing.
LEMMA HiddenStep ==
    ASSUME UNCHANGED <<script, progress, replies>>, snd' \o out' = snd \o out,
           state # "closed", state' # "closed"
    PROVE  UNCHANGED Service!svars
  BY DEF Service!svars

\* Both specifications owe a request the same reply.
LEMMA SameReply ==
    ASSUME NEW r
    PROVE  /\ Service!Reply(r) = Reply(r)
           /\ Service!OutOfMemoryReplies(r) = OutOfMemoryReplies(r)
  BY DEF Service!Reply, Reply, Service!OutOfMemoryReplies, OutOfMemoryReplies,
         Service!CutReply, CutReply

\* A reply the client may get for a request.
MayAnswer(r, u) == u = Reply(r) \/ (Faults /\ u \in OutOfMemoryReplies(r))

\* A request that is completed with its own reply is served.
LEMMA ServeStep ==
    ASSUME script \in Seq(Request), snd \in Seq(Units), answered \in Nat,
           answered + 1 <= Len(script), out = <<>>, state # "closed", state' # "closed",
           UNCHANGED <<script, snd, replies>>, answered' = answered + 1,
           ~refused, refused' = (script[answered + 1].cmd = "badset"),
           MayAnswer(script[answered + 1], out')
    PROVE  Service!Serve
  <1> DEFINE p == Drop(script, answered)
             q == Drop(script, answered + 1)
  <1>1. Len(script) \in Nat /\ answered \in 0..Len(script) /\ answered + 1 \in 0..Len(script)
    BY LenProperties
  <1>2. /\ p \in Seq(Request) /\ Len(p) = Len(script) - answered
        /\ \A i \in 1..Len(script) - answered : p[i] = script[answered + i]
    BY <1>1, DropProperties
  <1>3. /\ q \in Seq(Request) /\ Len(q) = Len(script) - (answered + 1)
        /\ \A i \in 1..Len(script) - (answered + 1) : q[i] = script[answered + 1 + i]
    BY <1>1, DropProperties
  <1> HIDE DEF p, q
  <1>4. p # <<>> /\ 1 \in 1..Len(script) - answered
    BY <1>1, <1>2, EmptySeq
  <1>5. Head(p) = script[answered + 1]
    <2>1. Head(p) = p[1]
      BY <1>2, <1>4
    <2>2. QED
      BY <1>2, <1>4, <2>1
  <1>6. Tail(p) = q
    <2>1. /\ Tail(p) \in Seq(Request) /\ Len(Tail(p)) = Len(p) - 1
          /\ \A i \in 1..Len(Tail(p)) : Tail(p)[i] = p[i + 1]
      BY <1>2, <1>4, HeadTailProperties
    <2>2. Len(Tail(p)) = Len(q)
      BY <1>1, <1>2, <1>3, <2>1
    <2>3. ASSUME NEW i \in 1..Len(Tail(p)) PROVE Tail(p)[i] = q[i]
      <3>1. /\ i + 1 \in 1..Len(script) - answered /\ i \in 1..Len(script) - (answered + 1)
            /\ answered + (i + 1) = answered + 1 + i
        <4>1. Len(Tail(p)) = Len(script) - (answered + 1)
          BY <1>3, <2>2
        <4>2. i \in 1..Len(script) - (answered + 1)
          BY <4>1
        <4>3. QED
          BY <1>1, <4>2
      <3>2. QED
        BY <1>2, <1>3, <2>1, <3>1
    <2>4. QED
      BY <1>3, <2>1, <2>2, <2>3, SeqEqual
  <1>7. snd \o out = snd
    BY ConcatEmptySeq
  <1>8. QED
    <2>1. /\ (IF state = "closed" THEN <<>> ELSE Drop(script, answered)) = p
          /\ (IF state' = "closed" THEN <<>> ELSE Drop(script', answered')) = q
      BY DEF p, q
    <2>2. /\ (IF state = "closed" THEN snd ELSE snd \o out) = snd
          /\ (IF state' = "closed" THEN snd' ELSE snd' \o out') = snd \o out'
      BY <1>7
    <2>3. /\ Service!Reply(Head(p)) = Reply(Head(p))
          /\ Service!OutOfMemoryReplies(Head(p)) = OutOfMemoryReplies(Head(p))
      BY SameReply
    <2>4. \/ out' = Service!Reply(Head(p))
          \/ Faults /\ out' \in Service!OutOfMemoryReplies(Head(p))
      BY <1>5, <2>3, Zenon DEF MayAnswer
    <2>5. /\ ~(state # "closed" /\ refused)
          /\ (state' # "closed" /\ refused') = (Head(p).cmd = "badset")
      BY <1>5, Zenon
    <2>6. \/ snd \o out' = snd \o Service!Reply(Head(p))
          \/ Faults /\ \E u \in Service!OutOfMemoryReplies(Head(p)) : snd \o out' = snd \o u
      BY <2>4, Zenon
    <2>7. QED
      BY <1>4, <1>6, <2>1, <2>2, <2>5, <2>6, Zenon DEF Service!Serve

\* The data block of a refused set is answered ERROR.
LEMMA BlockStep ==
    ASSUME snd \in Seq(Units), out = <<>>, state # "closed", state' # "closed",
           UNCHANGED <<script, snd, replies, answered>>, refused, ~refused',
           out' = <<"ERROR">>
    PROVE  Service!RefuseBlock
  <1>1. snd \o out = snd
    BY ConcatEmptySeq
  <1>2. /\ (IF state = "closed" THEN snd ELSE snd \o out) = snd
        /\ (IF state' = "closed" THEN snd' ELSE snd' \o out') = snd \o <<"ERROR">>
    BY <1>1
  <1>3. (state' # "closed" /\ refused') = FALSE
    BY Zenon
  <1>4. QED
    BY <1>2, <1>3, Zenon DEF Service!RefuseBlock

\* ReadNoMemory gives the client up with a last SERVER_ERROR.
LEMMA FailStep ==
    ASSUME script \in Seq(Request), snd \in Seq(Units), out = <<>>,
           state # "closed", state' # "closed", UNCHANGED <<script, snd, replies>>,
           answered' = Len(script), ~refused', Faults, out' = <<"SERVER_ERROR">>
    PROVE  Service!Fail
  <1>1. Drop(script, Len(script)) = <<>>
    <2>1. Len(script) \in Nat
      BY LenProperties
    <2>2. QED
      BY <2>1, SubSeqEmpty DEF Drop
  <1>2. snd \o out = snd
    BY ConcatEmptySeq
  <1>3. Append(snd, "SERVER_ERROR") = snd \o <<"SERVER_ERROR">>
    BY AppendIsConcat DEF Units
  <1>4. QED
    BY <1>1, <1>2, <1>3 DEF Service!Fail

\* What the client reads is the oldest reply unit under way.
LEMMA DeliverStep == IInv /\ ClientRecv => Service!Deliver
  <1> SUFFICES ASSUME IInv, ClientRecv PROVE Service!Deliver
    OBVIOUS
  <1>1. /\ snd # <<>> /\ replies' = Append(replies, Head(snd)) /\ snd' = Tail(snd)
        /\ UNCHANGED <<script, state, out, progress>>
        /\ snd \in Seq(Units) /\ out \in Seq(Units)
    BY DEF ClientRecv, output, counts, IInv, TypeOK
  <1>2. CASE state = "closed"
    BY <1>1, <1>2 DEF Service!Deliver
  <1>3. CASE state # "closed"
    <2> DEFINE q == snd \o out
    <2>1. /\ q \in Seq(Units) /\ Len(q) = Len(snd) + Len(out)
          /\ \A i \in 1..Len(snd) + Len(out) :
                q[i] = IF i <= Len(snd) THEN snd[i] ELSE out[i - Len(snd)]
      BY <1>1, ConcatProperties
    <2>2. Len(snd) \in Nat \ {0} /\ Len(out) \in Nat
      BY <1>1, LenProperties, EmptySeq
    <2>3. q # <<>>
      BY <1>1, ConcatEqualIffEmpty
    <2> HIDE DEF q
    <2>4. Head(q) = Head(snd)
      <3>1. Head(q) = q[1] /\ Head(snd) = snd[1]
        BY <1>1, <2>1, <2>3
      <3>2. 1 \in 1..Len(snd) + Len(out) /\ 1 <= Len(snd)
        BY <2>2
      <3>3. QED
        BY <2>1, <3>1, <3>2
    <2>5. Tail(q) = Tail(snd) \o out
      <3>1. Tail(q) = Drop(q, 1) /\ Tail(snd) = Drop(snd, 1)
        BY <1>1, <2>1, <2>3, TailIsSubSeq DEF Drop
      <3>2. 1 \in 0..Len(snd)
        BY <2>2
      <3>3. Drop(snd, 1) \o out = Drop(snd \o out, 1)
        BY <1>1, <3>2, DropConcat
      <3>4. QED
        BY <3>1, <3>3 DEF q
    <2>6. QED
      BY <1>1, <1>3, <2>3, <2>4, <2>5 DEF Service!Deliver, q
  <1>4. QED
    BY <1>2, <1>3

\* conn_close drops the replies that were not handed to the kernel.
LEMMA DropStep == IInv /\ ConnClose => Service!Drop
  <1> SUFFICES ASSUME IInv, ConnClose PROVE Service!Drop
    OBVIOUS
  <1>1. /\ state = "conn_closing" /\ state' = "closed" /\ UNCHANGED <<snd, out, replies>>
        /\ snd \in Seq(Units) /\ out \in Seq(Units)
    BY DEF ConnClose, Running, client, socket, output, IInv, TypeOK
  <1>2. Len(snd) \in Nat /\ Len(out) \in Nat /\ Len(snd \o out) = Len(snd) + Len(out)
    BY <1>1, LenProperties, ConcatProperties
  <1>3. Len(snd) \in 0..Len(snd \o out)
    BY <1>2
  <1>4. snd = SubSeq(snd \o out, 1, Len(snd))
    <2>1. CASE snd = <<>>
      BY <1>1, <2>1, SubSeqEmpty, EmptySeq
    <2>2. CASE snd # <<>>
      <3>1. 1 \in 1..Len(snd) /\ Len(snd) \in 1..Len(snd)
        BY <1>1, <1>2, <2>2, EmptySeq
      <3>2. SubSeq(snd \o out, 1, Len(snd)) = SubSeq(snd, 1, Len(snd))
        BY <1>1, <3>1, SubSeqOfConcat1
      <3>3. QED
        BY <1>1, <3>2, SubSeqFull
    <2>3. QED
      BY <2>1, <2>2
  <1>5. \E k \in 0..Len(snd \o out) : snd = SubSeq(snd \o out, 1, k)
    BY <1>3, <1>4
  <1>6. QED
    BY <1>1, <1>5 DEF Service!Drop

\* A client that is given the closed structure starts from scratch.
LEMMA ReopenStep == Recycle => Service!Reopen
  <1> SUFFICES ASSUME Recycle PROVE Service!Reopen
    OBVIOUS
  <1>1. /\ state = "closed" /\ state' = "conn_new_cmd" /\ script' \in Scripts
        /\ replies' = <<>> /\ snd' = <<>> /\ out' = <<>> /\ answered' = 0 /\ refused' = FALSE
    BY DEF Recycle, ConnNew
  <1>2. script' \in Seq(Request)
    BY <1>1, ConnectionAssumption
  <1>3. Drop(script', 0) = script'
    BY <1>2, SubSeqFull DEF Drop
  <1>4. <<>> \o <<>> = <<>>
    BY EmptySeq, ConcatEmptySeq
  <1>5. QED
    BY <1>1, <1>3, <1>4 DEF Service!Reopen, Service!Start

\* Processing a line serves the next request, unless a value must follow it; the data
\* block of a refused set is answered ERROR.
LEMMA ParseStep ==
    IInv /\ InStep /\ ParseCmd
      => Service!Serve \/ Service!RefuseBlock \/ UNCHANGED Service!svars
  <1> SUFFICES ASSUME IInv, InStep, ParseCmd
               PROVE  Service!Serve \/ Service!RefuseBlock \/ UNCHANGED Service!svars
    OBVIOUS
  <1>1. /\ state = "conn_parse_cmd" /\ out = <<>> /\ UNCHANGED <<script, replies, snd>>
        /\ script \in Seq(Request) /\ snd \in Seq(Units) /\ answered \in Nat
    BY DEF ParseCmd, Running, client, socket, IInv, TypeOK, OutputDrained
  <1>2. CASE NeedMoreData
    <2>1. UNCHANGED <<out, progress>> /\ state' # "closed"
      BY <1>2 DEF NeedMoreData, Goto, counts
    <2>2. QED
      BY <1>1, <2>1, HiddenStep
  <1>3. CASE ProcessCommand
    <2>1. PICK k \in 1..Len(rbuf) :
            /\ NewlineAt(k)
            /\ LET r == ParseCommand(Take(rbuf, k))
               IN  /\ RunCommand(r)
                   /\ answered' = IF r.cmd = "set" \/ refused THEN answered ELSE answered + 1
                   /\ refused' = (r.cmd = "badset")
      BY <1>3 DEF ProcessCommand
    <2>2. CASE refused
      <3>1. ParseCommand(Take(rbuf, k)) = Junk
        BY <1>1, <2>1, <2>2, BlockLine
      <3>2. Junk.cmd = "unknown" /\ Reply(Junk) = <<"ERROR">>
        BY DEF Junk, Reply
      <3>3. RunCommand(Junk) /\ answered' = answered /\ ~refused'
        BY <2>1, <2>2, <3>1, <3>2
      <3>4. out' = <<"ERROR">> /\ state' # "closed"
        BY <3>2, <3>3 DEF RunCommand, ProcessGet, GetOutOfMemory, ProcessUpdate, ProcessStat,
                          ProcessBad, ErrorResponse, Goto
      <3>5. QED
        BY <1>1, <2>2, <3>3, <3>4, BlockStep
    <2>3. CASE ~refused
      <3> DEFINE r == script[answered + 1]
      <3>1. /\ r \in Request /\ ParseCommand(Take(rbuf, k)) = r
            /\ answered + 1 <= Len(script)
        BY <1>1, <2>1, <2>3, NextLine
      <3>2. /\ RunCommand(r)
            /\ answered' = IF r.cmd = "set" THEN answered ELSE answered + 1
            /\ refused' = (r.cmd = "badset")
        BY <2>1, <2>3, <3>1
      <3> HIDE DEF r
      <3>3. CASE r.cmd = "set"
        <4>1. out' = <<>> /\ state' = "conn_read_value" /\ answered' = answered
          BY <3>2, <3>3 DEF RunCommand, ProcessGet, GetOutOfMemory, ProcessUpdate, ProcessStat,
                            ProcessBad, Goto
        <4>2. (r.cmd = "badset") = FALSE
          BY <3>3
        <4>3. refused = FALSE
          BY <2>3, Zenon DEF IInv, TypeOK
        <4>4. UNCHANGED progress
          BY <3>2, <4>1, <4>2, <4>3
        <4>5. QED
          BY <1>1, <4>1, <4>4, HiddenStep
      <3>4. CASE r.cmd # "set"
        <4>1. ProcessStat(r) => Reply(r) = <<>>
          BY DEF ProcessStat, Reply
        <4>2. GetOutOfMemory(r) => Faults /\ out' \in OutOfMemoryReplies(r)
          <5> SUFFICES ASSUME GetOutOfMemory(r)
                       PROVE  Faults /\ out' \in OutOfMemoryReplies(r)
            OBVIOUS
          <5>1. PICK j \in 1..r.n : \/ \E u \in {"VALUE", "TORN"} : out' = CutReply(j, u)
                                    \/ out' = <<"SERVER_ERROR">>
            BY DEF GetOutOfMemory, ErrorResponse
          <5>2. r.n \in Nat /\ r.n > 0 /\ r.cmd \in {"get", "badget"}
            BY <3>1, <5>1 DEF GetOutOfMemory, Request
          <5>3. OutOfMemoryReplies(r) = {<<"SERVER_ERROR">>}
                  \cup {CutReply(i, u) : i \in 1..r.n, u \in {"VALUE", "TORN"}}
            BY <5>2 DEF OutOfMemoryReplies
          <5>4. QED
            BY <5>1, <5>3 DEF GetOutOfMemory
        <4>3. MayAnswer(r, out') /\ state' # "closed" /\ answered' = answered + 1
          BY <3>2, <3>4, <4>1, <4>2 DEF RunCommand, ProcessGet, GetOutOfMemory, ProcessUpdate,
                                        ProcessStat, ProcessBad, ErrorResponse, Goto, MayAnswer
        <4>4. QED
          BY <1>1, <2>3, <3>1, <3>2, <4>3, ServeStep DEF r
      <3>5. QED
        BY <3>3, <3>4
    <2>4. QED
      BY <2>2, <2>3
  <1>4. QED
    BY <1>2, <1>3 DEF ParseCmd

\* The end of its value completes a set.
LEMMA ValueStep ==
    IInv /\ InStep /\ ReadValue => Service!Serve \/ UNCHANGED Service!svars
  <1> SUFFICES ASSUME IInv, InStep, ReadValue
               PROVE  Service!Serve \/ UNCHANGED Service!svars
    OBVIOUS
  <1>1. /\ state = "conn_read_value" /\ out = <<>> /\ UNCHANGED <<script, replies, snd>>
        /\ script \in Seq(Request) /\ snd \in Seq(Units) /\ answered \in Nat
    BY DEF ReadValue, Running, client, IInv, TypeOK, OutputDrained
  <1>2. CASE ValueComplete
    <2>1. after_write = "conn_new_cmd"
      BY <1>1 DEF InStep, LastReply, IInv, TypeOK
    <2>2. answered + 1 <= Sent /\ script[answered + 1].cmd = "set" /\ ~refused
      BY <1>1, <2>1 DEF InStep, Aligned, SetPending, RefusedLast, Live, First
    <2>3. answered + 1 <= Len(script)
      <3>1. Sent \in Nat /\ Sent <= Len(script) /\ Len(script) \in Nat
        BY StreamType DEF InStep
      <3>2. QED
        BY <1>1, <2>2, <3>1
    <2>4. Reply(script[answered + 1]) = <<"STORED">>
      BY <2>2 DEF Reply
    <2>5. /\ out' = <<"STORED">> /\ state' # "closed" /\ answered' = answered + 1
          /\ refused' = refused
      BY <1>2 DEF ValueComplete, ErrorResponse, Goto
    <2>6. refused' = (script[answered + 1].cmd = "badset")
      <3>1. (script[answered + 1].cmd = "badset") = FALSE
        BY <2>2
      <3>2. refused = FALSE
        BY <2>2, Zenon DEF IInv, TypeOK
      <3>3. QED
        BY <2>5, <3>1, <3>2, Zenon
    <2>7. MayAnswer(script[answered + 1], out')
      BY <2>4, <2>5 DEF MayAnswer
    <2>8. QED
      BY <1>1, <2>2, <2>3, <2>5, <2>6, <2>7, ServeStep
  <1>3. CASE SwallowBuffered \/ SwallowSocket
    <2>1. UNCHANGED <<out, progress>> /\ state' # "closed"
      BY <1>1, <1>3 DEF SwallowBuffered, SwallowSocket, Goto, Await
    <2>2. QED
      BY <1>1, <2>1, HiddenStep
  <1>4. QED
    BY <1>2, <1>3 DEF ReadValue

\* Reading input is hidden from the client, unless memory runs out.
LEMMA ReadStep == IInv /\ Read => Service!Fail \/ UNCHANGED Service!svars
  <1> SUFFICES ASSUME IInv, Read PROVE Service!Fail \/ UNCHANGED Service!svars
    OBVIOUS
  <1>1. /\ state = "conn_read" /\ out = <<>> /\ UNCHANGED <<script, replies, snd>>
        /\ script \in Seq(Request) /\ snd \in Seq(Units)
    BY DEF Read, Running, client, IInv, TypeOK, OutputDrained
  <1>2. CASE ReadNoMemory
    <2>1. /\ out' = <<"SERVER_ERROR">> /\ state' # "closed" /\ answered' = Len(script)
          /\ ~refused' /\ Faults
      BY <1>2 DEF ReadNoMemory, ReturnFromRead, Goto
    <2>2. QED
      BY <1>1, <2>1, FailStep
  <1>3. CASE ReadEnough \/ ReadSome
    <2>1. UNCHANGED <<out, progress>>
      BY <1>3 DEF ReadEnough, ReadSome
    <2>2. state' # "closed"
      BY <1>1, <1>3 DEF ReadEnough, ReadSome, ReadData, ReadNothing, ReturnFromRead,
                        Goto, AfterRead
    <2>3. QED
      BY <1>1, <2>1, <2>2, HiddenStep
  <1>4. QED
    BY <1>2, <1>3 DEF Read

\* Writing moves reply units to the kernel without changing their order.
LEMMA TransmitStep == IInv /\ Transmit => UNCHANGED Service!svars
  <1> SUFFICES ASSUME IInv, Transmit PROVE UNCHANGED Service!svars
    OBVIOUS
  <1>1. /\ state \in {"conn_write", "conn_mwrite"} /\ UNCHANGED <<script, replies, progress>>
        /\ snd \in Seq(Units) /\ out \in Seq(Units)
        /\ after_write \in {"conn_new_cmd", "conn_closing"}
    BY DEF Transmit, Running, client, counts, IInv, TypeOK
  <1>2. state' # "closed"
    BY <1>1 DEF Transmit, TransmitComplete, TransmitIncomplete, TransmitSoftError,
                TransmitHardError, Goto, Await
  <1>3. snd' \o out' = snd \o out
    <2>1. CASE TransmitIncomplete
      <3>1. PICK n \in 1..Lesser(Len(out), Room) :
              snd' = snd \o Take(out, n) /\ out' = Drop(out, n)
        BY <2>1 DEF TransmitIncomplete
      <3>2. n \in 0..Len(out)
        <4>1. Len(out) \in Nat /\ Room \in Int
          BY <1>1, LenProperties, ConnectionAssumption DEF Room
        <4>2. QED
          BY <4>1 DEF Lesser
      <3> DEFINE a == Take(out, n)
                 b == Drop(out, n)
      <3>3. a \in Seq(Units) /\ b \in Seq(Units) /\ a \o b = out
        BY <1>1, <3>2, TakeProperties, DropProperties, TakeDrop
      <3> HIDE DEF a, b
      <3>4. (snd \o a) \o b = snd \o (a \o b)
        <4>1. snd \in Seq(Units) /\ a \in Seq(Units) /\ b \in Seq(Units)
          BY <1>1, <3>3
        <4>2. QED
          BY <4>1, ConcatAssociative
      <3>5. QED
        BY <3>1, <3>3, <3>4 DEF a, b
    <2>2. CASE TransmitComplete \/ TransmitSoftError \/ TransmitHardError
      BY <2>2 DEF TransmitComplete, TransmitSoftError, TransmitHardError
    <2>3. QED
      BY <2>1, <2>2 DEF Transmit
  <1>4. QED
    BY <1>1, <1>2, <1>3, HiddenStep

\* Events, sleeping, and what the client sends change nothing it can see.
LEMMA QuietStep ==
    EventHandler \/ NewCmd \/ Waiting \/ ClientSend \/ ClientHangup \/ UNCHANGED vars
    => UNCHANGED Service!svars
  <1> SUFFICES ASSUME EventHandler \/ NewCmd \/ Waiting \/ ClientSend \/ ClientHangup
                      \/ UNCHANGED vars
               PROVE  UNCHANGED Service!svars
    OBVIOUS
  <1>1. UNCHANGED <<script, replies, progress, snd, out>>
    BY DEF EventHandler, NewCmd, Waiting, ClientSend, ClientHangup, vars, client, socket,
           output, counts
  <1>2. (state = "closed") <=> (state' = "closed")
    BY DEF EventHandler, NewCmd, Waiting, ClientSend, ClientHangup, vars, Running,
           ResetCmdHandler, Goto, Await
  <1>3. QED
    BY <1>1, <1>2 DEF Service!svars

\* A connection answers as InOrderService says: every request once, in the order
\* sent and with its own reply, however the bytes arrive and the replies leave, until
\* the server gives the connection up; the next client of the structure starts
\* from scratch.  Included are the ERROR for the block of a refused set, and what
\* process_get_command sends when memory runs out.
THEOREM Refinement == Spec => ServiceSpec
  <1>1. Init => Service!Start
    <2> SUFFICES ASSUME Init PROVE Service!Start
      OBVIOUS
    <2>1. script \in Seq(Request)
      BY ConnectionAssumption DEF Init
    <2>2. Drop(script, 0) = script
      BY <2>1, SubSeqFull DEF Drop
    <2>3. <<>> \o <<>> = <<>>
      BY EmptySeq, ConcatEmptySeq
    <2>4. QED
      BY <2>2, <2>3 DEF Init, Service!Start
  <1>2. IInv /\ InStep /\ [Next]_vars => [Service!SNext]_(Service!svars)
    BY QuietStep, ReadStep, ParseStep, ValueStep, TransmitStep, DropStep, DeliverStep,
       ReopenStep DEF Next, DriveMachine, Service!SNext
  <1>3. QED
    BY <1>1, <1>2, Invariance, StaysInStep, PTL DEF Spec, ServiceSpec, Service!SSpec
=============================================================================
