--------------------------- MODULE OutputBufferProofs ---------------------------
(***************************************************************************)
(* Proofs about OutputBuffer.                                              *)
(*                                                                         *)
(* The first half says what each operation of connections.c and server.c   *)
(* does to a buffer: conn_add_msghdr (AddMsghdrFacts), the fresh start of  *)
(* process_command (EmptiedFacts), conn_ensure_iov_space and the running   *)
(* sums of its loop (RunningSums, RepointedFacts, EnsureIovSpaceFacts),    *)
(* conn_add_iov (PutFacts), transmit (MoveFacts, AdvanceFacts).            *)
(*                                                                         *)
(* The invariant IInv has two parts.  Base holds of every connection: the  *)
(* headers lie in order within what is filled of the array, which is what  *)
(* keeps every index the code computes inside it.  Client holds of a       *)
(* client's connection: fragments are added only while nothing of the      *)
(* output has been sent (Phases), so that conn_ensure_iov_space, which     *)
(* lays the headers out from the start of the array again, moves none of   *)
(* them (EnsureIovSpaceFacts) and they stay adjacent (Contiguous).  On a   *)
(* backend's connection memcache_get adds while earlier requests are       *)
(* partly sent, and the theorems say no more than Base of it.              *)
(*                                                                         *)
(* The last part proves that a client's output is a byte stream.  Where    *)
(* headers are adjacent, what they cover is one run of the array: what is  *)
(* pending is the bytes from the first entry not sent (First) to iovused   *)
(* (PendingIs), which conn_add_iov extends at its end (AddsBytes) and      *)
(* transmit cuts at its front (Sent).  SInv adds what makes each step one  *)
(* of ByteStream's: no entry is empty, and nothing of the output is on the *)
(* wire when it is thrown away.                                            *)
(***************************************************************************)
EXTENDS OutputBuffer, SequenceTheorems, InductionLemmas, TLAPS

Header == [iov : Nat, len : Nat]
Iovec == [base : Nat, len : Nat]

\* Headers lie one after the other, within what is filled of the array.
Ordered(b) ==
    LET m == b.msglist IN
    /\ \A i \in 1..Len(m) - 1 : m[i].iov + m[i].len <= m[i + 1].iov
    /\ \A i \in 1..Len(m) : m[i].iov + m[i].len <= b.iovused

WellFormed(b) ==
    /\ b \in Buffer
    /\ Len(b.msglist) <= b.msgsize /\ b.msgsize >= 2
    /\ b.msgcurr <= Len(b.msglist)
    /\ b.iovused <= Len(b.iov) /\ Len(b.iov) >= 1
    /\ Ordered(b)
    /\ Len(b.msglist) = 1 => b.msgbytes <= MaxPayload

\* Nothing of the output has been sent: its first header starts the array.
Fresh(b) == b.msgcurr = 0 /\ b.msglist # <<>> /\ b.msglist[1].iov = 0

\* MsgRanges, of any buffer.
Contiguous(b) ==
    /\ \A i \in b.msgcurr + 1..Len(b.msglist) - 1 :
           b.msglist[i].iov + b.msglist[i].len = b.msglist[i + 1].iov
    /\ b.msglist # <<>> => Last(b.msglist).iov + Last(b.msglist).len = b.iovused

-----------------------------------------------------------------------------
(* What the operations of connections.c do to a buffer *)

\* The bounds, without the rest of the assumption.
LEMMA Bounds ==
    MaxPayload \in Nat /\ MaxPayload > 0 /\ IovMax \in Nat /\ IovMax > 0 /\ MsgInit \in Nat /\ MsgInit >= 2
  BY OutputBufferAssumption

LEMMA SeqUpdate ==
    ASSUME NEW S, NEW q \in Seq(S), NEW i \in 1..Len(q), NEW x \in S, NEW r, r = [q EXCEPT ![i] = x]
    PROVE  /\ r \in Seq(S) /\ Len(r) = Len(q) /\ r[i] = x
           /\ \A j \in 1..Len(q) : j # i => r[j] = q[j]
  BY ExceptSeq

LEMMA OneMore ==
    ASSUME NEW a \in Nat, NEW b \in Nat, NEW c \in Nat, a + b <= c, NEW d, d = b \/ d = b + 1
    PROVE  a + d <= c + 1
  OBVIOUS

LEMMA OneBelow == \A n \in Nat : n >= 1 /\ n # 1 => 1 \in 1..n - 1
  OBVIOUS

LEMMA WithinArray ==
    ASSUME NEW a \in Nat, NEW b \in Nat, NEW c \in Nat, NEW d \in Nat, NEW k \in Nat,
           k < b, a + b <= c, c <= d
    PROVE  a + k + 1 \in 1..d
  OBVIOUS

LEMMA BufferTypes ==
    ASSUME NEW b \in Buffer
    PROVE  /\ b.msglist \in Seq(Header) /\ b.iov \in Seq(Iovec)
           /\ b.msgsize \in Nat /\ b.msgcurr \in Nat /\ b.msgbytes \in Nat /\ b.iovused \in Nat
           /\ Len(b.msglist) \in Nat /\ Len(b.iov) \in Nat
           /\ \A i \in 1..Len(b.msglist) : b.msglist[i].iov \in Nat /\ b.msglist[i].len \in Nat
  <1>1. b.msglist \in Seq(Header) /\ b.iov \in Seq(Iovec)
    BY DEF Buffer, Header, Iovec
  <1>2. Len(b.msglist) \in Nat /\ Len(b.iov) \in Nat
    BY <1>1, LenProperties
  <1>3. \A i \in 1..Len(b.msglist) : b.msglist[i] \in Header
    BY <1>1, ElementOfSeq
  <1>4. QED
    BY <1>1, <1>2, <1>3 DEF Buffer, Header

\* conn_add_msghdr appends an empty header at the end of what is filled.
LEMMA AddMsghdrFacts ==
    ASSUME NEW b \in Buffer, WellFormed(b), NEW r, r = AddMsghdr(b)
    PROVE  /\ WellFormed(r)
           /\ r.msglist = Append(b.msglist, [iov |-> b.iovused, len |-> 0])
           /\ Len(r.msglist) = Len(b.msglist) + 1
           /\ Last(r.msglist) = [iov |-> b.iovused, len |-> 0]
           /\ \A i \in 1..Len(b.msglist) : r.msglist[i] = b.msglist[i]
           /\ r.msgbytes = 0
           /\ r.iov = b.iov /\ r.iovused = b.iovused /\ r.msgcurr = b.msgcurr
  <1> DEFINE h == [iov |-> b.iovused, len |-> 0]
             m == b.msglist
             n == Len(b.msglist)
             z == IF MsglistFull(b) THEN 2 * b.msgsize ELSE b.msgsize
  <1>1. /\ m \in Seq(Header) /\ n \in Nat /\ b.iovused \in Nat /\ h \in Header /\ b.msgsize \in Nat
        /\ \A i \in 1..n : m[i].iov \in Nat /\ m[i].len \in Nat
    BY BufferTypes DEF Header
  <1>2. r = [b EXCEPT !.msgsize = z, !.msglist = Append(m, h), !.msgbytes = 0]
    BY DEF AddMsghdr
  <1>3. z \in Nat /\ n + 1 <= z /\ z >= 2
    BY <1>1 DEF WellFormed, MsglistFull
  <1> HIDE DEF z
  <1>4. /\ Append(m, h) \in Seq(Header) /\ Len(Append(m, h)) = n + 1
        /\ Append(m, h)[n + 1] = h /\ \A i \in 1..n : Append(m, h)[i] = m[i]
    BY <1>1
  <1>5. r \in Buffer
    <2> DEFINE a == Append(m, h)
    <2>1. a \in Seq([iov : Nat, len : Nat]) /\ r = [b EXCEPT !.msgsize = z, !.msglist = a, !.msgbytes = 0]
      BY <1>2, <1>4 DEF Header
    <2>2. z \in Nat
      BY <1>3
    <2> HIDE DEF a
    <2>3. [b EXCEPT !.msgsize = z, !.msglist = a, !.msgbytes = 0] \in Buffer
      BY <2>1, <2>2 DEF Buffer
    <2>4. QED
      BY <2>1, <2>3
  <1>6. /\ r.msglist = Append(m, h) /\ r.msgsize = z /\ r.msgbytes = 0
        /\ r.iov = b.iov /\ r.iovused = b.iovused /\ r.msgcurr = b.msgcurr
    BY <1>2 DEF Buffer
  <1>7. Ordered(r)
    <2>1. Ordered(b)
      BY DEF WellFormed
    <2>2. \A i \in 1..n : r.msglist[i] = m[i]
      BY <1>4, <1>6
    <2>3. r.msglist[n + 1].iov = b.iovused /\ r.msglist[n + 1].len = 0 /\ Len(r.msglist) = n + 1
      BY <1>4, <1>6
    <2>4. ASSUME NEW i \in 1..n PROVE r.msglist[i].iov + r.msglist[i].len <= r.msglist[i + 1].iov
      <3>1. CASE i = n
        BY <1>1, <2>1, <2>2, <2>3, <3>1 DEF Ordered
      <3>2. CASE i # n
        <4>1. i \in 1..n - 1 /\ i + 1 \in 1..n
          BY <1>1, <3>2
        <4>2. QED
          BY <2>1, <2>2, <4>1 DEF Ordered
      <3>3. QED
        BY <3>1, <3>2
    <2>5. \A i \in 1..n + 1 : r.msglist[i].iov + r.msglist[i].len <= b.iovused
      <3>1. SUFFICES ASSUME NEW i \in 1..n + 1 PROVE r.msglist[i].iov + r.msglist[i].len <= b.iovused
        OBVIOUS
      <3>2. CASE i = n + 1
        BY <1>1, <2>3, <3>2
      <3>3. CASE i # n + 1
        <4>1. i \in 1..n
          BY <1>1, <3>3
        <4>2. QED
          BY <2>1, <2>2, <4>1 DEF Ordered
      <3>4. QED
        BY <3>2, <3>3
    <2>6. (n + 1) - 1 = n
      BY <1>1
    <2>7. QED
      BY <1>6, <2>3, <2>4, <2>5, <2>6 DEF Ordered
  <1>8. WellFormed(r)
    BY <1>1, <1>3, <1>4, <1>5, <1>6, <1>7, BufferTypes, Bounds DEF WellFormed
  <1>9. QED
    BY <1>4, <1>6, <1>8 DEF Last

\* process_command and error_response leave one empty header.
LEMMA EmptiedFacts ==
    ASSUME NEW b \in Buffer, WellFormed(b), NEW r, r = Emptied(b)
    PROVE  /\ WellFormed(r) /\ Fresh(r) /\ Contiguous(r)
           /\ r.msglist = <<[iov |-> 0, len |-> 0]>> /\ Len(r.msglist) = 1
           /\ r.msgbytes = 0 /\ r.iovused = 0 /\ r.msgcurr = 0 /\ r.iov = b.iov
  <1> DEFINE c == [b EXCEPT !.msgcurr = 0, !.msglist = <<>>, !.iovused = 0]
  <1>1. c \in Buffer
    <2>1. <<>> \in Seq(Header)
      BY EmptySeq
    <2>2. QED
      BY <2>1 DEF Buffer, Header
  <1>2. /\ c.msglist = <<>> /\ c.msgcurr = 0 /\ c.iovused = 0 /\ c.iov = b.iov /\ c.msgsize = b.msgsize
        /\ c.msgbytes = b.msgbytes
    BY DEF Buffer
  <1>3. r = AddMsghdr(c)
    BY DEF Emptied
  <1> HIDE DEF c
  <1>4. WellFormed(c)
    <2>1. Len(c.msglist) = 0
      BY <1>2
    <2>2. QED
      BY <1>1, <1>2, <2>1, BufferTypes DEF WellFormed, Ordered
  <1>5. /\ WellFormed(r) /\ r.msglist = Append(<<>>, [iov |-> 0, len |-> 0]) /\ r.msgbytes = 0
        /\ r.iov = b.iov /\ r.iovused = 0 /\ r.msgcurr = 0
    BY <1>1, <1>2, <1>3, <1>4, AddMsghdrFacts
  <1>6. r.msglist = <<[iov |-> 0, len |-> 0]>> /\ Len(r.msglist) = 1 /\ r.msglist[1] = [iov |-> 0, len |-> 0]
    BY <1>5
  <1>7. Fresh(r)
    BY <1>5, <1>6 DEF Fresh
  <1>8. Contiguous(r)
    BY <1>5, <1>6 DEF Contiguous, Last
  <1>9. QED
    BY <1>5, <1>6, <1>7, <1>8

\* The running sums that conn_ensure_iov_space's loop computes.
LEMMA RunningSums ==
    ASSUME NEW m \in Seq(Header)
    PROVE  \E f \in [1..Len(m) -> Nat] :
               \A i \in 1..Len(m) : f[i] = IF i = 1 THEN 0 ELSE f[i - 1] + m[i - 1].len
  <1> DEFINE Sums(f, n) == \A i \in 1..n : f[i] = IF i = 1 THEN 0 ELSE f[i - 1] + m[i - 1].len
             S == {n \in Nat : n <= Len(m) => \E f \in [1..n -> Nat] : Sums(f, n)}
  <1>0. Len(m) \in Nat /\ \A i \in 1..Len(m) : m[i] \in Header
    BY LenProperties, ElementOfSeq
  <1>1. Len(m) \in Nat /\ \A i \in 1..Len(m) : m[i].len \in Nat
    BY <1>0 DEF Header
  <1>2. 0 \in S
    <2>1. [i \in 1..0 |-> 0] \in [1..0 -> Nat] /\ Sums([i \in 1..0 |-> 0], 0)
      OBVIOUS
    <2>2. QED
      BY <2>1
  <1>3. ASSUME NEW n \in Nat, n \in S PROVE n + 1 \in S
    <2>0. n + 1 \in Nat
      OBVIOUS
    <2>1. SUFFICES ASSUME n + 1 <= Len(m) PROVE \E f \in [1..n + 1 -> Nat] : Sums(f, n + 1)
      <3> HIDE DEF Sums
      <3>1. QED
        BY <2>0
    <2>2. n <= Len(m)
      BY <1>1, <2>1
    <2>3. PICK f \in [1..n -> Nat] : Sums(f, n)
      BY <1>3, <2>2
    <2> DEFINE x == IF n = 0 THEN 0 ELSE f[n] + m[n].len
               g == [i \in 1..n + 1 |-> IF i = n + 1 THEN x ELSE f[i]]
    <2>4. x \in Nat
      BY <1>1, <2>2
    <2> HIDE DEF x
    <2>5. g \in [1..n + 1 -> Nat] /\ g[n + 1] = x /\ \A i \in 1..n : g[i] = f[i]
      BY <2>4
    <2> HIDE DEF g
    <2>6. Sums(g, n + 1)
      <3>1. SUFFICES ASSUME NEW i \in 1..n + 1 PROVE g[i] = IF i = 1 THEN 0 ELSE g[i - 1] + m[i - 1].len
        OBVIOUS
      <3>2. CASE i = n + 1
        BY <2>5, <3>2 DEF x
      <3>3. CASE i # n + 1
        <4>1. i \in 1..n /\ (i = 1 \/ i - 1 \in 1..n)
          BY <3>3
        <4>2. QED
          BY <2>3, <2>5, <4>1
      <3>4. QED
        BY <3>2, <3>3
    <2> HIDE DEF Sums
    <2>7. QED
      BY <2>5, <2>6
  <1>4. Len(m) \in S
    <2> HIDE DEF S
    <2>1. QED
      BY <1>1, <1>2, <1>3, SetInduction
  <1>5. QED
    BY <1>1, <1>4

\* Repointed keeps the lengths and lays the headers end to end from 0.
LEMMA RepointedFacts ==
    ASSUME NEW m \in Seq(Header), NEW r, r = Repointed(m)
    PROVE  /\ r \in Seq(Header) /\ Len(r) = Len(m)
           /\ \A i \in 1..Len(m) :
                 r[i].len = m[i].len /\ r[i].iov = IF i = 1 THEN 0 ELSE r[i - 1].iov + r[i - 1].len
  <1>1. Len(m) \in Nat /\ DOMAIN m = 1..Len(m) /\ \A i \in 1..Len(m) : m[i] \in Header
    BY LenProperties, ElementOfSeq
  <1> DEFINE F(f) == [i \in 1..Len(m) |-> IF i = 1 THEN 0 ELSE f[i - 1] + m[i - 1].len]
  <1>2. PICK f \in [1..Len(m) -> Nat] :
               \A i \in 1..Len(m) : f[i] = IF i = 1 THEN 0 ELSE f[i - 1] + m[i - 1].len
    BY RunningSums
  <1>3. f = F(f)
    BY <1>2
  <1> DEFINE g == CHOOSE h : h = F(h)
  <1>4. g = F(g)
    <2> HIDE DEF F
    <2>1. QED
      BY <1>3
  <1>5. r = [i \in 1..Len(m) |-> [m[i] EXCEPT !.iov = g[i]]]
    <2>1. DOMAIN m = 1..Len(m)
      BY <1>1
    <2>2. QED
      BY <2>1 DEF Repointed
  <1> HIDE DEF g
  <1>6. \A i \in 1..Len(m) : g[i] = IF i = 1 THEN 0 ELSE g[i - 1] + m[i - 1].len
    BY <1>4
  <1> HIDE DEF F
  <1> DEFINE U == {n \in Nat : \A i \in 1..Len(m) : i <= n => g[i] = f[i]}
  <1>7. 0 \in U
    OBVIOUS
  <1>8. ASSUME NEW n \in Nat, n \in U PROVE n + 1 \in U
    <2>1. SUFFICES ASSUME NEW i \in 1..Len(m), i <= n + 1 PROVE g[i] = f[i]
      OBVIOUS
    <2>2. CASE i = 1
      BY <1>2, <1>6, <2>2
    <2>3. CASE i # 1
      <3>1. i - 1 \in 1..Len(m) /\ i - 1 <= n
        BY <1>1, <2>1, <2>3
      <3>2. g[i - 1] = f[i - 1]
        BY <1>8, <3>1
      <3>3. QED
        BY <1>2, <1>6, <2>3, <3>2
    <2>4. QED
      BY <2>2, <2>3
  <1>9. \A i \in 1..Len(m) : g[i] = f[i]
    <2>1. Nat \subseteq U
      <3> HIDE DEF U
      <3>1. QED
        BY <1>7, <1>8, SetInduction
    <2>2. QED
      BY <1>1, <2>1
  <1>10. \A i \in 1..Len(m) : /\ [m[i] EXCEPT !.iov = g[i]] \in Header
                              /\ [m[i] EXCEPT !.iov = g[i]].iov = f[i]
                              /\ [m[i] EXCEPT !.iov = g[i]].len = m[i].len
    <2>1. SUFFICES ASSUME NEW i \in 1..Len(m)
                   PROVE  /\ [m[i] EXCEPT !.iov = g[i]] \in Header
                          /\ [m[i] EXCEPT !.iov = g[i]].iov = f[i]
                          /\ [m[i] EXCEPT !.iov = g[i]].len = m[i].len
      OBVIOUS
    <2>2. m[i] \in Header /\ g[i] = f[i] /\ f[i] \in Nat
      BY <1>1, <1>2, <1>9
    <2>3. QED
      BY <2>2 DEF Header
  <1>11. r \in [1..Len(m) -> Header]
    BY <1>5, <1>10
  <1>12. r \in Seq(Header) /\ Len(r) = Len(m)
    BY <1>1, <1>11
  <1>13. \A i \in 1..Len(m) : r[i].iov = f[i] /\ r[i].len = m[i].len
    BY <1>5, <1>10
  <1>14. ASSUME NEW i \in 1..Len(m)
         PROVE  r[i].len = m[i].len /\ r[i].iov = IF i = 1 THEN 0 ELSE r[i - 1].iov + r[i - 1].len
    <2>1. CASE i = 1
      BY <1>2, <1>13, <2>1
    <2>2. CASE i # 1
      <3>1. i - 1 \in 1..Len(m)
        BY <1>1, <2>2
      <3>2. QED
        BY <1>2, <1>13, <2>2, <3>1
    <2>3. QED
      BY <2>1, <2>2
  <1>15. QED
    BY <1>12, <1>14

\* It moves no header up, and none of an output that is laid out that way already.
LEMMA RepointedPlaces ==
    ASSUME NEW m \in Seq(Header), NEW r, r = Repointed(m),
           \A i \in 1..Len(m) - 1 : m[i].iov + m[i].len <= m[i + 1].iov
    PROVE  /\ \A i \in 1..Len(m) : r[i].iov <= m[i].iov
           /\ (/\ Len(m) > 0 => m[1].iov = 0
               /\ \A i \in 1..Len(m) - 1 : m[i].iov + m[i].len = m[i + 1].iov) => r = m
  <1>1. /\ r \in Seq(Header) /\ Len(r) = Len(m) /\ Len(m) \in Nat
        /\ \A i \in 1..Len(m) : /\ r[i].len = m[i].len
                                 /\ r[i].iov = IF i = 1 THEN 0 ELSE r[i - 1].iov + r[i - 1].len
    BY RepointedFacts, LenProperties
  <1>2. \A i \in 1..Len(m) : m[i] \in Header /\ r[i] \in Header
    BY <1>1, ElementOfSeq
  <1>3. \A i \in 1..Len(m) : m[i].iov \in Nat /\ m[i].len \in Nat /\ r[i].iov \in Nat
    BY <1>2 DEF Header
  <1>4. \A i \in 1..Len(m) : r[i].iov <= m[i].iov
    <2> DEFINE U == {n \in Nat : \A i \in 1..Len(m) : i <= n => r[i].iov <= m[i].iov}
    <2>1. 0 \in U
      OBVIOUS
    <2>2. ASSUME NEW n \in Nat, n \in U PROVE n + 1 \in U
      <3>1. SUFFICES ASSUME NEW i \in 1..Len(m), i <= n + 1 PROVE r[i].iov <= m[i].iov
        OBVIOUS
      <3>2. CASE i = 1
        BY <1>1, <1>3, <3>2
      <3>3. CASE i # 1
        <4>1. i - 1 \in 1..Len(m) /\ i - 1 <= n /\ i - 1 \in 1..Len(m) - 1 /\ (i - 1) + 1 = i
          BY <1>1, <3>1, <3>3
        <4>2. r[i - 1].iov <= m[i - 1].iov
          BY <2>2, <4>1
        <4>3. r[i].iov = r[i - 1].iov + m[i - 1].len
          BY <1>1, <3>3, <4>1
        <4>4. m[i - 1].iov + m[i - 1].len <= m[i].iov
          BY <4>1
        <4>5. QED
          BY <1>3, <4>1, <4>2, <4>3, <4>4
      <3>4. QED
        BY <3>2, <3>3
    <2>3. Nat \subseteq U
      <3> HIDE DEF U
      <3>1. QED
        BY <2>1, <2>2, SetInduction
    <2>4. Len(m) \in U
      BY <1>1, <2>3
    <2>5. QED
      BY <1>1, <2>4
  <1>5. ASSUME Len(m) > 0 => m[1].iov = 0,
               \A i \in 1..Len(m) - 1 : m[i].iov + m[i].len = m[i + 1].iov
        PROVE  r = m
    <2> DEFINE U == {n \in Nat : \A i \in 1..Len(m) : i <= n => r[i].iov = m[i].iov}
    <2>1. 0 \in U
      OBVIOUS
    <2>2. ASSUME NEW n \in Nat, n \in U PROVE n + 1 \in U
      <3>1. SUFFICES ASSUME NEW i \in 1..Len(m), i <= n + 1 PROVE r[i].iov = m[i].iov
        OBVIOUS
      <3>2. CASE i = 1
        BY <1>1, <1>5, <3>2
      <3>3. CASE i # 1
        <4>1. i - 1 \in 1..Len(m) /\ i - 1 <= n /\ i - 1 \in 1..Len(m) - 1 /\ (i - 1) + 1 = i
          BY <1>1, <3>1, <3>3
        <4>2. r[i - 1].iov = m[i - 1].iov
          BY <2>2, <4>1
        <4>3. r[i].iov = r[i - 1].iov + m[i - 1].len
          BY <1>1, <3>3, <4>1
        <4>4. m[i - 1].iov + m[i - 1].len = m[i].iov
          BY <1>5, <4>1
        <4>5. QED
          BY <4>2, <4>3, <4>4
      <3>4. QED
        BY <3>2, <3>3
    <2>3. Nat \subseteq U
      <3> HIDE DEF U
      <3>1. QED
        BY <2>1, <2>2, SetInduction
    <2>4. Len(m) \in U
      BY <1>1, <2>3
    <2>5. \A i \in 1..Len(m) : r[i].iov = m[i].iov
      BY <1>1, <2>4
    <2> HIDE DEF U
    <2>6. ASSUME NEW i \in 1..Len(m) PROVE r[i] = m[i]
      <3>1. r[i].iov = m[i].iov /\ r[i].len = m[i].len
        BY <1>1, <2>5
      <3>2. r[i] \in [iov : Nat, len : Nat] /\ m[i] \in [iov : Nat, len : Nat]
        BY <1>2 DEF Header
      <3>3. /\ r[i] = [iov |-> r[i].iov, len |-> r[i].len]
            /\ m[i] = [iov |-> m[i].iov, len |-> m[i].len]
        BY <3>2
      <3>4. QED
        BY <3>1, <3>3
    <2>7. QED
      BY <1>1, <2>6, SeqEqual
  <1>6. QED
    BY <1>4, <1>5

\* conn_ensure_iov_space leaves room for an entry and keeps the buffer in order;
\* it moves no header of an output of which nothing has been sent.
LEMMA EnsureIovSpaceFacts ==
    ASSUME NEW b \in Buffer, WellFormed(b), NEW r, r = EnsureIovSpace(b)
    PROVE  /\ WellFormed(r)
           /\ r.iovused = b.iovused /\ r.iovused < Len(r.iov)
           /\ r.msgcurr = b.msgcurr /\ r.msgbytes = b.msgbytes
           /\ Len(r.msglist) = Len(b.msglist)
           /\ Fresh(b) /\ Contiguous(b) => r.msglist = b.msglist
  <1> DEFINE m == b.msglist
             n == Len(b.msglist)
             q == Repointed(b.msglist)
             v == b.iov \o [i \in DOMAIN b.iov |-> Junk]
  <1>1. /\ m \in Seq(Header) /\ b.iov \in Seq(Iovec) /\ n \in Nat /\ b.iovused \in Nat /\ Len(b.iov) \in Nat
        /\ b.msgcurr \in Nat
        /\ \A i \in 1..n : m[i].iov \in Nat /\ m[i].len \in Nat
    BY BufferTypes
  <1>2. Ordered(b)
    BY DEF WellFormed
  <1>3. CASE ~IovFull(b)
    BY <1>1, <1>3 DEF EnsureIovSpace, IovFull
  <1>4. CASE IovFull(b)
    <2>1. r = [b EXCEPT !.iov = v, !.msglist = q]
      BY <1>4 DEF EnsureIovSpace
    <2>2. /\ q \in Seq(Header) /\ Len(q) = n
          /\ \A i \in 1..n : q[i].len = m[i].len /\ q[i].iov = IF i = 1 THEN 0 ELSE q[i - 1].iov + q[i - 1].len
      BY <1>1, RepointedFacts
    <2>3. \A i \in 1..n - 1 : m[i].iov + m[i].len <= m[i + 1].iov
      BY <1>2 DEF Ordered
    <2>4. /\ \A i \in 1..n : q[i].iov <= m[i].iov
          /\ (/\ n > 0 => m[1].iov = 0
              /\ \A i \in 1..n - 1 : m[i].iov + m[i].len = m[i + 1].iov) => q = m
      BY <1>1, <2>3, RepointedPlaces
    <2>5. v \in Seq(Iovec) /\ Len(v) = Len(b.iov) + Len(b.iov)
      <3> DEFINE w == [i \in DOMAIN b.iov |-> Junk]
      <3>1. DOMAIN b.iov = 1..Len(b.iov) /\ Junk \in Iovec
        BY <1>1, LenProperties DEF Junk, Iovec
      <3>2. w \in Seq(Iovec) /\ Len(w) = Len(b.iov)
        BY <1>1, <3>1
      <3>3. v = b.iov \o w
        OBVIOUS
      <3> HIDE DEF w, v
      <3>4. b.iov \o w \in Seq(Iovec) /\ Len(b.iov \o w) = Len(b.iov) + Len(w)
        BY <1>1, <3>2, ConcatProperties
      <3>5. QED
        BY <3>2, <3>3, <3>4
    <2> HIDE DEF q, v
    <2>6. /\ r.msglist = q /\ r.iov = v /\ r.iovused = b.iovused /\ r.msgcurr = b.msgcurr
          /\ r.msgbytes = b.msgbytes /\ r.msgsize = b.msgsize
      BY <2>1 DEF Buffer
    <2>7. r \in Buffer
      <3>1. q \in Seq([iov : Nat, len : Nat]) /\ v \in Seq([base : Nat, len : Nat])
        BY <2>2, <2>5 DEF Header, Iovec
      <3>2. QED
        BY <2>1, <3>1 DEF Buffer
    <2>8. \A i \in 1..n : q[i].iov \in Nat /\ q[i].len \in Nat
      <3>1. \A i \in 1..n : q[i] \in Header
        BY <2>2, ElementOfSeq
      <3>2. QED
        BY <3>1 DEF Header
    <2>9. Ordered(r)
      <3>1. ASSUME NEW i \in 1..n - 1 PROVE q[i].iov + q[i].len <= q[i + 1].iov
        <4>1. i \in 1..n /\ i + 1 \in 1..n /\ i + 1 # 1 /\ (i + 1) - 1 = i
          BY <1>1
        <4>2. q[i + 1].iov = q[i].iov + q[i].len
          BY <2>2, <4>1
        <4>3. QED
          BY <2>8, <4>1, <4>2
      <3>2. ASSUME NEW i \in 1..n PROVE q[i].iov + q[i].len <= b.iovused
        <4>1. m[i].iov + m[i].len <= b.iovused /\ q[i].iov <= m[i].iov /\ q[i].len = m[i].len
          BY <1>2, <2>2, <2>4 DEF Ordered
        <4>2. QED
          BY <1>1, <2>8, <4>1
      <3>3. QED
        BY <2>2, <2>6, <3>1, <3>2 DEF Ordered
    <2>10. b.iovused < Len(v) /\ Len(v) >= 1
      BY <1>1, <1>4, <2>5 DEF WellFormed, IovFull
    <2>11. WellFormed(r)
      BY <1>1, <2>2, <2>6, <2>7, <2>9, <2>10 DEF WellFormed
    <2>12. ASSUME Fresh(b), Contiguous(b) PROVE q = m
      <3>1. m[1].iov = 0 /\ b.msgcurr = 0
        BY <2>12 DEF Fresh
      <3>2. \A i \in 1..n - 1 : m[i].iov + m[i].len = m[i + 1].iov
        BY <2>12, <3>1 DEF Contiguous
      <3>3. QED
        BY <2>4, <3>1, <3>2
    <2>13. QED
      BY <2>2, <2>6, <2>10, <2>11, <2>12
  <1>5. QED
    BY <1>3, <1>4

\* conn_add_iov's last lines add an entry to the last header, and nothing else.
LEMMA PutFacts ==
    ASSUME NEW b \in Buffer, WellFormed(b), b.iovused < Len(b.iov), b.msglist # <<>>, written \in Nat,
           NEW n \in Nat, Len(b.msglist) = 1 => b.msgbytes + n <= MaxPayload,
           NEW r, r = Put(b, n)
    PROVE  /\ WellFormed(r)
           /\ Len(r.msglist) = Len(b.msglist) /\ Len(b.msglist) >= 1
           /\ \A i \in 1..Len(b.msglist) - 1 : r.msglist[i] = b.msglist[i]
           /\ Last(r.msglist).iov = Last(b.msglist).iov
           /\ Last(r.msglist).len = Last(b.msglist).len + 1
           /\ r.msgcurr = b.msgcurr /\ r.iovused = b.iovused + 1
  <1> DEFINE m == b.msglist
             l == Len(b.msglist)
             j == Last(b.msglist).iov + Last(b.msglist).len + 1
             e == [base |-> written + 1, len |-> n]
             q == [b.msglist EXCEPT ![l].len = @ + 1]
             v == [b.iov EXCEPT ![j] = e]
  <1>1. /\ m \in Seq(Header) /\ b.iov \in Seq(Iovec) /\ l \in Nat /\ b.iovused \in Nat /\ Len(b.iov) \in Nat
        /\ b.msgbytes \in Nat
        /\ \A i \in 1..l : m[i].iov \in Nat /\ m[i].len \in Nat
    BY BufferTypes
  <1>2. Ordered(b)
    BY DEF WellFormed
  <1>3. l >= 1 /\ l \in 1..l
    BY <1>1, EmptySeq
  <1>4. Last(m) = m[l] /\ m[l] \in Header
    BY <1>1, <1>3, ElementOfSeq DEF Last
  <1>5. r = [b EXCEPT !.iov = v, !.msglist = q, !.msgbytes = b.msgbytes + n, !.iovused = b.iovused + 1]
    BY DEF Put
  <1>6. e \in Iovec
    BY DEF Iovec
  <1>7. v \in Seq(Iovec) /\ Len(v) = Len(b.iov)
    <2>1. Last(b.msglist).iov + Last(b.msglist).len <= b.iovused
      BY <1>2, <1>3, <1>4 DEF Ordered
    <2>2. Last(b.msglist).iov \in Nat /\ Last(b.msglist).len \in Nat
      BY <1>1, <1>3, <1>4
    <2>3. j \in 1..Len(b.iov)
      BY <1>1, <2>1, <2>2
    <2> HIDE DEF e, j
    <2>4. QED
      BY <1>1, <1>6, <2>3, SeqUpdate
  <1> DEFINE g == [m[l] EXCEPT !.len = @ + 1]
  <1>8. g \in Header /\ g.iov = m[l].iov /\ g.len = m[l].len + 1
    BY <1>4 DEF Header
  <1>9. /\ q \in Seq(Header) /\ Len(q) = l
        /\ q[l] = g /\ \A i \in 1..l - 1 : q[i] = m[i]
    <2>1. q = [m EXCEPT ![l] = g]
      OBVIOUS
    <2> HIDE DEF g, q
    <2>2. QED
      BY <1>1, <1>3, <1>8, <2>1, SeqUpdate
  <1> HIDE DEF q, v, g
  <1>10. /\ r.msglist = q /\ r.iov = v /\ r.msgsize = b.msgsize /\ r.msgcurr = b.msgcurr
         /\ r.msgbytes = b.msgbytes + n /\ r.iovused = b.iovused + 1
    BY <1>5 DEF Buffer
  <1>11. r \in Buffer
    <2>1. q \in Seq([iov : Nat, len : Nat]) /\ v \in Seq([base : Nat, len : Nat])
      BY <1>7, <1>9 DEF Header, Iovec
    <2>2. b.msgbytes + n \in Nat /\ b.iovused + 1 \in Nat
      BY <1>1
    <2>3. QED
      BY <1>5, <2>1, <2>2 DEF Buffer
  <1>12. Ordered(r)
    <2>1. ASSUME NEW i \in 1..l - 1 PROVE q[i].iov + q[i].len <= q[i + 1].iov
      <3>1. i \in 1..l /\ i + 1 \in 1..l /\ (i + 1 = l \/ i + 1 \in 1..l - 1)
        BY <1>1
      <3>2. q[i] = m[i] /\ q[i + 1].iov = m[i + 1].iov
        BY <1>8, <1>9, <3>1
      <3>3. QED
        BY <1>2, <3>2 DEF Ordered
    <2>2. ASSUME NEW i \in 1..l PROVE q[i].iov + q[i].len <= b.iovused + 1
      <3>1. m[i].iov + m[i].len <= b.iovused
        BY <1>2 DEF Ordered
      <3>2. q[i].iov = m[i].iov /\ (q[i].len = m[i].len \/ q[i].len = m[i].len + 1)
        <4>1. i = l \/ i \in 1..l - 1
          BY <1>1
        <4>2. QED
          BY <1>8, <1>9, <4>1
      <3>3. m[i].iov \in Nat /\ m[i].len \in Nat
        BY <1>1
      <3>4. QED
        BY <1>1, <3>1, <3>2, <3>3, OneMore
    <2>3. QED
      BY <1>9, <1>10, <2>1, <2>2 DEF Ordered
  <1>13. WellFormed(r)
    BY <1>1, <1>7, <1>9, <1>10, <1>11, <1>12 DEF WellFormed
  <1>14. Last(r.msglist) = g
    BY <1>9, <1>10 DEF Last
  <1>15. QED
    BY <1>3, <1>4, <1>8, <1>9, <1>10, <1>13, <1>14

\* What any outcome of transmit makes of a buffer: it goes on to header cur, whose
\* sent entries are left behind.
Sends(b, r, cur) ==
    /\ Len(r.msglist) = Len(b.msglist) /\ r.msgcurr = cur /\ r.iovused = b.iovused
    /\ \A i \in 1..Len(b.msglist) :
           /\ r.msglist[i].iov + r.msglist[i].len = b.msglist[i].iov + b.msglist[i].len
           /\ r.msglist[i].len <= b.msglist[i].len
           /\ i # cur + 1 => r.msglist[i] = b.msglist[i]

\* transmit's position moves up by at most one header, and past an empty one only.
LEMMA CurrentFacts ==
    ASSUME buf \in Buffer, WellFormed(buf)
    PROVE  /\ Current \in Nat /\ buf.msgcurr <= Current /\ Current <= Len(buf.msglist)
           /\ \/ Current = buf.msgcurr /\ (buf.msgcurr < Len(buf.msglist) => buf.msglist[buf.msgcurr + 1].len # 0)
              \/ Current = buf.msgcurr + 1
  <1>1. buf.msgcurr \in Nat /\ Len(buf.msglist) \in Nat /\ buf.msgcurr <= Len(buf.msglist)
    BY BufferTypes DEF WellFormed
  <1>2. QED
    BY <1>1 DEF Current

LEMMA MoveFacts ==
    ASSUME buf \in Buffer, WellFormed(buf), NEW r, r = [buf EXCEPT !.msgcurr = Current]
    PROVE  WellFormed(r) /\ Sends(buf, r, Current)
  <1>1. Current \in Nat /\ Current <= Len(buf.msglist)
    BY CurrentFacts
  <1>2. /\ r.msglist = buf.msglist /\ r.iov = buf.iov /\ r.msgsize = buf.msgsize /\ r.msgcurr = Current
        /\ r.msgbytes = buf.msgbytes /\ r.iovused = buf.iovused /\ r \in Buffer
    BY <1>1 DEF Buffer
  <1>3. WellFormed(r)
    BY <1>1, <1>2 DEF WellFormed, Ordered
  <1>4. Sends(buf, r, Current)
    BY <1>2, BufferTypes DEF Sends
  <1>5. QED
    BY <1>3, <1>4

\* Taking entries off the front of a header, or bytes off the front of an entry.
LEMMA HeaderShrinks ==
    ASSUME NEW h \in Header, NEW k \in 0..h.len, NEW g, g = [iov |-> h.iov + k, len |-> h.len - k]
    PROVE  /\ g \in Header /\ g.iov \in Nat /\ g.len \in Nat
           /\ g.iov + g.len = h.iov + h.len /\ g.len <= h.len /\ g.iov >= h.iov
  <1>1. h.iov \in Nat /\ h.len \in Nat
    BY DEF Header
  <1>2. h.iov + k \in Nat /\ h.len - k \in Nat /\ g.iov = h.iov + k /\ g.len = h.len - k
    BY <1>1
  <1>3. QED
    BY <1>1, <1>2 DEF Header

LEMMA IovecShrinks ==
    ASSUME NEW f \in Iovec, NEW s \in 0..f.len - 1
    PROVE  [base |-> f.base + s, len |-> f.len - s] \in Iovec
  <1>1. f.base \in Nat /\ f.len \in Nat
    BY DEF Iovec
  <1>2. f.base + s \in Nat /\ f.len - s \in Nat
    BY <1>1
  <1>3. QED
    BY <1>2 DEF Iovec

LEMMA OrderShrinks ==
    ASSUME NEW m \in Seq(Header), NEW q \in Seq(Header), Len(q) = Len(m), NEW u,
           \A i \in 1..Len(m) - 1 : m[i].iov + m[i].len <= m[i + 1].iov,
           \A i \in 1..Len(m) : m[i].iov + m[i].len <= u,
           \A i \in 1..Len(m) : q[i].iov + q[i].len = m[i].iov + m[i].len /\ q[i].iov >= m[i].iov
    PROVE  /\ \A i \in 1..Len(q) - 1 : q[i].iov + q[i].len <= q[i + 1].iov
           /\ \A i \in 1..Len(q) : q[i].iov + q[i].len <= u
  <1>1. Len(m) \in Nat /\ \A i \in 1..Len(m) : m[i] \in Header /\ q[i] \in Header
    BY LenProperties, ElementOfSeq
  <1>2. \A i \in 1..Len(m) : m[i].iov \in Nat /\ m[i].len \in Nat /\ q[i].iov \in Nat /\ q[i].len \in Nat
    BY <1>1 DEF Header
  <1>3. ASSUME NEW i \in 1..Len(m) - 1 PROVE q[i].iov + q[i].len <= q[i + 1].iov
    <2>1. i \in 1..Len(m) /\ i + 1 \in 1..Len(m)
      BY <1>1
    <2>2. QED
      BY <1>2, <2>1
  <1>4. QED
    BY <1>3

LEMMA AdvanceIs ==
    ASSUME NEW cur, NEW k, NEW s
    PROVE  Advance(cur, k, s) =
             [buf EXCEPT !.msgcurr = cur,
                         !.msglist = [buf.msglist EXCEPT ![cur + 1] =
                             [iov |-> buf.msglist[cur + 1].iov + k, len |-> buf.msglist[cur + 1].len - k]],
                         !.iov = IF s = 0 THEN buf.iov ELSE
                             [buf.iov EXCEPT ![buf.msglist[cur + 1].iov + k + 1] =
                                [base |-> buf.iov[buf.msglist[cur + 1].iov + k + 1].base + s,
                                 len  |-> buf.iov[buf.msglist[cur + 1].iov + k + 1].len - s]]]
  <1>1. CASE s = 0
    BY <1>1 DEF Advance
  <1>2. CASE s # 0
    BY <1>2 DEF Advance
  <1>3. QED
    BY <1>1, <1>2

\* A send leaves the buffer in order however much of the header it takes.
LEMMA AdvanceFacts ==
    ASSUME buf \in Buffer, WellFormed(buf), NEW cur \in Nat, cur < Len(buf.msglist),
           NEW h, h = buf.msglist[cur + 1], NEW k \in Nat, k <= h.len,
           NEW s \in Nat, s = 0 \/ (k < h.len /\ s < buf.iov[h.iov + k + 1].len),
           NEW r, r = Advance(cur, k, s)
    PROVE  WellFormed(r) /\ Sends(buf, r, cur)
  <1> DEFINE m == buf.msglist
             n == Len(buf.msglist)
             c == cur + 1
             j == h.iov + k + 1
             g == [iov |-> h.iov + k, len |-> h.len - k]
             q == [m EXCEPT ![c] = g]
             f == [base |-> buf.iov[j].base + s, len |-> buf.iov[j].len - s]
             v == IF s = 0 THEN buf.iov ELSE [buf.iov EXCEPT ![j] = f]
  <1>1. /\ m \in Seq(Header) /\ buf.iov \in Seq(Iovec) /\ n \in Nat /\ buf.iovused \in Nat
        /\ Len(buf.iov) \in Nat
        /\ \A i \in 1..n : m[i].iov \in Nat /\ m[i].len \in Nat
    BY BufferTypes
  <1>2. Ordered(buf) /\ buf.iovused <= Len(buf.iov)
    BY DEF WellFormed
  <1>3. c \in 1..n /\ c \in Nat
    BY <1>1
  <1>4. /\ h = m[c] /\ h \in Header /\ h.iov \in Nat /\ h.len \in Nat /\ h.iov + h.len <= buf.iovused
        /\ k \in 0..h.len
    BY <1>1, <1>2, <1>3, ElementOfSeq DEF Ordered
  <1>5. r = [buf EXCEPT !.msgcurr = cur, !.msglist = q, !.iov = v]
    BY AdvanceIs
  <1> HIDE DEF j, c, g
  <1>6. g \in Header /\ g.iov + g.len = h.iov + h.len /\ g.len <= h.len /\ g.iov >= h.iov
        /\ g.iov \in Nat /\ g.len \in Nat
    <2>1. g = [iov |-> h.iov + k, len |-> h.len - k]
      BY DEF g
    <2>2. QED
      BY <1>4, <2>1, HeaderShrinks
  <1>7. /\ q \in Seq(Header) /\ Len(q) = n
        /\ q[c] = g /\ \A i \in 1..n : i # c => q[i] = m[i]
    BY <1>1, <1>3, <1>6, SeqUpdate
  <1>8. v \in Seq(Iovec) /\ Len(v) = Len(buf.iov)
    <2>1. CASE s = 0
      BY <1>1, <2>1
    <2>2. CASE s # 0
      <3>1. k < h.len /\ s < buf.iov[j].len
        BY <2>2 DEF j
      <3>2. j \in 1..Len(buf.iov)
        BY <1>1, <1>2, <1>4, <3>1, WithinArray DEF j
      <3>3. buf.iov[j] \in Iovec
        BY <1>1, <3>2, ElementOfSeq
      <3>4. buf.iov[j].len \in Nat
        BY <3>3 DEF Iovec
      <3>5. s \in 0..buf.iov[j].len - 1
        BY <3>1, <3>4
      <3>6. f \in Iovec
        BY <3>3, <3>5, IovecShrinks
      <3>7. v = [buf.iov EXCEPT ![j] = f]
        BY <2>2
      <3> HIDE DEF f, v
      <3>8. QED
        BY <1>1, <3>2, <3>6, <3>7, SeqUpdate
    <2>3. QED
      BY <2>1, <2>2
  <1> HIDE DEF q, v
  <1>9. /\ r.msglist = q /\ r.iov = v /\ r.msgsize = buf.msgsize /\ r.msgcurr = cur
        /\ r.msgbytes = buf.msgbytes /\ r.iovused = buf.iovused
    BY <1>5 DEF Buffer
  <1>10. r \in Buffer
    <2>1. q \in Seq([iov : Nat, len : Nat]) /\ v \in Seq([base : Nat, len : Nat])
      BY <1>7, <1>8 DEF Header, Iovec
    <2>2. QED
      BY <1>5, <2>1 DEF Buffer
  <1>11. ASSUME NEW i \in 1..n
         PROVE  /\ q[i].iov + q[i].len = m[i].iov + m[i].len
                /\ q[i].len <= m[i].len /\ q[i].iov >= m[i].iov
                /\ q[i].iov \in Nat /\ q[i].len \in Nat
    <2>1. CASE i = c
      BY <1>4, <1>6, <1>7, <2>1
    <2>2. CASE i # c
      <3>1. q[i] = m[i] /\ m[i].iov \in Nat /\ m[i].len \in Nat
        BY <1>1, <1>7, <2>2
      <3>2. QED
        BY <3>1
    <2>3. QED
      BY <2>1, <2>2
  <1>12. Sends(buf, r, cur)
    BY <1>7, <1>9, <1>11 DEF Sends, c
  <1>13. Ordered(r)
    <2>1. /\ \A i \in 1..n - 1 : m[i].iov + m[i].len <= m[i + 1].iov
          /\ \A i \in 1..n : m[i].iov + m[i].len <= buf.iovused
      BY <1>2 DEF Ordered
    <2>2. /\ \A i \in 1..Len(q) - 1 : q[i].iov + q[i].len <= q[i + 1].iov
          /\ \A i \in 1..Len(q) : q[i].iov + q[i].len <= buf.iovused
      BY <1>1, <1>7, <1>11, <2>1, OrderShrinks
    <2>3. QED
      BY <1>9, <2>2 DEF Ordered
  <1>14. WellFormed(r)
    BY <1>1, <1>7, <1>8, <1>9, <1>10, <1>13 DEF WellFormed
  <1>15. QED
    BY <1>12, <1>14

-----------------------------------------------------------------------------
(* MsgRanges and what the operations do to it *)

LEMMA AddMsghdrContiguous ==
    ASSUME NEW b \in Buffer, WellFormed(b), Contiguous(b), NEW r, r = AddMsghdr(b)
    PROVE  Contiguous(r)
  <1> DEFINE n == Len(b.msglist)
  <1>1. /\ n \in Nat /\ b.msgcurr \in Nat /\ b.iovused \in Nat
    BY BufferTypes
  <1>2. /\ Len(r.msglist) = n + 1 /\ r.msgcurr = b.msgcurr /\ r.iovused = b.iovused
        /\ Last(r.msglist) = [iov |-> b.iovused, len |-> 0]
        /\ \A i \in 1..n : r.msglist[i] = b.msglist[i]
    BY AddMsghdrFacts
  <1>3. r.msglist[n + 1].iov = b.iovused /\ Last(r.msglist).iov + Last(r.msglist).len = r.iovused
    BY <1>1, <1>2 DEF Last
  <1>4. ASSUME NEW i \in b.msgcurr + 1..n PROVE r.msglist[i].iov + r.msglist[i].len = r.msglist[i + 1].iov
    <2>1. i \in 1..n
      BY <1>1
    <2>2. r.msglist[i] = b.msglist[i]
      BY <1>2, <2>1
    <2>3. CASE i = n
      <3>1. b.msglist # <<>> /\ Last(b.msglist) = b.msglist[n]
        BY <1>1, <2>1 DEF Last
      <3>2. QED
        BY <1>3, <2>2, <2>3, <3>1 DEF Contiguous
    <2>4. CASE i # n
      <3>1. i \in b.msgcurr + 1..n - 1 /\ i + 1 \in 1..n
        BY <1>1, <2>4
      <3>2. b.msglist[i].iov + b.msglist[i].len = b.msglist[i + 1].iov
        BY <3>1 DEF Contiguous
      <3>3. QED
        BY <1>2, <2>2, <3>1, <3>2
    <2>5. QED
      BY <2>3, <2>4
  <1>5. r.msgcurr + 1..Len(r.msglist) - 1 = b.msgcurr + 1..n
    BY <1>1, <1>2
  <1>6. QED
    BY <1>3, <1>4, <1>5 DEF Contiguous

LEMMA PutContiguous ==
    ASSUME NEW b \in Buffer, NEW r, Contiguous(b), b.msglist # <<>>,
           Len(r.msglist) = Len(b.msglist), Len(b.msglist) >= 1,
           \A i \in 1..Len(b.msglist) - 1 : r.msglist[i] = b.msglist[i],
           Last(r.msglist).iov = Last(b.msglist).iov,
           Last(r.msglist).len = Last(b.msglist).len + 1,
           r.msgcurr = b.msgcurr, r.iovused = b.iovused + 1
    PROVE  Contiguous(r)
  <1> DEFINE n == Len(b.msglist)
  <1>1. /\ n \in Nat /\ b.msgcurr \in Nat /\ b.iovused \in Nat
        /\ \A i \in 1..n : b.msglist[i].iov \in Nat /\ b.msglist[i].len \in Nat
    BY BufferTypes
  <1>2. Last(r.msglist) = r.msglist[n] /\ Last(b.msglist) = b.msglist[n] /\ n \in 1..n
    BY <1>1 DEF Last
  <1>3. ASSUME NEW i \in b.msgcurr + 1..n - 1 PROVE r.msglist[i].iov + r.msglist[i].len = r.msglist[i + 1].iov
    <2>1. i \in 1..n - 1 /\ (i + 1 = n \/ i + 1 \in 1..n - 1)
      BY <1>1
    <2>2. r.msglist[i] = b.msglist[i] /\ r.msglist[i + 1].iov = b.msglist[i + 1].iov
      BY <1>2, <2>1
    <2>3. QED
      BY <2>2 DEF Contiguous
  <1>4. Last(b.msglist).iov + Last(b.msglist).len = b.iovused
    BY DEF Contiguous
  <1>5. Last(r.msglist).iov + Last(r.msglist).len = r.iovused
    <2>1. Last(b.msglist).iov \in Nat /\ Last(b.msglist).len \in Nat
      BY <1>1, <1>2
    <2>2. QED
      BY <1>1, <1>4, <2>1
  <1>6. QED
    BY <1>3, <1>5 DEF Contiguous

LEMMA SendsContiguous ==
    ASSUME buf \in Buffer, WellFormed(buf), NEW r, NEW cur \in Nat, Contiguous(buf),
           buf.msgcurr <= cur, WellFormed(r), Sends(buf, r, cur)
    PROVE  Contiguous(r)
  <1> DEFINE m == buf.msglist
             n == Len(buf.msglist)
             q == r.msglist
  <1>1. /\ m \in Seq(Header) /\ n \in Nat /\ buf.msgcurr \in Nat
    BY BufferTypes
  <1>2. /\ Len(q) = n /\ r.msgcurr = cur /\ r.iovused = buf.iovused
        /\ \A i \in 1..n : /\ q[i].iov + q[i].len = m[i].iov + m[i].len
                           /\ i # cur + 1 => q[i] = m[i]
    BY DEF Sends
  <1>3. ASSUME NEW i \in cur + 1..n - 1 PROVE q[i].iov + q[i].len = q[i + 1].iov
    <2>1. i \in 1..n /\ i + 1 \in 1..n /\ i + 1 # cur + 1 /\ i \in buf.msgcurr + 1..n - 1
      BY <1>1
    <2>2. m[i].iov + m[i].len = m[i + 1].iov
      BY <2>1 DEF Contiguous
    <2>3. QED
      BY <1>2, <2>1, <2>2
  <1>4. q # <<>> => Last(q).iov + Last(q).len = r.iovused
    <2>1. SUFFICES ASSUME q # <<>> PROVE Last(q).iov + Last(q).len = r.iovused
      OBVIOUS
    <2>2. CASE n = 0
      <3>1. q \in Seq(Header)
        BY BufferTypes DEF WellFormed
      <3>2. QED
        BY <1>2, <2>1, <2>2, <3>1, EmptySeq
    <2>3. CASE n # 0
      <3>1. n \in 1..n /\ m # <<>> /\ Last(m) = m[n] /\ Last(q) = q[n]
        BY <1>1, <1>2, <2>3 DEF Last
      <3>2. m[n].iov + m[n].len = buf.iovused
        BY <3>1 DEF Contiguous
      <3>3. QED
        BY <1>2, <3>1, <3>2
    <2>4. QED
      BY <2>2, <2>3
  <1>5. QED
    BY <1>2, <1>3, <1>4 DEF Contiguous

-----------------------------------------------------------------------------
(* The inductive invariant *)

Base ==
    /\ WellFormed(buf)
    /\ mode \in {"read", "build", "write", "mwrite", "closing"}
    /\ todo \in Seq(Nat \ {0})
    /\ backend \in BOOLEAN /\ reset \in BOOLEAN /\ unscheduled \in BOOLEAN /\ started \in BOOLEAN
    /\ written \in Nat
    /\ todo # <<>> \/ mode = "write" => buf.msglist # <<>>

\* A client adds fragments only to an output of which nothing has been sent.
Phases ==
    /\ mode \in {"read", "mwrite", "closing"} => todo = <<>>
    /\ mode = "build" => todo # <<>> /\ Fresh(buf)
    /\ mode = "write" =>
         \/ /\ todo \in {<<>>, <<1>>} /\ Fresh(buf)
            /\ Len(buf.msglist) = 1 /\ buf.iovused = 0 /\ buf.msgbytes = 0
         \/ todo = <<>> /\ buf.iovused > 0

Building == mode = "build" \/ (mode = "write" /\ buf.iovused = 0)

Fits(b) == \A i \in b.msgcurr + 1..Len(b.msglist) : b.msglist[i].len <= IovMax

\* Only the last header may be empty, and the first only before any byte.
FilledBut1(b) ==
    /\ \A i \in b.msgcurr + 1..Len(b.msglist) - 1 : b.msglist[i].len >= 1
    /\ Len(b.msglist) = 1 /\ b.msglist[1].len = 0 => b.msgbytes = 0

\* Only the header that is being sent may be empty.
FilledAfter(b) == \A i \in b.msgcurr + 2..Len(b.msglist) : b.msglist[i].len >= 1

\* transmit is handed neither an empty nor an oversized header.
Sized ==
    /\ Fits(buf)
    /\ Building => FilledBut1(buf)
    /\ Transmitting => FilledAfter(buf)
    /\ ClosedOnlyByPeer

Client == Phases /\ Contiguous(buf) /\ ("msglist" \notin Faults => Sized)

IInv == Base /\ (~backend => Client)

LEMMA MsgRangesIs == MsgRanges <=> Contiguous(buf)
  BY DEF MsgRanges, Contiguous

LEMMA InitInv == Init => IInv
  <1>1. SUFFICES ASSUME Init PROVE IInv
    OBVIOUS
  <1>2. PICK start \in Starts :
          /\ backend = start[1]
          /\ buf = [msglist |-> <<>>, msgsize |-> MsgInit, msgcurr |-> 0, msgbytes |-> 0,
                    iov |-> [i \in 1..start[2] |-> Junk], iovused |-> 0]
    BY <1>1 DEF Init
  <1>3. start[1] \in BOOLEAN /\ start[2] \in Nat /\ start[2] >= 1
    BY OutputBufferAssumption
  <1> DEFINE v == [i \in 1..start[2] |-> Junk]
  <1>4. v \in Seq(Iovec) /\ Len(v) = start[2]
    <2>1. Junk \in Iovec
      BY DEF Junk, Iovec
    <2>2. v \in [1..start[2] -> Iovec]
      BY <2>1
    <2> HIDE DEF v
    <2>3. QED
      BY <1>3, <2>2
  <1> HIDE DEF v
  <1>5. buf = [msglist |-> <<>>, msgsize |-> MsgInit, msgcurr |-> 0, msgbytes |-> 0, iov |-> v, iovused |-> 0]
    BY <1>2 DEF v
  <1>6. <<>> \in Seq(Header) /\ Len(<<>>) = 0
    OBVIOUS
  <1>7. buf \in Buffer
    BY <1>4, <1>5, <1>6, Bounds DEF Buffer, Header, Iovec
  <1>8. /\ buf.msglist = <<>> /\ buf.msgsize = MsgInit /\ buf.msgcurr = 0 /\ buf.msgbytes = 0 /\ buf.iov = v
        /\ buf.iovused = 0
    BY <1>5
  <1>9. WellFormed(buf)
    BY <1>3, <1>4, <1>6, <1>7, <1>8, Bounds DEF WellFormed, Ordered
  <1>10. /\ mode = "read" /\ todo = <<>> /\ reset = FALSE /\ unscheduled = FALSE /\ started = FALSE /\ written = 0
    BY <1>1 DEF Init
  <1>11. Base
    <2>1. backend \in BOOLEAN
      BY <1>2, <1>3, Zenon
    <2>2. todo \in Seq(Nat \ {0})
      BY <1>10, EmptySeq
    <2>3. QED
      BY <1>9, <1>10, <2>1, <2>2 DEF Base
  <1>12. Client
    BY <1>6, <1>8, <1>10
    DEF Client, Phases, Contiguous, Sized, Fits, Building, Transmitting, ClosedOnlyByPeer
  <1>13. QED
    BY <1>11, <1>12 DEF IInv

-----------------------------------------------------------------------------
(* The steps *)

LEMMA EmptiedSized ==
    ASSUME NEW b \in Buffer, WellFormed(b), NEW r, r = Emptied(b)
    PROVE  Fits(r) /\ FilledBut1(r)
  <1>1. r.msglist = <<[iov |-> 0, len |-> 0]>> /\ Len(r.msglist) = 1 /\ r.msgcurr = 0 /\ r.msgbytes = 0
    BY EmptiedFacts
  <1>2. r.msglist[1].len = 0
    BY <1>1
  <1>3. \A i \in 1..1 : i = 1
    OBVIOUS
  <1>4. QED
    BY <1>1, <1>2, <1>3, Bounds DEF Fits, FilledBut1

\* error_response
LEMMA ErrorResponseKeeps ==
    ASSUME Base, NEW b \in Buffer, WellFormed(b), ErrorResponse(b), UNCHANGED <<backend, reset, unscheduled, started, written>>
    PROVE  Base' /\ Client'
  <1>1. buf' = Emptied(b) /\ mode' = "write" /\ todo' = <<>>
    BY DEF ErrorResponse
  <1>2. /\ WellFormed(buf') /\ Fresh(buf') /\ Contiguous(buf') /\ Fits(buf') /\ FilledBut1(buf')
        /\ Len(buf'.msglist) = 1 /\ buf'.msgbytes = 0 /\ buf'.iovused = 0 /\ buf'.msglist # <<>>
    BY <1>1, EmptiedFacts, EmptiedSized DEF Fresh
  <1>3. Base'
    <2>1. todo' \in Seq(Nat \ {0})
      BY <1>1, EmptySeq
    <2>2. QED
      BY <1>1, <1>2, <2>1 DEF Base
  <1>4. Phases'
    BY <1>1, <1>2 DEF Phases
  <1>5. Sized'
    BY <1>1, <1>2 DEF Sized, Transmitting, ClosedOnlyByPeer
  <1>6. QED
    BY <1>2, <1>3, <1>4, <1>5 DEF Client

LEMMA ProcessCommandStep == IInv /\ ProcessCommand => IInv'
  <1>1. SUFFICES ASSUME IInv, ProcessCommand PROVE IInv'
    OBVIOUS
  <1>2. buf' = Emptied(buf) /\ UNCHANGED <<backend, reset, unscheduled, written, started>> /\ mode = "read" /\ todo = <<>>
    BY <1>1 DEF ProcessCommand, MayBegin
  <1>3. buf \in Buffer /\ WellFormed(buf) /\ Base
    BY <1>1 DEF IInv, Base, WellFormed
  <1>4. /\ WellFormed(buf') /\ Fresh(buf') /\ Contiguous(buf') /\ Fits(buf') /\ FilledBut1(buf')
        /\ buf'.msglist # <<>>
    BY <1>2, <1>3, EmptiedFacts, EmptiedSized DEF Fresh
  <1>5. CASE backend
    <2>1. mode' = mode /\ todo' = todo
      BY <1>1, <1>5 DEF ProcessCommand
    <2>2. QED
      BY <1>2, <1>3, <1>4, <1>5, <2>1 DEF IInv, Base
  <1>6. CASE ~backend
    <2>1. mode' = "build" /\ todo' \in Replies
      BY <1>1, <1>6 DEF ProcessCommand
    <2>2. todo' \in Seq(Nat \ {0}) /\ todo' # <<>>
      BY <2>1, OutputBufferAssumption
    <2>3. Base'
      BY <1>2, <1>3, <1>4, <2>1, <2>2 DEF Base
    <2>4. Client'
      BY <1>4, <2>1, <2>2 DEF Client, Phases, Sized, Transmitting, ClosedOnlyByPeer
    <2>5. QED
      BY <2>3, <2>4 DEF IInv
  <1>7. QED
    BY <1>5, <1>6

LEMMA AnswerErrorStep == IInv /\ AnswerError => IInv'
  <1>1. SUFFICES ASSUME IInv, AnswerError PROVE IInv'
    OBVIOUS
  <1>2. ErrorResponse(buf) /\ UNCHANGED <<backend, reset, unscheduled, started, written>>
    BY <1>1 DEF AnswerError
  <1>3. buf \in Buffer /\ WellFormed(buf) /\ Base
    BY <1>1 DEF IInv, Base, WellFormed
  <1>4. QED
    BY <1>2, <1>3, ErrorResponseKeeps DEF IInv

LEMMA BuildErrorStep == IInv /\ BuildError => IInv'
  <1>1. SUFFICES ASSUME IInv, BuildError PROVE IInv'
    OBVIOUS
  <1>2. /\ mode = "write" /\ todo = <<>> /\ buf.iovused = 0 /\ todo' = <<1>>
        /\ UNCHANGED <<backend, buf, mode, reset, unscheduled, started, written>>
    BY <1>1 DEF BuildError
  <1>3. Base
    BY <1>1 DEF IInv
  <1>4. todo' \in Seq(Nat \ {0}) /\ todo' # <<>>
    BY <1>2
  <1>5. Base'
    BY <1>2, <1>3, <1>4 DEF Base
  <1>6. Client => Client'
    BY <1>2, <1>4 DEF Client, Phases, Sized, Building, Transmitting, ClosedOnlyByPeer
  <1>7. QED
    BY <1>1, <1>2, <1>5, <1>6 DEF IInv

LEMMA MemcacheGetStep == IInv /\ MemcacheGet => IInv'
  <1>1. SUFFICES ASSUME IInv, MemcacheGet PROVE IInv'
    OBVIOUS
  <1>2. backend /\ UNCHANGED <<backend, reset, unscheduled, written, started>>
    BY <1>1 DEF MemcacheGet
  <1>3. buf \in Buffer /\ WellFormed(buf) /\ Base
    BY <1>1 DEF IInv, Base, WellFormed
  <1>4. PICK b \in ConnAddMsghdr(buf) :
          IF b = buf THEN ErrorResponse(buf) ELSE buf' = b /\ todo' \in Requests /\ UNCHANGED mode
    BY <1>1 DEF MemcacheGet
  <1>5. CASE b = buf
    <2>1. ErrorResponse(buf)
      BY <1>4, <1>5
    <2>2. QED
      BY <1>2, <1>3, <2>1, ErrorResponseKeeps DEF IInv
  <1>6. CASE b # buf
    <2>1. b = AddMsghdr(buf) /\ buf' = b /\ todo' \in Requests /\ UNCHANGED mode
      BY <1>4, <1>6 DEF ConnAddMsghdr
    <2>2. WellFormed(buf') /\ Len(buf'.msglist) = Len(buf.msglist) + 1
      BY <1>3, <2>1, AddMsghdrFacts
    <2>3. buf'.msglist # <<>>
      <3>1. Len(buf.msglist) \in Nat
        BY <1>3, BufferTypes
      <3>2. Len(buf'.msglist) # 0
        BY <2>2, <3>1
      <3>3. QED
        BY <3>2, EmptySeq
    <2>4. todo' \in Seq(Nat \ {0})
      BY <2>1, OutputBufferAssumption
    <2>5. QED
      BY <1>2, <1>3, <2>1, <2>2, <2>3, <2>4 DEF IInv, Base
  <1>7. QED
    BY <1>5, <1>6

LEMMA PeerResetStep == IInv /\ PeerReset => IInv'
  <1>1. SUFFICES ASSUME IInv, PeerReset PROVE IInv'
    OBVIOUS
  <1>2. reset' = TRUE /\ UNCHANGED <<backend, buf, mode, todo, unscheduled, written, started>>
    BY <1>1 DEF PeerReset
  <1>3. Base'
    BY <1>1, <1>2 DEF IInv, Base
  <1>4. Client => Client'
    BY <1>2 DEF Client, Phases, Sized, Building, Transmitting, ClosedOnlyByPeer
  <1>5. QED
    BY <1>1, <1>2, <1>3, <1>4 DEF IInv

LEMMA StutterStep == IInv /\ UNCHANGED vars => IInv'
  <1>1. SUFFICES ASSUME IInv, UNCHANGED vars PROVE IInv'
    OBVIOUS
  <1>2. UNCHANGED <<backend, buf, mode, todo, reset, unscheduled, written, started>>
    BY <1>1 DEF vars
  <1>3. Base'
    BY <1>1, <1>2 DEF IInv, Base
  <1>4. Client => Client'
    BY <1>2 DEF Client, Phases, Sized, Building, Transmitting, ClosedOnlyByPeer
  <1>5. QED
    BY <1>1, <1>2, <1>3, <1>4 DEF IInv

LEMMA SendsSized ==
    ASSUME buf \in Buffer, WellFormed(buf), NEW r, WellFormed(r), NEW cur \in Nat, buf.msgcurr <= cur,
           Sends(buf, r, cur)
    PROVE  (Fits(buf) => Fits(r)) /\ (FilledAfter(buf) => FilledAfter(r))
  <1> DEFINE m == buf.msglist
             n == Len(buf.msglist)
             q == r.msglist
  <1>1. /\ n \in Nat /\ buf.msgcurr \in Nat
        /\ \A i \in 1..n : m[i].len \in Nat
    BY BufferTypes
  <1>2. /\ Len(q) = n /\ r.msgcurr = cur
        /\ \A i \in 1..n : q[i].len <= m[i].len /\ (i # cur + 1 => q[i] = m[i])
    BY DEF Sends
  <1>3. \A i \in 1..n : q[i].len \in Nat
    <2>1. r \in Buffer
      BY DEF WellFormed
    <2>2. QED
      BY <1>2, <2>1, BufferTypes
  <1>4. ASSUME Fits(buf), NEW i \in cur + 1..n PROVE q[i].len <= IovMax
    <2>1. i \in 1..n /\ i \in buf.msgcurr + 1..n
      BY <1>1
    <2>2. m[i].len <= IovMax
      BY <1>4, <2>1 DEF Fits
    <2>3. q[i].len <= m[i].len /\ m[i].len \in Nat /\ q[i].len \in Nat
      BY <1>1, <1>2, <1>3, <2>1
    <2>4. QED
      BY <2>2, <2>3, Bounds
  <1>5. ASSUME FilledAfter(buf), NEW i \in cur + 2..n PROVE q[i].len >= 1
    <2>1. i \in 1..n /\ i \in buf.msgcurr + 2..n /\ i # cur + 1
      BY <1>1
    <2>2. m[i].len >= 1 /\ q[i] = m[i]
      BY <1>2, <1>5, <2>1 DEF FilledAfter
    <2>3. QED
      BY <2>2
  <1>6. QED
    BY <1>2, <1>4, <1>5 DEF Fits, FilledAfter

\* What a step of transmit, or its end, keeps.
LEMMA SendsKeeps ==
    ASSUME IInv, Transmitting, WellFormed(buf'), Sends(buf, buf', Current),
           mode' \in {mode, "read", "closing"}, UNCHANGED <<backend, todo, reset, written>>,
           started' \in BOOLEAN, unscheduled' \in BOOLEAN,
           ~backend /\ "msglist" \notin Faults /\ mode' = "closing" => reset \/ unscheduled'
    PROVE  IInv'
  <1>1. Base /\ buf \in Buffer /\ WellFormed(buf)
    BY DEF IInv, Base, WellFormed
  <1>2. Current \in Nat /\ buf.msgcurr <= Current
    BY <1>1, CurrentFacts
  <1>3. todo = <<>> /\ mode \in {"mwrite", "write"} /\ (mode = "write" => buf.iovused > 0)
    BY DEF Transmitting
  <1>4. Len(buf'.msglist) = Len(buf.msglist) /\ buf'.iovused = buf.iovused
    BY DEF Sends
  <1>5. mode' = "write" => buf'.msglist # <<>>
    <2>1. SUFFICES ASSUME mode' = "write" PROVE buf'.msglist # <<>>
      OBVIOUS
    <2>2. mode = "write"
      BY <2>1
    <2>3. buf.msglist # <<>> /\ buf.msglist \in Seq(Header)
      BY <1>1, <2>2, BufferTypes DEF Base
    <2>4. Len(buf.msglist) # 0
      BY <2>3, EmptySeq
    <2>5. QED
      BY <1>4, <2>4, EmptySeq
  <1>6. Base'
    BY <1>1, <1>3, <1>5 DEF Base
  <1>7. ASSUME ~backend PROVE Client'
    <2>1. Client
      BY <1>7 DEF IInv
    <2>2. Contiguous(buf')
      BY <1>1, <1>2, <2>1, SendsContiguous DEF Client
    <2>3. Phases'
      BY <1>3, <1>4 DEF Phases
    <2>4. ASSUME "msglist" \notin Faults PROVE Sized'
      <3>1. Sized
        BY <2>1, <2>4 DEF Client
      <3>2. Fits(buf') /\ FilledAfter(buf')
        BY <1>1, <1>2, <3>1, SendsSized DEF Sized
      <3>3. ~Building'
        <4>1. mode' # "build" /\ (mode' = "write" => mode = "write")
          BY <1>3
        <4>2. mode' = "write" => buf'.iovused > 0
          BY <1>3, <1>4, <4>1
        <4>3. buf'.iovused > 0 => buf'.iovused # 0
          OBVIOUS
        <4>4. QED
          BY <4>1, <4>2, <4>3 DEF Building
      <3>4. ClosedOnlyByPeer'
        BY <1>7, <2>4 DEF ClosedOnlyByPeer
      <3>5. QED
        BY <3>2, <3>3, <3>4 DEF Sized
    <2>5. QED
      BY <2>2, <2>3, <2>4 DEF Client
  <1>8. QED
    BY <1>6, <1>7 DEF IInv

LEMMA TransmitCompleteStep == IInv /\ TransmitComplete => IInv'
  <1>1. SUFFICES ASSUME IInv, TransmitComplete PROVE IInv'
    OBVIOUS
  <1>2. /\ Transmitting /\ buf' = [buf EXCEPT !.msgcurr = Current] /\ mode' = "read"
        /\ UNCHANGED <<backend, todo, reset, unscheduled, written, started>>
    BY <1>1 DEF TransmitComplete
  <1>3. buf \in Buffer /\ WellFormed(buf) /\ started' \in BOOLEAN /\ unscheduled' \in BOOLEAN
    BY <1>1, <1>2 DEF IInv, Base, WellFormed
  <1>4. WellFormed(buf') /\ Sends(buf, buf', Current)
    BY <1>2, <1>3, MoveFacts
  <1>5. QED
    BY <1>1, <1>2, <1>3, <1>4, SendsKeeps

\* Nothing but a reset makes sendmsg fail: the header it is handed is neither
\* empty nor too long.
LEMMA HeaderSendable ==
    ASSUME IInv, Transmitting, ~backend, "msglist" \notin Faults, Current < Len(buf.msglist)
    PROVE  buf.msglist[Current + 1].len >= 1 /\ buf.msglist[Current + 1].len <= IovMax
  <1> DEFINE n == Len(buf.msglist)
             c == buf.msgcurr
  <1>1. buf \in Buffer /\ WellFormed(buf) /\ Sized
    BY DEF IInv, Base, WellFormed, Client
  <1>2. /\ n \in Nat /\ c \in Nat
        /\ \A i \in 1..n : buf.msglist[i].len \in Nat
    BY <1>1, BufferTypes
  <1>3. Fits(buf) /\ FilledAfter(buf)
    BY <1>1 DEF Sized
  <1>4. /\ Current \in Nat /\ c <= Current
        /\ \/ Current = c /\ (c < n => buf.msglist[c + 1].len # 0)
           \/ Current = c + 1
    BY <1>1, CurrentFacts
  <1>5. Current + 1 \in c + 1..n /\ Current + 1 \in 1..n
    BY <1>2, <1>4
  <1>6. buf.msglist[Current + 1].len <= IovMax
    BY <1>3, <1>5 DEF Fits
  <1>7. CASE Current = c /\ buf.msglist[c + 1].len # 0
    BY <1>2, <1>5, <1>6, <1>7
  <1>8. CASE Current = c + 1
    <2>1. Current + 1 \in c + 2..n
      BY <1>2, <1>5, <1>8
    <2>2. QED
      BY <1>3, <1>6, <2>1 DEF FilledAfter
  <1>9. QED
    BY <1>4, <1>7, <1>8

LEMMA TransmitStep == IInv /\ Transmit => IInv'
  <1>1. SUFFICES ASSUME IInv, Transmit PROVE IInv'
    OBVIOUS
  <1> DEFINE m == buf.msglist[Current + 1]
  <1>2. Transmitting /\ Current < Len(buf.msglist) /\ UNCHANGED <<backend, todo, reset, written>>
    BY <1>1 DEF Transmit
  <1>3. buf \in Buffer /\ WellFormed(buf) /\ started \in BOOLEAN /\ unscheduled \in BOOLEAN /\ Current \in Nat
    BY <1>1, CurrentFacts DEF IInv, Base, WellFormed
  <1>4. ASSUME NEW k \in 0..m.len,
               NEW r \in 0..(IF k < m.len THEN buf.iov[m.iov + k + 1].len - 1 ELSE 0),
               buf' = Advance(Current, k, r), started' = (Pending' # <<>>), mode' = mode,
               unscheduled' = unscheduled
        PROVE  IInv'
    <2>1. /\ Len(buf.msglist) \in Nat /\ buf.iovused \in Nat /\ Len(buf.iov) \in Nat
          /\ \A i \in 1..Len(buf.msglist) : buf.msglist[i].iov \in Nat /\ buf.msglist[i].len \in Nat
          /\ buf.iov \in Seq(Iovec)
      BY <1>3, BufferTypes
    <2>2. Current + 1 \in 1..Len(buf.msglist)
      BY <1>2, <1>3, <2>1
    <2>3. m.iov \in Nat /\ m.len \in Nat /\ m.iov + m.len <= buf.iovused /\ buf.iovused <= Len(buf.iov)
      BY <1>3, <2>1, <2>2 DEF WellFormed, Ordered
    <2> HIDE DEF m
    <2>4. k \in Nat /\ k <= m.len
      BY <2>3
    <2>5. r \in Nat /\ (r = 0 \/ (k < m.len /\ r < buf.iov[m.iov + k + 1].len))
      <3>1. CASE k < m.len
        <4>1. m.iov + k + 1 \in 1..Len(buf.iov)
          BY <2>1, <2>3, <2>4, <3>1, WithinArray
        <4>2. buf.iov[m.iov + k + 1] \in Iovec
          BY <2>1, <4>1, ElementOfSeq
        <4>3. buf.iov[m.iov + k + 1].len \in Nat
          BY <4>2 DEF Iovec
        <4>4. r \in 0..buf.iov[m.iov + k + 1].len - 1
          BY <3>1
        <4>5. QED
          BY <3>1, <4>3, <4>4
      <3>2. CASE ~(k < m.len)
        BY <3>2
      <3>3. QED
        BY <3>1, <3>2
    <2>6. m = buf.msglist[Current + 1]
      BY DEF m
    <2>7. WellFormed(buf') /\ Sends(buf, buf', Current)
      BY <1>2, <1>3, <1>4, <2>4, <2>5, <2>6, AdvanceFacts
    <2>8. started' \in BOOLEAN
      BY <1>4
    <2>9. mode' # "closing"
      BY <1>2, <1>4 DEF Transmitting
    <2>10. QED
      BY <1>1, <1>2, <1>3, <1>4, <2>7, <2>8, <2>9, SendsKeeps
  <1>5. ASSUME buf' = [buf EXCEPT !.msgcurr = Current], started' = started,
               \/ mode' = mode /\ unscheduled' = unscheduled
               \/ mode' = "closing" /\ unscheduled' = TRUE
        PROVE  IInv'
    <2>1. WellFormed(buf') /\ Sends(buf, buf', Current)
      BY <1>3, <1>5, MoveFacts
    <2>2. /\ mode' \in {mode, "closing"} /\ unscheduled' \in BOOLEAN
          /\ mode' = "closing" => unscheduled'
      BY <1>2, <1>3, <1>5 DEF Transmitting
    <2>3. QED
      BY <1>1, <1>2, <1>3, <1>5, <2>1, <2>2, SendsKeeps
  <1>6. ASSUME buf' = [buf EXCEPT !.msgcurr = Current], mode' = "closing", started' = started,
               unscheduled' = unscheduled, reset \/ m.len > IovMax \/ m.len = 0
        PROVE  IInv'
    <2>1. WellFormed(buf') /\ Sends(buf, buf', Current)
      BY <1>3, <1>6, MoveFacts
    <2>2. ASSUME ~backend, "msglist" \notin Faults PROVE reset
      <3>1. m.len >= 1 /\ m.len <= IovMax
        BY <1>1, <1>2, <2>2, HeaderSendable
      <3>2. m.len \in Nat
        <4>1. Current + 1 \in 1..Len(buf.msglist)
          BY <1>2, <1>3, BufferTypes
        <4>2. QED
          BY <1>3, <4>1, BufferTypes
      <3> HIDE DEF m
      <3>3. ~(m.len > IovMax) /\ m.len # 0
        BY <3>1, <3>2, Bounds
      <3>4. QED
        BY <1>6, <3>3
    <2>3. QED
      BY <1>1, <1>2, <1>3, <1>6, <2>1, <2>2, SendsKeeps
  <1>7. QED
    BY <1>1, <1>4, <1>5, <1>6 DEF Transmit

\* conn_add_iov's choice of a header: the last one, or a new one when that is full.
LEMMA HeaderChosen ==
    ASSUME buf \in Buffer, WellFormed(buf), buf.msglist # <<>>,
           NEW b, b \in IF HeaderFull(buf, Len(buf.msglist) = 1) THEN ConnAddMsghdr(buf) ELSE {buf}
    PROVE  /\ b \in Buffer /\ WellFormed(b) /\ b.msglist # <<>>
           /\ b.msgcurr = buf.msgcurr /\ b.iovused = buf.iovused
           /\ Len(buf.msglist) = 1 => b.msgbytes <= MaxPayload
           /\ Len(b.msglist) = 1 => Len(buf.msglist) = 1
           /\ Contiguous(buf) => Contiguous(b)
           /\ Fresh(buf) => Fresh(b)
           /\ Fresh(buf) /\ FilledBut1(buf) => FilledBut1(b)
           /\ Fresh(buf) /\ Fits(buf) /\ "msglist" \notin Faults => Fits(b) /\ Last(b.msglist).len < IovMax
  <1> DEFINE m == buf.msglist
             n == Len(buf.msglist)
  <1>1. /\ m \in Seq(Header) /\ n \in Nat /\ buf.msgcurr \in Nat /\ buf.msgbytes \in Nat
        /\ \A i \in 1..n : m[i].iov \in Nat /\ m[i].len \in Nat
    BY BufferTypes
  <1>2. n >= 1 /\ n \in 1..n /\ 1 \in 1..n
    BY <1>1, EmptySeq
  <1>3. Last(m) = m[n]
    BY DEF Last
  <1>4. CASE b = buf
    <2>1. n = 1 => b.msgbytes <= MaxPayload
      BY <1>4 DEF WellFormed
    <2>2. ASSUME Fresh(buf), Fits(buf), "msglist" \notin Faults PROVE Last(b.msglist).len < IovMax
      <3>1. ~HeaderFull(buf, n = 1)
        <4>1. SUFFICES ASSUME HeaderFull(buf, n = 1) PROVE FALSE
          OBVIOUS
        <4>2. b = AddMsghdr(buf)
          BY <2>2, <4>1 DEF ConnAddMsghdr
        <4>3. Len(b.msglist) = n + 1
          BY <4>2, AddMsghdrFacts
        <4>4. QED
          BY <1>1, <1>4, <4>3
      <3>2. Last(m).len # IovMax
        BY <3>1 DEF HeaderFull
      <3>3. m[n].len <= IovMax
        <4>1. n \in buf.msgcurr + 1..n
          BY <1>1, <1>2, <2>2 DEF Fresh
        <4>2. QED
          BY <2>2, <4>1 DEF Fits
      <3>4. QED
        BY <1>1, <1>2, <1>3, <1>4, <3>2, <3>3, Bounds
    <2>3. QED
      BY <1>4, <2>1, <2>2
  <1>5. CASE b # buf
    <2>1. HeaderFull(buf, n = 1) /\ b = AddMsghdr(buf)
      BY <1>5 DEF ConnAddMsghdr
    <2>2. /\ WellFormed(b) /\ b \in Buffer
          /\ Len(b.msglist) = n + 1 /\ Last(b.msglist) = [iov |-> buf.iovused, len |-> 0]
          /\ \A i \in 1..n : b.msglist[i] = m[i]
          /\ b.msgbytes = 0 /\ b.iovused = buf.iovused /\ b.msgcurr = buf.msgcurr
      BY <2>1, AddMsghdrFacts DEF WellFormed
    <2>3. b.msglist # <<>> /\ Len(b.msglist) # 1
      BY <1>1, <1>2, <2>2
    <2>4. Contiguous(buf) => Contiguous(b)
      BY <2>1, AddMsghdrContiguous
    <2>5. Fresh(buf) => Fresh(b)
      BY <1>2, <2>2, <2>3 DEF Fresh
    <2>6. b.msglist[n + 1].len = 0 /\ Last(b.msglist).len = 0
      BY <2>2 DEF Last
    <2>7. ASSUME Fresh(buf), FilledBut1(buf) PROVE FilledBut1(b)
      <3>1. buf.msgcurr = 0
        BY <2>7 DEF Fresh
      <3>2. m[n].len >= 1
        <4>1. CASE m[n].len = IovMax
          BY <4>1, Bounds
        <4>2. CASE n = 1 /\ buf.msgbytes >= MaxPayload
          <5>1. buf.msgbytes # 0
            BY <1>1, <4>2, Bounds
          <5>2. m[1].len # 0
            BY <2>7, <4>2, <5>1 DEF FilledBut1
          <5>3. QED
            BY <1>1, <1>2, <4>2, <5>2
        <4>3. QED
          BY <1>3, <2>1, <4>1, <4>2 DEF HeaderFull
      <3>3. ASSUME NEW i \in 1..n PROVE b.msglist[i].len >= 1
        <4>1. b.msglist[i] = m[i]
          BY <2>2
        <4>2. CASE i = n
          BY <3>2, <4>1, <4>2
        <4>3. CASE i # n
          <5>1. i \in buf.msgcurr + 1..n - 1
            BY <1>1, <3>1, <4>3
          <5>2. QED
            BY <2>7, <4>1, <5>1 DEF FilledBut1
        <4>4. QED
          BY <4>2, <4>3
      <3>4. b.msgcurr + 1..Len(b.msglist) - 1 = 1..n
        BY <1>1, <2>2, <3>1
      <3>5. QED
        BY <2>3, <3>3, <3>4 DEF FilledBut1
    <2>8. ASSUME Fresh(buf), Fits(buf) PROVE Fits(b)
      <3>1. buf.msgcurr = 0
        BY <2>8 DEF Fresh
      <3>2. ASSUME NEW i \in 1..n + 1 PROVE b.msglist[i].len <= IovMax
        <4>1. CASE i = n + 1
          BY <2>6, <4>1, Bounds
        <4>2. CASE i # n + 1
          <5>1. i \in 1..n /\ i \in buf.msgcurr + 1..n
            BY <1>1, <3>1, <4>2
          <5>2. QED
            BY <2>2, <2>8, <5>1 DEF Fits
        <4>3. QED
          BY <4>1, <4>2
      <3>3. b.msgcurr + 1..Len(b.msglist) = 1..n + 1
        BY <1>1, <2>2, <3>1
      <3>4. QED
        BY <3>2, <3>3 DEF Fits
    <2>9. Last(b.msglist).len < IovMax
      BY <2>6, Bounds
    <2>10. b.msgbytes <= MaxPayload
      BY <2>2, Bounds
    <2>11. QED
      BY <2>2, <2>3, <2>4, <2>5, <2>7, <2>8, <2>9, <2>10
  <1>6. QED
    BY <1>4, <1>5

\* What a new entry does to the sizes of an output of which nothing has been sent.
LEMMA PutSized ==
    ASSUME NEW b \in Buffer, NEW r, Fresh(b), b.msglist # <<>>,
           Len(r.msglist) = Len(b.msglist), Len(b.msglist) >= 1,
           \A i \in 1..Len(b.msglist) - 1 : r.msglist[i] = b.msglist[i],
           Last(r.msglist).iov = Last(b.msglist).iov,
           Last(r.msglist).len = Last(b.msglist).len + 1,
           r.msgcurr = b.msgcurr, r.msglist # <<>>
    PROVE  /\ Fresh(r)
           /\ Fits(b) /\ Last(b.msglist).len < IovMax /\ FilledBut1(b)
                => Fits(r) /\ FilledBut1(r) /\ FilledAfter(r)
  <1> DEFINE n == Len(b.msglist)
             m == b.msglist
             q == r.msglist
  <1>1. n \in Nat /\ \A i \in 1..n : m[i].iov \in Nat /\ m[i].len \in Nat
    BY BufferTypes
  <1>2. n \in 1..n /\ Last(m) = m[n] /\ Last(q) = q[n] /\ b.msgcurr = 0 /\ r.msgcurr = 0
    BY <1>1 DEF Last, Fresh
  <1>3. q[n].len = m[n].len + 1 /\ q[n].len >= 1 /\ q[n].len # 0
    BY <1>1, <1>2
  <1>4. Fresh(r)
    <2>1. CASE n = 1
      BY <1>2, <2>1 DEF Fresh
    <2>2. CASE n # 1
      <3>1. n >= 1 /\ n \in Nat
        BY <1>1
      <3>2. 1 \in 1..n - 1
        BY <2>2, <3>1, OneBelow
      <3>3. QED
        BY <1>2, <3>2 DEF Fresh
    <2>3. QED
      BY <2>1, <2>2
  <1>5. ASSUME Fits(b), Last(m).len < IovMax, FilledBut1(b)
        PROVE  Fits(r) /\ FilledBut1(r) /\ FilledAfter(r)
    <2>1. ASSUME NEW i \in 1..n PROVE q[i].len >= 1 /\ q[i].len <= IovMax
      <3>1. CASE i = n
        BY <1>1, <1>2, <1>3, <1>5, <3>1, Bounds
      <3>2. CASE i # n
        <4>1. i \in 1..n - 1 /\ i \in b.msgcurr + 1..n - 1 /\ i \in b.msgcurr + 1..n
          BY <1>1, <1>2, <3>2
        <4>2. q[i] = m[i] /\ m[i].len >= 1 /\ m[i].len <= IovMax
          BY <1>5, <4>1 DEF FilledBut1, Fits
        <4>3. QED
          BY <4>2
      <3>3. QED
        BY <3>1, <3>2
    <2>2. Fits(r)
      BY <1>1, <1>2, <2>1 DEF Fits
    <2>3. FilledAfter(r)
      BY <1>1, <1>2, <2>1 DEF FilledAfter
    <2>4. FilledBut1(r)
      BY <1>1, <1>2, <1>3, <2>1 DEF FilledBut1
    <2>5. QED
      BY <2>2, <2>3, <2>4
  <1>6. QED
    BY <1>4, <1>5

LEMMA ChunkFacts ==
    ASSUME NEW b, b.msgbytes \in Nat, NEW len \in Nat, NEW limit \in BOOLEAN,
           limit => b.msgbytes <= MaxPayload, NEW n, n = Chunk(b, len, limit)
    PROVE  n \in Nat /\ n <= len /\ (limit => b.msgbytes + n <= MaxPayload)
  BY Bounds DEF Chunk

\* The entry is added: conn_ensure_iov_space has found or made room for it.
LEMMA AddsEntry ==
    ASSUME IInv, todo # <<>>, NEW b,
           b \in IF HeaderFull(buf, Len(buf.msglist) = 1) THEN ConnAddMsghdr(buf) ELSE {buf},
           NEW n, n = Chunk(b, Head(todo), Len(buf.msglist) = 1),
           buf' = Put(EnsureIovSpace(b), n), written' = written + n,
           todo' = IF n < Head(todo) THEN <<Head(todo) - n>> \o Tail(todo) ELSE Tail(todo),
           mode' = Written(todo'), UNCHANGED <<backend, reset, unscheduled, started>>
    PROVE  IInv'
  <1>1. Base /\ buf \in Buffer /\ WellFormed(buf) /\ buf.msglist # <<>> /\ written \in Nat
    BY DEF IInv, Base, WellFormed
  <1> DEFINE l == Len(buf.msglist) = 1
             r == EnsureIovSpace(b)
  <1>2. /\ b \in Buffer /\ WellFormed(b) /\ b.msglist # <<>>
        /\ b.msgcurr = buf.msgcurr /\ b.iovused = buf.iovused
        /\ l => b.msgbytes <= MaxPayload
        /\ Len(b.msglist) = 1 => l
        /\ Contiguous(buf) => Contiguous(b)
        /\ Fresh(buf) => Fresh(b)
        /\ Fresh(buf) /\ FilledBut1(buf) => FilledBut1(b)
        /\ Fresh(buf) /\ Fits(buf) /\ "msglist" \notin Faults => Fits(b) /\ Last(b.msglist).len < IovMax
    BY <1>1, HeaderChosen
  <1>3. /\ todo \in Seq(Nat \ {0}) /\ Head(todo) \in Nat \ {0} /\ Tail(todo) \in Seq(Nat \ {0})
    BY <1>1, HeadTailProperties DEF Base
  <1>4. n \in Nat /\ n <= Head(todo) /\ (l => b.msgbytes + n <= MaxPayload)
    <2>1. b.msgbytes \in Nat /\ l \in BOOLEAN /\ Head(todo) \in Nat
      BY <1>2, <1>3, BufferTypes
    <2>2. QED
      BY <1>2, <2>1, ChunkFacts
  <1>5. /\ WellFormed(r) /\ r \in Buffer
        /\ r.iovused = b.iovused /\ r.iovused < Len(r.iov)
        /\ r.msgcurr = b.msgcurr /\ r.msgbytes = b.msgbytes
        /\ Len(r.msglist) = Len(b.msglist)
        /\ Fresh(b) /\ Contiguous(b) => r.msglist = b.msglist
    BY <1>2, EnsureIovSpaceFacts DEF WellFormed
  <1> HIDE DEF r
  <1>6. r.msglist # <<>>
    <2>1. Len(b.msglist) # 0
      BY <1>2, BufferTypes, EmptySeq
    <2>2. QED
      BY <1>5, <2>1, EmptySeq
  <1>7. Len(r.msglist) = 1 => r.msgbytes + n <= MaxPayload
    BY <1>2, <1>4, <1>5
  <1>8. buf' = Put(r, n)
    BY DEF r
  <1>9. /\ WellFormed(buf')
        /\ Len(buf'.msglist) = Len(r.msglist) /\ Len(r.msglist) >= 1
        /\ \A i \in 1..Len(r.msglist) - 1 : buf'.msglist[i] = r.msglist[i]
        /\ Last(buf'.msglist).iov = Last(r.msglist).iov
        /\ Last(buf'.msglist).len = Last(r.msglist).len + 1
        /\ buf'.msgcurr = r.msgcurr /\ buf'.iovused = r.iovused + 1
    BY <1>1, <1>4, <1>5, <1>6, <1>7, <1>8, PutFacts
  <1>10. buf'.msglist # <<>>
    BY <1>9, EmptySeq
  <1>11. todo' \in Seq(Nat \ {0})
    <2>1. CASE n < Head(todo)
      <3>1. Head(todo) - n \in Nat \ {0}
        BY <1>3, <1>4, <2>1
      <3>2. <<Head(todo) - n>> \in Seq(Nat \ {0})
        BY <3>1
      <3>3. QED
        BY <1>3, <2>1, <3>2, ConcatProperties
    <2>2. CASE ~(n < Head(todo))
      BY <1>3, <2>2
    <2>3. QED
      BY <2>1, <2>2
  <1>12. mode' = IF todo' = <<>> /\ mode # "write" THEN "mwrite" ELSE mode
    BY DEF Written
  <1>13. Base'
    <2>1. mode' \in {"read", "build", "write", "mwrite", "closing"} /\ written' \in Nat
      BY <1>1, <1>4, <1>12 DEF Base
    <2>2. QED
      BY <1>1, <1>9, <1>10, <1>11, <2>1 DEF Base
  <1>14. ASSUME ~backend PROVE Client'
    <2>1. Client /\ mode \in {"build", "write"}
      BY <1>1, <1>14 DEF IInv, Client, Phases, Base
    <2>2. Fresh(buf) /\ Contiguous(buf)
      BY <2>1 DEF Client, Phases
    <2>3. /\ Contiguous(b) /\ Fresh(b) /\ r.msglist = b.msglist
          /\ Contiguous(r) /\ Fresh(r)
      BY <1>2, <1>5, <2>2 DEF Contiguous, Fresh
    <2>4. Contiguous(buf')
      BY <1>5, <1>6, <1>9, <2>3, PutContiguous
    <2>5. /\ Fresh(buf')
          /\ Fits(r) /\ Last(r.msglist).len < IovMax /\ FilledBut1(r)
                => Fits(buf') /\ FilledBut1(buf') /\ FilledAfter(buf')
      BY <1>5, <1>6, <1>9, <1>10, <2>3, PutSized
    <2>6. buf'.iovused > 0
      BY <1>5, <1>9, BufferTypes
    <2>7. mode = "write" => todo' = <<>>
      <3>1. SUFFICES ASSUME mode = "write" PROVE todo' = <<>>
        OBVIOUS
      <3>2. todo = <<1>> /\ Len(buf.msglist) = 1 /\ buf.iovused = 0 /\ buf.msgbytes = 0
        BY <2>1, <3>1 DEF Client, Phases
      <3>3. Last(buf.msglist).len = 0
        <4>1. buf.msglist[1].iov \in Nat /\ buf.msglist[1].len \in Nat
              /\ buf.msglist[1].iov + buf.msglist[1].len <= 0
          BY <1>1, <3>2, BufferTypes DEF WellFormed, Ordered
        <4>2. QED
          BY <3>2, <4>1 DEF Last
      <3>4. ~HeaderFull(buf, l)
        BY <3>2, <3>3, Bounds DEF HeaderFull
      <3>5. b = buf
        BY <3>4
      <3>6. Head(todo) = 1 /\ Tail(todo) = <<>>
        BY <3>2
      <3>7. n = 1
        BY <3>2, <3>5, <3>6, Bounds DEF Chunk
      <3>8. QED
        BY <3>6, <3>7
    <2>8. Phases'
      BY <1>12, <2>1, <2>5, <2>6, <2>7 DEF Phases
    <2>9. ASSUME "msglist" \notin Faults PROVE Sized'
      <3>1. Sized
        BY <2>1, <2>9 DEF Client
      <3>2. Building
        BY <1>1, <2>1 DEF Building, Client, Phases
      <3>3. Fits(b) /\ Last(b.msglist).len < IovMax /\ FilledBut1(b)
        BY <1>2, <2>2, <2>9, <3>1, <3>2 DEF Sized
      <3>4. Last(r.msglist).len < IovMax
        BY <2>3, <3>3
      <3>5. Fits(r) /\ FilledBut1(r)
        BY <1>5, <2>3, <3>3 DEF Fits, FilledBut1
      <3>6. Fits(buf') /\ FilledBut1(buf') /\ FilledAfter(buf')
        BY <2>5, <3>4, <3>5
      <3>7. ClosedOnlyByPeer'
        BY <1>12, <2>1 DEF ClosedOnlyByPeer
      <3>8. QED
        BY <3>6, <3>7 DEF Sized
    <2>10. QED
      BY <2>4, <2>8, <2>9 DEF Client
  <1>15. QED
    BY <1>13, <1>14 DEF IInv

\* The array cannot grow: conn_add_iov fails and its caller goes on without the
\* fragment, answers an error, or closes.
LEMMA LosesEntry ==
    ASSUME IInv, todo # <<>>, NEW b,
           b \in IF HeaderFull(buf, Len(buf.msglist) = 1) THEN ConnAddMsghdr(buf) ELSE {buf},
           IovFull(b), UNCHANGED <<backend, reset, unscheduled, started, written>>,
           IF mode = "build" /\ Len(todo) = 1
           THEN ErrorResponse(b)
           ELSE /\ buf' = b
                /\ todo' = IF mode = "build" THEN Tail(todo) ELSE <<>>
                /\ mode' = IF mode = "write" THEN "closing" ELSE mode
    PROVE  IInv'
  <1>1. Base /\ buf \in Buffer /\ WellFormed(buf) /\ buf.msglist # <<>>
    BY DEF IInv, Base, WellFormed
  <1>2. /\ b \in Buffer /\ WellFormed(b) /\ b.msglist # <<>> /\ b.iovused = buf.iovused
        /\ Contiguous(buf) => Contiguous(b)
        /\ Fresh(buf) => Fresh(b)
        /\ Fresh(buf) /\ FilledBut1(buf) => FilledBut1(b)
        /\ Fresh(buf) /\ Fits(buf) /\ "msglist" \notin Faults => Fits(b)
    BY <1>1, HeaderChosen
  <1>3. /\ todo \in Seq(Nat \ {0}) /\ Tail(todo) \in Seq(Nat \ {0}) /\ <<>> \in Seq(Nat \ {0})
        /\ Len(todo) \in Nat /\ Len(todo) >= 1 /\ Len(Tail(todo)) = Len(todo) - 1
    BY <1>1, HeadTailProperties, EmptySeq DEF Base
  <1>4. CASE mode = "build" /\ Len(todo) = 1
    <2>1. ErrorResponse(b)
      BY <1>4
    <2>2. QED
      BY <1>1, <1>2, <2>1, ErrorResponseKeeps DEF IInv
  <1>5. CASE ~(mode = "build" /\ Len(todo) = 1)
    <2>1. /\ buf' = b
          /\ todo' = IF mode = "build" THEN Tail(todo) ELSE <<>>
          /\ mode' = IF mode = "write" THEN "closing" ELSE mode
      BY <1>5
    <2>2. Base'
      BY <1>1, <1>2, <1>3, <2>1 DEF Base
    <2>3. ASSUME ~backend PROVE Client'
      <3>1. Client /\ mode \in {"build", "write"}
        BY <1>1, <2>3 DEF IInv, Client, Phases, Base
      <3>2. mode = "build"
        <4>1. SUFFICES ASSUME mode = "write" PROVE FALSE
          BY <3>1
        <4>2. buf.iovused = 0
          BY <3>1, <4>1 DEF Client, Phases
        <4>3. Len(b.iov) >= 1 /\ Len(b.iov) \in Nat
          BY <1>2, BufferTypes DEF WellFormed
        <4>4. QED
          BY <1>2, <4>2, <4>3 DEF IovFull
      <3>3. Fresh(buf) /\ Contiguous(buf)
        BY <3>1, <3>2 DEF Client, Phases
      <3>4. todo' # <<>> /\ mode' = "build"
        <4>1. Len(Tail(todo)) # 0
          BY <1>3, <1>5, <3>2
        <4>2. todo' = Tail(todo) /\ mode' = "build"
          BY <2>1, <3>2
        <4>3. Tail(todo) # <<>>
          <5>1. Len(<<>>) = 0
            OBVIOUS
          <5>2. QED
            BY <4>1, <5>1, Zenon
        <4>4. QED
          BY <4>2, <4>3
      <3>5. Phases'
        BY <1>2, <2>1, <3>3, <3>4 DEF Phases
      <3>6. ASSUME "msglist" \notin Faults PROVE Sized'
        <4>1. Fits(buf) /\ FilledBut1(buf)
          BY <3>1, <3>2, <3>6 DEF Client, Sized, Building
        <4>2. Fits(buf') /\ FilledBut1(buf')
          BY <1>2, <2>1, <3>3, <3>6, <4>1
        <4>3. QED
          BY <3>4, <4>2 DEF Sized, Transmitting, ClosedOnlyByPeer
      <3>7. QED
        BY <1>2, <2>1, <3>3, <3>5, <3>6 DEF Client
    <2>4. QED
      BY <2>2, <2>3 DEF IInv
  <1>6. QED
    BY <1>4, <1>5

LEMMA AddIovStep == IInv /\ AddIov => IInv'
  <1>1. SUFFICES ASSUME IInv, AddIov PROVE IInv'
    OBVIOUS
  <1>2. todo # <<>> /\ UNCHANGED <<backend, reset, unscheduled, started>>
    BY <1>1 DEF AddIov
  <1>3. PICK b \in IF HeaderFull(buf, Len(buf.msglist) = 1) THEN ConnAddMsghdr(buf) ELSE {buf} :
          \/ LET n == Chunk(b, Head(todo), Len(buf.msglist) = 1)
             IN  /\ buf' = Put(EnsureIovSpace(b), n)
                 /\ written' = written + n
                 /\ todo' = IF n < Head(todo) THEN <<Head(todo) - n>> \o Tail(todo) ELSE Tail(todo)
                 /\ mode' = Written(todo')
          \/ /\ IovFull(b) /\ "iov" \in Faults
             /\ UNCHANGED written
             /\ IF mode = "build" /\ Len(todo) = 1
                THEN ErrorResponse(b)
                ELSE /\ buf' = b
                     /\ todo' = IF mode = "build" THEN Tail(todo) ELSE <<>>
                     /\ mode' = IF mode = "write" THEN "closing" ELSE mode
    BY <1>1 DEF AddIov
  <1>4. QED
    BY <1>1, <1>2, <1>3, AddsEntry, LosesEntry

-----------------------------------------------------------------------------
(* The theorems *)

\* IInv holds in every state: the output buffers of connections.c stay in order
\* through conn_add_iov's fragments, the growth of both arrays, their failures,
\* and every partial write of transmit.
THEOREM Invariance == Spec => []IInv
  <1>1. Init => IInv
    BY InitInv
  <1>2. IInv /\ [Next]_vars => IInv'
    BY AddIovStep, ProcessCommandStep, AnswerErrorStep, BuildErrorStep, MemcacheGetStep, PeerResetStep,
       TransmitStep, TransmitCompleteStep, StutterStep DEF Next
  <1>3. QED
    BY <1>1, <1>2, PTL DEF Spec

\* The types, for every reply, request and array size: conn_add_iov never fills
\* more headers than msgsize or more entries than iovsize, and transmit's msgcurr
\* never passes msgused.
THEOREM TypeCorrect == Spec => []TypeOK
  <1>1. IInv => TypeOK
    BY DEF IInv, Base, WellFormed, TypeOK
  <1>2. QED
    BY <1>1, Invariance, PTL

\* On a client's connection the headers still to be sent cover what is filled of
\* c->iov without gap or overlap, whichever reallocs of conn_ensure_iov_space and
\* conn_add_msghdr fail and however transmit's writes are cut.
THEOREM ClientRanges == Spec => [](~backend => MsgRanges)
  <1>1. IInv => (~backend => MsgRanges)
    BY MsgRangesIs DEF IInv, Client
  <1>2. QED
    BY <1>1, Invariance, PTL

\* transmit closes a client's connection only after a reset or a failure of
\* conn_update_event: sendmsg is handed neither an empty message nor more than
\* IOV_MAX entries.  conn_add_iov does not look at a failure of conn_add_msghdr and
\* then overfills the last header, so this needs a msglist that can always grow.
THEOREM ClientClosed ==
    ASSUME "msglist" \notin Faults
    PROVE  Spec => [](~backend => ClosedOnlyByPeer)
  <1>1. IInv => (~backend => ClosedOnlyByPeer)
    BY DEF IInv, Client, Sized
  <1>2. QED
    BY <1>1, Invariance, PTL

-----------------------------------------------------------------------------
(* The bytes of a run of iovecs *)

\* The bytes of n iovecs of v, behind the first lo.
Span(v, lo, n) == FlattenSeq([j \in 1..n |-> Bytes(v[lo + j])])

\* An iovec is a run of bytes.
LEMMA BytesAre ==
    ASSUME NEW f \in Iovec
    PROVE  /\ Bytes(f) \in Seq(Nat) /\ Len(Bytes(f)) = f.len /\ f.len \in Nat /\ f.base \in Nat
           /\ \A i \in 1..f.len : Bytes(f)[i] = f.base + (i - 1)
  <1>1. f.len \in Nat /\ f.base \in Nat
    BY DEF Iovec
  <1>2. \A i \in 1..f.len : f.base + (i - 1) \in Nat
    BY <1>1
  <1>3. QED
    BY <1>1, <1>2 DEF Bytes

\* Concatenation, of bytes.
LEMMA BytesAssociative == \A s, t, u \in Seq(Nat) : (s \o t) \o u = s \o (t \o u)
  BY ConcatAssociative, SMTT(40)

\* One iovec more is its bytes more.
LEMMA SpanGrow ==
    ASSUME NEW v \in Seq(Iovec), NEW lo \in Nat, NEW n \in Nat, (lo + n) + 1 <= Len(v)
    PROVE  Span(v, lo, n + 1) = Span(v, lo, n) \o Bytes(v[(lo + n) + 1])
  <1> DEFINE s == [j \in 1..n |-> Bytes(v[lo + j])]
             u == [j \in 1..n + 1 |-> Bytes(v[lo + j])]
             x == Bytes(v[(lo + n) + 1])
  <1>1. Len(v) \in Nat /\ \A j \in 1..n + 1 : v[lo + j] \in Iovec
    <2>1. Len(v) \in Nat
      OBVIOUS
    <2>2. \A j \in 1..n + 1 : lo + j \in 1..Len(v)
      BY <2>1
    <2>3. QED
      BY <2>1, <2>2
  <1>2. \A j \in 1..n + 1 : Bytes(v[lo + j]) \in Seq(Nat)
    BY <1>1, BytesAre
  <1>3. s \in Seq(Seq(Nat)) /\ Len(s) = n
    <2>1. \A j \in 1..n : Bytes(v[lo + j]) \in Seq(Nat)
      <3>1. \A j \in 1..n : j \in 1..n + 1
        OBVIOUS
      <3>2. QED
        BY <1>2, <3>1, Zenon
    <2>2. QED
      BY <2>1
  <1>4. n + 1 \in 1..n + 1 /\ lo + (n + 1) = (lo + n) + 1
    OBVIOUS
  <1>5. x \in Seq(Nat)
    BY <1>2, <1>4
  <1>6. u = Append(s, x)
    <2>1. /\ Append(s, x) \in Seq(Seq(Nat)) /\ Len(Append(s, x)) = n + 1
          /\ Append(s, x)[n + 1] = x /\ \A j \in 1..n : Append(s, x)[j] = s[j]
      <3> HIDE DEF s, x
      <3>1. QED
        BY <1>3, <1>5, AppendProperties
    <2>2. u \in Seq(Seq(Nat)) /\ Len(u) = n + 1
      BY <1>2
    <2>3. u[n + 1] = x /\ \A j \in 1..n : u[j] = s[j]
      BY <1>4
    <2> HIDE DEF s, x, u
    <2>4. \A j \in 1..n + 1 : u[j] = Append(s, x)[j]
      BY <2>1, <2>3
    <2>5. QED
      BY <2>1, <2>2, <2>4, SeqEqual
  <1> HIDE DEF s, x, u
  <1>7. FlattenSeq(Append(s, x)) = FlattenSeq(s) \o x
    BY <1>3, <1>5, FlattenGrow
  <1>8. Span(v, lo, n + 1) = FlattenSeq(u) /\ Span(v, lo, n) = FlattenSeq(s)
    BY DEF Span, u, s
  <1>9. QED
    BY <1>6, <1>7, <1>8 DEF x

\* A span is a sequence of bytes.
LEMMA SpanType ==
    ASSUME NEW v \in Seq(Iovec), NEW lo \in Nat, NEW n \in Nat, lo + n <= Len(v)
    PROVE  Span(v, lo, n) \in Seq(Nat) /\ Span(v, lo, 0) = <<>>
  <1> DEFINE s == [j \in 1..n |-> Bytes(v[lo + j])]
  <1>1. \A j \in 1..n : v[lo + j] \in Iovec
    <2>1. Len(v) \in Nat
      OBVIOUS
    <2>2. \A j \in 1..n : lo + j \in 1..Len(v)
      BY <2>1
    <2>3. QED
      BY <2>1, <2>2
  <1>2. \A j \in 1..n : Bytes(v[lo + j]) \in Seq(Nat)
    BY <1>1, BytesAre
  <1>3. s \in Seq(Seq(Nat)) /\ <<>> \in Seq(Nat)
    BY <1>2
  <1> HIDE DEF s
  <1>4. FlattenSeq(s) \in Seq(Nat) /\ FlattenSeq(<<>>) = <<>>
    BY <1>3, FlattenGrow, FlattenEmpty
  <1>5. [j \in 1..0 |-> Bytes(v[lo + j])] = <<>>
    OBVIOUS
  <1>6. QED
    BY <1>4, <1>5 DEF Span, s

\* A span is the span of its first part and that of the rest.
LEMMA SpanSplit ==
    ASSUME NEW v \in Seq(Iovec), NEW lo \in Nat, NEW a \in Nat, NEW b \in Nat, (lo + a) + b <= Len(v)
    PROVE  Span(v, lo, a + b) = Span(v, lo, a) \o Span(v, lo + a, b)
  <1> DEFINE P(c) == Span(v, lo, a + c) = Span(v, lo, a) \o Span(v, lo + a, c)
             S == {c \in Nat : (lo + a) + c <= Len(v) => P(c)}
  <1>1. Len(v) \in Nat /\ lo + a \in Nat /\ lo + a <= Len(v)
    OBVIOUS
  <1>2. 0 \in S
    <2>1. Span(v, lo, a) \in Seq(Nat) /\ Span(v, lo + a, 0) = <<>>
      BY <1>1, SpanType
    <2>2. Span(v, lo, a) \o <<>> = Span(v, lo, a)
      BY <2>1, ConcatEmptySeq
    <2>3. a + 0 = a
      OBVIOUS
    <2>4. P(0)
      BY <2>1, <2>2, <2>3
    <2> HIDE DEF P
    <2>5. QED
      BY <2>4
  <1>3. ASSUME NEW c \in Nat, c \in S PROVE c + 1 \in S
    <2>1. ASSUME (lo + a) + (c + 1) <= Len(v) PROVE P(c + 1)
      <3>1. /\ (lo + a) + c <= Len(v) /\ ((lo + a) + c) + 1 <= Len(v) /\ a + c \in Nat /\ lo + (a + c) = (lo + a) + c
            /\ (a + c) + 1 = a + (c + 1) /\ (lo + (a + c)) + 1 <= Len(v) /\ ((lo + a) + c) + 1 \in 1..Len(v)
        BY <1>1, <2>1
      <3> DEFINE A == Span(v, lo, a)
                 C == Span(v, lo + a, c)
                 x == Bytes(v[((lo + a) + c) + 1])
      <3>2. P(c)
        BY <1>3, <3>1
      <3>3. Span(v, lo, a + (c + 1)) = Span(v, lo, a + c) \o x
        BY <3>1, SpanGrow
      <3>4. Span(v, lo + a, c + 1) = C \o x
        BY <1>1, <3>1, SpanGrow
      <3>5. A \in Seq(Nat) /\ C \in Seq(Nat)
        BY <1>1, <3>1, SpanType
      <3>6. x \in Seq(Nat)
        <4>1. v[((lo + a) + c) + 1] \in Iovec
          BY <3>1
        <4>2. QED
          BY <4>1, BytesAre
      <3>7. (A \o C) \o x = A \o (C \o x)
        <4> HIDE DEF A, C, x
        <4>1. QED
          BY <3>5, <3>6, BytesAssociative
      <3>8. QED
        BY <3>2, <3>3, <3>4, <3>7
    <2>2. c + 1 \in Nat
      OBVIOUS
    <2> HIDE DEF P
    <2>3. QED
      BY <2>1, <2>2
  <1>4. Nat \subseteq S
    <2> HIDE DEF S
    <2>1. QED
      BY <1>2, <1>3, SetInduction
  <1> HIDE DEF P
  <1>5. P(b)
    BY <1>4
  <1>6. QED
    BY <1>5 DEF P

\* A span depends on its iovecs only.
SameIn(v, w, lo, n) == \A j \in lo + 1..lo + n : w[j] = v[j]

\* A span depends on its own entries only.
LEMMA SpanSame ==
    ASSUME NEW v, NEW w, NEW lo \in Nat, NEW n \in Nat, SameIn(v, w, lo, n)
    PROVE  Span(w, lo, n) = Span(v, lo, n)
  <1>1. \A j \in 1..n : lo + j \in lo + 1..lo + n
    OBVIOUS
  <1>2. \A j \in 1..n : w[lo + j] = v[lo + j]
    BY <1>1 DEF SameIn
  <1>3. [j \in 1..n |-> Bytes(w[lo + j])] = [j \in 1..n |-> Bytes(v[lo + j])]
    BY <1>2
  <1>4. QED
    BY <1>3 DEF Span

\* One iovec is its own span.
LEMMA SpanOne ==
    ASSUME NEW v \in Seq(Iovec), NEW lo \in Nat, lo + 1 <= Len(v)
    PROVE  Span(v, lo, 1) = Bytes(v[lo + 1])
  <1>1. lo + 0 = lo /\ 0 + 1 = 1 /\ lo <= Len(v) /\ lo + 1 \in 1..Len(v) /\ (lo + 0) + 1 <= Len(v)
    OBVIOUS
  <1>2. Span(v, lo, 0 + 1) = Span(v, lo, 0) \o Bytes(v[(lo + 0) + 1])
    BY <1>1, SpanGrow
  <1>3. Span(v, lo, 0) = <<>>
    BY <1>1, SpanType
  <1>4. Bytes(v[lo + 1]) \in Seq(Nat)
    BY <1>1, BytesAre
  <1>5. <<>> \o Bytes(v[lo + 1]) = Bytes(v[lo + 1])
    BY <1>4, ConcatEmptySeq
  <1>6. QED
    BY <1>1, <1>2, <1>3, <1>5

-----------------------------------------------------------------------------
(* What is pending *)

\* Pending, of any buffer.
PendingOf(b) ==
    FlattenSeq([j \in 1..(Len(b.msglist) - b.msgcurr) |->
        LET m == b.msglist[b.msgcurr + j] IN Entries(b, m.iov + 1, m.iov + m.len)])

\* How many entries are sent, and the bytes of those filled behind them.
First(b) == IF b.msgcurr < Len(b.msglist) THEN b.msglist[b.msgcurr + 1].iov ELSE b.iovused
Ahead(b) == Span(b.iov, First(b), b.iovused - First(b))

\* A header's bytes are a span of the array.
LEMMA EntriesAre ==
    ASSUME NEW b, NEW lo \in Nat, NEW n \in Nat
    PROVE  Entries(b, lo + 1, lo + n) = Span(b.iov, lo, n)
  <1>1. ((lo + n) - (lo + 1)) + 1 = n /\ \A j \in 1..n : (lo + 1) + (j - 1) = lo + j
    OBVIOUS
  <1>2. [j \in 1..n |-> Bytes(b.iov[(lo + 1) + (j - 1)])] = [j \in 1..n |-> Bytes(b.iov[lo + j])]
    BY <1>1
  <1>3. QED
    BY <1>1, <1>2 DEF Entries, Span

\* Two spans end to end are one.
Joined(v, f, x, y) == Span(v, f, y - f) = Span(v, f, x - f) \o Span(v, x, y - x)

\* They are joined wherever the first ends.
LEMMA SpanJoin ==
    ASSUME NEW v \in Seq(Iovec), NEW f \in Nat, NEW x \in Nat, NEW y \in Nat, f <= x, x <= y, y <= Len(v)
    PROVE  Joined(v, f, x, y)
  <1> DEFINE a == x - f
             d == y - x
  <1>1. Len(v) \in Nat
    OBVIOUS
  <1>2. a \in Nat /\ d \in Nat /\ f + a = x /\ (f + a) + d <= Len(v) /\ a + d = y - f
    BY <1>1
  <1> HIDE DEF a, d
  <1>3. Span(v, f, a + d) = Span(v, f, a) \o Span(v, f + a, d)
    BY <1>2, SpanSplit
  <1>4. QED
    BY <1>2, <1>3 DEF a, d, Joined

\* N runs of the array, from o[j] up to e[j], that lie end to end.
EndToEnd(o, e, N, U) ==
    /\ o \in [1..N -> Nat] /\ e \in [1..N -> Nat]
    /\ \A j \in 1..N : o[j] <= e[j] /\ e[j] <= U
    /\ \A j \in 1..N : j + 1 \in 1..N => o[j + 1] = e[j]

\* Their spans are one.
LEMMA Chained ==
    ASSUME NEW v \in Seq(Iovec), NEW N \in Nat, N > 0, NEW U \in Nat, U <= Len(v),
           NEW o, NEW e, EndToEnd(o, e, N, U)
    PROVE  o[1] <= e[N] /\ FlattenSeq([j \in 1..N |-> Span(v, o[j], e[j] - o[j])]) = Span(v, o[1], e[N] - o[1])
  <1> DEFINE E == [j \in 1..N |-> Span(v, o[j], e[j] - o[j])]
             f == o[1]
  <1>0. /\ o \in [1..N -> Nat] /\ e \in [1..N -> Nat]
        /\ \A j \in 1..N : o[j] <= e[j] /\ e[j] <= U
        /\ \A j \in 1..N : j + 1 \in 1..N => o[j + 1] = e[j]
    BY DEF EndToEnd
  <1>1. Len(v) \in Nat /\ Len(E) = N /\ 1 \in 1..N /\ N \in 1..N /\ f \in Nat
    BY <1>0
  <1>2. \A j \in 1..N : E[j] = Span(v, o[j], e[j] - o[j])
    OBVIOUS
  <1> HIDE DEF E, f
  <1>3. PICK h : FlattenRun(h, E, N) /\ FlattenSeq(E) = h[N]
    BY <1>1, FlattenUnfold
  <1> DEFINE P(k) == f <= e[k] /\ h[k] = Span(v, f, e[k] - f)
             S == {n \in Nat : n + 1 \in 1..N => P(n + 1)}
  <1>4. 0 \in S
    <2>1. h[1] = E[1] /\ E[1] = Span(v, f, e[1] - f) /\ f <= e[1]
      BY <1>0, <1>1, <1>2, <1>3 DEF FlattenRun, f
    <2>2. P(1)
      BY <2>1
    <2> HIDE DEF P
    <2>3. QED
      BY <2>2
  <1>5. ASSUME NEW n \in Nat, n \in S PROVE n + 1 \in S
    <2>1. ASSUME n + 2 \in 1..N PROVE P(n + 2)
      <3>1. n + 1 \in 1..N /\ n + 2 # 1 /\ (n + 2) - 1 = n + 1 /\ (n + 1) + 1 = n + 2
        BY <2>1
      <3>2. f <= e[n + 1] /\ h[n + 1] = Span(v, f, e[n + 1] - f)
        BY <1>5, <3>1
      <3>3. h[n + 2] = h[n + 1] \o E[n + 2]
        BY <1>3, <2>1, <3>1 DEF FlattenRun
      <3>4. E[n + 2] = Span(v, e[n + 1], e[n + 2] - e[n + 1]) /\ e[n + 1] <= e[n + 2]
        BY <1>0, <1>2, <2>1, <3>1
      <3>5. e[n + 1] \in Nat /\ e[n + 2] \in Nat /\ e[n + 2] <= U
        BY <1>0, <2>1, <3>1
      <3>6. e[n + 2] <= Len(v) /\ f <= e[n + 2]
        BY <1>1, <3>2, <3>4, <3>5
      <3>7. Span(v, f, e[n + 2] - f) = Span(v, f, e[n + 1] - f) \o Span(v, e[n + 1], e[n + 2] - e[n + 1])
        <4>1. Joined(v, f, e[n + 1], e[n + 2])
          BY <1>1, <3>2, <3>4, <3>5, <3>6, SpanJoin
        <4>2. QED
          BY <4>1 DEF Joined
      <3>8. QED
        BY <3>2, <3>3, <3>4, <3>6, <3>7
    <2>2. n + 1 \in Nat /\ (n + 1) + 1 = n + 2
      OBVIOUS
    <2> HIDE DEF P
    <2>3. QED
      BY <2>1, <2>2
  <1>6. Nat \subseteq S
    <2> HIDE DEF S
    <2>1. QED
      BY <1>4, <1>5, SetInduction
  <1> HIDE DEF P
  <1>7. P(N)
    <2>1. N - 1 \in Nat /\ (N - 1) + 1 = N
      OBVIOUS
    <2>2. N - 1 \in S
      BY <1>6, <2>1
    <2>3. QED
      BY <1>1, <2>1, <2>2
  <1>8. QED
    BY <1>3, <1>7 DEF P, E, f

\* Adjacent headers are pending as one span, from the first entry not sent on.
LEMMA PendingIs ==
    ASSUME NEW b \in Buffer, WellFormed(b), Contiguous(b)
    PROVE  /\ First(b) \in Nat /\ First(b) <= b.iovused
           /\ PendingOf(b) = Ahead(b) /\ Ahead(b) \in Seq(Nat)
  <1> DEFINE m == b.msglist
             c == b.msgcurr
             N == Len(m) - c
             v == b.iov
             U == b.iovused
             f == First(b)
  <1>1. /\ Len(m) \in Nat /\ c \in Nat /\ N \in Nat /\ U \in Nat /\ v \in Seq(Iovec) /\ Len(v) \in Nat
        /\ U <= Len(v)
        /\ \A i \in 1..Len(m) : m[i].iov \in Nat /\ m[i].len \in Nat
    BY BufferTypes DEF WellFormed
  <1>2. \A i \in 1..Len(m) : m[i].iov + m[i].len <= U
    BY DEF WellFormed, Ordered
  <1>3. \A i \in c + 1..Len(m) - 1 : m[i].iov + m[i].len = m[i + 1].iov
    BY DEF Contiguous
  <1>4. m # <<>> => m[Len(m)].iov + m[Len(m)].len = U
    BY DEF Contiguous, Last
  <1>5. CASE N = 0
    <2>1. First(b) = U
      BY <1>1, <1>5 DEF First
    <2>2. U - U = 0 /\ U + 0 <= Len(v)
      BY <1>1
    <2>3. Span(v, U, 0) = <<>>
      BY <1>1, <2>2, SpanType
    <2>4. PendingOf(b) = <<>>
      <3>1. [j \in 1..0 |-> LET h == m[c + j] IN Entries(b, h.iov + 1, h.iov + h.len)] = <<>>
        OBVIOUS
      <3>2. QED
        BY <1>5, <3>1, FlattenEmpty DEF PendingOf
    <2>5. Ahead(b) = <<>>
      BY <2>1, <2>2, <2>3 DEF Ahead
    <2>6. <<>> \in Seq(Nat) /\ U \in Nat /\ U <= U
      BY <1>1
    <2>7. QED
      BY <2>1, <2>4, <2>5, <2>6
  <1>6. CASE N # 0
    <2> DEFINE o == [j \in 1..N |-> m[c + j].iov]
               e == [j \in 1..N |-> m[c + j].iov + m[c + j].len]
    <2>1. f = m[c + 1].iov /\ c + 1 \in 1..Len(m) /\ N > 0 /\ c + N = Len(m)
      BY <1>1, <1>6 DEF First
    <2>2. \A j \in 1..N : c + j \in 1..Len(m)
      BY <1>1
    <2>3. \A j \in 1..N : /\ m[c + j].iov \in Nat /\ m[c + j].len \in Nat /\ m[c + j].iov + m[c + j].len <= U
      BY <1>1, <1>2, <2>2
    <2> HIDE DEF m, c, N, v, U, f
    <2>4. \A j \in 1..N : o[j] = m[c + j].iov /\ e[j] = m[c + j].iov + m[c + j].len
      OBVIOUS
    <2>5. \A x, y \in Nat : x + y \in Nat /\ x <= x + y /\ (x + y) - x = y
      OBVIOUS
    <2>6. o \in [1..N -> Nat] /\ e \in [1..N -> Nat]
      BY <2>3, <2>5
    <2>7. \A j \in 1..N : o[j] <= e[j] /\ e[j] <= U /\ e[j] - o[j] = m[c + j].len
      BY <2>3, <2>4, <2>5
    <2>8. ASSUME NEW j \in 1..N, j + 1 \in 1..N PROVE o[j + 1] = e[j]
      <3>1. c + j \in c + 1..Len(m) - 1 /\ (c + j) + 1 = c + (j + 1)
        BY <1>1, <2>1, <2>8
      <3>2. m[c + j].iov + m[c + j].len = m[c + (j + 1)].iov
        BY <1>3, <3>1
      <3>3. QED
        BY <2>4, <2>8, <3>2
    <2>9. PendingOf(b) = FlattenSeq([j \in 1..N |-> Span(v, o[j], e[j] - o[j])])
      <3>1. \A j \in 1..N : Entries(b, m[c + j].iov + 1, m[c + j].iov + m[c + j].len) = Span(v, o[j], e[j] - o[j])
        BY <2>3, <2>4, <2>7, EntriesAre DEF v
      <3>2. [j \in 1..N |-> Entries(b, m[c + j].iov + 1, m[c + j].iov + m[c + j].len)] = [j \in 1..N |-> Span(v, o[j], e[j] - o[j])]
        BY <3>1
      <3>3. QED
        BY <3>2 DEF PendingOf, N, m, c
    <2>10. e[N] = U /\ o[1] = f
      <3>1. N \in 1..N /\ 1 \in 1..N /\ m # <<>>
        BY <1>1, <2>1
      <3>2. QED
        BY <1>4, <2>1, <2>4, <3>1
    <2> HIDE DEF o, e
    <2>15. EndToEnd(o, e, N, U)
      BY <2>6, <2>7, <2>8 DEF EndToEnd
    <2>11. o[1] <= e[N] /\ PendingOf(b) = Span(v, o[1], e[N] - o[1])
      BY <1>1, <2>1, <2>9, <2>15, Chained
    <2>12. f \in Nat /\ f <= U /\ U - f \in Nat /\ f + (U - f) <= Len(v)
      <3>1. f \in Nat
        BY <1>1, <2>1
      <3>2. QED
        BY <1>1, <2>10, <2>11, <3>1
    <2>13. Span(v, f, U - f) \in Seq(Nat)
      BY <1>1, <2>12, SpanType
    <2>14. QED
      BY <2>10, <2>11, <2>12, <2>13 DEF Ahead, f, v, U
  <1>7. QED
    BY <1>5, <1>6

-----------------------------------------------------------------------------
(* What the operations do to what is pending *)

\* Passing an empty header leaves what is pending.
LEMMA AheadMoved ==
    ASSUME buf \in Buffer, WellFormed(buf), Contiguous(buf), NEW r, r = [buf EXCEPT !.msgcurr = Current]
    PROVE  First(r) = First(buf) /\ r.iov = buf.iov /\ r.iovused = buf.iovused /\ Ahead(r) = Ahead(buf)
  <1> DEFINE m == buf.msglist
             c == buf.msgcurr
             U == buf.iovused
  <1>1. Len(m) \in Nat /\ c \in Nat /\ U \in Nat /\ \A i \in 1..Len(m) : m[i].iov \in Nat /\ m[i].len \in Nat
    BY BufferTypes
  <1>2. r.iov = buf.iov /\ r.iovused = U /\ r.msglist = m /\ r.msgcurr = Current
    BY DEF Buffer
  <1>3. First(r) = First(buf)
    <2>1. CASE c < Len(m) /\ m[c + 1].len = 0
      <3>1. Current = c + 1 /\ c + 1 \in 1..Len(m)
        BY <1>1, <2>1 DEF Current
      <3>2. First(buf) = m[c + 1].iov /\ m[c + 1].iov + 0 = m[c + 1].iov
        BY <1>1, <2>1, <3>1 DEF First
      <3>3. CASE c + 1 < Len(m)
        <4>1. c + 1 \in c + 1..Len(m) - 1
          BY <1>1, <3>3
        <4>2. m[c + 1].iov + m[c + 1].len = m[(c + 1) + 1].iov
          BY <4>1 DEF Contiguous
        <4>3. First(r) = m[(c + 1) + 1].iov
          BY <1>2, <3>1, <3>3 DEF First
        <4>4. QED
          BY <2>1, <3>2, <4>2, <4>3
      <3>4. CASE ~(c + 1 < Len(m))
        <4>1. c + 1 = Len(m) /\ m # <<>>
          BY <1>1, <2>1, <3>4
        <4>2. m[c + 1].iov + m[c + 1].len = U
          BY <4>1 DEF Contiguous, Last
        <4>3. First(r) = U
          BY <1>2, <3>1, <3>4 DEF First
        <4>4. QED
          BY <2>1, <3>2, <4>2, <4>3
      <3>5. QED
        BY <3>3, <3>4
    <2>2. CASE ~(c < Len(m) /\ m[c + 1].len = 0)
      <3>1. Current = c
        BY <2>2 DEF Current
      <3>2. QED
        BY <1>2, <3>1 DEF First
    <2>3. QED
      BY <2>1, <2>2
  <1>4. QED
    BY <1>2, <1>3 DEF Ahead

\* Nothing of a fresh output is sent: all that is filled is pending.
LEMMA AheadFresh ==
    ASSUME NEW b \in Buffer, Fresh(b)
    PROVE  First(b) = 0 /\ Ahead(b) = Span(b.iov, 0, b.iovused)
  <1>1. b.msgcurr = 0 /\ b.msglist[1].iov = 0 /\ b.msglist # <<>> /\ Len(b.msglist) \in Nat /\ b.iovused \in Nat
    BY BufferTypes DEF Fresh
  <1>2. Len(b.msglist) > 0
    BY <1>1, BufferTypes
  <1>3. First(b) = 0
    BY <1>1, <1>2 DEF First
  <1>4. b.iovused - 0 = b.iovused
    BY <1>1
  <1>5. QED
    BY <1>3, <1>4 DEF Ahead

\* conn_add_msghdr leaves the array alone.
LEMMA ChosenIov ==
    ASSUME buf \in Buffer, WellFormed(buf),
           NEW b, b \in IF HeaderFull(buf, Len(buf.msglist) = 1) THEN ConnAddMsghdr(buf) ELSE {buf}
    PROVE  b.iov = buf.iov /\ b.iovused = buf.iovused
  <1>1. b \in {buf, AddMsghdr(buf)}
    BY DEF ConnAddMsghdr
  <1>2. CASE b = buf
    BY <1>2
  <1>3. CASE b = AddMsghdr(buf)
    BY <1>3, AddMsghdrFacts
  <1>4. QED
    BY <1>1, <1>2, <1>3

\* conn_ensure_iov_space keeps the entries there are.
LEMMA EnsureIovs ==
    ASSUME NEW b \in Buffer, NEW r, r = EnsureIovSpace(b)
    PROVE  r.iov \in Seq(Iovec) /\ Len(r.iov) >= Len(b.iov) /\ \A j \in 1..Len(b.iov) : r.iov[j] = b.iov[j]
  <1>1. b.iov \in Seq(Iovec) /\ Len(b.iov) \in Nat
    BY BufferTypes
  <1>2. CASE IovFull(b)
    <2> DEFINE w == [i \in DOMAIN b.iov |-> Junk]
    <2>1. w \in Seq(Iovec) /\ Len(w) = Len(b.iov)
      <3>1. DOMAIN b.iov = 1..Len(b.iov) /\ Junk \in Iovec
        BY <1>1 DEF Junk, Iovec
      <3>2. QED
        BY <1>1, <3>1
    <2>2. r.iov = b.iov \o w
      BY <1>2 DEF EnsureIovSpace, Buffer
    <2> HIDE DEF w
    <2>3. QED
      BY <1>1, <2>1, <2>2, ConcatProperties
  <1>3. CASE ~IovFull(b)
    BY <1>1, <1>3 DEF EnsureIovSpace
  <1>4. QED
    BY <1>2, <1>3

\* The entry that conn_add_iov fills in is the first one behind those filled.
LEMMA PutIovs ==
    ASSUME NEW b \in Buffer, WellFormed(b), Contiguous(b), b.msglist # <<>>, b.iovused < Len(b.iov), written \in Nat,
           NEW n \in Nat, NEW r, r = Put(b, n)
    PROVE  /\ r.iov \in Seq(Iovec) /\ Len(r.iov) = Len(b.iov)
           /\ r.iov[b.iovused + 1] = [base |-> written + 1, len |-> n]
           /\ \A j \in 1..b.iovused : r.iov[j] = b.iov[j]
  <1> DEFINE h == Last(b.msglist)
             x == [base |-> written + 1, len |-> n]
  <1>1. b.iov \in Seq(Iovec) /\ Len(b.iov) \in Nat /\ b.iovused \in Nat
    BY BufferTypes
  <1>2. h.iov + h.len = b.iovused
    BY DEF Contiguous
  <1>3. r.iov = [b.iov EXCEPT ![h.iov + h.len + 1] = x]
    BY DEF Put, Buffer
  <1>4. h.iov + h.len + 1 = b.iovused + 1
    <2>1. \A a : a = b.iovused => a + 1 = b.iovused + 1
      OBVIOUS
    <2>2. QED
      BY <1>2
  <1>5. x \in Iovec
    BY DEF Iovec
  <1> HIDE DEF h, x
  <1>6. b.iovused + 1 \in 1..Len(b.iov) /\ \A j \in 1..b.iovused : j \in 1..Len(b.iov) /\ j # b.iovused + 1
    BY <1>1
  <1>7. QED
    BY <1>1, <1>3, <1>4, <1>5, <1>6, SeqUpdate DEF x

\* An entry behind those of an array.
LEMMA SpanAppend ==
    ASSUME NEW v, NEW w \in Seq(Iovec), NEW n \in Nat, n + 1 <= Len(w), \A j \in 1..n : w[j] = v[j]
    PROVE  Span(w, 0, n + 1) = Span(v, 0, n) \o Bytes(w[n + 1])
  <1>1. 0 + n = n /\ (0 + n) + 1 <= Len(w) /\ 0 + 1 = 1 /\ 0 \in Nat
    OBVIOUS
  <1>2. Span(w, 0, n + 1) = Span(w, 0, n) \o Bytes(w[(0 + n) + 1])
    BY <1>1, SpanGrow
  <1>3. SameIn(v, w, 0, n)
    BY <1>1 DEF SameIn
  <1>4. Span(w, 0, n) = Span(v, 0, n)
    BY <1>1, <1>3, SpanSame
  <1>5. QED
    BY <1>1, <1>2, <1>4

\* A new entry of a fresh output is pending behind the others.
LEMMA AddsBytes ==
    ASSUME Base, Fresh(buf), Contiguous(buf),
           NEW b, b \in IF HeaderFull(buf, Len(buf.msglist) = 1) THEN ConnAddMsghdr(buf) ELSE {buf},
           NEW n \in Nat, Len(b.msglist) = 1 => b.msgbytes + n <= MaxPayload,
           NEW r, r = Put(EnsureIovSpace(b), n)
    PROVE  /\ Fresh(r) /\ r.iovused = buf.iovused + 1
           /\ r.iov[buf.iovused + 1] = [base |-> written + 1, len |-> n]
           /\ \A j \in 1..buf.iovused : r.iov[j] = buf.iov[j]
           /\ Ahead(r) = Ahead(buf) \o Bytes([base |-> written + 1, len |-> n])
  <1> DEFINE q == EnsureIovSpace(b)
             U == buf.iovused
             x == [base |-> written + 1, len |-> n]
  <1>1. buf \in Buffer /\ WellFormed(buf) /\ buf.msglist # <<>> /\ written \in Nat
    BY DEF Base, WellFormed, Fresh
  <1>2. /\ b \in Buffer /\ WellFormed(b) /\ b.msglist # <<>> /\ b.iovused = U
        /\ Contiguous(b) /\ Fresh(b)
    BY <1>1, HeaderChosen
  <1>3. b.iov = buf.iov
    BY <1>1, ChosenIov
  <1>4. /\ WellFormed(q) /\ q.iovused = U /\ q.iovused < Len(q.iov) /\ q.msgcurr = b.msgcurr /\ q.msgbytes = b.msgbytes
        /\ Len(q.msglist) = Len(b.msglist) /\ q.msglist = b.msglist
    BY <1>2, EnsureIovSpaceFacts
  <1>5. Contiguous(q) /\ Fresh(q) /\ q \in Buffer /\ q.msglist # <<>>
    BY <1>2, <1>4 DEF Contiguous, Fresh, WellFormed
  <1>6. q.iov \in Seq(Iovec) /\ Len(q.iov) >= Len(buf.iov) /\ \A j \in 1..Len(buf.iov) : q.iov[j] = buf.iov[j]
    BY <1>2, <1>3, EnsureIovs
  <1> HIDE DEF q
  <1>7. r = Put(q, n)
    BY DEF q
  <1>8. /\ r.iov \in Seq(Iovec) /\ Len(r.iov) = Len(q.iov) /\ r.iov[U + 1] = x
        /\ \A j \in 1..U : r.iov[j] = q.iov[j]
    BY <1>1, <1>4, <1>5, <1>7, PutIovs
  <1>9. U \in Nat /\ Len(buf.iov) \in Nat /\ U <= Len(buf.iov) /\ Len(q.iov) \in Nat /\ U + 1 <= Len(q.iov) /\ Len(r.iov) \in Nat
    BY <1>1, <1>4, <1>5, <1>8, BufferTypes DEF WellFormed
  <1>10. \A j \in 1..U : r.iov[j] = buf.iov[j]
    BY <1>6, <1>8, <1>9, SMTT(40)
  <1>11. /\ WellFormed(r) /\ Len(r.msglist) = Len(q.msglist) /\ Len(q.msglist) >= 1
         /\ \A i \in 1..Len(q.msglist) - 1 : r.msglist[i] = q.msglist[i]
         /\ Last(r.msglist).iov = Last(q.msglist).iov
         /\ r.msgcurr = q.msgcurr /\ r.iovused = q.iovused + 1
    BY <1>1, <1>4, <1>5, <1>7, PutFacts
  <1>12. Fresh(r) /\ r \in Buffer
    <2>1. r \in Buffer /\ Len(q.msglist) \in Nat /\ Len(r.msglist) \in Nat
      BY <1>5, <1>11, BufferTypes DEF WellFormed
    <2>2. r.msgcurr = 0 /\ q.msglist[1].iov = 0
      BY <1>5, <1>11 DEF Fresh
    <2>3. r.msglist[1].iov = 0
      <3>1. CASE Len(q.msglist) = 1
        BY <1>11, <2>2, <3>1 DEF Last
      <3>2. CASE Len(q.msglist) # 1
        <4>1. 1 \in 1..Len(q.msglist) - 1
          BY <1>11, <2>1, <3>2, OneBelow, Zenon
        <4>2. QED
          BY <1>11, <2>2, <4>1
      <3>3. QED
        BY <3>1, <3>2
    <2>4. r.msglist # <<>>
      BY <1>11, <2>1, BufferTypes
    <2>5. QED
      BY <2>1, <2>2, <2>3, <2>4 DEF Fresh
  <1>13. Ahead(r) = Span(r.iov, 0, U + 1) /\ Ahead(buf) = Span(buf.iov, 0, U)
    BY <1>1, <1>4, <1>11, <1>12, AheadFresh
  <1>14. Span(r.iov, 0, U + 1) = Span(buf.iov, 0, U) \o Bytes(r.iov[U + 1])
    BY <1>8, <1>9, <1>10, SpanAppend
  <1>16. QED
    BY <1>4, <1>8, <1>10, <1>11, <1>12, <1>13, <1>14

\* The first s bytes of an iovec and the iovec they leave.
LEMMA BytesCut ==
    ASSUME NEW f \in Iovec, NEW s \in Nat, s > 0, s < f.len, NEW g, g = [base |-> f.base + s, len |-> f.len - s]
    PROVE  /\ g \in Iovec /\ SubSeq(Bytes(f), 1, s) \in Seq(Nat) /\ SubSeq(Bytes(f), 1, s) # <<>>
           /\ Bytes(f) = SubSeq(Bytes(f), 1, s) \o Bytes(g)
  <1> DEFINE F == Bytes(f)
             G == Bytes(g)
             A == SubSeq(F, 1, s)
  <1>1. g \in Iovec /\ g.base = f.base + s /\ g.len = f.len - s
    BY DEF Iovec
  <1>2. F \in Seq(Nat) /\ Len(F) = f.len /\ f.len \in Nat /\ f.base \in Nat /\ \A i \in 1..f.len : F[i] = f.base + (i - 1)
    BY BytesAre
  <1>3. G \in Seq(Nat) /\ Len(G) = g.len /\ g.len \in Nat /\ \A i \in 1..g.len : G[i] = g.base + (i - 1)
    BY <1>1, BytesAre
  <1> HIDE DEF F, G
  <1>4. A \in Seq(Nat) /\ Len(A) = s /\ \A i \in 1..s : A[i] = F[i]
    BY <1>2
  <1> HIDE DEF A
  <1>5. /\ A \o G \in Seq(Nat) /\ Len(A \o G) = s + g.len
        /\ \A i \in 1..s + g.len : (A \o G)[i] = IF i <= s THEN A[i] ELSE G[i - s]
    <2>1. /\ A \o G \in Seq(Nat) /\ Len(A \o G) = Len(A) + Len(G)
          /\ \A i \in 1..Len(A) + Len(G) : (A \o G)[i] = IF i <= Len(A) THEN A[i] ELSE G[i - Len(A)]
      BY <1>3, <1>4, ConcatProperties
    <2>2. QED
      BY <1>3, <1>4, <2>1
  <1>6. s + g.len = f.len
    BY <1>1, <1>2
  <1>7. ASSUME NEW i \in 1..f.len PROVE F[i] = (A \o G)[i]
    <2>1. CASE i <= s
      BY <1>4, <1>5, <1>6, <2>1
    <2>2. CASE ~(i <= s)
      <3>1. i - s \in 1..g.len /\ g.base + ((i - s) - 1) = f.base + (i - 1)
        BY <1>1, <1>2, <2>2, SMTT(40)
      <3>2. (A \o G)[i] = G[i - s]
        BY <1>5, <1>6, <2>2
      <3>3. QED
        BY <1>2, <1>3, <3>1, <3>2
    <2>3. QED
      BY <2>1, <2>2
  <1>8. F = A \o G
    <2>1. Len(F) = Len(A \o G) /\ \A i \in 1..Len(F) : F[i] = (A \o G)[i]
      BY <1>2, <1>5, <1>6, <1>7
    <2>2. QED
      BY <1>2, <1>5, <2>1, SeqEqual
  <1>9. A # <<>>
    BY <1>4
  <1>10. QED
    BY <1>1, <1>4, <1>8, <1>9 DEF A, F, G

\* What is left of a sequence of which a part was sent.
LEMMA SendCut ==
    ASSUME NEW X \in Seq(Nat), NEW Q \in Seq(Nat), X # <<>>, NEW P, P = X \o Q
    PROVE  Len(X) \in 1..Len(P) /\ SubSeq(P, 1, Len(X)) = X /\ SubSeq(P, Len(X) + 1, Len(P)) = Q
  <1>1. /\ P \in Seq(Nat) /\ Len(X) \in Nat /\ Len(Q) \in Nat /\ Len(P) = Len(X) + Len(Q)
        /\ \A i \in 1..Len(X) + Len(Q) : P[i] = IF i <= Len(X) THEN X[i] ELSE Q[i - Len(X)]
    BY ConcatProperties
  <1>2. Len(X) > 0
    BY EmptySeq
  <1> DEFINE A == SubSeq(P, 1, Len(X))
             B == SubSeq(P, Len(X) + 1, Len(P))
  <1>3. A \in Seq(Nat) /\ Len(A) = Len(X) /\ \A i \in 1..Len(X) : A[i] = P[i]
    BY <1>1
  <1>4. B \in Seq(Nat) /\ Len(B) = Len(Q) /\ \A i \in 1..Len(Q) : B[i] = P[Len(X) + i]
    BY <1>1, SMTT(40)
  <1> HIDE DEF A, B
  <1>5. A = X
    <2>1. \A i \in 1..Len(A) : A[i] = X[i]
      BY <1>1, <1>3
    <2>2. QED
      BY <1>3, <2>1, SeqEqual
  <1>6. B = Q
    <2>1. \A i \in 1..Len(Q) : Len(X) + i \in 1..Len(X) + Len(Q) /\ ~(Len(X) + i <= Len(X)) /\ (Len(X) + i) - Len(X) = i
      BY <1>1
    <2>2. \A i \in 1..Len(B) : B[i] = Q[i]
      BY <1>1, <1>4, <2>1
    <2>3. QED
      BY <1>4, <2>2, SeqEqual
  <1>7. QED
    BY <1>1, <1>2, <1>5, <1>6 DEF A, B

\* An entry and those behind it.
LEMMA SpanHead ==
    ASSUME NEW v \in Seq(Iovec), NEW lo \in Nat, NEW n \in Nat, (lo + 1) + n <= Len(v)
    PROVE  /\ Span(v, lo, 1 + n) = Bytes(v[lo + 1]) \o Span(v, lo + 1, n)
           /\ Bytes(v[lo + 1]) \in Seq(Nat) /\ Span(v, lo + 1, n) \in Seq(Nat) /\ v[lo + 1] \in Iovec
  <1>1. lo + 1 <= Len(v) /\ lo + 1 \in 1..Len(v) /\ lo + 1 \in Nat /\ 1 \in Nat
    OBVIOUS
  <1>2. Span(v, lo, 1 + n) = Span(v, lo, 1) \o Span(v, lo + 1, n)
    BY <1>1, SpanSplit
  <1>3. Span(v, lo, 1) = Bytes(v[lo + 1])
    BY <1>1, SpanOne
  <1>4. v[lo + 1] \in Iovec
    BY <1>1
  <1>5. QED
    BY <1>1, <1>2, <1>3, <1>4, BytesAre, SpanType

\* The k first entries and s bytes of the next are sent: w is the array then.
Cuts(v, w, at, s) ==
    \/ s = 0 /\ w = v
    \/ s > 0 /\ s < v[at].len /\ w = [v EXCEPT ![at] = [base |-> v[at].base + s, len |-> v[at].len - s]]
Part(v, at, s) == IF s = 0 THEN <<>> ELSE SubSeq(Bytes(v[at]), 1, s)

\* What was pending is what is sent and what stays pending.
Divided(v, w, lo, k, R, s) ==
    /\ Span(v, lo, k + R) = (Span(v, lo, k) \o Part(v, (lo + k) + 1, s)) \o Span(w, lo + k, R)
    /\ Span(w, lo + k, R) \in Seq(Nat)
    /\ Span(v, lo, k) \in Seq(Nat) /\ Part(v, (lo + k) + 1, s) \in Seq(Nat)
    /\ s > 0 => Span(v, lo, k) \o Part(v, (lo + k) + 1, s) # <<>>

\* transmit divides it so.
LEMMA SpanCut ==
    ASSUME NEW v \in Seq(Iovec), NEW lo \in Nat, NEW k \in Nat, NEW R \in Nat, (lo + k) + R <= Len(v),
           NEW s \in Nat, s > 0 => R > 0, NEW w, Cuts(v, w, (lo + k) + 1, s)
    PROVE  Divided(v, w, lo, k, R, s)
  <1> DEFINE p == lo + k
             A == Span(v, lo, k)
             B == Span(v, p, R)
             C == Span(w, p, R)
             Y == Part(v, p + 1, s)
  <1>1. Len(v) \in Nat /\ p \in Nat /\ p + R <= Len(v) /\ p <= Len(v)
    OBVIOUS
  <1>2. A \in Seq(Nat) /\ B \in Seq(Nat)
    BY <1>1, SpanType
  <1>3. Span(v, lo, k + R) = A \o B
    BY SpanSplit
  <1> DEFINE Goal == /\ Span(v, lo, k + R) = (A \o Y) \o C
                     /\ A \o Y \in Seq(Nat) /\ C \in Seq(Nat) /\ A \in Seq(Nat) /\ Y \in Seq(Nat)
                     /\ s > 0 => A \o Y # <<>>
  <1>4. ASSUME s = 0 PROVE Goal
    <2>1. C = B /\ Y = <<>> /\ ~(s > 0)
      BY <1>4 DEF Cuts, Part
    <2>2. A \o <<>> = A /\ <<>> \in Seq(Nat)
      BY <1>2, ConcatEmptySeq
    <2> HIDE DEF A, B, C, Y
    <2>3. Goal
      BY <1>2, <1>3, <2>1, <2>2
    <2>4. QED
      BY <2>3
  <1>5. ASSUME s # 0 PROVE Goal
    <2>1. s > 0 /\ R > 0
      BY <1>5
    <2>2. PICK q \in Nat : R = 1 + q
      <3>1. R - 1 \in Nat /\ R = 1 + (R - 1)
        BY <2>1
      <3>2. QED
        BY <3>1
    <2> DEFINE f == v[p + 1]
               g == [base |-> f.base + s, len |-> f.len - s]
               D == Span(v, p + 1, q)
               H == Bytes(g)
    <2>3. s < f.len /\ w = [v EXCEPT ![p + 1] = g] /\ Y = SubSeq(Bytes(f), 1, s)
      BY <1>5 DEF Cuts, Part
    <2>4. (p + 1) + q <= Len(v) /\ p + 1 \in 1..Len(v) /\ p + 1 \in Nat /\ p + (1 + q) <= Len(v)
      BY <1>1, <2>2
    <2> HIDE DEF p
    <2>5. B = Bytes(f) \o D /\ D \in Seq(Nat) /\ f \in Iovec
      BY <1>1, <2>2, <2>4, SpanHead
    <2>6. g \in Iovec /\ Y \in Seq(Nat) /\ Y # <<>> /\ Bytes(f) = Y \o Bytes(g)
      <3>1. g = [base |-> f.base + s, len |-> f.len - s]
        OBVIOUS
      <3> HIDE DEF f, g, Y
      <3>2. QED
        BY <2>1, <2>3, <2>5, <3>1, BytesCut
    <2> HIDE DEF f, g
    <2>7. w \in Seq(Iovec) /\ Len(w) = Len(v) /\ w[p + 1] = g /\ \A j \in 1..Len(v) : j # p + 1 => w[j] = v[j]
      BY <2>3, <2>4, <2>6, SeqUpdate, SMTT(40)
    <2>8. C = Bytes(g) \o Span(w, p + 1, q) /\ Bytes(g) \in Seq(Nat) /\ C \in Seq(Nat)
      <3>1. p + (1 + q) <= Len(w) /\ (p + 1) + q <= Len(w) /\ 1 + q \in Nat
        BY <2>4, <2>7
      <3>2. C \in Seq(Nat)
        BY <1>1, <2>2, <2>7, <3>1, SpanType
      <3>3. QED
        BY <1>1, <2>2, <2>7, <3>1, <3>2, SpanHead
    <2>9. Span(w, p + 1, q) = D
      <3>1. \A j \in (p + 1) + 1..(p + 1) + q : j \in 1..Len(v) /\ j # p + 1
        BY <1>1, <2>4
      <3>2. SameIn(v, w, p + 1, q)
        BY <2>7, <3>1 DEF SameIn
      <3>3. QED
        BY <2>4, <3>2, SpanSame
    <2> HIDE DEF A, B, C, D, Y, H
    <2>10. B = (Y \o H) \o D /\ C = H \o D /\ H \in Seq(Nat)
      BY <2>5, <2>6, <2>8, <2>9 DEF H
    <2>11. (Y \o H) \o D = Y \o (H \o D)
      BY <2>5, <2>6, <2>10, BytesAssociative
    <2>12. A \o (Y \o C) = (A \o Y) \o C
      BY <1>2, <2>6, <2>8, BytesAssociative
    <2>13. A \o Y \in Seq(Nat) /\ A \o Y # <<>>
      BY <1>2, <2>6, ConcatProperties, ConcatEqualIffEmpty
    <2>14. Span(v, lo, k + R) = (A \o Y) \o C
      BY <1>3, <2>10, <2>11, <2>12
    <2>15. Goal
      BY <1>2, <2>6, <2>8, <2>13, <2>14
    <2>16. QED
      BY <2>15
  <1> HIDE DEF Goal
  <1>6. Goal
    BY <1>4, <1>5
  <1>7. QED
    BY <1>6, Zenon DEF Goal, A, Y, C, p, Divided

\* No entry that is pending is empty.
Positive(b) == \A j \in First(b) + 1..b.iovused : b.iov[j].len >= 1

\* A span that starts with an entry that is not empty is not empty.
LEMMA SpanFilled ==
    ASSUME NEW v \in Seq(Iovec), NEW lo \in Nat, NEW k \in Nat, k > 0, lo + k <= Len(v), v[lo + 1].len >= 1
    PROVE  Span(v, lo, k) # <<>>
  <1>1. PICK q \in Nat : k = 1 + q
    <2>1. k - 1 \in Nat /\ k = 1 + (k - 1)
      OBVIOUS
    <2>2. QED
      BY <2>1
  <1>2. (lo + 1) + q <= Len(v)
    BY <1>1
  <1>3. /\ Span(v, lo, k) = Bytes(v[lo + 1]) \o Span(v, lo + 1, q)
        /\ Bytes(v[lo + 1]) \in Seq(Nat) /\ Span(v, lo + 1, q) \in Seq(Nat) /\ v[lo + 1] \in Iovec
    BY <1>1, <1>2, SpanHead
  <1>4. Len(Bytes(v[lo + 1])) >= 1
    BY <1>3, BytesAre
  <1>5. Bytes(v[lo + 1]) # <<>>
    <2>1. Len(<<>>) = 0
      OBVIOUS
    <2>2. QED
      BY <1>4, <2>1
  <1>6. QED
    BY <1>3, <1>5, ConcatEqualIffEmpty

\* How many entries are left of U when k of a header's were sent.
LEMMA RestOf ==
    ASSUME NEW lo \in Nat, NEW l \in Nat, NEW k \in Nat, NEW U \in Nat, NEW V \in Nat, NEW s \in Nat,
           k <= l, lo + l <= U, U <= V, s = 0 \/ k < l, NEW R, R = (U - lo) - k
    PROVE  /\ R \in Nat /\ k + R = U - lo /\ U - (lo + k) = R /\ (lo + k) + R = U /\ (lo + k) + R <= V
           /\ (s > 0 => R > 0) /\ lo + k \in Nat
  OBVIOUS

\* transmit sends the front of what is pending, at least a byte of it.
LEMMA Sent ==
    ASSUME buf \in Buffer, WellFormed(buf), Contiguous(buf), Positive(buf), Current < Len(buf.msglist),
           NEW h, h = buf.msglist[Current + 1], NEW k \in Nat, k <= h.len,
           NEW s \in Nat, s = 0 \/ (k < h.len /\ s < buf.iov[h.iov + k + 1].len), k + s > 0,
           NEW r, r = Advance(Current, k, s)
    PROVE  /\ r \in Buffer /\ WellFormed(r) /\ Contiguous(r) /\ Positive(r)
           /\ Entries(buf, h.iov + 1, h.iov + k) \in Seq(Nat) /\ Part(buf.iov, h.iov + k + 1, s) \in Seq(Nat)
           /\ Entries(buf, h.iov + 1, h.iov + k) \o Part(buf.iov, h.iov + k + 1, s) # <<>>
           /\ Ahead(buf) = (Entries(buf, h.iov + 1, h.iov + k) \o Part(buf.iov, h.iov + k + 1, s)) \o Ahead(r)
  <1> DEFINE c == Current
             m == buf.msglist
             v == buf.iov
             U == buf.iovused
             lo == h.iov
             R == (U - lo) - k
             at == (lo + k) + 1
  <1>1. /\ c \in Nat /\ buf.msgcurr <= c /\ Len(m) \in Nat /\ c + 1 \in 1..Len(m)
        /\ v \in Seq(Iovec) /\ Len(v) \in Nat /\ U \in Nat /\ U <= Len(v) /\ lo \in Nat /\ h.len \in Nat
    BY CurrentFacts, BufferTypes, SMTT(40) DEF WellFormed
  <1>2. lo + h.len <= U
    BY <1>1 DEF WellFormed, Ordered
  <1>3. First(buf) = lo
    <2> DEFINE q == [buf EXCEPT !.msgcurr = Current]
    <2>1. First(q) = First(buf)
      BY AheadMoved
    <2>2. q.msgcurr = c /\ q.msglist = m
      BY DEF Buffer
    <2> HIDE DEF q
    <2>3. First(q) = lo
      BY <2>2 DEF First
    <2>4. QED
      BY <2>1, <2>3
  <1>4. WellFormed(r) /\ Sends(buf, r, c)
    BY <1>1, AdvanceFacts
  <1>5. r \in Buffer /\ Contiguous(r)
    BY <1>1, <1>4, SendsContiguous DEF WellFormed
  <1>6. /\ r.msglist[c + 1].iov = lo + k /\ r.msgcurr = c /\ Len(r.msglist) = Len(m) /\ r.iovused = U
        /\ r.iov = IF s = 0 THEN v ELSE [v EXCEPT ![at] = [base |-> v[at].base + s, len |-> v[at].len - s]]
    <2>1. Len(r.msglist) = Len(m) /\ r.msgcurr = c /\ r.iovused = U
      BY <1>4 DEF Sends
    <2>2. r = [buf EXCEPT !.msgcurr = c,
                          !.msglist = [m EXCEPT ![c + 1] = [iov |-> lo + k, len |-> h.len - k]],
                          !.iov = IF s = 0 THEN v ELSE
                             [v EXCEPT ![at] = [base |-> v[at].base + s, len  |-> v[at].len - s]]]
      BY AdvanceIs
    <2>3. r.msglist = [m EXCEPT ![c + 1] = [iov |-> lo + k, len |-> h.len - k]]
      BY <2>2 DEF Buffer
    <2>4. m \in Seq(Header)
      BY BufferTypes
    <2>5. r.msglist[c + 1] = [iov |-> lo + k, len |-> h.len - k]
      BY <1>1, <2>3, <2>4
    <2>6. r.iov = IF s = 0 THEN v ELSE [v EXCEPT ![at] = [base |-> v[at].base + s, len |-> v[at].len - s]]
      BY <2>2 DEF Buffer
    <2>7. QED
      BY <2>1, <2>5, <2>6
  <1>7. First(r) = lo + k
    BY <1>6 DEF First
  <1>8. /\ R \in Nat /\ k + R = U - lo /\ U - (lo + k) = R /\ (lo + k) + R = U /\ (lo + k) + R <= Len(v)
        /\ (s > 0 => R > 0) /\ lo + k \in Nat
    <2>1. s = 0 \/ k < h.len
      OBVIOUS
    <2> HIDE DEF lo, v, U
    <2>2. QED
      BY <1>1, <1>2, <2>1, RestOf
  <1> DEFINE w == r.iov
  <1>9. Cuts(v, w, at, s)
    BY <1>6 DEF Cuts
  <1>10. Ahead(buf) = Span(v, lo, k + R) /\ Ahead(r) = Span(w, lo + k, R)
    BY <1>3, <1>6, <1>7, <1>8 DEF Ahead
  <1>11. Entries(buf, lo + 1, lo + k) = Span(v, lo, k)
    BY <1>1, EntriesAre
  <1> HIDE DEF R, v, U, lo, w, c, m
  <1>12. /\ Span(v, lo, k + R) = (Span(v, lo, k) \o Part(v, at, s)) \o Span(w, lo + k, R)
         /\ Span(v, lo, k) \in Seq(Nat) /\ Part(v, at, s) \in Seq(Nat)
         /\ s > 0 => Span(v, lo, k) \o Part(v, at, s) # <<>>
    <2>1. Divided(v, w, lo, k, R, s)
      BY <1>1, <1>8, <1>9, SpanCut
    <2>2. QED
      BY <2>1, Zenon DEF Divided, at
  <1>13. Span(v, lo, k) \o Part(v, at, s) # <<>>
    <2>1. CASE s > 0
      BY <1>12, <2>1
    <2>2. CASE ~(s > 0)
      <3>1. k > 0 /\ lo + 1 \in lo + 1..U /\ lo + k <= Len(v)
        BY <1>1, <1>2, <2>2, SMTT(40)
      <3>2. v[lo + 1].len >= 1
        BY <1>3, <3>1 DEF Positive, v, U
      <3>3. Span(v, lo, k) # <<>>
        BY <1>1, <3>1, <3>2, SpanFilled
      <3> HIDE DEF at
      <3>4. QED
        BY <1>12, <3>3, ConcatEqualIffEmpty
    <2>3. QED
      BY <2>1, <2>2
  <1>14. Positive(r)
    <2>1. SUFFICES ASSUME NEW j \in (lo + k) + 1..U PROVE w[j].len >= 1
      BY <1>6, <1>7 DEF Positive, w
    <2>2. j \in lo + 1..U /\ j \in 1..Len(v)
      BY <1>1
    <2>3. v[j].len >= 1 /\ v[j] \in Iovec
      BY <1>1, <1>3, <2>2, SMTT(40) DEF Positive, v, U
    <2>4. CASE w[j] = v[j]
      BY <2>3, <2>4
    <2>5. CASE w[j] # v[j]
      <3>1. s # 0 /\ w = [v EXCEPT ![at] = [base |-> v[at].base + s, len |-> v[at].len - s]]
        BY <1>6, <2>5 DEF w
      <3>2. j = at /\ w[j] = [base |-> v[at].base + s, len |-> v[at].len - s]
        BY <1>1, <2>2, <2>5, <3>1
      <3>3. s < v[at].len
        BY <3>1 DEF v, lo
      <3>4. v[j].len \in Nat
        BY <2>3 DEF Iovec
      <3>5. QED
        BY <3>2, <3>3, <3>4
    <2>6. QED
      BY <2>4, <2>5
  <1>15. QED
    BY <1>4, <1>5, <1>10, <1>11, <1>12, <1>13, <1>14 DEF lo, v, at

-----------------------------------------------------------------------------
(* The refinement of ByteStream *)

\* What the refinement needs beside IInv: no pending entry is empty, transmit
\* is through before the next request is read, and while a reply is built nothing
\* of the output is on the wire.
SInv ==
    /\ sent \in Seq(Nat)
    /\ Positive(buf)
    /\ started => Pending # <<>>
    /\ mode = "read" => Pending = <<>>
    /\ mode = "build" => ~started

\* A step of the byte stream, or none.
StreamStep == Stream!BNext \/ UNCHANGED Stream!bvars

\* What is pending before a step,
LEMMA PendingNow ==
    ASSUME IInv, ~backend
    PROVE  /\ Pending = Ahead(buf) /\ Ahead(buf) \in Seq(Nat)
           /\ buf \in Buffer /\ WellFormed(buf) /\ Contiguous(buf) /\ Base /\ Phases
  <1>1. buf \in Buffer /\ WellFormed(buf) /\ Contiguous(buf) /\ Base /\ Phases
    BY DEF IInv, Base, Client, WellFormed
  <1>2. Pending = PendingOf(buf)
    BY DEF Pending, PendingOf
  <1>3. QED
    BY <1>1, <1>2, PendingIs

\* and after it.
LEMMA PendingThen ==
    ASSUME IInv', ~backend'
    PROVE  Pending' = Ahead(buf') /\ Ahead(buf') \in Seq(Nat)
  <1>1. buf' \in Buffer /\ WellFormed(buf') /\ Contiguous(buf')
    BY DEF IInv, Base, Client, WellFormed
  <1>2. Pending' = PendingOf(buf')
    BY DEF Pending, PendingOf
  <1>3. QED
    BY <1>1, <1>2, PendingIs

\* Where nothing has been filled nothing is pending.
LEMMA NothingAhead ==
    ASSUME NEW b \in Buffer, WellFormed(b), Contiguous(b), First(b) = b.iovused
    PROVE  Ahead(b) = <<>> /\ Positive(b)
  <1>1. b.iovused \in Nat /\ b.iovused - First(b) = 0 /\ b.iov \in Seq(Iovec) /\ b.iovused <= Len(b.iov)
    BY BufferTypes DEF WellFormed
  <1>2. Span(b.iov, b.iovused, 0) = <<>>
    <2>1. 0 \in Nat /\ b.iovused + 0 <= Len(b.iov)
      BY <1>1, BufferTypes
    <2>2. QED
      BY <1>1, <2>1, SpanType
  <1>3. \A j \in First(b) + 1..b.iovused : FALSE
    BY <1>1
  <1>4. QED
    BY <1>1, <1>2, <1>3 DEF Ahead, Positive

\* An output begun afresh has nothing pending.
LEMMA EmptiedAhead ==
    ASSUME NEW b \in Buffer, WellFormed(b), NEW r, r = Emptied(b)
    PROVE  Ahead(r) = <<>> /\ Positive(r)
  <1>1. r \in Buffer /\ WellFormed(r) /\ Contiguous(r) /\ Fresh(r) /\ r.iovused = 0
    BY EmptiedFacts DEF WellFormed
  <1>2. QED
    BY <1>1, AheadFresh, NothingAhead

\* error_response throws away what is pending while none of it is on the wire.
LEMMA Discards ==
    ASSUME IInv', ~backend', sent \in Seq(Nat), ~started, NEW b \in Buffer, WellFormed(b), buf' = Emptied(b),
           mode' \in {"write", "build"}, UNCHANGED <<sent, written, started>>
    PROVE  SInv' /\ Stream!Discard
  <1>1. Pending' = <<>> /\ Positive(buf')
    BY EmptiedAhead, PendingThen
  <1>2. SInv'
    BY <1>1 DEF SInv
  <1>3. QED
    BY <1>1, <1>2 DEF Stream!Discard

\* process_command: nothing was pending, and nothing is.
LEMMA ProcessCommandStream ==
    ASSUME IInv, IInv', ~backend, SInv, ProcessCommand
    PROVE  SInv' /\ StreamStep
  <1>1. /\ buf' = Emptied(buf) /\ mode = "read" /\ mode' = "build"
        /\ UNCHANGED <<backend, sent, written, started>>
    BY DEF ProcessCommand
  <1>2. Pending = <<>> /\ ~started /\ sent \in Seq(Nat)
    BY <1>1 DEF SInv
  <1>3. buf \in Buffer /\ WellFormed(buf)
    BY PendingNow
  <1>4. Pending' = <<>> /\ SInv'
    BY <1>1, <1>2, <1>3, EmptiedAhead, PendingThen, Discards
  <1>5. QED
    BY <1>1, <1>2, <1>4 DEF StreamStep, Stream!bvars

\* A reply under way is thrown away, before any of it is sent.
LEMMA AnswerErrorStream ==
    ASSUME IInv, IInv', ~backend, SInv, AnswerError
    PROVE  SInv' /\ StreamStep
  <1>1. /\ buf' = Emptied(buf) /\ mode = "build" /\ mode' = "write"
        /\ UNCHANGED <<backend, sent, written, started>>
    BY DEF AnswerError, ErrorResponse
  <1>2. ~started /\ sent \in Seq(Nat) /\ buf \in Buffer /\ WellFormed(buf)
    BY <1>1, PendingNow DEF SInv
  <1>3. SInv' /\ Stream!Discard
    BY <1>1, <1>2, Discards
  <1>4. QED
    BY <1>3 DEF StreamStep, Stream!BNext

\* The buffer, and what is sent of it, stay as they are.
LEMMA QuietStream ==
    ASSUME SInv, UNCHANGED <<buf, mode, sent, written, started>>
    PROVE  SInv' /\ StreamStep
  <1>1. Pending' = Pending
    BY DEF Pending
  <1>2. QED
    BY <1>1 DEF SInv, StreamStep, Stream!bvars

\* transmit moves on to the next header: nothing is sent.
LEMMA MovedStream ==
    ASSUME IInv, IInv', ~backend, SInv, buf' = [buf EXCEPT !.msgcurr = Current],
           mode' \in {mode, "closing"}, UNCHANGED <<backend, sent, written, started>>
    PROVE  SInv' /\ StreamStep
  <1>1. /\ First(buf') = First(buf) /\ buf'.iov = buf.iov /\ buf'.iovused = buf.iovused
        /\ Ahead(buf') = Ahead(buf)
    BY PendingNow, AheadMoved
  <1>2. Pending' = Pending
    BY <1>1, PendingNow, PendingThen
  <1>3. Positive(buf')
    BY <1>1 DEF SInv, Positive
  <1>4. SInv'
    BY <1>2, <1>3 DEF SInv
  <1>5. QED
    BY <1>2, <1>4 DEF StreamStep, Stream!bvars

\* TRANSMIT_COMPLETE: every header has been left, nothing is pending.
LEMMA CompleteStream ==
    ASSUME IInv, IInv', ~backend, SInv, TransmitComplete
    PROVE  SInv' /\ StreamStep
  <1>1. /\ buf' = [buf EXCEPT !.msgcurr = Current] /\ Current >= Len(buf.msglist) /\ mode' = "read"
        /\ UNCHANGED <<backend, sent, written, started>>
    BY DEF TransmitComplete
  <1>2. buf \in Buffer /\ WellFormed(buf) /\ Contiguous(buf)
    BY PendingNow
  <1>3. /\ First(buf') = First(buf) /\ buf'.iov = buf.iov /\ buf'.iovused = buf.iovused
        /\ Ahead(buf') = Ahead(buf)
    BY <1>1, <1>2, AheadMoved
  <1>4. First(buf') = buf'.iovused
    <2>1. buf'.msgcurr = Current /\ buf'.msglist = buf.msglist
      BY <1>1, <1>2 DEF Buffer
    <2>2. ~(Current < Len(buf.msglist))
      BY <1>1, <1>2, CurrentFacts, BufferTypes
    <2>3. QED
      BY <2>1, <2>2 DEF First
  <1>5. buf' \in Buffer /\ WellFormed(buf') /\ Contiguous(buf')
    BY <1>1 DEF IInv, Base, Client, WellFormed
  <1>6. Ahead(buf') = <<>> /\ Positive(buf')
    BY <1>4, <1>5, NothingAhead
  <1>7. Pending' = Pending /\ Pending' = <<>>
    BY <1>1, <1>3, <1>6, PendingNow, PendingThen
  <1>8. SInv'
    BY <1>1, <1>6, <1>7 DEF SInv
  <1>9. QED
    BY <1>1, <1>7, <1>8 DEF StreamStep, Stream!bvars

\* How many bytes of the entry behind the k first of l may be sent.
LEMMA SendBounds ==
    ASSUME NEW v \in Seq(Iovec), NEW at, NEW k \in Nat, NEW l \in Nat, k < l => at \in 1..Len(v),
           NEW s \in 0..(IF k < l THEN v[at].len - 1 ELSE 0)
    PROVE  s \in Nat /\ (s = 0 \/ (k < l /\ s < v[at].len))
  <1>1. CASE k < l
    <2>1. v[at] \in Iovec
      BY <1>1, ElementOfSeq
    <2>2. v[at].len \in Nat
      BY <2>1 DEF Iovec
    <2>3. s \in 0..v[at].len - 1
      BY <1>1
    <2>4. QED
      BY <1>1, <2>2, <2>3
  <1>2. CASE ~(k < l)
    <2>1. s \in 0..0
      BY <1>2
    <2>2. QED
      BY <2>1
  <1>3. QED
    BY <1>1, <1>2

\* Bytes added are pending.
LEMMA AddedIsPending == \A s, t \in Seq(Nat) : t # <<>> => s \o t # <<>>
  BY ConcatEqualIffEmpty

\* X is the front of P, and Q the rest.
FrontOf(X, P, Q) ==
    Len(X) \in 1..Len(P) /\ SubSeq(P, 1, Len(X)) = X /\ SubSeq(P, Len(X) + 1, Len(P)) = Q

\* What transmit sends is that of what was pending.
LEMMA FrontSent ==
    ASSUME NEW X \in Seq(Nat), NEW Q \in Seq(Nat), X # <<>>, NEW P, P = X \o Q
    PROVE  FrontOf(X, P, Q)
  BY SendCut DEF FrontOf

\* transmit sends: the bytes at the front of what is pending.
LEMMA SentStream ==
    ASSUME IInv, IInv', ~backend, SInv, Current < Len(buf.msglist), mode \in {"write", "mwrite"},
           NEW h, h = buf.msglist[Current + 1], NEW k \in 0..h.len,
           NEW s \in 0..(IF k < h.len THEN buf.iov[h.iov + k + 1].len - 1 ELSE 0), k + s > 0,
           buf' = Advance(Current, k, s),
           sent' = sent \o Entries(buf, h.iov + 1, h.iov + k)
                        \o (IF s = 0 THEN <<>> ELSE SubSeq(Bytes(buf.iov[h.iov + k + 1]), 1, s)),
           started' = (Pending' # <<>>), UNCHANGED <<backend, mode, written>>
    PROVE  SInv' /\ StreamStep
  <1> DEFINE A == Entries(buf, h.iov + 1, h.iov + k)
             B == Part(buf.iov, h.iov + k + 1, s)
             X == A \o B
  <1>1. /\ Pending = Ahead(buf) /\ buf \in Buffer /\ WellFormed(buf) /\ Contiguous(buf)
        /\ Pending' = Ahead(buf') /\ Ahead(buf') \in Seq(Nat) /\ sent \in Seq(Nat) /\ Positive(buf)
    BY PendingNow, PendingThen DEF SInv
  <1>2. /\ Current \in Nat /\ Current + 1 \in 1..Len(buf.msglist) /\ h.iov \in Nat /\ h.len \in Nat
        /\ h.iov + h.len <= buf.iovused /\ buf.iovused <= Len(buf.iov)
    <2>1. Current \in Nat /\ Len(buf.msglist) \in Nat
      BY <1>1, CurrentFacts, BufferTypes
    <2>2. Current + 1 \in 1..Len(buf.msglist)
      BY <2>1
    <2>3. QED
      BY <1>1, <2>1, <2>2, BufferTypes DEF WellFormed, Ordered
  <1>3. k \in Nat /\ k <= h.len
    BY <1>2
  <1>4. s \in Nat /\ (s = 0 \/ (k < h.len /\ s < buf.iov[h.iov + k + 1].len))
    <2>1. ASSUME k < h.len PROVE h.iov + k + 1 \in 1..Len(buf.iov)
      BY <1>1, <1>2, <1>3, <2>1, WithinArray, BufferTypes
    <2>2. buf.iov \in Seq(Iovec)
      BY <1>1, BufferTypes
    <2> DEFINE v == buf.iov
               at == h.iov + k + 1
               l == h.len
    <2>3. /\ v \in Seq(Iovec) /\ l \in Nat /\ (k < l => at \in 1..Len(v))
          /\ s \in 0..(IF k < l THEN v[at].len - 1 ELSE 0)
      BY <1>2, <2>1, <2>2
    <2> HIDE DEF v, at, l
    <2>4. s \in Nat /\ (s = 0 \/ (k < l /\ s < v[at].len))
      BY <1>3, <2>3, SendBounds, ZenonT(60)
    <2>5. QED
      BY <2>4 DEF v, at, l
  <1>5. /\ Positive(buf') /\ A \in Seq(Nat) /\ B \in Seq(Nat) /\ X # <<>>
        /\ Ahead(buf) = X \o Ahead(buf')
    BY <1>1, <1>3, <1>4, Sent, ZenonT(60)
  <1>6. sent' = (sent \o A) \o B
    BY DEF Part
  <1> HIDE DEF A, B
  <1>7. X \in Seq(Nat) /\ sent' = sent \o X /\ sent' \in Seq(Nat)
    <2>1. X \in Seq(Nat) /\ sent \o X \in Seq(Nat)
      BY <1>1, <1>5, ConcatProperties
    <2>2. (sent \o A) \o B = sent \o X
      BY <1>1, <1>5, BytesAssociative
    <2>3. QED
      BY <1>6, <2>1, <2>2
  <1> HIDE DEF X
  <1>8. Stream!Send
    <2> DEFINE n == Len(X)
    <2>1. n \in 1..Len(Pending) /\ SubSeq(Pending, 1, n) = X /\ SubSeq(Pending, n + 1, Len(Pending)) = Pending'
      <3>1. X \in Seq(Nat) /\ X # <<>> /\ Pending' \in Seq(Nat) /\ Pending = X \o Pending'
        BY <1>1, <1>5, <1>7
      <3>2. FrontOf(X, Pending, Pending')
        BY <3>1, FrontSent
      <3>3. QED
        BY <3>2 DEF FrontOf
    <2>2. sent' = sent \o SubSeq(Pending, 1, n)
      BY <1>7, <2>1
    <2> HIDE DEF n
    <2>3. QED
      BY <2>1, <2>2 DEF Stream!Send
  <1>9. SInv'
    BY <1>5, <1>7 DEF SInv
  <1>10. QED
    BY <1>8, <1>9 DEF StreamStep, Stream!BNext

\* transmit
LEMMA TransmitStream ==
    ASSUME IInv, IInv', ~backend, SInv, Transmit
    PROVE  SInv' /\ StreamStep
  <1> DEFINE m == buf.msglist[Current + 1]
  <1>1. /\ mode \in {"write", "mwrite"} /\ Current < Len(buf.msglist)
        /\ UNCHANGED <<backend, written>>
    BY DEF Transmit, Transmitting
  <1>2. ASSUME NEW k \in 0..m.len,
               NEW r \in 0..(IF k < m.len THEN buf.iov[m.iov + k + 1].len - 1 ELSE 0), k + r > 0,
               buf' = Advance(Current, k, r),
               sent' = sent \o Entries(buf, m.iov + 1, m.iov + k)
                            \o (IF r = 0 THEN <<>> ELSE SubSeq(Bytes(buf.iov[m.iov + k + 1]), 1, r)),
               started' = (Pending' # <<>>), mode' = mode
        PROVE  SInv' /\ StreamStep
    BY <1>1, <1>2, SentStream
  <1>3. ASSUME buf' = [buf EXCEPT !.msgcurr = Current], mode' \in {mode, "closing"}, UNCHANGED <<sent, started>>
        PROVE  SInv' /\ StreamStep
    BY <1>1, <1>3, MovedStream
  <1>4. \/ \E k \in 0..m.len :
             \E r \in 0..(IF k < m.len THEN buf.iov[m.iov + k + 1].len - 1 ELSE 0) :
               /\ k + r > 0 /\ buf' = Advance(Current, k, r)
               /\ sent' = sent \o Entries(buf, m.iov + 1, m.iov + k)
                               \o (IF r = 0 THEN <<>> ELSE SubSeq(Bytes(buf.iov[m.iov + k + 1]), 1, r))
               /\ started' = (Pending' # <<>>) /\ mode' = mode
        \/ buf' = [buf EXCEPT !.msgcurr = Current] /\ mode' \in {mode, "closing"} /\ UNCHANGED <<sent, started>>
    BY DEF Transmit
  <1>5. QED
    BY <1>2, <1>3, <1>4

\* Every entry has at least a byte: a header that is full is left, and the next
\* one has room.
LEMMA ChunkPositive ==
    ASSUME "msglist" \notin Faults, buf \in Buffer, WellFormed(buf),
           NEW b, b \in IF HeaderFull(buf, Len(buf.msglist) = 1) THEN ConnAddMsghdr(buf) ELSE {buf},
           NEW len \in Nat \ {0}, NEW n, n = Chunk(b, len, Len(buf.msglist) = 1)
    PROVE  n \in Nat \ {0}
  <1>1. CASE Len(buf.msglist) = 1
    <2>1. b.msgbytes \in Nat /\ b.msgbytes < MaxPayload
      <3>1. CASE HeaderFull(buf, Len(buf.msglist) = 1)
        <4>1. b = AddMsghdr(buf)
          BY <3>1 DEF ConnAddMsghdr
        <4>2. b.msgbytes = 0
          BY <4>1, AddMsghdrFacts
        <4>3. QED
          BY <4>2, Bounds
      <3>2. CASE ~HeaderFull(buf, Len(buf.msglist) = 1)
        <4>1. b = buf /\ ~(buf.msgbytes >= MaxPayload)
          BY <1>1, <3>2 DEF HeaderFull
        <4>2. QED
          BY <4>1, BufferTypes, Bounds
      <3>3. QED
        BY <3>1, <3>2
    <2>2. QED
      BY <1>1, <2>1, Bounds DEF Chunk
  <1>2. CASE Len(buf.msglist) # 1
    BY <1>2 DEF Chunk
  <1>3. QED
    BY <1>1, <1>2

\* The bytes of a new entry are the next ones.
LEMMA NextBytes ==
    ASSUME NEW a \in Nat, NEW n \in Nat \ {0}
    PROVE  /\ Bytes([base |-> a + 1, len |-> n]) = [i \in 1..(a + n) - a |-> a + i]
           /\ Bytes([base |-> a + 1, len |-> n]) \in Seq(Nat) /\ Bytes([base |-> a + 1, len |-> n]) # <<>>
  <1> DEFINE f == [base |-> a + 1, len |-> n]
  <1>1. f \in Iovec /\ f.base = a + 1 /\ f.len = n /\ (a + n) - a = n
    BY DEF Iovec
  <1>2. \A i \in 1..n : (a + 1) + (i - 1) = a + i
    OBVIOUS
  <1>3. Bytes(f) = [i \in 1..n |-> a + i]
    BY <1>1, <1>2 DEF Bytes
  <1>4. Bytes(f) \in Seq(Nat) /\ Len(Bytes(f)) = n
    BY <1>1, BytesAre
  <1>5. Bytes(f) # <<>>
    BY <1>4
  <1>6. QED
    BY <1>1, <1>3, <1>4, <1>5

\* conn_add_iov adds a fragment, or part of one.
LEMMA AddsStream ==
    ASSUME IInv, IInv', ~backend, SInv, "msglist" \notin Faults, todo # <<>>,
           NEW b, b \in IF HeaderFull(buf, Len(buf.msglist) = 1) THEN ConnAddMsghdr(buf) ELSE {buf},
           NEW n, n = Chunk(b, Head(todo), Len(buf.msglist) = 1),
           buf' = Put(EnsureIovSpace(b), n), written' = written + n,
           mode' = Written(todo'), UNCHANGED <<backend, sent, started>>
    PROVE  SInv' /\ StreamStep
  <1> DEFINE U == buf.iovused
             x == [base |-> written + 1, len |-> n]
  <1>1. /\ Pending = Ahead(buf) /\ Ahead(buf) \in Seq(Nat) /\ Base /\ Phases
        /\ buf \in Buffer /\ WellFormed(buf) /\ Contiguous(buf)
        /\ Pending' = Ahead(buf') /\ sent \in Seq(Nat) /\ Positive(buf) /\ written \in Nat
    BY PendingNow, PendingThen DEF SInv, Base
  <1>2. Fresh(buf) /\ mode \in {"build", "write"}
    BY <1>1 DEF Base, Phases
  <1>3. Head(todo) \in Nat \ {0} /\ buf.msglist # <<>>
    BY <1>1, HeadTailProperties DEF Base
  <1>4. n \in Nat \ {0}
    BY <1>1, <1>3, ChunkPositive
  <1>5. Len(b.msglist) = 1 => b.msgbytes + n <= MaxPayload
    <2>1. /\ b \in Buffer /\ (Len(buf.msglist) = 1 => b.msgbytes <= MaxPayload)
          /\ (Len(b.msglist) = 1 => Len(buf.msglist) = 1)
      BY <1>1, <1>3, HeaderChosen
    <2>2. b.msgbytes \in Nat /\ (Len(buf.msglist) = 1) \in BOOLEAN /\ Head(todo) \in Nat
      BY <1>3, <2>1, BufferTypes
    <2>3. Len(buf.msglist) = 1 => b.msgbytes + n <= MaxPayload
      BY <2>1, <2>2, ChunkFacts
    <2>4. QED
      BY <2>1, <2>3
  <1>6. /\ Fresh(buf') /\ buf'.iovused = U + 1 /\ buf'.iov[U + 1] = x
        /\ \A j \in 1..U : buf'.iov[j] = buf.iov[j]
        /\ Ahead(buf') = Ahead(buf) \o Bytes(x)
    <2>1. n \in Nat
      BY <1>4
    <2>2. QED
      <3>1. \A r : r = Put(EnsureIovSpace(b), n) =>
               /\ Fresh(r) /\ r.iovused = buf.iovused + 1
               /\ r.iov[buf.iovused + 1] = [base |-> written + 1, len |-> n]
               /\ \A j \in 1..buf.iovused : r.iov[j] = buf.iov[j]
               /\ Ahead(r) = Ahead(buf) \o Bytes([base |-> written + 1, len |-> n])
        BY <1>1, <1>2, <1>5, <2>1, AddsBytes, SMTT(40)
      <3>2. QED
        BY <3>1, Zenon
  <1>7. Bytes(x) = [i \in 1..written' - written |-> written + i] /\ Bytes(x) \in Seq(Nat) /\ Bytes(x) # <<>>
    BY <1>1, <1>4, NextBytes
  <1>8. Pending' # <<>>
    <2> HIDE DEF x
    <2>1. Ahead(buf) \o Bytes(x) # <<>>
      BY <1>1, <1>7, AddedIsPending
    <2>2. QED
      BY <1>1, <1>6, <2>1
  <1>9. written' \in Nat /\ written' > written
    BY <1>1, <1>4
  <1>10. Stream!Write
    <2> HIDE DEF x
    <2>1. Pending' = Pending \o [i \in 1..written' - written |-> written + i]
      BY <1>1, <1>6, <1>7
    <2>2. QED
      BY <1>9, <2>1 DEF Stream!Write
  <1>11. Positive(buf')
    <2>1. U \in Nat /\ First(buf) = 0 /\ First(buf') = 0
      <3>1. buf' \in Buffer
        BY DEF IInv, Base, WellFormed
      <3>2. QED
        BY <1>1, <1>2, <1>6, <3>1, AheadFresh, BufferTypes
    <2>2. SUFFICES ASSUME NEW j \in 1..U + 1 PROVE buf'.iov[j].len >= 1
      BY <1>6, <2>1 DEF Positive
    <2>3. CASE j = U + 1
      BY <1>4, <1>6, <2>3
    <2>4. CASE j # U + 1
      <3>1. j \in 1..U /\ j \in 0 + 1..U
        BY <2>1, <2>4
      <3>2. buf.iov[j].len >= 1
        BY <1>1, <2>1, <3>1 DEF Positive
      <3>3. QED
        BY <1>6, <3>1, <3>2
    <2>5. QED
      BY <2>3, <2>4
  <1>12. mode' # "read" /\ (mode' = "build" => mode = "build")
    BY <1>2 DEF Written
  <1>13. SInv'
    BY <1>1, <1>8, <1>11, <1>12 DEF SInv
  <1>14. QED
    BY <1>10, <1>13 DEF StreamStep, Stream!BNext

\* conn_ensure_iov_space fails: nothing is added, or the reply is replaced.
LEMMA LosesStream ==
    ASSUME IInv, IInv', ~backend, SInv, todo # <<>>,
           NEW b, b \in IF HeaderFull(buf, Len(buf.msglist) = 1) THEN ConnAddMsghdr(buf) ELSE {buf},
           UNCHANGED <<backend, sent, written, started>>,
           IF mode = "build" /\ Len(todo) = 1
           THEN ErrorResponse(b)
           ELSE /\ buf' = b
                /\ todo' = IF mode = "build" THEN Tail(todo) ELSE <<>>
                /\ mode' = IF mode = "write" THEN "closing" ELSE mode
    PROVE  SInv' /\ StreamStep
  <1>1. /\ Pending = Ahead(buf) /\ Base /\ Phases /\ buf \in Buffer /\ WellFormed(buf) /\ Contiguous(buf)
        /\ Pending' = Ahead(buf') /\ sent \in Seq(Nat) /\ Positive(buf)
    BY PendingNow, PendingThen DEF SInv
  <1>2. Fresh(buf) /\ mode \in {"build", "write"} /\ buf.msglist # <<>>
    BY <1>1 DEF Base, Phases
  <1>3. b \in Buffer /\ WellFormed(b) /\ Fresh(b) /\ b.iov = buf.iov /\ b.iovused = buf.iovused
    BY <1>1, <1>2, HeaderChosen, ChosenIov
  <1>4. CASE mode = "build" /\ Len(todo) = 1
    <2>1. ~started /\ buf' = Emptied(b) /\ mode' = "write"
      BY <1>4 DEF SInv, ErrorResponse
    <2>2. SInv' /\ Stream!Discard
      BY <1>1, <1>3, <2>1, Discards
    <2>3. QED
      BY <2>2 DEF StreamStep, Stream!BNext
  <1>5. CASE ~(mode = "build" /\ Len(todo) = 1)
    <2>1. buf' = b /\ mode' \in {"closing", "build"} /\ (mode' = "build" => mode = "build")
      BY <1>2, <1>5
    <2>2. First(b) = 0 /\ First(buf) = 0 /\ Ahead(b) = Ahead(buf)
      BY <1>1, <1>2, <1>3, AheadFresh
    <2>3. Pending' = Pending /\ Positive(buf')
      BY <1>1, <1>3, <2>1, <2>2 DEF Positive
    <2>4. SInv'
      BY <1>1, <2>1, <2>3 DEF SInv
    <2>5. QED
      BY <2>3, <2>4 DEF StreamStep, Stream!bvars
  <1>6. QED
    BY <1>4, <1>5

\* conn_add_iov
LEMMA AddIovStream ==
    ASSUME IInv, IInv', ~backend, SInv, "msglist" \notin Faults, AddIov
    PROVE  SInv' /\ StreamStep
  <1>1. todo # <<>> /\ UNCHANGED <<backend, sent, started>>
    BY DEF AddIov
  <1>2. PICK b \in IF HeaderFull(buf, Len(buf.msglist) = 1) THEN ConnAddMsghdr(buf) ELSE {buf} :
          \/ LET n == Chunk(b, Head(todo), Len(buf.msglist) = 1)
             IN  /\ buf' = Put(EnsureIovSpace(b), n)
                 /\ written' = written + n
                 /\ mode' = Written(todo')
          \/ /\ UNCHANGED written
             /\ IF mode = "build" /\ Len(todo) = 1
                THEN ErrorResponse(b)
                ELSE /\ buf' = b
                     /\ todo' = IF mode = "build" THEN Tail(todo) ELSE <<>>
                     /\ mode' = IF mode = "write" THEN "closing" ELSE mode
    BY DEF AddIov
  <1>3. QED
    BY <1>1, <1>2, AddsStream, LosesStream

\* A client's bytes leave in the order in which conn_add_iov was given them, each
\* once, through every growth of c->iov and every partial write of transmit, and
\* error_response discards a reply only before any of it is on the wire.  A
\* msglist that cannot grow would let conn_add_iov add empty entries.
THEOREM ClientStream ==
    ASSUME "msglist" \notin Faults
    PROVE  Spec /\ ~backend => StreamSpec
  <1>1. Init /\ ~backend => SInv /\ Stream!Start
    <2>1. SUFFICES ASSUME Init, ~backend PROVE SInv /\ Stream!Start
      OBVIOUS
    <2>2. IInv
      BY <2>1, InitInv
    <2>3. buf \in Buffer /\ WellFormed(buf) /\ Contiguous(buf) /\ Pending = Ahead(buf)
      BY <2>1, <2>2, PendingNow
    <2>4. buf.msglist = <<>> /\ buf.msgcurr = 0 /\ buf.iovused = 0
      BY <2>1 DEF Init
    <2>5. First(buf) = buf.iovused
      BY <2>4 DEF First
    <2>6. Pending = <<>> /\ Positive(buf)
      BY <2>3, <2>5, NothingAhead
    <2>7. sent = <<>> /\ written = 0 /\ started = FALSE /\ mode = "read"
      BY <2>1 DEF Init
    <2>8. QED
      BY <2>2, <2>6, <2>7 DEF SInv, Stream!Start
  <1>2. IInv /\ IInv' /\ ~backend /\ SInv /\ [Next]_vars => ~backend' /\ SInv' /\ [Stream!BNext]_(Stream!bvars)
    <2>1. SUFFICES ASSUME IInv, IInv', ~backend, SInv, [Next]_vars PROVE ~backend' /\ SInv' /\ StreamStep
      BY DEF StreamStep
    <2>2. backend' = backend
      BY <2>1 DEF Next, vars, AddIov, ProcessCommand, AnswerError, BuildError, MemcacheGet, PeerReset, Transmit,
                  TransmitComplete
    <2>3. CASE MemcacheGet
      BY <2>1, <2>3 DEF MemcacheGet
    <2>4. CASE BuildError \/ PeerReset \/ UNCHANGED vars
      <3>1. UNCHANGED <<buf, mode, sent, written, started>>
        BY <2>4 DEF BuildError, PeerReset, vars
      <3>2. QED
        BY <2>1, <2>2, <3>1, QuietStream
    <2>5. QED
      BY <2>1, <2>2, <2>3, <2>4, AddIovStream, ProcessCommandStream, AnswerErrorStream, TransmitStream,
         CompleteStream DEF Next
  <1>3. QED
    BY <1>1, <1>2, Invariance, PTL DEF Spec, StreamSpec, Stream!BSpec
================================================================================
