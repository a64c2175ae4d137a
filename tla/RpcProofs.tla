------------------------------- MODULE RpcProofs -------------------------------
(***************************************************************************)
(* Invariants of Rpc, proved for any number of clients, backends and gets, *)
(* any queue and pointer size, with and without failures.                  *)
(*                                                                         *)
(* The argument: as long as the worker is alive, each backend connection   *)
(* has as many slots in use as requests unsent, unanswered or answered and *)
(* not parsed (InFlight), so that a response always finds a slot; what has *)
(* arrived is a sequence of whole answers but for its two ends (WellCut),  *)
(* so that only a block follows a VALUE line; and unless the queue was     *)
(* compacted too little or could not grow, the slots hold the clients that *)
(* are owed a response (Matched), each as often as it still waits for      *)
(* (Awaited).                                                              *)
(***************************************************************************)
EXTENDS Rpc, FiniteSetTheorems, SequenceTheorems, TLAPS

USE RpcAssumption

Parts == {"VALUE", "END", "block"}
ClientStates == {"reading", "conn_rpc_wait", "conn_rpc_done", "conn_closing"}
BackendStates == {"conn_new_cmd", "conn_read", "conn_parse_cmd", "conn_swallow", "conn_mwrite",
                  "conn_closing", "closed"}

Queue == [rpc : Seq(Clients \cup {Wild}), size : Nat, used : Nat, done : Nat]

\* The types of all variables, those that TypeOK leaves open included.
Types ==
    /\ cstate \in [Clients -> ClientStates]
    /\ rpcwaiting \in [Clients -> Int]
    /\ state \in [Backends -> BackendStates]
    /\ queue \in [Backends -> Queue]
    /\ pending \in [Backends -> Nat]
    /\ asked \in [Backends -> Nat]
    /\ rbuf \in [Backends -> Seq(Parts)]
    /\ sock \in [Backends -> Seq(Parts)]
    /\ late \in [Backends -> BOOLEAN]
    /\ dead \in BOOLEAN
    /\ owed \in [Backends -> Seq(Clients)]
    /\ flaws \subseteq Flaws

\* A queue whose slots in use are all in the array.
Within(q) == q.used <= q.size /\ q.size = Len(q.rpc)

\* The indices of a queue, also when the process has come to its end.
Bounded ==
    /\ "full" \in flaws => dead
    /\ \A b \in Backends :
        /\ queue[b].done <= queue[b].used
        /\ "full" \notin flaws => Within(queue[b])

\* What the worker has yet to parse, and the response lines in it.
Stream(b) == rbuf[b] \o sock[b]
Lines(s) == {k \in 1..Len(s) : s[k] # "block"}

InFlight(b) ==
    /\ Len(owed[b]) = queue[b].used - queue[b].done
    /\ Len(owed[b]) = pending[b] + asked[b] + Cardinality(Lines(Stream(b)))

\* In s, with the last block late or not, a block is what comes next.
BlockNext(s, l) == IF s = <<>> THEN l ELSE s[1] = "block"

\* In s a block follows each VALUE line and nothing else, except that the first
\* VALUE line may have been parsed and the last block be late.
WholeAnswers(s, l) ==
    /\ \A k \in 2..Len(s) : s[k] = "block" <=> s[k - 1] = "VALUE"
    /\ s # <<>> => (l <=> s[Len(s)] = "VALUE")

WellCut(b) ==
    /\ WholeAnswers(Stream(b), late[b])
    /\ state[b] = "conn_swallow" => BlockNext(Stream(b), late[b])
    /\ state[b] = "conn_parse_cmd" => rbuf[b] # <<>>

\* The queue is intact and no block was forgotten.
Undisturbed == QueueIntact /\ "interrupted" \notin flaws

\* Only a get forwarded at that moment keeps a block from being swallowed.
InSync(b) == Undisturbed => (BlockNext(Stream(b), late[b]) => state[b] = "conn_swallow")

\* The slots in use are those of the clients that are owed a response.
Matched(b) ==
    QueueIntact => \A k \in 1..Len(owed[b]) : owed[b][k] = queue[b].rpc[queue[b].done + k]

\* The backends that have not answered a client's request.
Owing(c) == {b \in Backends : \E k \in 1..Len(owed[b]) : owed[b][k] = c}

Awaited ==
    QueueIntact =>
        /\ \A b \in Backends : \A k, l \in 1..Len(owed[b]) : owed[b][k] = owed[b][l] => k = l
        /\ \A c \in Clients : /\ rpcwaiting[c] = Cardinality(Owing(c))
                              /\ cstate[c] # "conn_rpc_wait" => rpcwaiting[c] = 0

IInv ==
    /\ Types
    /\ Bounded
    /\ StaysInSync
    /\ ~dead => /\ \A b \in Backends : InFlight(b) /\ WellCut(b) /\ InSync(b) /\ Matched(b)
                /\ Awaited
-----------------------------------------------------------------------------
(* What arrives: lemmas on sequences of parts *)

\* Taking the first element off is the same before and after a concatenation.
LEMMA ConcatTail ==
    ASSUME NEW S, NEW r \in Seq(S), NEW s \in Seq(S), r # <<>>
    PROVE  /\ r \o s \in Seq(S) /\ r \o s # <<>>
           /\ Head(r \o s) = Head(r)
           /\ Tail(r) \o s = Tail(r \o s)
  <1> DEFINE c == r \o s
  <1>1. Len(r) \in Nat \ {0} /\ Len(s) \in Nat
    BY EmptySeq, LenProperties
  <1>2. /\ c \in Seq(S) /\ Len(c) = Len(r) + Len(s)
        /\ \A k \in 1..Len(r) + Len(s) : c[k] = IF k <= Len(r) THEN r[k] ELSE s[k - Len(r)]
    BY ConcatProperties
  <1>3. c # <<>>
    BY <1>1, <1>2
  <1>4. /\ Tail(r) \in Seq(S) /\ Len(Tail(r)) = Len(r) - 1
        /\ \A k \in 1..Len(Tail(r)) : Tail(r)[k] = r[k + 1]
    BY HeadTailProperties
  <1> HIDE DEF c
  <1>5. /\ Tail(c) \in Seq(S) /\ Len(Tail(c)) = Len(c) - 1
        /\ \A k \in 1..Len(Tail(c)) : Tail(c)[k] = c[k + 1]
    BY <1>2, <1>3, HeadTailProperties
  <1> DEFINE t == Tail(r)
             d == t \o s
  <1>6. /\ d \in Seq(S) /\ Len(d) = Len(t) + Len(s)
        /\ \A k \in 1..Len(t) + Len(s) : d[k] = IF k <= Len(t) THEN t[k] ELSE s[k - Len(t)]
    <2>1. t \in Seq(S)
      BY <1>4
    <2> HIDE DEF t
    <2>2. QED
      BY <2>1, ConcatProperties
  <1> HIDE DEF d, t
  <1>7. d = Tail(c)
    <2>1. Len(d) = Len(Tail(c))
      BY <1>1, <1>2, <1>4, <1>5, <1>6 DEF t
    <2>2. ASSUME NEW k \in 1..Len(d) PROVE d[k] = Tail(c)[k]
      <3>1. Tail(c)[k] = c[k + 1]
        BY <1>5, <2>1
      <3>2. c[k + 1] = IF k + 1 <= Len(r) THEN r[k + 1] ELSE s[k + 1 - Len(r)]
        BY <1>1, <1>2, <1>4, <1>6 DEF t
      <3>3. d[k] = IF k <= Len(r) - 1 THEN r[k + 1] ELSE s[k - (Len(r) - 1)]
        BY <1>1, <1>4, <1>6 DEF t
      <3>4. k + 1 - Len(r) = k - (Len(r) - 1) /\ (k + 1 <= Len(r) <=> k <= Len(r) - 1)
        BY <1>1, <1>4, <1>6 DEF t
      <3>5. QED
        BY <3>1, <3>2, <3>3, <3>4
    <2>3. QED
      BY <1>5, <1>6, <2>1, <2>2, SeqEqual
  <1>8. Head(c) = Head(r)
    BY <1>1, <1>2, <1>3
  <1>9. QED
    BY <1>2, <1>3, <1>7, <1>8 DEF c, d, t

\* The response lines of a sequence can be counted.
LEMMA LinesCount ==
    ASSUME NEW s \in Seq(Parts)
    PROVE  IsFiniteSet(Lines(s)) /\ Cardinality(Lines(s)) \in Nat
  <1>1. Len(s) \in Nat
    BY LenProperties
  <1>2. IsFiniteSet(1..Len(s))
    BY <1>1, FS_Interval
  <1>3. Lines(s) \in SUBSET (1..Len(s))
    BY DEF Lines
  <1>4. IsFiniteSet(Lines(s))
    BY <1>2, <1>3, FS_Subset
  <1>5. QED
    BY <1>4, FS_CardinalityType

\* A part that arrives is one response line more unless it is a block.
LEMMA LinesAppend ==
    ASSUME NEW s \in Seq(Parts), NEW e \in Parts
    PROVE  Cardinality(Lines(Append(s, e))) =
              IF e = "block" THEN Cardinality(Lines(s)) ELSE Cardinality(Lines(s)) + 1
  <1> DEFINE n == Len(s) + 1
  <1>1. Len(s) \in Nat
    BY LenProperties
  <1>2. /\ Len(Append(s, e)) = n /\ Append(s, e)[n] = e
        /\ \A k \in 1..Len(s) : Append(s, e)[k] = s[k]
    BY AppendProperties
  <1>3. Lines(Append(s, e)) = IF e = "block" THEN Lines(s) ELSE Lines(s) \cup {n}
    <2> DEFINE a == Append(s, e)
    <2>1. Len(a) = n /\ a[n] = e /\ \A k \in 1..Len(s) : a[k] = s[k]
      BY <1>2
    <2>2. 1..n = (1..Len(s)) \cup {n}
      BY <1>1
    <2> HIDE DEF a, n
    <2>3. Lines(a) = IF e = "block" THEN Lines(s) ELSE Lines(s) \cup {n}
      BY <2>1, <2>2 DEF Lines
    <2>4. QED
      BY <2>3 DEF a
  <1>4. n \notin Lines(s)
    BY <1>1 DEF Lines
  <1>5. Cardinality(Lines(s) \cup {n}) =
          IF n \in Lines(s) THEN Cardinality(Lines(s)) ELSE Cardinality(Lines(s)) + 1
    BY LinesCount, FS_AddElement
  <1>6. QED
    BY <1>3, <1>4, <1>5

\* A part that is taken is one response line fewer unless it is a block.
LEMMA LinesTail ==
    ASSUME NEW s \in Seq(Parts), s # <<>>
    PROVE  Cardinality(Lines(s)) =
              IF Head(s) = "block" THEN Cardinality(Lines(Tail(s)))
                                   ELSE Cardinality(Lines(Tail(s))) + 1
  <1> DEFINE t == Tail(s)
             R == Lines(s) \ {1}
             f == [k \in Lines(t) |-> k + 1]
  <1>1. Len(s) \in Nat \ {0} /\ Head(s) = s[1]
    BY EmptySeq
  <1>2. /\ t \in Seq(Parts) /\ Len(t) = Len(s) - 1
        /\ \A k \in 1..Len(t) : t[k] = s[k + 1]
    BY HeadTailProperties
  <1> HIDE DEF t
  <1>3. IsFiniteSet(Lines(t)) /\ IsFiniteSet(Lines(s)) /\ Cardinality(Lines(t)) \in Nat
    BY <1>2, LinesCount
  <1>4. f \in Bijection(Lines(t), R)
    <2>1. \A k \in Lines(t) : k \in Int /\ k + 1 \in R
      BY <1>1, <1>2 DEF Lines
    <2>2. \A k \in R : k \in Int /\ k - 1 \in Lines(t)
      BY <1>1, <1>2 DEF Lines
    <2>3. f \in [Lines(t) -> R]
      BY <2>1
    <2>4. \A k, l \in Lines(t) : f[k] = f[l] => k = l
      BY <2>1
    <2>5. \A k \in R : k - 1 \in Lines(t) /\ f[k - 1] = k
      BY <2>2
    <2> HIDE DEF f, R
    <2>6. f \in Injection(Lines(t), R)
      BY <2>3, <2>4 DEF Injection, IsInjective
    <2>7. f \in Surjection(Lines(t), R)
      BY <2>3, <2>5 DEF Surjection
    <2>8. QED
      BY <2>6, <2>7 DEF Bijection
  <1>5. Cardinality(R) = Cardinality(Lines(t))
    <2>1. ExistsBijection(Lines(t), R)
      BY <1>4 DEF ExistsBijection
    <2> HIDE DEF R
    <2>2. QED
      BY <1>3, <2>1, FS_Bijection
  <1>6. Cardinality(R) = IF 1 \in Lines(s) THEN Cardinality(Lines(s)) - 1 ELSE Cardinality(Lines(s))
    BY <1>3, FS_RemoveElement
  <1>7. 1 \in Lines(s) <=> Head(s) # "block"
    BY <1>1 DEF Lines
  <1>8. Cardinality(Lines(s)) \in Nat
    BY LinesCount
  <1>9. QED
    BY <1>3, <1>5, <1>6, <1>7, <1>8 DEF t

\* The part that follows the one taken is a block if that was a VALUE line.
LEMMA WholeTail ==
    ASSUME NEW s \in Seq(Parts), s # <<>>, NEW l \in BOOLEAN, WholeAnswers(s, l)
    PROVE  WholeAnswers(Tail(s), l) /\ (BlockNext(Tail(s), l) <=> Head(s) = "VALUE")
  <1> DEFINE t == Tail(s)
  <1>1. Len(s) \in Nat \ {0} /\ Head(s) = s[1]
    BY EmptySeq
  <1>2. /\ t \in Seq(Parts) /\ Len(t) = Len(s) - 1
        /\ \A k \in 1..Len(t) : t[k] = s[k + 1]
    BY HeadTailProperties
  <1> HIDE DEF t
  <1>3. t = <<>> <=> Len(s) = 1
    BY <1>1, <1>2, EmptySeq
  <1>4. WholeAnswers(t, l)
    <2>1. ASSUME NEW k \in 2..Len(t) PROVE t[k] = "block" <=> t[k - 1] = "VALUE"
      <3>1. k + 1 \in 2..Len(s) /\ k \in 1..Len(t) /\ k - 1 \in 1..Len(t) /\ k + 1 - 1 = k
        BY <1>1, <1>2
      <3>2. t[k] = s[k + 1] /\ t[k - 1] = s[k - 1 + 1]
        BY <1>2, <3>1
      <3>3. s[k + 1] = "block" <=> s[k + 1 - 1] = "VALUE"
        BY <3>1 DEF WholeAnswers
      <3>4. QED
        BY <1>1, <1>2, <3>1, <3>2, <3>3
    <2>2. t # <<>> => t[Len(t)] = s[Len(s)]
      <3>1. t # <<>> => Len(t) \in 1..Len(t) /\ Len(t) + 1 = Len(s)
        BY <1>1, <1>2, EmptySeq
      <3>2. QED
        BY <1>2, <3>1
    <2>3. QED
      BY <2>1, <2>2 DEF WholeAnswers
  <1>5. BlockNext(t, l) <=> Head(s) = "VALUE"
    <2>1. CASE t = <<>>
      BY <1>1, <1>3, <2>1 DEF BlockNext, WholeAnswers
    <2>2. CASE t # <<>>
      <3>1. 2 \in 2..Len(s) /\ 1 \in 1..Len(t) /\ 1 + 1 = 2 /\ 2 - 1 = 1
        BY <1>1, <1>2, <1>3, <2>2
      <3>2. t[1] = s[2]
        BY <1>2, <3>1
      <3>3. s[2] = "block" <=> s[1] = "VALUE"
        BY <3>1 DEF WholeAnswers
      <3>4. QED
        BY <1>1, <2>2, <3>2, <3>3 DEF BlockNext
    <2>3. QED
      BY <2>1, <2>2
  <1>6. QED
    BY <1>4, <1>5 DEF t

\* A line arrives when no block is late, a block when it is.
LEMMA WholeAppend ==
    ASSUME NEW s \in Seq(Parts), NEW l \in BOOLEAN, WholeAnswers(s, l),
           NEW e \in Parts, e = "block" <=> l
    PROVE  /\ WholeAnswers(Append(s, e), e = "VALUE")
           /\ BlockNext(Append(s, e), e = "VALUE") <=> BlockNext(s, l)
  <1> DEFINE a == Append(s, e)
             n == Len(s) + 1
  <1>1. Len(s) \in Nat
    BY LenProperties
  <1>2. /\ a # <<>> /\ Len(a) = n /\ a[n] = e
        /\ \A k \in 1..Len(s) : a[k] = s[k]
    BY AppendProperties
  <1> HIDE DEF a
  <1>3. ASSUME NEW k \in 2..Len(a) PROVE a[k] = "block" <=> a[k - 1] = "VALUE"
    <2>1. CASE k = n
      <3>1. Len(s) \in 1..Len(s) /\ k - 1 = Len(s) /\ s # <<>>
        BY <1>1, <1>2, <2>1
      <3>2. a[k - 1] = s[Len(s)] /\ a[k] = e
        BY <1>2, <2>1, <3>1
      <3>3. l <=> s[Len(s)] = "VALUE"
        BY <3>1 DEF WholeAnswers
      <3>4. QED
        BY <3>2, <3>3
    <2>2. CASE k # n
      <3>1. k \in 2..Len(s) /\ k \in 1..Len(s) /\ k - 1 \in 1..Len(s)
        BY <1>1, <1>2, <2>2
      <3>2. QED
        BY <1>2, <3>1 DEF WholeAnswers
    <2>3. QED
      BY <2>1, <2>2
  <1>4. BlockNext(a, e = "VALUE") <=> BlockNext(s, l)
    <2>1. CASE s = <<>>
      BY <1>1, <1>2, <2>1 DEF BlockNext
    <2>2. CASE s # <<>>
      <3>1. 1 \in 1..Len(s)
        BY <2>2, EmptySeq
      <3>2. QED
        BY <1>2, <2>2, <3>1 DEF BlockNext
    <2>3. QED
      BY <2>1, <2>2
  <1>5. QED
    BY <1>2, <1>3, <1>4 DEF WholeAnswers, a

-----------------------------------------------------------------------------
(* The queue: lemmas on its operations *)

\* What memmove moves of a queue of a slots, counted in bytes, is within it.
LEMMA MovedWithin ==
    ASSUME NEW a \in Nat
    PROVE  /\ a \div PtrBytes \in Nat /\ a \div PtrBytes <= a
           /\ a % PtrBytes # 0 => a \div PtrBytes + 1 <= a
  <1> DEFINE w == a \div PtrBytes
             r == a % PtrBytes
  <1>1. w \in Int /\ r \in 0..PtrBytes - 1 /\ a = PtrBytes * w + r
    OBVIOUS
  <1> HIDE DEF w, r
  <1>2. w >= 0
    BY <1>1
  <1>3. w <= PtrBytes * w
    BY <1>2, <1>1
  <1>4. QED
    BY <1>1, <1>2, <1>3 DEF w, r

\* The queue e has these components.
Components(e, rpc, size, used, done) ==
    e \in Queue /\ e.rpc = rpc /\ e.size = size /\ e.used = used /\ e.done = done

\* The records that the queue's operations make.
LEMMA QueueExcept ==
    ASSUME NEW q \in Queue, NEW r \in Seq(Clients \cup {Wild}), NEW z \in Nat, NEW u \in Nat, NEW d \in Nat
    PROVE  /\ Components([q EXCEPT !.rpc = r, !.size = z], r, z, q.used, q.done)
           /\ Components([q EXCEPT !.rpc = r, !.used = u, !.done = d], r, q.size, u, d)
           /\ Components([q EXCEPT !.rpc = r, !.used = u], r, q.size, u, q.done)
           /\ Components([q EXCEPT !.done = d], q.rpc, q.size, q.used, d)
  BY DEF Queue, Components

\* conn_ensure_rpc_space keeps the number of slots in use and their bounds.
LEMMA EnsureWithin ==
    ASSUME NEW q \in Queue, NEW how, q.done <= q.used, Within(q)
    PROVE  LET e == EnsureRpcSpace(q, how)
           IN  /\ e \in Queue /\ e.done <= e.used /\ Within(e)
               /\ e.used - e.done = q.used - q.done
  <1> DEFINE e == EnsureRpcSpace(q, how)
  <1>1. /\ q.rpc \in Seq(Clients \cup {Wild}) /\ q.size \in Nat /\ q.used \in Nat /\ q.done \in Nat
        /\ q.used <= q.size /\ q.size = Len(q.rpc)
    BY DEF Queue, Within
  <1>2. CASE e = q
    BY <1>2
  <1>3. CASE e = Doubled(q)
    <2> DEFINE w == [i \in 1..q.size |-> Wild]
    <2>1. w \in Seq(Clients \cup {Wild}) /\ Len(w) = q.size
      BY <1>1
    <2> HIDE DEF w
    <2>2. q.rpc \o w \in Seq(Clients \cup {Wild}) /\ Len(q.rpc \o w) = q.size + q.size
      <3> DEFINE S == Clients \cup {Wild}
      <3>1. q.rpc \in Seq(S) /\ w \in Seq(S)
        BY <1>1, <2>1
      <3> HIDE DEF S
      <3>2. q.rpc \o w \in Seq(S) /\ Len(q.rpc \o w) = Len(q.rpc) + Len(w)
        BY <3>1, ConcatProperties
      <3>3. QED
        BY <1>1, <2>1, <3>2 DEF S
    <2>3. Components(Doubled(q), q.rpc \o w, 2 * q.size, q.used, q.done)
      <3> DEFINE r == q.rpc \o w
                 z == 2 * q.size
      <3>1. Doubled(q) = [q EXCEPT !.rpc = r, !.size = z]
        BY DEF Doubled, w
      <3>2. r \in Seq(Clients \cup {Wild}) /\ z \in Nat
        BY <1>1, <2>2
      <3> HIDE DEF r, z
      <3>3. Components([q EXCEPT !.rpc = r, !.size = z], r, z, q.used, q.done)
        BY <1>1, <3>2, QueueExcept
      <3>4. QED
        BY <3>1, <3>3 DEF r, z
    <2>4. QED
      BY <1>1, <1>3, <2>2, <2>3 DEF Components, Within
  <1>4. CASE e = Compacted(q, how)
    <2> DEFINE used == q.used - q.done
               whole == used \div PtrBytes
               slot(i) == CASE i <= whole -> q.rpc[q.done + i]
                            [] i = whole + 1 /\ used % PtrBytes # 0 /\ q.rpc[i] # q.rpc[q.done + i] ->
                                 CASE how = "old" -> q.rpc[i]
                                   [] how = "new" -> q.rpc[q.done + i]
                                   [] OTHER       -> Wild
                            [] OTHER -> q.rpc[i]
               rpc == [i \in 1..q.size |-> slot(i)]
    <2>1. used \in Nat /\ used <= q.used
      BY <1>1
    <2>2. whole \in Nat /\ whole <= used /\ (used % PtrBytes # 0 => whole + 1 <= used)
      BY <2>1, MovedWithin
    <2>3. ASSUME NEW i \in 1..q.size PROVE slot(i) \in Clients \cup {Wild}
      <3>1. q.rpc[i] \in Clients \cup {Wild}
        BY <1>1
      <3>2. (i <= whole \/ (i = whole + 1 /\ used % PtrBytes # 0)) => q.rpc[q.done + i] \in Clients \cup {Wild}
        <4>1. (i <= whole \/ (i = whole + 1 /\ used % PtrBytes # 0)) => i <= used
          <5> HIDE DEF whole, used
          <5>1. QED
            BY <2>1, <2>2
        <4>2. i <= used => q.done + i \in 1..q.size
          BY <1>1
        <4>3. QED
          BY <1>1, <4>1, <4>2
      <3> HIDE DEF used, whole
      <3>3. QED
        BY <3>1, <3>2
    <2>4. rpc \in [1..q.size -> Clients \cup {Wild}]
      BY <2>3
    <2>5. DOMAIN q.rpc = 1..q.size
      BY <1>1
    <2>6. rpc \in Seq(Clients \cup {Wild}) /\ Len(rpc) = q.size
      <3> HIDE DEF rpc
      <3>1. QED
        BY <1>1, <2>4
    <2>7. Components(Compacted(q, how), rpc, q.size, used, 0)
      BY <2>1, <2>5, <2>6, QueueExcept DEF Compacted
    <2> HIDE DEF rpc
    <2>8. QED
      BY <1>1, <1>4, <2>1, <2>6, <2>7 DEF Components, Within
  <1>5. QED
    BY <1>2, <1>3, <1>4 DEF EnsureRpcSpace

\* A queue that has room, that holds no answered request or that holds no other
\* keeps its requests.
LEMMA EnsureKeeps ==
    ASSUME NEW q \in Queue, NEW how, q.done <= q.used, Within(q),
           HasRoom(q) \/ q.done \in {0, q.used}
    PROVE  LET e == EnsureRpcSpace(q, how)
           IN  \A k \in 1..q.used - q.done : e.rpc[e.done + k] = q.rpc[q.done + k]
  <1> DEFINE e == EnsureRpcSpace(q, how)
  <1>1. /\ q.rpc \in Seq(Clients \cup {Wild}) /\ q.size \in Nat /\ q.used \in Nat /\ q.done \in Nat
        /\ q.used <= q.size /\ q.size = Len(q.rpc)
    BY DEF Queue, Within
  <1>2. CASE e = q
    BY <1>2
  <1>3. CASE e = Doubled(q)
    <2> DEFINE w == [i \in 1..q.size |-> Wild]
    <2>1. w \in Seq(Clients \cup {Wild}) /\ Len(w) = q.size
      BY <1>1
    <2> HIDE DEF w
    <2>2. /\ q.rpc \o w \in Seq(Clients \cup {Wild})
          /\ \A k \in 1..q.size : (q.rpc \o w)[k] = q.rpc[k]
      <3> DEFINE S == Clients \cup {Wild}
      <3>1. q.rpc \in Seq(S) /\ w \in Seq(S)
        BY <1>1, <2>1
      <3> HIDE DEF S
      <3>2. /\ q.rpc \o w \in Seq(S)
            /\ \A k \in 1..Len(q.rpc) + Len(w) :
                  (q.rpc \o w)[k] = IF k <= Len(q.rpc) THEN q.rpc[k] ELSE w[k - Len(q.rpc)]
        BY <3>1, ConcatProperties
      <3>3. QED
        BY <1>1, <2>1, <3>2 DEF S
    <2>3. Components(Doubled(q), q.rpc \o w, 2 * q.size, q.used, q.done)
      <3> DEFINE r == q.rpc \o w
                 z == 2 * q.size
      <3>1. Doubled(q) = [q EXCEPT !.rpc = r, !.size = z]
        BY DEF Doubled, w
      <3>2. r \in Seq(Clients \cup {Wild}) /\ z \in Nat
        BY <1>1, <2>2
      <3> HIDE DEF r, z
      <3>3. Components([q EXCEPT !.rpc = r, !.size = z], r, z, q.used, q.done)
        BY <1>1, <3>2, QueueExcept
      <3>4. QED
        BY <3>1, <3>3 DEF r, z
    <2>4. QED
      BY <1>1, <1>3, <2>2, <2>3 DEF Components
  <1>4. CASE q.done # 0 /\ ~HasRoom(q)
    BY <1>1, <1>4
  <1>5. QED
    BY <1>2, <1>3, <1>4 DEF EnsureRpcSpace

\* The client is put behind the others.
LEMMA EnqueueBehind ==
    ASSUME NEW q \in Queue, NEW c \in Clients, q.done <= q.used, Within(q)
    PROVE  LET e == Enqueue(q, c)
           IN  /\ e \in Queue /\ e.done = q.done /\ e.used = q.used + 1 /\ e.size = q.size
               /\ e.rpc[e.used] = c
               /\ \A k \in 1..q.used : e.rpc[k] = q.rpc[k]
               /\ e.used <= e.size => Within(e)
  <1> DEFINE e == Enqueue(q, c)
             rpc == IF q.used < Len(q.rpc) THEN [q.rpc EXCEPT ![q.used + 1] = c] ELSE Append(q.rpc, c)
  <1>1. /\ q.rpc \in Seq(Clients \cup {Wild}) /\ q.size \in Nat /\ q.used \in Nat /\ q.done \in Nat
        /\ q.used <= q.size /\ q.size = Len(q.rpc)
    BY DEF Queue, Within
  <1>2. /\ rpc \in Seq(Clients \cup {Wild}) /\ rpc[q.used + 1] = c
        /\ \A k \in 1..q.used : rpc[k] = q.rpc[k]
        /\ q.used < q.size => Len(rpc) = q.size
    <2>1. CASE q.used < Len(q.rpc)
      <3>1. rpc = [q.rpc EXCEPT ![q.used + 1] = c] /\ q.used + 1 \in 1..Len(q.rpc)
        BY <1>1, <2>1
      <3>2. QED
        <4> DEFINE S == Clients \cup {Wild}
        <4>1. q.rpc \in Seq(S) /\ c \in S
          BY <1>1
        <4> HIDE DEF S
        <4>2. /\ [q.rpc EXCEPT ![q.used + 1] = c] \in Seq(S)
              /\ Len([q.rpc EXCEPT ![q.used + 1] = c]) = Len(q.rpc)
              /\ \A j \in 1..Len(q.rpc) : [q.rpc EXCEPT ![q.used + 1] = c][j] =
                                           IF j = q.used + 1 THEN c ELSE q.rpc[j]
          BY <3>1, <4>1, ExceptSeq
        <4>3. QED
          BY <1>1, <3>1, <4>2 DEF S
    <2>2. CASE ~(q.used < Len(q.rpc))
      <3>1. rpc = Append(q.rpc, c) /\ q.used = Len(q.rpc) /\ ~(q.used < q.size)
        BY <1>1, <2>2
      <3>2. QED
        BY <1>1, <3>1, AppendProperties
    <2>3. QED
      BY <2>1, <2>2
  <1>3. Components(e, rpc, q.size, q.used + 1, q.done)
    <2> DEFINE u == q.used + 1
    <2>1. e = [q EXCEPT !.rpc = rpc, !.used = u]
      BY DEF Enqueue
    <2>2. rpc \in Seq(Clients \cup {Wild}) /\ u \in Nat
      BY <1>1, <1>2
    <2> HIDE DEF rpc, u, e
    <2>3. Components([q EXCEPT !.rpc = rpc, !.used = u], rpc, q.size, u, q.done)
      BY <1>1, <2>2, QueueExcept
    <2>4. QED
      BY <2>1, <2>3 DEF u
  <1> HIDE DEF rpc
  <1>4. QED
    BY <1>1, <1>2, <1>3 DEF Components, Within

\* What memcache_get does to the queue of a backend: one slot more is in use, in
\* the array unless the queue was full and could not grow, and unless it was
\* compacted with requests in flight the slots hold the old requests and the new.
LEMMA Forwarded ==
    ASSUME NEW q \in Queue, NEW how, NEW c \in Clients, q.done <= q.used, Within(q)
    PROVE  LET e == Enqueue(EnsureRpcSpace(q, how), c)
               n == q.used - q.done
           IN  /\ e \in Queue /\ e.done <= e.used
               /\ e.used - e.done = n + 1
               /\ HasRoom(q) \/ e.used <= e.size => Within(e)
               /\ HasRoom(q) \/ q.done \in {0, q.used} =>
                      /\ e.rpc[e.done + (n + 1)] = c
                      /\ \A k \in 1..n : e.rpc[e.done + k] = q.rpc[q.done + k]
  <1> DEFINE p == EnsureRpcSpace(q, how)
             e == Enqueue(p, c)
             n == q.used - q.done
  <1>1. p \in Queue /\ p.done <= p.used /\ Within(p) /\ p.used - p.done = n
    BY EnsureWithin
  <1>2. HasRoom(q) => p = q
    BY DEF EnsureRpcSpace
  <1>3. HasRoom(q) \/ q.done \in {0, q.used} => \A k \in 1..n : p.rpc[p.done + k] = q.rpc[q.done + k]
    BY EnsureKeeps
  <1> HIDE DEF p
  <1>4. /\ e \in Queue /\ e.done = p.done /\ e.used = p.used + 1 /\ e.size = p.size
        /\ e.rpc[e.used] = c
        /\ \A k \in 1..p.used : e.rpc[k] = p.rpc[k]
        /\ e.used <= e.size => Within(e)
    BY <1>1, EnqueueBehind
  <1> HIDE DEF e
  <1>5. /\ p.used \in Nat /\ p.done \in Nat /\ e.used \in Nat /\ e.size \in Nat /\ e.done \in Nat
        /\ q.used \in Nat /\ q.done \in Nat /\ q.size \in Nat
    BY <1>1, <1>4 DEF Queue
  <1>6. e.done <= e.used /\ e.used - e.done = n + 1 /\ e.used = e.done + (n + 1)
    BY <1>1, <1>4, <1>5
  <1>7. HasRoom(q) \/ e.used <= e.size => Within(e)
    BY <1>2, <1>4, <1>5 DEF HasRoom
  <1>8. ASSUME NEW k \in 1..n PROVE e.rpc[e.done + k] = p.rpc[p.done + k]
    <2>1. p.done + k \in 1..p.used
      BY <1>1, <1>5
    <2>2. QED
      BY <1>4, <2>1
  <1>9. QED
    BY <1>3, <1>4, <1>6, <1>7, <1>8 DEF e, p
-----------------------------------------------------------------------------
(* Facts that the steps share *)

\* What the worker has yet to parse is a sequence of parts.
LEMMA StreamType == Types => \A b \in Backends : Stream(b) \in Seq(Parts)
  <1> SUFFICES ASSUME Types, NEW b \in Backends PROVE Stream(b) \in Seq(Parts)
    OBVIOUS
  <1>1. rbuf[b] \in Seq(Parts) /\ sock[b] \in Seq(Parts)
    BY DEF Types
  <1>2. QED
    BY <1>1, ConcatProperties DEF Stream

\* The part that has been parsed or swallowed is the first of the stream.
LEMMA StreamTail ==
    ASSUME Types, NEW b \in Backends, rbuf[b] # <<>>,
           rbuf' = [rbuf EXCEPT ![b] = Tail(@)], UNCHANGED sock
    PROVE  /\ Stream(b) # <<>> /\ Head(Stream(b)) = Head(rbuf[b])
           /\ Stream(b)' = Tail(Stream(b))
  <1>1. rbuf[b] \in Seq(Parts) /\ sock[b] \in Seq(Parts)
    BY DEF Types
  <1>2. rbuf'[b] = Tail(rbuf[b]) /\ sock'[b] = sock[b]
    BY DEF Types
  <1>3. /\ rbuf[b] \o sock[b] # <<>> /\ Head(rbuf[b] \o sock[b]) = Head(rbuf[b])
        /\ Tail(rbuf[b]) \o sock[b] = Tail(rbuf[b] \o sock[b])
    <2> DEFINE r == rbuf[b]
               s == sock[b]
    <2>1. r \in Seq(Parts) /\ s \in Seq(Parts) /\ r # <<>>
      BY <1>1
    <2> HIDE DEF r, s
    <2>2. r \o s # <<>> /\ Head(r \o s) = Head(r) /\ Tail(r) \o s = Tail(r \o s)
      BY <2>1, ConcatTail
    <2>3. QED
      BY <2>2 DEF r, s
  <1>4. QED
    BY <1>2, <1>3 DEF Stream

\* Parts that arrive come last.
LEMMA StreamAppend ==
    ASSUME Types, NEW b \in Backends, NEW p \in Seq(Parts),
           sock' = [sock EXCEPT ![b] = @ \o p], UNCHANGED rbuf
    PROVE  Stream(b)' = Stream(b) \o p
  <1>1. rbuf[b] \in Seq(Parts) /\ sock[b] \in Seq(Parts)
    BY DEF Types
  <1>2. rbuf'[b] = rbuf[b] /\ sock'[b] = sock[b] \o p
    BY DEF Types
  <1>3. (rbuf[b] \o sock[b]) \o p = rbuf[b] \o (sock[b] \o p)
    <2> DEFINE r == rbuf[b]
               s == sock[b]
    <2>1. r \in Seq(Parts) /\ s \in Seq(Parts)
      BY <1>1
    <2> HIDE DEF r, s
    <2>2. (r \o s) \o p = r \o (s \o p)
      BY <2>1, ConcatAssociative
    <2>3. QED
      BY <2>2 DEF r, s
  <1>4. QED
    BY <1>2, <1>3 DEF Stream

\* case conn_new_cmd leads to conn_parse_cmd, to conn_read or, when it is time for
\* others, to itself.
LEMMA NewCmdState ==
    ASSUME NEW b \in Backends, NEW r, NewCmd(b, r)
    PROVE  \E x \in {"conn_parse_cmd", "conn_read", "conn_new_cmd"} :
              /\ state' = [state EXCEPT ![b] = x]
              /\ x = "conn_parse_cmd" => r # <<>>
  BY Zenon DEF NewCmd, Goto, Await

\* A step that leaves a backend connection alone leaves its invariants alone.
LEMMA LeftAlone ==
    ASSUME NEW b \in Backends, UNCHANGED <<rbuf[b], sock[b], late[b], owed[b], state[b], queue[b],
                                           pending[b], asked[b]>>,
           QueueIntact' => QueueIntact, Undisturbed' => Undisturbed
    PROVE  /\ InFlight(b) => InFlight(b)'
           /\ WellCut(b) => WellCut(b)'
           /\ InSync(b) => InSync(b)'
           /\ Matched(b) => Matched(b)'
  <1>1. Stream(b)' = Stream(b)
    BY DEF Stream
  <1>2. QED
    BY <1>1 DEF InFlight, WellCut, InSync, Matched

LEMMA Untouched ==
    ASSUME NEW b \in Backends, UNCHANGED <<rbuf[b], sock[b], late[b], owed[b], state[b], queue[b],
                                           pending[b], asked[b], flaws>>
    PROVE  /\ InFlight(b) => InFlight(b)'
           /\ WellCut(b) => WellCut(b)'
           /\ InSync(b) => InSync(b)'
           /\ Matched(b) => Matched(b)'
  <1>1. (QueueIntact' => QueueIntact) /\ (Undisturbed' => Undisturbed)
    BY DEF QueueIntact, Undisturbed
  <1>2. QED
    BY <1>1, LeftAlone

\* Nor does one change what the clients wait for that answers and forwards nothing.
LEMMA StillAwaited ==
    ASSUME Awaited, UNCHANGED <<owed, rpcwaiting, cstate, flaws>>
    PROVE  Awaited'
  <1>1. \A c : Owing(c)' = Owing(c)
    BY DEF Owing
  <1>2. QED
    BY <1>1 DEF Awaited, QueueIntact

-----------------------------------------------------------------------------
(* One step per action *)

LEMMA InitStep == Init => IInv
  <1> SUFFICES ASSUME Init PROVE IInv
    OBVIOUS
  <1>1. Types
    <2> DEFINE w == [i \in 1..RpcInit |-> Wild]
    <2>1. w \in Seq(Clients \cup {Wild})
      OBVIOUS
    <2> HIDE DEF w
    <2>2. queue \in [Backends -> Queue]
      BY <2>1 DEF Init, Queue, w
    <2>3. rbuf \in [Backends -> Seq(Parts)] /\ sock \in [Backends -> Seq(Parts)]
          /\ owed \in [Backends -> Seq(Clients)]
      BY DEF Init
    <2>4. /\ cstate \in [Clients -> ClientStates] /\ state \in [Backends -> BackendStates]
          /\ rpcwaiting \in [Clients -> Int]
          /\ pending \in [Backends -> Nat] /\ asked \in [Backends -> Nat]
      BY DEF Init, ClientStates, BackendStates
    <2>5. late \in [Backends -> BOOLEAN] /\ dead \in BOOLEAN /\ flaws \subseteq Flaws
      BY DEF Init
    <2>6. QED
      BY <2>2, <2>3, <2>4, <2>5 DEF Types
  <1>2. Bounded
    <2>1. Len([i \in 1..RpcInit |-> Wild]) = RpcInit
      OBVIOUS
    <2>2. QED
      BY <2>1 DEF Init, Bounded, Within
  <1>3. ASSUME NEW b \in Backends PROVE Stream(b) = <<>> /\ Cardinality(Lines(Stream(b))) = 0
    <2>1. Stream(b) = <<>>
      BY DEF Init, Stream
    <2>2. Lines(<<>>) = {}
      BY DEF Lines
    <2>3. QED
      BY <2>1, <2>2, FS_EmptySet
  <1>4. \A b \in Backends : InFlight(b) /\ WellCut(b) /\ InSync(b) /\ Matched(b)
    BY <1>3 DEF Init, InFlight, WellCut, InSync, Matched, WholeAnswers, BlockNext
  <1>5. Awaited
    <2>1. \A c \in Clients : Owing(c) = {}
      BY DEF Init, Owing
    <2>2. \A b \in Backends : \A k, l \in 1..Len(owed[b]) : owed[b][k] = owed[b][l] => k = l
      BY DEF Init
    <2>3. \A c \in Clients : rpcwaiting[c] = 0
      BY DEF Init
    <2>4. QED
      BY <2>1, <2>2, <2>3, FS_EmptySet DEF Awaited
  <1>6. QED
    BY <1>1, <1>2, <1>4, <1>5 DEF IInv, StaysInSync, Init

LEMMA FinishGetStep ==
    ASSUME IInv, NEW c \in Clients, FinishGet(c)
    PROVE  IInv'
  <1> USE DEF FinishGet, network
  <1>1. Types'
    BY DEF IInv, Types, ClientStates
  <1>2. Bounded' /\ StaysInSync'
    BY DEF IInv, Bounded, StaysInSync, QueueIntact
  <1>3. \A b \in Backends : (InFlight(b) /\ WellCut(b) /\ InSync(b) /\ Matched(b))'
    BY Untouched DEF IInv
  <1>4. Awaited'
    <2>1. \A d : Owing(d)' = Owing(d)
      BY DEF Owing
    <2>2. \A d \in Clients : cstate'[d] # "conn_rpc_wait" => cstate[d] # "conn_rpc_wait"
      BY DEF IInv, Types
    <2>3. QED
      BY <2>1, <2>2 DEF IInv, Awaited, QueueIntact
  <1>5. QED
    BY <1>1, <1>2, <1>3, <1>4 DEF IInv

LEMMA EventStep ==
    ASSUME IInv, NEW b \in Backends, Event(b)
    PROVE  IInv'
  <1> USE DEF Event, clients, network
  <1>1. Types'
    BY DEF IInv, Types
  <1>2. Bounded' /\ StaysInSync'
    BY DEF IInv, Bounded, StaysInSync, QueueIntact
  <1>3. \A d \in Backends : (InFlight(d) /\ WellCut(d) /\ InSync(d) /\ Matched(d))'
    BY Untouched DEF IInv
  <1>4. Awaited'
    BY StillAwaited DEF IInv
  <1>5. QED
    BY <1>1, <1>2, <1>3, <1>4 DEF IInv

\* What is left in the buffer is parsed later.
LEMMA ResumeStep ==
    ASSUME IInv, NEW b \in Backends, Resume(b)
    PROVE  IInv'
  <1>1. /\ ~dead /\ state[b] = "conn_new_cmd" /\ NewCmd(b, rbuf[b])
        /\ UNCHANGED <<cstate, rpcwaiting, queue, pending, rbuf, sock, late, asked, dead, owed, flaws>>
    BY DEF Resume, Running, clients, network
  <1>2. PICK x \in {"conn_parse_cmd", "conn_read", "conn_new_cmd"} :
            /\ state' = [state EXCEPT ![b] = x]
            /\ x = "conn_parse_cmd" => rbuf[b] # <<>>
    BY <1>1, NewCmdState
  <1>3. Types'
    BY <1>1, <1>2 DEF IInv, Types, BackendStates
  <1>4. Bounded' /\ StaysInSync'
    BY <1>1 DEF IInv, Bounded, StaysInSync, QueueIntact
  <1>5. ASSUME NEW d \in Backends PROVE (InFlight(d) /\ WellCut(d) /\ InSync(d) /\ Matched(d))'
    <2>1. CASE d # b
      BY <1>1, <1>2, <2>1, Untouched DEF IInv, Types
    <2>2. CASE d = b
      <3>1. Stream(b)' = Stream(b)
        BY <1>1 DEF Stream
      <3>2. InFlight(b)' /\ Matched(b)'
        BY <1>1, <3>1 DEF IInv, InFlight, Matched, QueueIntact
      <3>3. state'[b] # "conn_swallow" /\ (state'[b] = "conn_parse_cmd" => rbuf[b] # <<>>)
        BY <1>2 DEF IInv, Types
      <3>4. WellCut(b)' /\ InSync(b)'
        BY <1>1, <3>1, <3>3 DEF IInv, WellCut, InSync, Undisturbed, QueueIntact
      <3>5. QED
        BY <2>2, <3>2, <3>4
    <2>3. QED
      BY <2>1, <2>2
  <1>6. Awaited'
    BY <1>1, StillAwaited DEF IInv
  <1>7. QED
    BY <1>3, <1>4, <1>5, <1>6 DEF IInv

\* What a closed connection has not parsed it never will.
LEMMA CloseStep ==
    ASSUME IInv, NEW b \in Backends, Close(b)
    PROVE  IInv'
  <1>1. /\ ~dead /\ state[b] = "conn_closing" /\ state' = [state EXCEPT ![b] = "closed"]
        /\ UNCHANGED <<cstate, rpcwaiting, queue, pending, rbuf, sock, late, asked, dead, owed, flaws>>
    BY DEF Close, Running, Await, clients, network
  <1>2. Types'
    BY <1>1 DEF IInv, Types, BackendStates
  <1>3. Bounded' /\ StaysInSync'
    BY <1>1 DEF IInv, Bounded, StaysInSync, QueueIntact
  <1>4. ASSUME NEW d \in Backends PROVE (InFlight(d) /\ WellCut(d) /\ InSync(d) /\ Matched(d))'
    <2>1. CASE d # b
      BY <1>1, <2>1, Untouched DEF IInv, Types
    <2>2. CASE d = b
      <3>1. Stream(b)' = Stream(b)
        BY <1>1 DEF Stream
      <3>2. InFlight(b)' /\ Matched(b)'
        BY <1>1, <3>1 DEF IInv, InFlight, Matched, QueueIntact
      <3>3. state'[b] = "closed"
        BY <1>1 DEF IInv, Types
      <3>4. WellCut(b)' /\ InSync(b)'
        BY <1>1, <3>1, <3>3 DEF IInv, WellCut, InSync, Undisturbed, QueueIntact
      <3>5. QED
        BY <2>2, <3>2, <3>4
    <2>3. QED
      BY <2>1, <2>2
  <1>5. Awaited'
    BY <1>1, StillAwaited DEF IInv
  <1>6. QED
    BY <1>2, <1>3, <1>4, <1>5 DEF IInv

\* What was unsent is now unanswered.
LEMMA WriteStep ==
    ASSUME IInv, NEW b \in Backends, Write(b)
    PROVE  IInv'
  <1> USE DEF Write, Running, clients
  <1>1. PICK x \in {"conn_parse_cmd", "conn_read", "conn_new_cmd"} :
            /\ state' = [state EXCEPT ![b] = x]
            /\ x = "conn_parse_cmd" => rbuf[b] # <<>>
    BY NewCmdState
  <1>2. Types'
    BY <1>1 DEF IInv, Types, BackendStates
  <1>3. Bounded' /\ StaysInSync'
    BY DEF IInv, Bounded, StaysInSync, QueueIntact
  <1>4. ASSUME NEW d \in Backends PROVE (InFlight(d) /\ WellCut(d) /\ InSync(d) /\ Matched(d))'
    <2>1. CASE d # b
      BY <1>1, <2>1, Untouched DEF IInv, Types
    <2>2. CASE d = b
      <3>1. Stream(b)' = Stream(b)
        BY DEF Stream
      <3>2. pending'[b] + asked'[b] = pending[b] + asked[b]
        BY DEF IInv, Types
      <3>3. InFlight(b)'
        BY <3>1, <3>2 DEF IInv, InFlight
      <3>4. state[b] = "conn_mwrite" /\ state'[b] # "conn_swallow" /\ (state'[b] = "conn_parse_cmd" => rbuf[b] # <<>>)
        BY <1>1 DEF IInv, Types
      <3>5. WellCut(b)' /\ InSync(b)'
        BY <3>1, <3>4 DEF IInv, WellCut, InSync, Undisturbed, QueueIntact
      <3>6. Matched(b)'
        BY DEF IInv, Matched, QueueIntact
      <3>7. QED
        BY <2>2, <3>3, <3>5, <3>6
    <2>3. QED
      BY <2>1, <2>2
  <1>5. Awaited'
    BY StillAwaited DEF IInv
  <1>6. QED
    BY <1>2, <1>3, <1>4, <1>5 DEF IInv

\* The parts go from the socket to the buffer.
LEMMA ReadStep ==
    ASSUME IInv, NEW b \in Backends, Read(b)
    PROVE  IInv'
  <1> USE DEF Read, Running, clients
  <1>1. state' = [state EXCEPT ![b] = IF sock[b] # <<>> THEN "conn_parse_cmd" ELSE "conn_read"]
    BY DEF Goto, Await
  <1>2. /\ rbuf[b] \in Seq(Parts) /\ sock[b] \in Seq(Parts)
        /\ rbuf'[b] = rbuf[b] \o sock[b] /\ sock'[b] = <<>>
    BY DEF IInv, Types
  <1>3. /\ rbuf[b] \o sock[b] \in Seq(Parts) /\ (rbuf[b] \o sock[b]) \o <<>> = rbuf[b] \o sock[b]
        /\ sock[b] # <<>> => rbuf[b] \o sock[b] # <<>>
    <2> DEFINE r == rbuf[b]
               s == sock[b]
    <2> HIDE DEF r, s
    <2>1. r \o s \in Seq(Parts) /\ (s # <<>> => r \o s # <<>>)
      BY <1>2, ConcatProperties, EmptySeq DEF r, s
    <2>2. (r \o s) \o <<>> = r \o s
      BY <2>1, ConcatEmptySeq
    <2>3. QED
      BY <2>1, <2>2 DEF r, s
  <1>4. Types'
    BY <1>1, <1>3 DEF IInv, Types, BackendStates
  <1>5. Bounded' /\ StaysInSync'
    BY DEF IInv, Bounded, StaysInSync, QueueIntact
  <1>6. ASSUME NEW d \in Backends PROVE (InFlight(d) /\ WellCut(d) /\ InSync(d) /\ Matched(d))'
    <2>1. CASE d # b
      BY <1>1, <2>1, Untouched DEF IInv, Types
    <2>2. CASE d = b
      <3>1. Stream(b)' = Stream(b)
        BY <1>2, <1>3 DEF Stream
      <3>2. InFlight(b)'
        BY <3>1 DEF IInv, InFlight
      <3>3. state[b] = "conn_read" /\ state'[b] # "conn_swallow" /\ (state'[b] = "conn_parse_cmd" => rbuf'[b] # <<>>)
        BY <1>1, <1>2, <1>3 DEF IInv, Types
      <3>4. WellCut(b)' /\ InSync(b)'
        BY <3>1, <3>3 DEF IInv, WellCut, InSync, Undisturbed, QueueIntact
      <3>5. Matched(b)'
        BY DEF IInv, Matched, QueueIntact
      <3>6. QED
        BY <2>2, <3>2, <3>4, <3>5
    <2>3. QED
      BY <2>1, <2>2
  <1>7. Awaited'
    BY StillAwaited DEF IInv
  <1>8. QED
    BY <1>4, <1>5, <1>6, <1>7 DEF IInv

\* It is a block that is swallowed, and a line that comes next.
LEMMA SwallowStep ==
    ASSUME IInv, NEW b \in Backends, Swallow(b)
    PROVE  IInv'
  <1> USE DEF Swallow, Running, clients
  <1>1. /\ rbuf[b] \in Seq(Parts) /\ sock[b] \in Seq(Parts) /\ Stream(b) \in Seq(Parts)
        /\ rbuf \in [Backends -> Seq(Parts)] /\ sock \in [Backends -> Seq(Parts)]
        /\ state \in [Backends -> BackendStates] /\ late[b] \in BOOLEAN
    BY StreamType DEF IInv, Types
  <1>2. Bounded' /\ StaysInSync'
    BY DEF IInv, Bounded, StaysInSync, QueueIntact
  <1>3. /\ BlockNext(Stream(b), late[b]) /\ WholeAnswers(Stream(b), late[b])
        /\ InFlight(b) /\ Matched(b) /\ state[b] = "conn_swallow"
    BY DEF IInv, WellCut
  <1>4. Awaited'
    BY StillAwaited DEF IInv
  <1>5. CASE rbuf[b] = <<>> /\ sock[b] = <<>>
    <2>1. UNCHANGED <<rbuf, sock>> /\ state' = [state EXCEPT ![b] = "conn_swallow"]
      BY <1>5 DEF Await
    <2>2. state' = state
      BY <1>1, <1>3, <2>1
    <2>3. Types'
      BY <2>1, <2>2 DEF IInv, Types
    <2>4. \A d \in Backends : (InFlight(d) /\ WellCut(d) /\ InSync(d) /\ Matched(d))'
      BY <2>1, <2>2, Untouched DEF IInv
    <2>5. QED
      BY <1>2, <1>4, <2>3, <2>4 DEF IInv
  <1>6. CASE rbuf[b] # <<>> \/ sock[b] # <<>>
    <2>1. /\ rbuf' \in [Backends -> Seq(Parts)] /\ sock' \in [Backends -> Seq(Parts)]
          /\ \A d \in Backends \ {b} : rbuf'[d] = rbuf[d] /\ sock'[d] = sock[d]
          /\ Stream(b) # <<>> /\ Stream(b)' = Tail(Stream(b))
          /\ \E s \in {"conn_parse_cmd", "conn_read", "conn_new_cmd"} :
                /\ state' = [state EXCEPT ![b] = s]
                /\ s = "conn_parse_cmd" => rbuf'[b] # <<>>
      <3>1. CASE rbuf[b] # <<>>
        <4>1. /\ rbuf' = [rbuf EXCEPT ![b] = Tail(@)] /\ UNCHANGED sock
              /\ NewCmd(b, Tail(rbuf[b]))
          BY <3>1
        <4>2. Tail(rbuf[b]) \in Seq(Parts)
          BY <1>1, <3>1, HeadTailProperties
        <4>3. rbuf' \in [Backends -> Seq(Parts)] /\ rbuf'[b] = Tail(rbuf[b])
          BY <1>1, <4>1, <4>2
        <4>4. Stream(b) # <<>> /\ Stream(b)' = Tail(Stream(b))
          BY <3>1, <4>1, StreamTail DEF IInv
        <4>5. \E s \in {"conn_parse_cmd", "conn_read", "conn_new_cmd"} :
                /\ state' = [state EXCEPT ![b] = s]
                /\ s = "conn_parse_cmd" => Tail(rbuf[b]) # <<>>
          BY <4>1, NewCmdState
        <4>6. QED
          BY <1>1, <4>1, <4>3, <4>4, <4>5
      <3>2. CASE rbuf[b] = <<>> /\ sock[b] # <<>>
        <4>1. /\ sock' = [sock EXCEPT ![b] = Tail(@)] /\ UNCHANGED rbuf
              /\ NewCmd(b, <<>>)
          BY <3>2
        <4>2. Tail(sock[b]) \in Seq(Parts)
          BY <1>1, <3>2, HeadTailProperties
        <4>3. sock' \in [Backends -> Seq(Parts)] /\ sock'[b] = Tail(sock[b])
          BY <1>1, <4>1, <4>2
        <4>4. Stream(b) = sock[b] /\ Stream(b)' = Tail(sock[b])
          BY <1>1, <3>2, <4>1, <4>2, <4>3, ConcatEmptySeq DEF Stream
        <4>5. \E s \in {"conn_parse_cmd", "conn_read", "conn_new_cmd"} :
                state' = [state EXCEPT ![b] = s] /\ s # "conn_parse_cmd"
          BY <4>1, NewCmdState
        <4>6. QED
          BY <1>1, <3>2, <4>1, <4>3, <4>4, <4>5
      <3>3. QED
        BY <1>6, <3>1, <3>2
    <2>2. PICK s \in {"conn_parse_cmd", "conn_read", "conn_new_cmd"} :
                /\ state' = [state EXCEPT ![b] = s]
                /\ s = "conn_parse_cmd" => rbuf'[b] # <<>>
      BY <2>1
    <2>3. Types'
      BY <2>1, <2>2 DEF IInv, Types, BackendStates
    <2>4. ASSUME NEW d \in Backends PROVE (InFlight(d) /\ WellCut(d) /\ InSync(d) /\ Matched(d))'
      <3>1. CASE d # b
        BY <1>1, <2>1, <2>2, <3>1, Untouched DEF IInv
      <3>2. CASE d = b
        <4>1. Head(Stream(b)) = "block"
          BY <1>1, <1>3, <2>1 DEF BlockNext
        <4>2. WholeAnswers(Tail(Stream(b)), late[b]) /\ ~BlockNext(Tail(Stream(b)), late[b])
          BY <1>1, <1>3, <2>1, <4>1, WholeTail
        <4>3. Cardinality(Lines(Tail(Stream(b)))) = Cardinality(Lines(Stream(b)))
          BY <1>1, <2>1, <4>1, LinesTail
        <4>4. InFlight(b)'
          BY <1>3, <2>1, <4>3 DEF InFlight
        <4>5. WellCut(b)' /\ InSync(b)'
          BY <1>1, <2>1, <2>2, <4>2 DEF WellCut, InSync, Undisturbed, QueueIntact
        <4>6. Matched(b)'
          BY <1>3 DEF Matched, QueueIntact
        <4>7. QED
          BY <3>2, <4>4, <4>5, <4>6
      <3>3. QED
        BY <3>1, <3>2
    <2>5. QED
      BY <1>2, <1>4, <2>3, <2>4 DEF IInv
  <1>7. QED
    BY <1>5, <1>6

\* A part that arrives in order keeps the stream whole.
LEMMA Arrived ==
    ASSUME NEW s \in Seq(Parts), WholeAnswers(s, FALSE)
    PROVE  /\ \A e \in {"VALUE", "END"} :
                 /\ WholeAnswers(s \o <<e>>, e = "VALUE")
                 /\ BlockNext(s \o <<e>>, e = "VALUE") <=> BlockNext(s, FALSE)
                 /\ Cardinality(Lines(s \o <<e>>)) = Cardinality(Lines(s)) + 1
           /\ WholeAnswers(s \o <<"VALUE", "block">>, FALSE)
           /\ BlockNext(s \o <<"VALUE", "block">>, FALSE) <=> BlockNext(s, FALSE)
           /\ Cardinality(Lines(s \o <<"VALUE", "block">>)) = Cardinality(Lines(s)) + 1
  <1>1. ASSUME NEW e \in {"VALUE", "END"}
        PROVE  /\ s \o <<e>> \in Seq(Parts)
               /\ WholeAnswers(s \o <<e>>, e = "VALUE")
               /\ BlockNext(s \o <<e>>, e = "VALUE") <=> BlockNext(s, FALSE)
               /\ Cardinality(Lines(s \o <<e>>)) = Cardinality(Lines(s)) + 1
    <2>1. e \in Parts /\ e # "block"
      BY DEF Parts
    <2>2. s \o <<e>> = Append(s, e) /\ Append(s, e) \in Seq(Parts)
      BY <2>1, AppendIsConcat, AppendProperties
    <2>3. /\ WholeAnswers(Append(s, e), e = "VALUE")
          /\ BlockNext(Append(s, e), e = "VALUE") <=> BlockNext(s, FALSE)
      BY <2>1, WholeAppend
    <2>4. Cardinality(Lines(Append(s, e))) = Cardinality(Lines(s)) + 1
      BY <2>1, LinesAppend
    <2>5. QED
      BY <2>2, <2>3, <2>4
  <1> DEFINE v == s \o <<"VALUE">>
  <1>2. /\ v \in Seq(Parts) /\ WholeAnswers(v, TRUE)
        /\ BlockNext(v, TRUE) <=> BlockNext(s, FALSE)
        /\ Cardinality(Lines(v)) = Cardinality(Lines(s)) + 1
    <2>1. "VALUE" \in {"VALUE", "END"} /\ ("VALUE" = "VALUE") = TRUE
      OBVIOUS
    <2>2. /\ WholeAnswers(s \o <<"VALUE">>, "VALUE" = "VALUE")
          /\ BlockNext(s \o <<"VALUE">>, "VALUE" = "VALUE") <=> BlockNext(s, FALSE)
          /\ Cardinality(Lines(s \o <<"VALUE">>)) = Cardinality(Lines(s)) + 1
          /\ s \o <<"VALUE">> \in Seq(Parts)
      BY <1>1, <2>1
    <2>3. QED
      BY <2>1, <2>2
  <1>3. s \o <<"VALUE", "block">> = Append(v, "block")
    <2>1. s \o <<"VALUE", "block">> \in Seq(Parts) /\ Append(v, "block") \in Seq(Parts)
      BY <1>2 DEF Parts
    <2>2. QED
      BY <1>2 DEF Parts
  <1> HIDE DEF v
  <1>4. "block" \in Parts
    BY DEF Parts
  <1>5. /\ WholeAnswers(Append(v, "block"), "block" = "VALUE")
        /\ BlockNext(Append(v, "block"), "block" = "VALUE") <=> BlockNext(v, TRUE)
    BY <1>2, <1>4, WholeAppend
  <1>6. ("block" = "VALUE") = FALSE
    OBVIOUS
  <1>7. Cardinality(Lines(Append(v, "block"))) = Cardinality(Lines(v))
    BY <1>2, <1>4, LinesAppend
  <1>8. QED
    BY <1>1, <1>2, <1>3, <1>5, <1>6, <1>7

\* One unanswered request fewer is one response line more.
LEMMA AnswerStep ==
    ASSUME IInv, NEW b \in Backends, Answer(b)
    PROVE  IInv'
  <1>0. /\ ~dead /\ asked[b] > 0 /\ ~late[b]
        /\ asked' = [asked EXCEPT ![b] = @ - 1]
        /\ UNCHANGED <<cstate, rpcwaiting, state, queue, pending, rbuf, dead, owed, flaws>>
    BY DEF Answer, clients
  <1>1. PICK parts \in {<<"VALUE", "block">>, <<"END">>, <<"VALUE">>} :
            /\ sock' = [sock EXCEPT ![b] = @ \o parts]
            /\ late' = [late EXCEPT ![b] = (parts = <<"VALUE">>)]
    BY Zenon DEF Answer
  <1>2. /\ parts \in Seq(Parts) /\ sock[b] \in Seq(Parts) /\ Stream(b) \in Seq(Parts)
        /\ sock \in [Backends -> Seq(Parts)] /\ late \in [Backends -> BOOLEAN] /\ late[b] = FALSE
        /\ asked \in [Backends -> Nat] /\ asked[b] > 0 /\ pending[b] \in Nat
    <2>1. parts \in Seq(Parts)
      <3>1. /\ <<"VALUE", "block">> \in Seq(Parts)
            /\ <<"END">> \in Seq(Parts) /\ <<"VALUE">> \in Seq(Parts)
        BY DEF Parts
      <3>2. QED
        BY <3>1, Zenon
    <2>2. QED
      BY <1>0, <2>1, StreamType DEF IInv, Types
  <1>3. sock[b] \o parts \in Seq(Parts)
    BY <1>2, ConcatProperties
  <1>4. Types'
    <2>1. sock' \in [Backends -> Seq(Parts)]
      BY <1>1, <1>2, <1>3
    <2>2. late' \in [Backends -> BOOLEAN]
      BY <1>1, <1>2
    <2>3. asked' \in [Backends -> Nat]
      BY <1>0, <1>2
    <2>4. QED
      BY <1>0, <2>1, <2>2, <2>3 DEF IInv, Types
  <1>5. Bounded' /\ StaysInSync'
    BY <1>0 DEF IInv, Bounded, StaysInSync, QueueIntact
  <1>6. ASSUME NEW d \in Backends PROVE (InFlight(d) /\ WellCut(d) /\ InSync(d) /\ Matched(d))'
    <2>1. CASE d # b
      BY <1>0, <1>1, <1>2, <2>1, Untouched DEF IInv
    <2>2. CASE d = b
      <3> DEFINE s == Stream(b)
                 t == Stream(b)'
      <3>1. t = s \o parts
        BY <1>0, <1>1, <1>2, StreamAppend DEF IInv
      <3>2. WholeAnswers(s, FALSE) /\ s \in Seq(Parts)
        BY <1>0, <1>2 DEF IInv, WellCut
      <3>3. late'[b] = (parts = <<"VALUE">>)
        BY <1>1, <1>2
      <3>4. /\ WholeAnswers(t, late'[b])
            /\ BlockNext(t, late'[b]) <=> BlockNext(s, FALSE)
            /\ Cardinality(Lines(t)) = Cardinality(Lines(s)) + 1
        <4> HIDE DEF s, t
        <4>1. CASE parts = <<"VALUE", "block">>
          <5>1. (parts = <<"VALUE">>) = FALSE
            BY <4>1
          <5>2. /\ WholeAnswers(s \o <<"VALUE", "block">>, FALSE)
                /\ BlockNext(s \o <<"VALUE", "block">>, FALSE) <=> BlockNext(s, FALSE)
                /\ Cardinality(Lines(s \o <<"VALUE", "block">>)) = Cardinality(Lines(s)) + 1
            BY <3>2, Arrived
          <5>3. QED
            BY <3>1, <3>3, <4>1, <5>1, <5>2
        <4>2. CASE parts = <<"END">>
          <5>1. (parts = <<"VALUE">>) = FALSE /\ ("END" = "VALUE") = FALSE
            BY <4>2
          <5>2. /\ WholeAnswers(s \o <<"END">>, "END" = "VALUE")
                /\ BlockNext(s \o <<"END">>, "END" = "VALUE") <=> BlockNext(s, FALSE)
                /\ Cardinality(Lines(s \o <<"END">>)) = Cardinality(Lines(s)) + 1
            BY <3>2, Arrived
          <5>3. QED
            BY <3>1, <3>3, <4>2, <5>1, <5>2
        <4>3. CASE parts = <<"VALUE">>
          <5>1. (parts = <<"VALUE">>) = ("VALUE" = "VALUE")
            BY <4>3
          <5>2. /\ WholeAnswers(s \o <<"VALUE">>, "VALUE" = "VALUE")
                /\ BlockNext(s \o <<"VALUE">>, "VALUE" = "VALUE") <=> BlockNext(s, FALSE)
                /\ Cardinality(Lines(s \o <<"VALUE">>)) = Cardinality(Lines(s)) + 1
            BY <3>2, Arrived
          <5>3. QED
            BY <3>1, <3>3, <4>3, <5>1, <5>2
        <4>4. QED
          BY <4>1, <4>2, <4>3
      <3>5. InFlight(b)'
        <4>1. Cardinality(Lines(s)) \in Nat
          BY <1>2, LinesCount
        <4>2. asked'[b] = asked[b] - 1
          BY <1>0, <1>2
        <4>3. Len(owed[b]) = pending[b] + asked[b] + Cardinality(Lines(s)) /\ Len(owed[b]) = queue[b].used - queue[b].done
          BY <1>0 DEF IInv, InFlight
        <4>4. Cardinality(Lines(Stream(b)')) = Cardinality(Lines(s)) + 1
          BY <3>4
        <4> HIDE DEF s
        <4>5. Len(owed[b]) = pending[b] + (asked[b] - 1) + (Cardinality(Lines(s)) + 1)
          <5> DEFINE n == Cardinality(Lines(s))
                     a == asked[b]
                     m == pending[b]
          <5>1. n \in Nat /\ a \in Nat /\ m \in Nat
            BY <1>2, <4>1
          <5> HIDE DEF n, a, m
          <5>2. m + a + n = m + (a - 1) + (n + 1)
            BY <5>1
          <5>3. QED
            BY <4>3, <5>2 DEF n, a, m
        <4>6. QED
          BY <1>0, <4>2, <4>3, <4>4, <4>5 DEF InFlight, Lines
      <3>6. WellCut(b)' /\ InSync(b)'
        BY <1>0, <1>2, <3>4 DEF IInv, WellCut, InSync, Undisturbed, QueueIntact
      <3>7. Matched(b)'
        BY <1>0 DEF IInv, Matched, QueueIntact
      <3>8. QED
        BY <2>2, <3>5, <3>6, <3>7
    <2>3. QED
      BY <2>1, <2>2
  <1>7. Awaited'
    BY <1>0, StillAwaited DEF IInv
  <1>8. QED
    BY <1>4, <1>5, <1>6, <1>7 DEF IInv

\* The late block follows its VALUE line, wherever that is by now.
LEMMA DeliverStep ==
    ASSUME IInv, NEW b \in Backends, Deliver(b)
    PROVE  IInv'
  <1> USE DEF Deliver, clients
  <1>1. /\ sock[b] \in Seq(Parts) /\ Stream(b) \in Seq(Parts) /\ "block" \in Parts
        /\ sock \in [Backends -> Seq(Parts)] /\ late \in [Backends -> BOOLEAN] /\ late[b] = TRUE
    BY StreamType DEF IInv, Types, Parts
  <1>2. /\ Append(sock[b], "block") \in Seq(Parts) /\ Append(sock[b], "block") = sock[b] \o <<"block">>
        /\ Append(Stream(b), "block") = Stream(b) \o <<"block">> /\ <<"block">> \in Seq(Parts)
    BY <1>1, AppendProperties, AppendIsConcat
  <1>3. Types'
    <2>1. sock' \in [Backends -> Seq(Parts)]
      BY <1>1, <1>2
    <2>2. late' \in [Backends -> BOOLEAN]
      BY <1>1
    <2>3. QED
      BY <2>1, <2>2 DEF IInv, Types
  <1>4. Bounded' /\ StaysInSync'
    BY DEF IInv, Bounded, StaysInSync, QueueIntact
  <1>5. ASSUME NEW d \in Backends PROVE (InFlight(d) /\ WellCut(d) /\ InSync(d) /\ Matched(d))'
    <2>1. CASE d # b
      BY <1>1, <2>1, Untouched DEF IInv
    <2>2. CASE d = b
      <3>1. Stream(b)' = Append(Stream(b), "block")
        <4>1. sock' = [sock EXCEPT ![b] = @ \o <<"block">>]
          BY <1>1, <1>2
        <4>2. QED
          BY <1>2, <4>1, StreamAppend DEF IInv
      <3>2. WholeAnswers(Stream(b), TRUE)
        BY <1>1 DEF IInv, WellCut
      <3>3. late'[b] = FALSE /\ ("block" = "VALUE") = FALSE
        BY <1>1
      <3>4. /\ WholeAnswers(Append(Stream(b), "block"), "block" = "VALUE")
            /\ BlockNext(Append(Stream(b), "block"), "block" = "VALUE") <=> BlockNext(Stream(b), TRUE)
        BY <1>1, <3>2, WholeAppend
      <3>5. WholeAnswers(Stream(b)', late'[b]) /\ (BlockNext(Stream(b)', late'[b]) <=> BlockNext(Stream(b), late[b]))
        BY <1>1, <3>1, <3>3, <3>4
      <3>6. Cardinality(Lines(Append(Stream(b), "block"))) = Cardinality(Lines(Stream(b)))
        BY <1>1, LinesAppend
      <3>7. InFlight(b)'
        BY <3>1, <3>6 DEF IInv, InFlight
      <3>8. WellCut(b)' /\ InSync(b)'
        BY <3>5 DEF IInv, WellCut, InSync, Undisturbed, QueueIntact
      <3>9. Matched(b)'
        BY DEF IInv, Matched, QueueIntact
      <3>10. QED
        BY <2>2, <3>7, <3>8, <3>9
    <2>3. QED
      BY <2>1, <2>2
  <1>6. Awaited'
    BY StillAwaited DEF IInv
  <1>7. QED
    BY <1>3, <1>4, <1>5, <1>6 DEF IInv

\* A response with a client in the queue is counted for the one that waited for it
\* longest; unless the queue was damaged, that client is in the slot.
LEMMA RespondStep ==
    ASSUME IInv, ~dead, NEW b \in Backends, Respond(b), Len(owed[b]) > 0
    PROVE  /\ cstate' \in [Clients -> ClientStates] /\ rpcwaiting' \in [Clients -> Int]
           /\ queue' \in [Backends -> Queue] /\ owed' \in [Backends -> Seq(Clients)]
           /\ dead' \in BOOLEAN /\ flaws' \subseteq Flaws
           /\ (QueueIntact' <=> QueueIntact) /\ (Undisturbed' <=> Undisturbed)
           /\ Bounded' /\ StaysInSync'
           /\ \A d \in Backends \ {b} : queue'[d] = queue[d] /\ owed'[d] = owed[d]
           /\ Len(owed'[b]) = Len(owed[b]) - 1
           /\ Len(owed'[b]) = queue'[b].used - queue'[b].done
           /\ Matched(b)'
           /\ ~dead' => Awaited'
  <1> DEFINE q == queue[b]
             p == queue'[b]
             c == q.rpc[q.done + 1]
             o == owed[b]
             t == owed'[b]
  <1>1. /\ cstate \in [Clients -> ClientStates] /\ rpcwaiting \in [Clients -> Int]
        /\ queue \in [Backends -> Queue] /\ owed \in [Backends -> Seq(Clients)]
        /\ q \in Queue /\ o \in Seq(Clients)
    BY DEF IInv, Types
  <1>2. "full" \notin flaws /\ Within(q)
    BY DEF IInv, Bounded
  <1>3. /\ q.rpc \in Seq(Clients \cup {Wild}) /\ q.size \in Nat /\ q.used \in Nat /\ q.done \in Nat
        /\ Len(o) \in Nat /\ Len(o) = q.used - q.done /\ q.used <= Len(q.rpc) /\ Len(q.rpc) \in Nat
        /\ Len(o) > 0
    <2>1. InFlight(b)
      BY DEF IInv
    <2>2. Len(o) \in Nat
      BY <1>1, LenProperties
    <2>3. QED
      BY <1>1, <1>2, <2>1, <2>2 DEF InFlight, Within, Queue
  <1>4. c \in Clients \cup {Wild}
    <2> HIDE DEF q, o
    <2>1. q.done + 1 \in 1..Len(q.rpc)
      BY <1>3
    <2>2. QED
      BY <1>3, <2>1, ElementOfSeq DEF q
  <1>5. /\ queue' = [queue EXCEPT ![b].done = @ + 1]
        /\ owed' = [owed EXCEPT ![b] = Tail(@)]
        /\ IF c = Wild
           THEN dead' = TRUE /\ UNCHANGED <<cstate, rpcwaiting>>
           ELSE /\ rpcwaiting' = [rpcwaiting EXCEPT ![c] = @ - 1]
                /\ \/ cstate' = cstate
                   \/ /\ rpcwaiting[c] - 1 = 0
                      /\ \E x \in {"conn_rpc_done", "conn_closing"} : cstate' = [cstate EXCEPT ![c] = x]
                /\ UNCHANGED dead
    BY DEF Respond, Reply, clients, NoneLeft
  <1>6. /\ flaws' \subseteq Flaws /\ "full" \notin flaws'
        /\ (QueueIntact' <=> QueueIntact) /\ (Undisturbed' <=> Undisturbed)
    <2>1. flaws' = flaws \/ flaws' = flaws \cup {"stranded"}
      BY DEF Respond, Reply
    <2>2. "stranded" \in Flaws /\ flaws \subseteq Flaws
      BY DEF IInv, Types, Flaws
    <2>3. QED
      BY <1>2, <2>1, <2>2 DEF QueueIntact, Undisturbed
  <1>7. /\ queue' \in [Backends -> Queue] /\ Components(p, q.rpc, q.size, q.used, q.done + 1)
        /\ \A d \in Backends \ {b} : queue'[d] = queue[d]
    <2> DEFINE n == q.done + 1
    <2>1. n \in Nat
      BY <1>3
    <2>2. p = [q EXCEPT !.done = n] /\ \A d \in Backends \ {b} : queue'[d] = queue[d]
      BY <1>1, <1>5
    <2>3. queue' = [queue EXCEPT ![b] = p]
      BY <1>1, <1>5, <2>2
    <2> HIDE DEF n
    <2>4. Components([q EXCEPT !.done = n], q.rpc, q.size, q.used, n)
      BY <1>1, <1>3, <2>1, QueueExcept
    <2> HIDE DEF q, p
    <2>5. Components(p, q.rpc, q.size, q.used, n)
      BY <2>2, <2>4
    <2>6. p \in Queue
      BY <2>5 DEF Components
    <2>7. queue' \in [Backends -> Queue]
      BY <1>1, <2>3, <2>6
    <2>8. QED
      BY <2>2, <2>5, <2>7 DEF n
  <1>8. /\ t \in Seq(Clients) /\ Len(t) = Len(o) - 1 /\ \A k \in 1..Len(t) : t[k] = o[k + 1]
        /\ owed' \in [Backends -> Seq(Clients)]
        /\ \A d \in Backends \ {b} : owed'[d] = owed[d]
    <2>1. o # <<>>
      BY <1>3
    <2>2. t = Tail(o)
      BY <1>1, <1>5
    <2>3. Tail(o) \in Seq(Clients) /\ Len(Tail(o)) = Len(o) - 1 /\ \A k \in 1..Len(Tail(o)) : Tail(o)[k] = o[k + 1]
      BY <1>1, <2>1, HeadTailProperties
    <2> HIDE DEF o, t
    <2>4. owed' \in [Backends -> Seq(Clients)] /\ \A d \in Backends \ {b} : owed'[d] = owed[d]
      BY <1>1, <1>5, <2>3 DEF o
    <2>5. QED
      BY <2>2, <2>3, <2>4
  <1>9. cstate' \in [Clients -> ClientStates] /\ rpcwaiting' \in [Clients -> Int] /\ dead' \in BOOLEAN
    <2>1. CASE c = Wild
      BY <1>1, <1>5, <2>1
    <2>2. CASE c \in Clients
      <3> HIDE DEF c
      <3>1. c # Wild
        BY <2>2
      <3>2. rpcwaiting' \in [Clients -> Int] /\ cstate' \in [Clients -> ClientStates]
        <4>1. rpcwaiting' = [rpcwaiting EXCEPT ![c] = @ - 1]
          BY <1>5, <3>1
        <4>2. cstate' = cstate \/ \E x \in {"conn_rpc_done", "conn_closing"} : cstate' = [cstate EXCEPT ![c] = x]
          BY <1>5, <3>1
        <4>3. {"conn_rpc_done", "conn_closing"} \subseteq ClientStates
          BY DEF ClientStates
        <4>4. rpcwaiting' \in [Clients -> Int]
          <5>1. rpcwaiting[c] - 1 \in Int
            BY <1>1, <2>2
          <5>2. QED
            BY <1>1, <4>1, <5>1
        <4>5. cstate' \in [Clients -> ClientStates]
          BY <1>1, <4>2, <4>3
        <4>6. QED
          BY <4>4, <4>5
      <3>3. dead' = dead
        BY <1>5, <3>1
      <3>4. QED
        BY <3>2, <3>3 DEF IInv, Types
    <2>3. QED
      BY <1>4, <2>1, <2>2
  <1>10. QueueIntact => c = o[1] /\ c \in Clients /\ c # Wild
    <2>1. 1 \in 1..Len(o)
      BY <1>3
    <2>2. o[1] \in Clients
      BY <1>1, <2>1, ElementOfSeq
    <2>3. QueueIntact => o[1] = c
      BY <2>1 DEF IInv, Matched
    <2>4. QED
      BY <2>2, <2>3
  <1>11. Bounded'
    <2>1. p.done <= p.used /\ Within(p)
      BY <1>2, <1>3, <1>7 DEF Components, Within
    <2>2. \A d \in Backends : queue'[d].done <= queue'[d].used /\ Within(queue'[d])
      <3>1. \A d \in Backends \ {b} : queue[d].done <= queue[d].used /\ Within(queue[d])
        BY <1>2 DEF IInv, Bounded
      <3>2. QED
        BY <1>7, <2>1, <3>1
    <2>3. QED
      BY <1>6, <2>2 DEF Bounded
  <1>12. StaysInSync'
    <2>1. ASSUME Undisturbed' PROVE ~dead'
      BY <1>5, <1>6, <1>10, <2>1 DEF Undisturbed
    <2>2. QED
      BY <2>1 DEF StaysInSync, Undisturbed
  <1>13. Len(t) = p.used - p.done
    <2>1. p.used = q.used /\ p.done = q.done + 1
      BY <1>7 DEF Components
    <2> HIDE DEF p, q, t, o
    <2>2. QED
      BY <1>3, <1>8, <2>1
  <1>14. Matched(b)'
    <2> SUFFICES ASSUME QueueIntact, NEW k \in 1..Len(t) PROVE t[k] = p.rpc[p.done + k]
      BY <1>6 DEF Matched
    <2>1. k + 1 \in 1..Len(o) /\ t[k] = o[k + 1]
      BY <1>3, <1>8
    <2>2. o[k + 1] = q.rpc[q.done + (k + 1)]
      BY <2>1 DEF IInv, Matched
    <2>3. p.rpc = q.rpc /\ p.done + k = q.done + (k + 1)
      BY <1>3, <1>7 DEF Components
    <2>4. QED
      BY <2>1, <2>2, <2>3
  <1>15. ASSUME ~dead', QueueIntact PROVE Awaited'
    <2>1. PICK x \in Clients : x = c /\ x = o[1] /\ x # Wild
      BY <1>10, <1>15
    <2>2. /\ \A d \in Backends : \A k, l \in 1..Len(owed[d]) : owed[d][k] = owed[d][l] => k = l
          /\ \A d \in Clients : /\ rpcwaiting[d] = Cardinality(Owing(d))
                                /\ cstate[d] # "conn_rpc_wait" => rpcwaiting[d] = 0
      BY <1>15 DEF IInv, Awaited
    <2>3. \A d \in Backends : \A k, l \in 1..Len(owed'[d]) : owed'[d][k] = owed'[d][l] => k = l
      <3>1. ASSUME NEW k \in 1..Len(t), NEW l \in 1..Len(t), t[k] = t[l] PROVE k = l
        <4>1. k + 1 \in 1..Len(o) /\ l + 1 \in 1..Len(o)
          BY <1>3, <1>8
        <4>2. o[k + 1] = o[l + 1]
          BY <1>8, <3>1
        <4>3. k + 1 = l + 1
          BY <2>2, <4>1, <4>2
        <4>4. QED
          BY <4>3
      <3>2. QED
        BY <1>8, <2>2, <3>1
    <2>4. b \in Owing(x)
      BY <1>3, <2>1 DEF Owing
    <2>5. b \notin Owing(x)'
      <3>1. ASSUME NEW k \in 1..Len(t), t[k] = x PROVE FALSE
        <4>1. k + 1 \in 1..Len(o) /\ 1 \in 1..Len(o) /\ o[k + 1] = o[1]
          BY <1>3, <1>8, <2>1, <3>1
        <4>2. QED
          BY <2>2, <4>1
      <3> HIDE DEF o
      <3>2. QED
        BY <3>1 DEF Owing
    <2>6. ASSUME NEW d \in Clients, d # x PROVE b \in Owing(d)' <=> b \in Owing(d)
      <3>1. ASSUME NEW k \in 1..Len(t) PROVE k + 1 \in 1..Len(o) /\ t[k] = o[k + 1]
        BY <1>3, <1>8
      <3>2. ASSUME NEW k \in 1..Len(o), o[k] = d PROVE k - 1 \in 1..Len(t) /\ t[k - 1] = d
        <4>1. k # 1
          BY <2>1, <2>6, <3>2
        <4>2. k - 1 \in 1..Len(t) /\ (k - 1) + 1 = k
          BY <1>3, <1>8, <4>1
        <4>3. QED
          BY <1>8, <3>2, <4>2
      <3>3. QED
        BY <3>1, <3>2 DEF Owing
    <2>7. \A d \in Clients : \A y \in Backends \ {b} : y \in Owing(d)' <=> y \in Owing(d)
      BY <1>8 DEF Owing
    <2> HIDE DEF c, o, t, q, p
    <2>8. Owing(x)' = Owing(x) \ {b} /\ \A d \in Clients \ {x} : Owing(d)' = Owing(d)
      <3>1. \A d \in Clients : Owing(d) \subseteq Backends /\ Owing(d)' \subseteq Backends
        BY DEF Owing
      <3>2. Owing(x)' = Owing(x) \ {b}
        BY <2>1, <2>5, <2>7, <3>1, SMTT(30)
      <3>3. \A d \in Clients \ {x} : Owing(d)' = Owing(d)
        <4> SUFFICES ASSUME NEW d \in Clients, d # x PROVE Owing(d)' = Owing(d)
          OBVIOUS
        <4>1. \A y \in Backends : y \in Owing(d)' <=> y \in Owing(d)
          BY <2>6, <2>7
        <4>2. QED
          BY <3>1, <4>1
      <3>4. QED
        BY <3>2, <3>3
    <2>9. Cardinality(Owing(x)') = Cardinality(Owing(x)) - 1 /\ Cardinality(Owing(x)) \in Nat \ {0}
      <3>1. IsFiniteSet(Owing(x))
        <4>1. Owing(x) \in SUBSET Backends
          BY DEF Owing
        <4>2. QED
          BY <4>1, FS_Subset
      <3>2. Cardinality(Owing(x) \ {b}) = Cardinality(Owing(x)) - 1
        BY <2>4, <3>1, FS_RemoveElement
      <3>3. Cardinality(Owing(x)) \in Nat /\ (Cardinality(Owing(x)) = 0 <=> Owing(x) = {})
        BY <3>1, FS_CardinalityType, FS_EmptySet
      <3>4. QED
        BY <2>4, <2>8, <3>2, <3>3
    <2>10. ASSUME NEW d \in Clients
           PROVE  /\ rpcwaiting'[d] = Cardinality(Owing(d)')
                  /\ cstate'[d] # "conn_rpc_wait" => rpcwaiting'[d] = 0
      <3>1. /\ rpcwaiting' = [rpcwaiting EXCEPT ![x] = @ - 1]
            /\ \/ cstate' = cstate
               \/ /\ rpcwaiting[x] - 1 = 0
                  /\ \E y \in {"conn_rpc_done", "conn_closing"} : cstate' = [cstate EXCEPT ![x] = y]
        BY <1>5, <2>1 DEF c
      <3>2. CASE d = x
        <4>1. rpcwaiting'[x] = rpcwaiting[x] - 1
          BY <1>1, <2>1, <3>1
        <4>2. rpcwaiting[x] = Cardinality(Owing(x)) /\ cstate[x] = "conn_rpc_wait"
          BY <2>1, <2>2, <2>9
        <4>3. cstate'[x] # "conn_rpc_wait" => rpcwaiting[x] - 1 = 0
          BY <2>1, <3>1, <4>2
        <4>4. QED
          BY <2>9, <3>2, <4>1, <4>2, <4>3
      <3>3. CASE d # x
        <4>1. rpcwaiting'[d] = rpcwaiting[d] /\ cstate'[d] = cstate[d]
          BY <1>1, <3>1, <3>3
        <4>2. QED
          BY <2>2, <2>8, <3>3, <4>1
      <3>4. QED
        BY <3>2, <3>3
    <2>11. QED
      BY <2>3, <2>10 DEF Awaited
  <1>16. ~dead' => Awaited'
    BY <1>6, <1>15 DEF Awaited
  <1>17. QED
    BY <1>6, <1>7, <1>8, <1>9, <1>11, <1>12, <1>13, <1>14, <1>16

\* A line is answered for, and a block follows it if and only if it is swallowed;
\* a block is met here only after a get interrupted the swallowing of one.
LEMMA ParseStep ==
    ASSUME IInv, NEW b \in Backends, Parse(b)
    PROVE  IInv'
  <1> DEFINE s == Stream(b)
             h == Head(rbuf[b])
  <1>1. /\ ~dead /\ state[b] = "conn_parse_cmd"
        /\ rbuf' = [rbuf EXCEPT ![b] = Tail(@)]
        /\ UNCHANGED <<pending, sock, late, asked>>
    BY DEF Parse, Running, network
  <1>2. /\ rbuf \in [Backends -> Seq(Parts)] /\ rbuf[b] \in Seq(Parts) /\ s \in Seq(Parts)
        /\ state \in [Backends -> BackendStates] /\ late[b] \in BOOLEAN
        /\ pending[b] \in Nat /\ asked[b] \in Nat
    BY StreamType DEF IInv, Types
  <1>3. /\ InFlight(b) /\ InSync(b) /\ rbuf[b] # <<>> /\ WholeAnswers(s, late[b])
    BY <1>1 DEF IInv, WellCut
  <1>4. s # <<>> /\ Head(s) = h /\ Stream(b)' = Tail(s)
    BY <1>1, <1>3, StreamTail DEF IInv
  <1>5. Tail(rbuf[b]) \in Seq(Parts) /\ rbuf' \in [Backends -> Seq(Parts)] /\ rbuf'[b] = Tail(rbuf[b])
    <2>1. Tail(rbuf[b]) \in Seq(Parts)
      BY <1>2, <1>3, HeadTailProperties
    <2>2. QED
      BY <1>1, <1>2, <2>1
  <1>6. CASE h = "block"
    <2>1. dead' = TRUE /\ UNCHANGED <<cstate, rpcwaiting, state, queue, owed, flaws>>
      BY <1>6 DEF Parse, clients
    <2>2. ~Undisturbed
      BY <1>1, <1>2, <1>3, <1>4, <1>6 DEF InSync, BlockNext
    <2>3. Types'
      BY <1>1, <1>5, <2>1 DEF IInv, Types
    <2>4. Bounded' /\ StaysInSync'
      BY <1>1, <2>1, <2>2 DEF IInv, Bounded, StaysInSync, Undisturbed, QueueIntact
    <2>5. QED
      BY <2>1, <2>3, <2>4 DEF IInv
  <1>7. CASE h \in {"VALUE", "END"}
    <2>1. /\ Respond(b)
          /\ \/ h = "VALUE" /\ Goto(b, "conn_swallow")
             \/ h = "END" /\ NewCmd(b, Tail(rbuf[b]))
      BY <1>7 DEF Parse, AfterHit
    <2>2. PICK x \in {"conn_swallow", "conn_parse_cmd", "conn_read", "conn_new_cmd"} :
              /\ state' = [state EXCEPT ![b] = x]
              /\ x = "conn_swallow" <=> h = "VALUE"
              /\ x = "conn_parse_cmd" => rbuf'[b] # <<>>
      <3>1. CASE h = "VALUE"
        <4>1. state' = [state EXCEPT ![b] = "conn_swallow"]
          BY <2>1, <3>1 DEF Goto
        <4>2. QED
          BY <3>1, <4>1
      <3>2. CASE h = "END"
        <4>1. \E x \in {"conn_parse_cmd", "conn_read", "conn_new_cmd"} :
                 /\ state' = [state EXCEPT ![b] = x]
                 /\ x = "conn_parse_cmd" => Tail(rbuf[b]) # <<>>
          BY <2>1, <3>2, NewCmdState
        <4>2. QED
          BY <1>5, <3>2, <4>1
      <3>3. QED
        BY <1>7, <3>1, <3>2
    <2>3. state' \in [Backends -> BackendStates] /\ state'[b] = x /\ \A d \in Backends \ {b} : state'[d] = state[d]
      BY <1>2, <2>2 DEF BackendStates
    <2>4. /\ Cardinality(Lines(s)) = Cardinality(Lines(Tail(s))) + 1
          /\ Cardinality(Lines(s)) \in Nat /\ Cardinality(Lines(Tail(s))) \in Nat
      <3>1. Cardinality(Lines(s)) = Cardinality(Lines(Tail(s))) + 1
        BY <1>2, <1>4, <1>7, LinesTail
      <3>2. Tail(s) \in Seq(Parts)
        BY <1>2, <1>4, HeadTailProperties
      <3>3. QED
        BY <1>2, <3>1, <3>2, LinesCount
    <2>5. WholeAnswers(Tail(s), late[b]) /\ (BlockNext(Tail(s), late[b]) <=> h = "VALUE")
      BY <1>2, <1>3, <1>4, WholeTail
    <2> DEFINE n == Cardinality(Lines(s))
               m == Cardinality(Lines(Tail(s)))
    <2>6. Len(owed[b]) = pending[b] + asked[b] + n /\ n = m + 1 /\ n \in Nat /\ m \in Nat
      BY <1>3, <2>4 DEF InFlight
    <2>7. Len(owed[b]) > 0 /\ Len(owed[b]) - 1 = pending[b] + asked[b] + m
      <3> DEFINE l == Len(owed[b])
                 u == pending[b] + asked[b]
      <3>1. u \in Nat /\ l = u + n /\ n = m + 1 /\ m \in Nat
        BY <1>2, <2>6
      <3>2. pending[b] + asked[b] + m = u + m
        OBVIOUS
      <3> HIDE DEF n, m, l, u
      <3>3. l > 0 /\ l - 1 = u + m
        BY <3>1
      <3>4. QED
        BY <3>2, <3>3 DEF l
    <2>8. /\ cstate' \in [Clients -> ClientStates] /\ rpcwaiting' \in [Clients -> Int]
          /\ queue' \in [Backends -> Queue] /\ owed' \in [Backends -> Seq(Clients)]
          /\ dead' \in BOOLEAN /\ flaws' \subseteq Flaws
          /\ (QueueIntact' <=> QueueIntact) /\ (Undisturbed' <=> Undisturbed)
          /\ Bounded' /\ StaysInSync'
          /\ \A d \in Backends \ {b} : queue'[d] = queue[d] /\ owed'[d] = owed[d]
          /\ Len(owed'[b]) = Len(owed[b]) - 1
          /\ Len(owed'[b]) = queue'[b].used - queue'[b].done
          /\ Matched(b)'
          /\ ~dead' => Awaited'
      BY <1>1, <2>1, <2>7, RespondStep
    <2>9. Types'
      BY <1>1, <1>5, <2>3, <2>8 DEF IInv, Types
    <2>10. ASSUME NEW d \in Backends PROVE (InFlight(d) /\ WellCut(d) /\ InSync(d) /\ Matched(d))'
      <3>1. CASE d # b
        <4>1. rbuf'[d] = rbuf[d]
          BY <1>1, <1>2, <3>1
        <4>2. QED
          BY <1>1, <2>3, <2>8, <3>1, <4>1, LeftAlone DEF IInv
      <3>2. CASE d = b
        <4>1. InFlight(b)'
          BY <1>1, <1>4, <2>7, <2>8 DEF InFlight
        <4>2. WellCut(b)' /\ InSync(b)'
          BY <1>1, <1>4, <2>2, <2>3, <2>5 DEF WellCut, InSync
        <4>3. QED
          BY <2>8, <3>2, <4>1, <4>2
      <3>3. QED
        BY <3>1, <3>2
    <2>11. QED
      BY <2>8, <2>9, <2>10 DEF IInv
  <1>8. h \in Parts
    BY <1>2, <1>3, HeadTailProperties
  <1>9. QED
    BY <1>6, <1>7, <1>8 DEF Parts

\* The queue of every backend that is sent the request gets the client, and the
\* client waits for all of them.
LEMMA ProcessGetStep ==
    ASSUME IInv, thread \in Threads, NEW c \in Clients, ProcessGet(c)
    PROVE  IInv'
  <1>1. /\ ~dead /\ flaws = {} /\ cstate[c] = "reading"
        /\ cstate' = [cstate EXCEPT ![c] = "conn_rpc_wait"]
        /\ dead' = ("full" \in flaws')
        /\ UNCHANGED <<rbuf, sock, late, asked>>
    BY DEF ProcessGet, network
  <1>2. PICK how \in [Backends -> {"old", "new", "wild", "fail"}], sent \in SUBSET Backends :
          \E scheduled \in SUBSET sent : Forward(c, how, sent, scheduled)
    <2>1. thread.memcache \in SUBSET Backends
      BY ThreadsAssumption
    <2>2. CASE Faults
      <3>1. SUBSET thread.memcache \subseteq SUBSET Backends
        BY <2>1
      <3>2. QED
        BY <2>2, <3>1, Zenon DEF ProcessGet
    <2>3. CASE ~Faults
      BY <2>1, <2>3, Zenon DEF ProcessGet
    <2>4. QED
      BY <2>2, <2>3
  <1>3. PICK scheduled \in SUBSET sent : Forward(c, how, sent, scheduled)
    BY <1>2
  <1>4. /\ queue' = [b \in Backends |-> IF b \in sent THEN Enqueue(EnsureRpcSpace(queue[b], how[b]), c)
                                                      ELSE queue[b]]
        /\ pending' = [b \in Backends |-> IF b \in sent THEN pending[b] + 1 ELSE pending[b]]
        /\ owed' = [b \in Backends |-> IF b \in sent THEN Append(owed[b], c) ELSE owed[b]]
        /\ rpcwaiting' = [rpcwaiting EXCEPT ![c] = @ + Cardinality(sent)]
        /\ state' = [b \in Backends |-> CASE b \notin sent   -> state[b]
                                          [] b \in scheduled -> "conn_mwrite"
                                          [] OTHER           -> "conn_closing"]
        /\ flaws' = flaws \cup FlawsMet(sent, scheduled)
    BY <1>3 DEF Forward
  <1> DEFINE Others == Backends \ sent
  <1>5. /\ \A b \in sent : /\ queue'[b] = Enqueue(EnsureRpcSpace(queue[b], how[b]), c)
                           /\ pending'[b] = pending[b] + 1
                           /\ owed'[b] = Append(owed[b], c)
                           /\ state'[b] \in {"conn_mwrite", "conn_closing"}
        /\ \A b \in Others : UNCHANGED <<queue[b], pending[b], owed[b], state[b]>>
        /\ DOMAIN queue' = Backends /\ DOMAIN pending' = Backends
        /\ DOMAIN owed' = Backends /\ DOMAIN state' = Backends
    BY <1>4
  <1>6. Types /\ QueueIntact /\ Awaited /\ \A b \in Backends : InFlight(b) /\ WellCut(b) /\ InSync(b) /\ Matched(b)
    BY <1>1 DEF IInv, QueueIntact
  <1>7. ASSUME NEW b \in Backends
        PROVE  /\ queue[b] \in Queue /\ queue[b].done <= queue[b].used /\ Within(queue[b])
               /\ owed[b] \in Seq(Clients) /\ Len(owed[b]) \in Nat
               /\ Len(owed[b]) = queue[b].used - queue[b].done
    <2>1. owed[b] \in Seq(Clients) /\ Len(owed[b]) \in Nat
      BY <1>6, LenProperties DEF Types
    <2>2. QED
      BY <1>1, <1>6, <2>1 DEF IInv, Bounded, Types, InFlight
  <1>8. ASSUME NEW b \in sent
        PROVE  /\ queue'[b] \in Queue /\ queue'[b].done <= queue'[b].used
               /\ queue'[b].used - queue'[b].done = Len(owed[b]) + 1
               /\ HasRoom(queue[b]) \/ queue'[b].used <= queue'[b].size => Within(queue'[b])
               /\ HasRoom(queue[b]) \/ queue[b].done \in {0, queue[b].used} =>
                      /\ queue'[b].rpc[queue'[b].done + (Len(owed[b]) + 1)] = c
                      /\ \A k \in 1..Len(owed[b]) :
                            queue'[b].rpc[queue'[b].done + k] = queue[b].rpc[queue[b].done + k]
    <2> DEFINE q == queue[b]
               e == Enqueue(EnsureRpcSpace(q, how[b]), c)
               n == q.used - q.done
    <2>1. queue'[b] = e /\ b \in Backends
      BY <1>5
    <2>2. Len(owed[b]) = n /\ q \in Queue /\ q.done <= q.used /\ Within(q)
      BY <1>7
    <2> HIDE DEF q
    <2>3. /\ e \in Queue /\ e.done <= e.used
          /\ e.used - e.done = n + 1
          /\ HasRoom(q) \/ e.used <= e.size => Within(e)
          /\ HasRoom(q) \/ q.done \in {0, q.used} =>
                 /\ e.rpc[e.done + (n + 1)] = c
                 /\ \A k \in 1..n : e.rpc[e.done + k] = q.rpc[q.done + k]
      BY <2>2, Forwarded
    <2> HIDE DEF e, n
    <2>4. QED
      BY <2>1, <2>2, <2>3 DEF q
  <1>9. ASSUME NEW b \in sent
        PROVE  /\ owed'[b] = Append(owed[b], c)
               /\ owed'[b] \in Seq(Clients) /\ Len(owed'[b]) = Len(owed[b]) + 1
               /\ owed'[b][Len(owed[b]) + 1] = c
               /\ \A k \in 1..Len(owed[b]) : owed'[b][k] = owed[b][k]
    <2>1. owed'[b] = Append(owed[b], c) /\ b \in Backends
      BY <1>5
    <2>2. QED
      BY <1>7, <2>1, AppendProperties
  <1>10. /\ flaws' \subseteq Flaws
         /\ "compacted" \notin flaws' => \A b \in sent : HasRoom(queue[b]) \/ queue[b].done \in {0, queue[b].used}
         /\ "full" \notin flaws' => \A b \in sent : HasRoom(queue[b]) \/ ~(queue'[b].used > queue'[b].size)
         /\ "interrupted" \notin flaws' => \A b \in sent : state[b] # "conn_swallow"
    <2>1. flaws' = FlawsMet(sent, scheduled)
      BY <1>1, <1>4
    <2>2. "compacted" \in Flaws /\ "full" \in Flaws /\ "interrupted" \in Flaws
      BY DEF Flaws
    <2>3. flaws' \subseteq Flaws
      BY <2>1 DEF FlawsMet
    <2>4. "compacted" \notin flaws' => \A b \in sent : HasRoom(queue[b]) \/ queue[b].done \in {0, queue[b].used}
      BY <2>1, <2>2 DEF FlawsMet
    <2>5. "full" \notin flaws' => \A b \in sent : HasRoom(queue[b]) \/ ~(queue'[b].used > queue'[b].size)
      BY <2>1, <2>2 DEF FlawsMet
    <2>6. "interrupted" \notin flaws' => \A b \in sent : state[b] # "conn_swallow"
      BY <2>1, <2>2 DEF FlawsMet
    <2>7. QED
      BY <2>3, <2>4, <2>5, <2>6
  <1>11. Types'
    <2>1. queue' \in [Backends -> Queue] /\ owed' \in [Backends -> Seq(Clients)]
      <3>1. \A b \in Backends : queue'[b] \in Queue /\ owed'[b] \in Seq(Clients)
        BY <1>5, <1>7, <1>8, <1>9
      <3>2. queue' = [b \in Backends |-> queue'[b]] /\ owed' = [b \in Backends |-> owed'[b]]
        BY <1>4
      <3>3. QED
        BY <3>1, <3>2
    <2>2. rpcwaiting' \in [Clients -> Int]
      <3>1. Cardinality(sent) \in Nat
        BY FS_Subset, FS_CardinalityType
      <3>2. QED
        BY <1>4, <1>6, <3>1 DEF Types
    <2>3. cstate' \in [Clients -> ClientStates]
      BY <1>1, <1>6 DEF Types, ClientStates
    <2>4. state' \in [Backends -> BackendStates]
      <3>1. \A b \in Backends : state'[b] \in BackendStates
        BY <1>5, <1>6 DEF Types, BackendStates
      <3>2. state' = [b \in Backends |-> state'[b]]
        BY <1>4
      <3>3. QED
        BY <3>1, <3>2
    <2>5. pending' \in [Backends -> Nat]
      <3>1. \A b \in Backends : pending[b] \in Nat /\ pending[b] + 1 \in Nat
        BY <1>6 DEF Types
      <3>2. QED
        BY <1>4, <3>1
    <2>6. dead' \in BOOLEAN
      BY <1>1
    <2>7. QED
      BY <1>1, <1>6, <1>10, <2>1, <2>2, <2>3, <2>4, <2>5, <2>6 DEF Types
  <1>12. Bounded'
    <2>1. ASSUME "full" \notin flaws', NEW b \in sent PROVE Within(queue'[b])
      <3>1. HasRoom(queue[b]) \/ ~(queue'[b].used > queue'[b].size)
        BY <1>10, <2>1
      <3>2. queue'[b].used \in Nat /\ queue'[b].size \in Nat
        BY <1>8 DEF Queue
      <3>3. QED
        BY <1>8, <3>1, <3>2
    <2>2. \A b \in Others : queue'[b].done <= queue'[b].used /\ Within(queue'[b])
      BY <1>5, <1>7
    <2>3. QED
      BY <1>1, <1>8, <2>1, <2>2 DEF Bounded
  <1>13. StaysInSync'
    BY <1>1 DEF StaysInSync, QueueIntact
  <1>14. ASSUME NEW b \in Others PROVE InFlight(b)' /\ WellCut(b)' /\ InSync(b)' /\ Matched(b)'
    <2>1. QueueIntact /\ Undisturbed
      BY <1>1 DEF QueueIntact, Undisturbed
    <2>2. UNCHANGED <<rbuf[b], sock[b], late[b], owed[b], state[b], queue[b], pending[b], asked[b]>>
      BY <1>1, <1>5
    <2>3. QED
      BY <1>6, <2>1, <2>2, LeftAlone
  <1>15. ASSUME NEW b \in sent PROVE InFlight(b)' /\ WellCut(b)' /\ InSync(b)' /\ Matched(b)'
    <2>1. /\ Stream(b)' = Stream(b) /\ late'[b] = late[b] /\ b \in Backends
          /\ state'[b] \in {"conn_mwrite", "conn_closing"}
      BY <1>1, <1>5 DEF Stream
    <2>2. InFlight(b)'
      <3> DEFINE n == Cardinality(Lines(Stream(b)))
      <3>1. Stream(b) \in Seq(Parts)
        BY <1>6, <2>1, StreamType
      <3>2. n \in Nat /\ pending[b] \in Nat /\ asked[b] \in Nat
        BY <1>6, <2>1, <3>1, LinesCount DEF Types
      <3>3. Len(owed[b]) = pending[b] + asked[b] + n
        BY <1>6, <2>1 DEF InFlight
      <3>4. pending'[b] = pending[b] + 1 /\ asked'[b] = asked[b] /\ Cardinality(Lines(Stream(b)')) = n
        BY <1>1, <1>5, <2>1
      <3> HIDE DEF n
      <3>5. Len(owed'[b]) = pending'[b] + asked'[b] + n
        <4> DEFINE m == pending[b]
                   a == asked[b]
        <4>1. m \in Nat /\ a \in Nat /\ Len(owed[b]) = m + a + n
          BY <3>2, <3>3
        <4> HIDE DEF m, a
        <4>2. Len(owed[b]) + 1 = (m + 1) + a + n
          BY <3>2, <4>1
        <4>3. QED
          BY <1>9, <3>4, <4>2 DEF m, a
      <3>6. Len(owed'[b]) = queue'[b].used - queue'[b].done
        BY <1>8, <1>9
      <3>7. QED
        BY <3>4, <3>5, <3>6 DEF InFlight
    <2>3. WellCut(b)'
      BY <1>1, <1>6, <2>1 DEF WellCut
    <2>4. InSync(b)'
      <3>1. Undisturbed /\ InSync(b)
        BY <1>1, <1>6, <2>1 DEF Undisturbed, QueueIntact
      <3>2. Undisturbed' => state[b] # "conn_swallow"
        BY <1>10 DEF Undisturbed
      <3>3. QED
        BY <2>1, <3>1, <3>2 DEF InSync
    <2>5. Matched(b)'
      <3> SUFFICES ASSUME QueueIntact', NEW k \in 1..Len(owed'[b])
                   PROVE  owed'[b][k] = queue'[b].rpc[queue'[b].done + k]
        BY DEF Matched
      <3>1. HasRoom(queue[b]) \/ queue[b].done \in {0, queue[b].used}
        BY <1>10 DEF QueueIntact
      <3>2. CASE k = Len(owed[b]) + 1
        BY <1>8, <1>9, <3>1, <3>2
      <3>3. CASE k # Len(owed[b]) + 1
        <4>1. k \in 1..Len(owed[b])
          BY <1>7, <1>9, <2>1, <3>3
        <4>2. owed[b][k] = queue[b].rpc[queue[b].done + k]
          BY <1>6, <2>1, <4>1 DEF Matched
        <4>3. QED
          BY <1>8, <1>9, <3>1, <4>1, <4>2
      <3>4. QED
        BY <3>2, <3>3
    <2>6. QED
      BY <2>2, <2>3, <2>4, <2>5
  <1>16. Awaited'
    <2>1. /\ \A b \in Backends : \A k, l \in 1..Len(owed[b]) : owed[b][k] = owed[b][l] => k = l
          /\ \A d \in Clients : /\ rpcwaiting[d] = Cardinality(Owing(d))
                                /\ cstate[d] # "conn_rpc_wait" => rpcwaiting[d] = 0
      BY <1>6 DEF Awaited
    <2>2. Owing(c) = {} /\ rpcwaiting[c] = 0
      <3>1. IsFiniteSet(Owing(c))
        <4>1. Owing(c) \in SUBSET Backends
          BY DEF Owing
        <4>2. QED
          BY <4>1, FS_Subset
      <3>2. Cardinality(Owing(c)) = 0
        BY <1>1, <2>1
      <3>3. QED
        BY <1>1, <2>1, <3>1, <3>2, FS_EmptySet
    <2>3. \A b \in Backends : \A k \in 1..Len(owed[b]) : owed[b][k] # c
      BY <2>2 DEF Owing
    <2>4. \A b \in Backends : \A k, l \in 1..Len(owed'[b]) : owed'[b][k] = owed'[b][l] => k = l
      <3> SUFFICES ASSUME NEW b \in Backends, NEW k \in 1..Len(owed'[b]), NEW l \in 1..Len(owed'[b]),
                          owed'[b][k] = owed'[b][l]
                   PROVE  k = l
        OBVIOUS
      <3>1. CASE b \in Others
        BY <1>5, <2>1, <3>1
      <3>2. SUFFICES ASSUME b \in sent PROVE k = l
        BY <3>1
      <3>3. \A j \in 1..Len(owed'[b]) : j # Len(owed[b]) + 1 => j \in 1..Len(owed[b])
        BY <1>7, <1>9, <3>2
      <3>4. \A j \in 1..Len(owed'[b]) : owed'[b][j] = c <=> j = Len(owed[b]) + 1
        <4>1. ASSUME NEW j \in 1..Len(owed'[b]), j # Len(owed[b]) + 1 PROVE owed'[b][j] # c
          <5>1. j \in 1..Len(owed[b])
            BY <3>3, <4>1
          <5>2. owed'[b][j] = owed[b][j]
            BY <1>9, <3>2, <5>1
          <5>3. owed[b][j] # c
            BY <2>3, <5>1
          <5>4. QED
            BY <5>2, <5>3
        <4>2. owed'[b][Len(owed[b]) + 1] = c
          BY <1>9, <3>2
        <4>3. QED
          BY <4>1, <4>2
      <3>5. QED
        BY <1>9, <2>1, <3>2, <3>3, <3>4
    <2>5. Owing(c)' = sent
      <3>1. \A b \in sent : Len(owed[b]) + 1 \in 1..Len(owed'[b]) /\ owed'[b][Len(owed[b]) + 1] = c
        BY <1>7, <1>9
      <3>2. \A b \in Others : \A k \in 1..Len(owed'[b]) : owed'[b][k] # c
        BY <1>5, <2>3
      <3>3. QED
        BY <3>1, <3>2 DEF Owing
    <2>6. ASSUME NEW d \in Clients, d # c PROVE Owing(d)' = Owing(d)
      <3>1. ASSUME NEW b \in Others PROVE b \in Owing(d)' <=> b \in Owing(d)
        <4>1. owed'[b] = owed[b] /\ b \in Backends
          BY <1>5
        <4>2. QED
          BY <4>1 DEF Owing
      <3>2. ASSUME NEW b \in sent PROVE b \in Owing(d)' <=> b \in Owing(d)
        <4>1. ASSUME NEW k \in 1..Len(owed'[b]), owed'[b][k] = d
              PROVE  k \in 1..Len(owed[b]) /\ owed[b][k] = d
          <5>1. k # Len(owed[b]) + 1
            BY <1>9, <2>6, <4>1
          <5>2. k \in 1..Len(owed[b])
            BY <1>7, <1>9, <5>1
          <5>3. QED
            BY <1>9, <4>1, <5>2
        <4>2. ASSUME NEW k \in 1..Len(owed[b]), owed[b][k] = d
              PROVE  k \in 1..Len(owed'[b]) /\ owed'[b][k] = d
          BY <1>7, <1>9, <4>2
        <4>3. QED
          BY <4>1, <4>2 DEF Owing
      <3>3. Owing(d) \subseteq Backends /\ Owing(d)' \subseteq Backends
        BY DEF Owing
      <3>4. QED
        BY <3>1, <3>2, <3>3
    <2>7. ASSUME NEW d \in Clients
          PROVE  /\ rpcwaiting'[d] = Cardinality(Owing(d)')
                 /\ cstate'[d] # "conn_rpc_wait" => rpcwaiting'[d] = 0
      <3>1. CASE d = c
        <4>1. rpcwaiting'[c] = 0 + Cardinality(sent) /\ cstate'[c] = "conn_rpc_wait"
          BY <1>1, <1>4, <1>6, <2>2 DEF Types
        <4>2. 0 + Cardinality(sent) = Cardinality(sent)
          BY FS_Subset, FS_CardinalityType
        <4>3. QED
          BY <2>5, <3>1, <4>1, <4>2
      <3>2. CASE d # c
        <4>1. rpcwaiting'[d] = rpcwaiting[d] /\ cstate'[d] = cstate[d]
          BY <1>1, <1>4, <1>6, <3>2 DEF Types
        <4>2. QED
          BY <2>1, <2>6, <3>2, <4>1
      <3>3. QED
        BY <3>1, <3>2
    <2>8. QED
      BY <2>4, <2>7 DEF Awaited
  <1>17. QED
    BY <1>11, <1>12, <1>13, <1>14, <1>15, <1>16 DEF IInv
-----------------------------------------------------------------------------
(* The theorems *)

\* The worker is one of the server's, and stays the same.
LEMMA ThreadFixed == Spec => [](thread \in Threads)
  <1>1. Init => thread \in Threads
    BY DEF Init
  <1>2. thread \in Threads /\ [Next]_vars => (thread \in Threads)'
    BY DEF Next, vars, ProcessGet, FinishGet, Drive, Event, Resume, Write, Read, Parse, Swallow, Close,
           Answer, Deliver
  <1>3. QED
    BY <1>1, <1>2, PTL DEF Spec

\* The inductive invariant holds throughout: of the worker, its clients, its
\* backend connections and what is on the wire (memcache_conn.c).
THEOREM Invariance == Spec => []IInv
  <1>1. Init => IInv
    BY InitStep
  <1>2. IInv /\ thread \in Threads /\ [Next]_vars => IInv'
    <2> SUFFICES ASSUME IInv, thread \in Threads, [Next]_vars PROVE IInv'
      OBVIOUS
    <2>1. ASSUME NEW c \in Clients, ProcessGet(c) PROVE IInv'
      BY <2>1, ProcessGetStep
    <2>2. ASSUME NEW c \in Clients, FinishGet(c) PROVE IInv'
      BY <2>2, FinishGetStep
    <2>3. ASSUME NEW b \in Backends, Drive(b) PROVE IInv'
      BY <2>3, EventStep, ResumeStep, WriteStep, ReadStep, ParseStep, SwallowStep, CloseStep DEF Drive
    <2>4. ASSUME NEW b \in Backends, Answer(b) PROVE IInv'
      BY <2>4, AnswerStep
    <2>5. ASSUME NEW b \in Backends, Deliver(b) PROVE IInv'
      BY <2>5, DeliverStep
    <2>6. CASE UNCHANGED vars
      <3>1. UNCHANGED <<cstate, rpcwaiting, state, queue, pending, rbuf, sock, late, asked, dead, owed, flaws>>
        BY <2>6 DEF vars, clients, network
      <3>2. Types' /\ Bounded' /\ StaysInSync'
        BY <3>1 DEF IInv, Types, Bounded, StaysInSync, QueueIntact
      <3>3. ~dead' => \A b \in Backends : (InFlight(b) /\ WellCut(b) /\ InSync(b) /\ Matched(b))'
        BY <3>1, Untouched DEF IInv
      <3>4. ~dead' => Awaited'
        BY <3>1, StillAwaited DEF IInv
      <3>5. QED
        BY <3>2, <3>3, <3>4 DEF IInv
    <2>7. QED
      BY <2>1, <2>2, <2>3, <2>4, <2>5, <2>6 DEF Next
  <1>3. QED
    BY <1>1, <1>2, ThreadFixed, PTL DEF Spec

\* The variables have their types and the indices of a queue are in order and,
\* unless it could not grow, within its array (conn_ensure_rpc_space).
THEOREM TypeCorrect == Spec => []TypeOK
  <1>1. IInv /\ thread \in Threads => TypeOK
    <2> SUFFICES ASSUME IInv, thread \in Threads PROVE TypeOK
      OBVIOUS
    <2>1. \A b \in Backends : 0 <= queue[b].done
      BY DEF IInv, Types, Queue
    <2>2. QED
      BY <2>1 DEF IInv, Types, Bounded, Within, TypeOK, ClientStates, BackendStates
  <1>2. QED
    BY <1>1, Invariance, ThreadFixed, PTL

\* The part of a queue between rpcdone and rpcused is the clients whose requests
\* are unanswered, in the order of their requests (memcache_get and
\* memcached_response), unless a compaction or a failed realloc damaged it.
THEOREM QueueInOrder == Spec => []QueueOrdered
  <1>1. IInv => QueueOrdered
    <2> SUFFICES ASSUME IInv, QueueIntact, ~dead, NEW b \in Backends
                 PROVE  SubSeq(queue[b].rpc, queue[b].done + 1, queue[b].used) = owed[b]
      BY DEF QueueOrdered
    <2> DEFINE q == queue[b]
               o == owed[b]
               S == Clients \cup {Wild}
               p == SubSeq(q.rpc, q.done + 1, q.used)
    <2>1. /\ q.rpc \in Seq(S) /\ q.used \in Nat /\ q.done \in Nat /\ Len(q.rpc) \in Nat
          /\ q.used <= Len(q.rpc) /\ q.done <= q.used
          /\ o \in Seq(Clients) /\ Len(o) = q.used - q.done
          /\ \A k \in 1..Len(o) : o[k] = q.rpc[q.done + k]
      BY LenProperties DEF IInv, Types, Queue, Bounded, Within, InFlight, Matched
    <2>2. o \in Seq(S)
      BY <2>1, SeqMonotonic
    <2> HIDE DEF q, o, S
    <2>3. /\ p \in Seq(S) /\ Len(p) = q.used - q.done
          /\ \A k \in 1..Len(p) : p[k] = q.rpc[q.done + k]
      <3> DEFINE m == q.done + 1
                 n == q.used
      <3>1. m \in Int /\ n \in Int /\ \A k \in m..n : k \in 1..Len(q.rpc)
        BY <2>1
      <3>2. \A k \in m..n : q.rpc[k] \in S
        BY <2>1, <3>1, ElementOfSeq
      <3> HIDE DEF m, n
      <3>3. /\ SubSeq(q.rpc, m, n) \in Seq(S)
            /\ Len(SubSeq(q.rpc, m, n)) = IF m <= n THEN n - m + 1 ELSE 0
            /\ \A k \in 1..n - m + 1 : SubSeq(q.rpc, m, n)[k] = q.rpc[m + k - 1]
        BY <3>1, <3>2, SubSeqProperties
      <3>4. /\ (IF m <= n THEN n - m + 1 ELSE 0) = q.used - q.done /\ n - m + 1 = q.used - q.done
            /\ \A k \in 1..q.used - q.done : m + k - 1 = q.done + k
        BY <2>1 DEF m, n
      <3>5. QED
        BY <3>3, <3>4 DEF m, n
    <2> HIDE DEF p
    <2>4. \A k \in 1..Len(p) : p[k] = o[k]
      BY <2>1, <2>3
    <2>5. QED
      BY <2>1, <2>2, <2>3, <2>4, SeqEqual DEF p, q, o
  <1>2. QED
    BY <1>1, Invariance, PTL

\* No client leaves conn_rpc_wait while a backend owes it a response
\* (process_hit_response, process_miss_response), with an undamaged queue.
THEOREM WaitsForAll == Spec => []RespondAfterAll
  <1>1. IInv => RespondAfterAll
    <2> SUFFICES ASSUME IInv, NEW c \in Clients, NEW b \in Backends, QueueIntact, ~dead,
                        cstate[c] # "conn_rpc_wait", c \in ToSet(owed[b])
                 PROVE  FALSE
      BY DEF RespondAfterAll
    <2>1. Cardinality(Owing(c)) = 0
      BY DEF IInv, Awaited
    <2>2. IsFiniteSet(Owing(c))
      <3>1. Owing(c) \in SUBSET Backends
        BY DEF Owing
      <3>2. QED
        BY <3>1, FS_Subset
    <2>3. Owing(c) = {}
      BY <2>1, <2>2, FS_EmptySet
    <2>4. \E k \in 1..Len(owed[b]) : owed[b][k] = c
      BY DEF ToSet, IInv, Types
    <2>5. QED
      BY <2>3, <2>4 DEF Owing
  <1>2. QED
    BY <1>1, Invariance, PTL

\* As long as the queue was moved whole and had room and no get came in the middle
\* of a block, no part of a block is taken for a response and no response finds an
\* empty queue or a wild pointer: the process lives (memcached_response, case
\* conn_swallow), also when requests find no memory and connections are closed.
THEOREM KeepsInSync == Spec => []StaysInSync
  <1>1. IInv => StaysInSync
    BY DEF IInv
  <1>2. QED
    BY <1>1, Invariance, PTL
=============================================================================
