------------------------------ MODULE StatsProofs ------------------------------
(***************************************************************************)
(* Invariants of Stats, proved for any number of workers, connections and  *)
(* clients, with reordering and failures.                                  *)
(*                                                                         *)
(* Base holds with and without rm_client_stats: where a thread is says     *)
(* what its locals hold, and a conn structure is live or in the hands of   *)
(* one thread.  Its last part, Tokens, bounds what failures can leak.      *)
(* Counted holds when nothing is ever removed, which is how the program is *)
(* built, until a lookup matches an entry whose stores are not all visible *)
(* (overtaken): every pointer of the map, of a thread and of a connection  *)
(* leads to allocated memory, every entry but a thread's newest is filled  *)
(* in, and each count is the number of connections and threads that refer  *)
(* to the entry, plus the map's own reference and those leaked; there are  *)
(* too few of them to wrap a 16-bit count (NoWrap).  The proofs speak of   *)
(* an entry's tag: its client id once its four stores are visible, Null    *)
(* before.                                                                 *)
(*                                                                         *)
(* Chained, the third part, is that the entries can be graded: to each     *)
(* belong an age and a bucket such that every next pointer, written or     *)
(* about to be written from a thread's locals, leads to an older entry of  *)
(* the same bucket.  A new entry gets the largest age when it is           *)
(* allocated, and two threads that race for a bucket lose entries but      *)
(* never make one older than what follows it.  Along a chain ages fall, so *)
(* that it ends within as many hops as there are entries (GradedSound).    *)
(*                                                                         *)
(* Shared, the fourth, says why no entry is lost and no client gets two    *)
(* while every thread has its bucket to itself: a new entry is reachable   *)
(* only through the thread that made it, every published one is the first  *)
(* of a chain or follows a published one, and a search that has not found  *)
(* its client yet has all entries of that client ahead of it (Covers).  A  *)
(* lookup alone in its bucket overtakes nobody (NotOvertaken).             *)
(***************************************************************************)
EXTENDS Stats, FiniteSetTheorems, SequenceTheorems, InductionLemmas, TLAPS

\* Counting modulo k up to k - 1.
LEMMA RemainderSmall == ASSUME NEW k \in Nat, NEW n \in Nat, n < k PROVE n % k = n
  OBVIOUS

USE StatsAssumption

Jobs == {"none", "open", "test", "close", "remove"}
Locals == [pc : PCs, job : Jobs, want : Ids \cup {Null}, cs : Entries \cup {Null},
           prev : Entries \cup {Null}, seen : Entries \cup {Null}, conn : Conns \cup {Null}]

\* What a thread's locals hold where it is.
ThreadOK(t) ==
    LET me == thr[t] IN
    /\ me.pc = "idle" <=> me.job = "none"
    /\ me.pc = "lookup" => me.job \in {"open", "test", "remove"} /\ me.want \in Ids
    /\ me.pc \in {"insert", "incr"} =>
           me.job \in {"open", "test"} /\ me.want \in Ids /\ me.cs \in Entries
    /\ me.pc \in {"count", "event_add"} => me.job = "open" /\ me.cs \in Entries
    /\ me.pc = "event_add" => stats[me.conn] = me.cs
    /\ me.pc = "decr" => me.job \in {"test", "close", "remove"} /\ me.cs \in Entries
    /\ me.pc = "free" => me.job \in {"close", "remove"} /\ me.cs \in Entries
    /\ me.pc = "unlink" => me.job = "remove" /\ me.want \in Ids /\ me.cs \in Entries
    /\ me.job \in {"open", "close"} <=> me.conn # Null
    /\ me.job = "test" => t = Main
    /\ me.job \in {"open", "close", "remove"} => t \in Workers

\* A structure is in one place: live, or being opened or closed by one thread.
ConnsHeld ==
    /\ \A t \in Threads : thr[t].conn # Null => owner[thr[t].conn] = Null
    /\ \A t, u \in Threads : thr[t].conn = thr[u].conn /\ thr[t].conn # Null => t = u
    /\ \A c \in Conns : owner[c] # Null => stats[c] \in Entries

\* Live connections and threads that open or close one.
Live == {c \in Conns : owner[c] # Null}
Busy == {t \in Threads : thr[t].job \in {"open", "close"}}

\* As many references as were asked for: those of live connections, of threads
\* and those leaked from any one entry, which only failures do.
Tokens ==
    \A e \in Entries : /\ Cardinality(Live) + Cardinality(Busy) + leaked[e] <= opens
                       /\ ~Faults => leaked[e] = 0

Types ==
    /\ map \in [Buckets -> Entries \cup {Null}]
    /\ alloc \subseteq Entries
    /\ cid \in [Entries -> Ids] /\ stored \in [Entries -> SUBSET Stores]
    /\ refcnt \in [Entries -> 0..RefMod - 1]
    /\ next \in [Entries -> Entries \cup {Null}]
    /\ stats \in [Conns -> Entries \cup {Null}]
    /\ owner \in [Conns -> Workers \cup {Null}]
    /\ thr \in [Threads -> Locals]
    /\ testing \in Seq(Ids)
    /\ opens \in 0..MaxOpens
    /\ removed \subseteq Entries /\ leaked \in [Entries -> Nat]
    /\ disturbed \in BOOLEAN /\ overtaken \in BOOLEAN

Base == Types /\ (\A t \in Threads : ThreadOK(t)) /\ ConnsHeld /\ Tokens

\* An entry's client, Null until the last store of its insertion is visible.
tag == [e \in Entries |-> IF stored[e] = Stores THEN cid[e] ELSE Null]

\* What the entries' reference counts rest on, when nothing is ever removed.
NoRemoval == removed = {} /\ \A t \in Threads : thr[t].job # "remove" /\ thr[t].pc # "free"

PointersValid ==
    /\ \A t \in Threads : thr[t].cs \in alloc \cup {Null} /\ thr[t].seen \in alloc \cup {Null}
    /\ \A b \in Buckets : map[b] \in alloc \cup {Null}
    /\ \A e \in alloc : next[e] \in alloc \cup {Null}
    /\ \A c \in Live : stats[c] \in alloc

Blank(t, e) == thr[t].pc = "insert" /\ thr[t].cs = e

FilledIn ==
    /\ \A t \in Threads :
        /\ thr[t].pc = "incr" => tag[thr[t].cs] = thr[t].want
        /\ thr[t].pc \in {"count", "event_add", "decr"} => tag[thr[t].cs] # Null
        /\ thr[t].pc = "insert" => tag[thr[t].cs] = Null
    /\ \A c \in Live : tag[stats[c]] # Null
    /\ \A e \in alloc : tag[e] = Null => leaked[e] = 0 /\ \E t \in Threads : Blank(t, e)
    /\ \A t, u \in Threads : \A e \in Entries : Blank(t, e) /\ Blank(u, e) => t = u

\* What the stores made so far have left in a new entry.
Partly ==
    \A t \in Threads : thr[t].pc = "insert" =>
        /\ "id" \in stored[thr[t].cs] => cid[thr[t].cs] = thr[t].want
        /\ "refs" \in stored[thr[t].cs] => refcnt[thr[t].cs] = 2

Exact ==
    \A e \in alloc : tag[e] # Null =>
        refcnt[e] = Cardinality(LiveConns(e)) + Cardinality(LocalRefs(e)) + leaked[e] + 1

Counted == NoRemoval /\ PointersValid /\ FilledIn /\ Partly /\ Exact

IInv == Base /\ (~Removal /\ ~overtaken => Counted)
-----------------------------------------------------------------------------
(* Facts that the steps share *)

\* There are finitely many of everything that is counted.
LEMMA Numbers ==
    /\ IsFiniteSet(Threads) /\ Cardinality(Threads) = Cardinality(Workers) + 1
    /\ Cardinality(Conns) \in Nat /\ Cardinality(Workers) \in Nat
    /\ RefMod \in Nat /\ RefMod > 2
    /\ RefMod > Cardinality(Conns) + Cardinality(Workers) + 2 + (IF Faults THEN MaxOpens ELSE 0)
  <1>1. Cardinality(Conns) \in Nat /\ Cardinality(Workers) \in Nat
    BY FS_CardinalityType
  <1>2. IsFiniteSet(Threads) /\ Cardinality(Threads) = Cardinality(Workers) + 1
    BY FS_AddElement DEF Threads
  <1>3. QED
    BY <1>1, <1>2

LEMMA Finite ==
    /\ IsFiniteSet(Threads) /\ IsFiniteSet(Live) /\ IsFiniteSet(Busy)
    /\ Cardinality(Live) \in Nat /\ Cardinality(Busy) \in Nat
    /\ \A e : /\ IsFiniteSet(LiveConns(e)) /\ IsFiniteSet(LocalRefs(e))
              /\ Cardinality(LiveConns(e)) \in Nat /\ Cardinality(LocalRefs(e)) \in Nat
  <1>1. IsFiniteSet(Threads)
    BY FS_AddElement DEF Threads
  <1>2. Live \in SUBSET Conns /\ Busy \in SUBSET Threads
    BY DEF Live, Busy
  <1>3. IsFiniteSet(Live) /\ IsFiniteSet(Busy)
    BY <1>1, <1>2, FS_Subset
  <1>4. ASSUME NEW e PROVE IsFiniteSet(LiveConns(e)) /\ IsFiniteSet(LocalRefs(e))
    <2>1. LiveConns(e) \in SUBSET Conns /\ LocalRefs(e) \in SUBSET Threads
      BY DEF LiveConns, LocalRefs
    <2>2. QED
      BY <1>1, <2>1, FS_Subset
  <1>5. QED
    BY <1>1, <1>3, <1>4, FS_CardinalityType

\* A finite set that gains or loses one element.
LEMMA CardPlus ==
    ASSUME NEW S, IsFiniteSet(S), NEW x, x \notin S, NEW T, T = S \cup {x}
    PROVE  Cardinality(T) = Cardinality(S) + 1
  BY FS_AddElement

LEMMA CardMinus ==
    ASSUME NEW S, IsFiniteSet(S), NEW x \in S, NEW T, T = S \ {x}
    PROVE  Cardinality(T) = Cardinality(S) - 1
  BY FS_RemoveElement

\* The types of the locals.
LEMMA LocalTypes ==
    ASSUME Types, NEW t \in Threads
    PROVE  /\ thr[t] \in Locals
           /\ thr[t].pc \in PCs /\ thr[t].job \in Jobs /\ thr[t].want \in Ids \cup {Null}
           /\ thr[t].cs \in Entries \cup {Null} /\ thr[t].prev \in Entries \cup {Null}
           /\ thr[t].seen \in Entries \cup {Null} /\ thr[t].conn \in Conns \cup {Null}
  BY DEF Types, Locals

\* The locals of a thread after a step: p, j, w, e, f, s, c in the order of Locals.
LocalsAre(me, p, j, w, e, f, s, c) ==
    /\ me \in Locals
    /\ me.pc = p /\ me.job = j /\ me.want = w /\ me.cs = e /\ me.prev = f /\ me.seen = s /\ me.conn = c

Others(t) == thr' \in [Threads -> Locals] /\ \A u \in Threads \ {t} : thr'[u] = thr[u]

LEMMA MoveLocals ==
    ASSUME Types, NEW t \in Threads, NEW p \in PCs, Move(t, p)
    PROVE  /\ Others(t)
           /\ LocalsAre(thr'[t], p, thr[t].job, thr[t].want, thr[t].cs, thr[t].prev, thr[t].seen, thr[t].conn)
  <1>1. thr[t] \in Locals /\ thr \in [Threads -> Locals]
    BY DEF Types
  <1>2. thr' = [thr EXCEPT ![t] = [thr[t] EXCEPT !.pc = p]]
    BY <1>1 DEF Move
  <1> DEFINE r == [thr[t] EXCEPT !.pc = p]
  <1>3. LocalsAre(r, p, thr[t].job, thr[t].want, thr[t].cs, thr[t].prev, thr[t].seen, thr[t].conn)
    BY <1>1 DEF LocalsAre, Locals
  <1>4. r \in Locals
    BY <1>3 DEF LocalsAre
  <1> HIDE DEF r
  <1>5. thr' = [thr EXCEPT ![t] = r]
    BY <1>2 DEF r
  <1>6. Others(t) /\ thr'[t] = r
    BY <1>1, <1>4, <1>5 DEF Others
  <1>7. QED
    BY <1>3, <1>6

LEMMA ReturnLocals ==
    ASSUME Types, NEW t \in Threads, Return(t)
    PROVE  Others(t) /\ LocalsAre(thr'[t], "idle", "none", Null, Null, Null, Null, Null)
  <1>1. thr \in [Threads -> Locals]
    BY DEF Types
  <1>2. LocalsAre(Idle, "idle", "none", Null, Null, Null, Null, Null)
    BY DEF Idle, LocalsAre, Locals, PCs, Jobs
  <1>3. Idle \in Locals
    BY <1>2 DEF LocalsAre
  <1>4. Others(t) /\ thr'[t] = Idle
    BY <1>1, <1>3 DEF Return, Others
  <1>5. QED
    BY <1>2, <1>4

\* Enter: the thread is at the head of its client's bucket.
LEMMA EnterLocals ==
    ASSUME Types, NEW t \in Threads, NEW j \in Jobs, NEW i \in Ids, NEW c \in Conns \cup {Null},
           Enter(t, j, i, c)
    PROVE  /\ thr[t].pc = "idle" /\ Others(t) /\ map[KeyOf[i]] \in Entries \cup {Null}
           /\ LocalsAre(thr'[t], "lookup", j, i, map[KeyOf[i]], Null, Null, c)
  <1>1. thr \in [Threads -> Locals]
    BY DEF Types
  <1>2. KeyOf[i] \in Buckets /\ map[KeyOf[i]] \in Entries \cup {Null}
    BY DEF Types, Buckets
  <1> DEFINE r == [pc |-> "lookup", job |-> j, want |-> i, cs |-> map[KeyOf[i]], prev |-> Null,
                   seen |-> Null, conn |-> c]
  <1>3. LocalsAre(r, "lookup", j, i, map[KeyOf[i]], Null, Null, c)
    BY <1>2 DEF LocalsAre, Locals, PCs
  <1>4. r \in Locals
    BY <1>3 DEF LocalsAre
  <1>5. thr' = [thr EXCEPT ![t] = r] /\ thr[t].pc = "idle"
    BY DEF Enter, At
  <1> HIDE DEF r
  <1>6. Others(t) /\ thr'[t] = r
    BY <1>1, <1>4, <1>5 DEF Others
  <1>7. QED
    BY <1>2, <1>3, <1>5, <1>6

\* A step of t that opens and closes nothing leaves the other threads, the live
\* connections and the number of references in order.
LEMMA OthersKept ==
    ASSUME Base, NEW t \in Threads, Others(t),
           \/ thr'[t].job = thr[t].job /\ thr'[t].conn = thr[t].conn
           \/ thr'[t].job \notin {"open", "close", "test"} /\ thr'[t].conn = Null,
           UNCHANGED <<owner, opens, testing>>,
           \A e \in Entries : leaked'[e] \in Nat /\ leaked'[e] <= leaked[e],
           \A c \in Conns : c # thr[t].conn => stats'[c] = stats[c]
    PROVE  ConnsHeld' /\ Tokens' /\ \A u \in Threads \ {t} : ThreadOK(u)'
  <1>1. Types /\ ConnsHeld /\ Tokens /\ \A u \in Threads : ThreadOK(u)
    BY DEF Base
  <1>2. \A u \in Threads : thr[u].conn \in Conns \cup {Null}
    BY <1>1, LocalTypes
  <1>3. \A u \in Threads : thr'[u].conn # Null => thr'[u].conn = thr[u].conn
    BY DEF Others
  <1>4. ConnsHeld'
    <2>1. \A u \in Threads : thr'[u].conn # Null => owner'[thr'[u].conn] = Null
      BY <1>1, <1>3 DEF ConnsHeld
    <2>2. \A u, v \in Threads : thr'[u].conn = thr'[v].conn /\ thr'[u].conn # Null => u = v
      BY <1>1, <1>3 DEF ConnsHeld
    <2>3. ASSUME NEW c \in Conns, owner'[c] # Null PROVE stats'[c] \in Entries
      <3>1. c # thr[t].conn
        BY <1>1, <2>3 DEF ConnsHeld
      <3>2. QED
        BY <1>1, <2>3, <3>1 DEF ConnsHeld
    <2>4. QED
      BY <2>1, <2>2, <2>3 DEF ConnsHeld
  <1>5. Tokens'
    <2>1. Live' = Live /\ Busy' \in SUBSET Busy
      BY DEF Live, Busy, Others
    <2>2. Cardinality(Busy') <= Cardinality(Busy) /\ Cardinality(Busy') \in Nat
      <3>1. IsFiniteSet(Busy)
        BY Finite
      <3>2. IsFiniteSet(Busy') /\ Cardinality(Busy') <= Cardinality(Busy)
        BY <2>1, <3>1, FS_Subset
      <3>3. QED
        BY <3>2, FS_CardinalityType
    <2>3. ASSUME NEW e \in Entries
          PROVE  Cardinality(Live') + Cardinality(Busy') + leaked'[e] <= opens' /\ (~Faults => leaked'[e] = 0)
      <3> DEFINE l == Cardinality(Live)
                 n == Cardinality(Busy)
                 m == Cardinality(Busy')
                 x == leaked[e]
                 y == leaked'[e]
      <3>1. /\ l \in Nat /\ n \in Nat /\ m \in Nat /\ x \in Nat /\ y \in Nat /\ opens \in Nat
            /\ y <= x /\ m <= n /\ l + n + x <= opens /\ opens' = opens /\ Cardinality(Live') = l
            /\ ~Faults => x = 0
        BY <1>1, <2>1, <2>2, Finite DEF Types, Tokens
      <3> HIDE DEF l, n, m, x, y
      <3>2. l + m + y <= opens /\ (~Faults => y = 0)
        BY <3>1
      <3>3. QED
        BY <3>1, <3>2 DEF m, y
    <2>4. QED
      BY <2>3 DEF Tokens
  <1>6. ASSUME NEW u \in Threads \ {t} PROVE ThreadOK(u)'
    <2>1. thr'[u] = thr[u] /\ ThreadOK(u)
      BY <1>1 DEF Others
    <2>2. thr[u].pc = "event_add" => stats'[thr[u].conn] = stats[thr[u].conn]
      <3>1. SUFFICES ASSUME thr[u].pc = "event_add" PROVE stats'[thr[u].conn] = stats[thr[u].conn]
        OBVIOUS
      <3>2. thr[u].conn # Null /\ thr[u].conn \in Conns
        BY <1>2, <2>1, <3>1 DEF ThreadOK
      <3>3. thr[u].conn # thr[t].conn
        BY <1>1, <3>2 DEF ConnsHeld
      <3>4. QED
        BY <3>2, <3>3
    <2>3. QED
      BY <2>1, <2>2 DEF ThreadOK
  <1>7. QED
    BY <1>4, <1>5, <1>6

\* The same when it touches no connection and leaks nothing.
LEMMA QuietKept ==
    ASSUME Base, NEW t \in Threads, Others(t),
           \/ thr'[t].job = thr[t].job /\ thr'[t].conn = thr[t].conn
           \/ thr'[t].job \notin {"open", "close", "test"} /\ thr'[t].conn = Null,
           UNCHANGED <<owner, opens, testing, leaked, stats>>
    PROVE  ConnsHeld' /\ Tokens' /\ \A u \in Threads \ {t} : ThreadOK(u)'
  <1>1. \A x \in Entries : leaked'[x] \in Nat /\ leaked'[x] <= leaked[x]
    BY DEF Base, Types
  <1>2. \A c \in Conns : stats'[c] = stats[c]
    OBVIOUS
  <1>3. QED
    BY <1>1, <1>2, OthersKept
-----------------------------------------------------------------------------
(* Base, one step per action *)

LEMMA WalkBase == ASSUME Base, NEW t \in Threads, Walk(t) PROVE Base'
  <1> DEFINE me == thr[t]
             f == IF me.job = "remove" THEN me.cs ELSE me.prev
  <1>1. Types /\ ThreadOK(t) /\ thr \in [Threads -> Locals]
    BY DEF Base, Types
  <1>2. /\ me.pc = "lookup" /\ me.cs \in Entries
        /\ UNCHANGED <<map, alloc, cid, stored, tag, refcnt, next, stats, owner, testing, opens, removed, leaked, disturbed, overtaken>>
        /\ thr' = [thr EXCEPT ![t].prev = f, ![t].cs = next[me.cs]]
    BY <1>1, LocalTypes DEF Walk, At, fields, tag, history
  <1>3. Others(t) /\ LocalsAre(thr'[t], me.pc, me.job, me.want, next[me.cs], f, me.seen, me.conn)
    <2> DEFINE r == [me EXCEPT !.prev = f, !.cs = next[me.cs]]
    <2>1. next[me.cs] \in Entries \cup {Null} /\ f \in Entries \cup {Null} /\ me \in Locals
      BY <1>1, <1>2, LocalTypes DEF Types
    <2>2. LocalsAre(r, me.pc, me.job, me.want, next[me.cs], f, me.seen, me.conn)
      <3> HIDE DEF f
      <3>1. QED
        BY <2>1 DEF LocalsAre, Locals
    <2>3. r \in Locals
      BY <2>2 DEF LocalsAre
    <2>4. thr' = [thr EXCEPT ![t] = r]
      BY <1>1, <1>2
    <2> HIDE DEF r
    <2>5. Others(t) /\ thr'[t] = r
      BY <1>1, <2>3, <2>4 DEF Others
    <2>6. QED
      BY <2>2, <2>5
  <1>4. Types'
    BY <1>1, <1>2, <1>3 DEF Types, Others
  <1>5. ThreadOK(t)'
    BY <1>1, <1>2, <1>3 DEF ThreadOK, LocalsAre
  <1>6. ConnsHeld' /\ Tokens' /\ \A u \in Threads \ {t} : ThreadOK(u)'
    <2>1. \A x \in Entries : leaked'[x] \in Nat /\ leaked'[x] <= leaked[x]
      BY <1>1, <1>2 DEF Types
    <2>2. thr'[t].job = thr[t].job /\ thr'[t].conn = thr[t].conn
      BY <1>3 DEF LocalsAre
    <2>3. UNCHANGED <<owner, opens, testing>> /\ \A c \in Conns : stats'[c] = stats[c]
      BY <1>2
    <2>4. QED
      BY <1>3, <2>1, <2>2, <2>3, OthersKept
  <1>7. QED
    BY <1>4, <1>5, <1>6 DEF Base

LEMMA FoundBase == ASSUME Base, NEW t \in Threads, Found(t) PROVE Base'
  <1>1. Types /\ ThreadOK(t)
    BY DEF Base
  <1>2. PICK p \in {"unlink", "incr"} :
            /\ thr[t].pc = "lookup" /\ thr[t].cs # Null
            /\ UNCHANGED <<map, alloc, cid, stored, refcnt, next, stats, owner, testing, opens, removed, leaked, disturbed>>
            /\ overtaken' \in BOOLEAN
            /\ Move(t, p)
            /\ p = "unlink" <=> thr[t].job = "remove"
    BY <1>1 DEF Found, At, fields, Types
  <1>3. Others(t) /\ LocalsAre(thr'[t], p, thr[t].job, thr[t].want, thr[t].cs, thr[t].prev, thr[t].seen, thr[t].conn)
    BY <1>1, <1>2, MoveLocals DEF PCs
  <1>4. Types'
    BY <1>1, <1>2, <1>3 DEF Types, Others
  <1>5. ThreadOK(t)'
    BY <1>1, <1>2, <1>3, LocalTypes DEF ThreadOK, LocalsAre
  <1>6. ConnsHeld' /\ Tokens' /\ \A u \in Threads \ {t} : ThreadOK(u)'
    BY <1>2, <1>3, QuietKept DEF LocalsAre
  <1>7. QED
    BY <1>4, <1>5, <1>6 DEF Base

LEMMA NotFoundBase == ASSUME Base, NEW t \in Threads, NotFound(t) PROVE Base'
  <1> DEFINE me == thr[t]
             s == map[KeyOf[me.want]]
  <1>1. Types /\ ThreadOK(t) /\ thr \in [Threads -> Locals]
    BY DEF Base, Types
  <1>2. PICK e \in Entries \ alloc :
            /\ alloc' = alloc \cup {e}
            /\ cid' = [cid EXCEPT ![e] = ZeroId]
            /\ stored' = [stored EXCEPT ![e] = {}]
            /\ refcnt' = [refcnt EXCEPT ![e] = 0]
            /\ next' = [next EXCEPT ![e] = Null]
            /\ leaked' = [leaked EXCEPT ![e] = 0]
            /\ removed' = removed \ {e}
            /\ thr' = [thr EXCEPT ![t].pc = "insert", ![t].cs = e, ![t].seen = map[KeyOf[thr[t].want]]]
    BY DEF NotFound
  <1>3. /\ me.pc = "lookup" /\ me.job # "remove"
        /\ UNCHANGED <<map, stats, owner, testing, opens, disturbed, overtaken>>
    BY DEF NotFound, At
  <1>4. s \in Entries \cup {Null}
    BY <1>1, <1>3 DEF ThreadOK, Types, Buckets
  <1>5. Others(t) /\ LocalsAre(thr'[t], "insert", me.job, me.want, e, me.prev, s, me.conn)
    <2> DEFINE r == [me EXCEPT !.pc = "insert", !.cs = e, !.seen = s]
    <2>1. me \in Locals
      BY <1>1
    <2>2. LocalsAre(r, "insert", me.job, me.want, e, me.prev, s, me.conn)
      <3> HIDE DEF s
      <3>1. QED
        BY <1>4, <2>1 DEF LocalsAre, Locals, PCs
    <2>3. r \in Locals
      BY <2>2 DEF LocalsAre
    <2>4. thr' = [thr EXCEPT ![t] = r]
      BY <1>1, <1>2
    <2> HIDE DEF r
    <2>5. Others(t) /\ thr'[t] = r
      BY <1>1, <2>3, <2>4 DEF Others
    <2>6. QED
      BY <2>2, <2>5
  <1>6. Types'
    <2>1. alloc' \subseteq Entries /\ removed' \subseteq Entries
      BY <1>1, <1>2 DEF Types
    <2>2. /\ cid' \in [Entries -> Ids] /\ stored' \in [Entries -> SUBSET Stores]
          /\ next' \in [Entries -> Entries \cup {Null}]
      BY <1>1, <1>2 DEF Types
    <2>3. refcnt' \in [Entries -> 0..RefMod - 1] /\ leaked' \in [Entries -> Nat]
      BY <1>1, <1>2 DEF Types
    <2>4. QED
      BY <1>1, <1>3, <1>5, <2>1, <2>2, <2>3 DEF Types, Others
  <1>7. ThreadOK(t)'
    BY <1>1, <1>2, <1>3, <1>5 DEF ThreadOK, LocalsAre
  <1>8. ConnsHeld' /\ Tokens' /\ \A u \in Threads \ {t} : ThreadOK(u)'
    <2>1. \A x \in Entries : leaked'[x] \in Nat /\ leaked'[x] <= leaked[x]
      BY <1>1, <1>2 DEF Types
    <2>2. QED
      BY <1>1, <1>3, <1>5, <2>1, OthersKept DEF LocalsAre
  <1>9. QED
    BY <1>6, <1>7, <1>8 DEF Base

\* A step of Store: x is stored, and the thread goes on at p.
StoreOf(t, x, p) ==
    LET me == thr[t]
        d == me.cs
        b == KeyOf[me.want]
    IN  /\ me.pc = "insert" /\ d \in Entries /\ me.want \in Ids /\ b \in Buckets /\ x \notin stored[d]
        /\ stored'[d] = stored[d] \cup {x}
        /\ p = "insert" <=> stored'[d] # Stores
        /\ cid'[d] = (IF x = "id" THEN me.want ELSE cid[d])
        /\ refcnt'[d] = (IF x = "refs" THEN 2 ELSE refcnt[d])
        /\ next'[d] = (IF x = "next" THEN me.seen ELSE next[d])
        /\ map'[b] = (IF x = "map" THEN d ELSE map[b])
        /\ \A e \in Entries \ {d} :
            stored'[e] = stored[e] /\ cid'[e] = cid[e] /\ refcnt'[e] = refcnt[e] /\ next'[e] = next[e]
        /\ \A k \in Buckets \ {b} : map'[k] = map[k]
        /\ UNCHANGED <<alloc, stats, owner, testing, opens, removed, leaked, disturbed, overtaken>>
        /\ Others(t) /\ LocalsAre(thr'[t], p, me.job, me.want, d, me.prev, me.seen, me.conn)

LEMMA StoreEffect ==
    ASSUME Base, NEW t \in Threads, Store(t)
    PROVE  Types' /\ ThreadOK(t)' /\ \E x \in Stores, p \in {"insert", "count", "decr"} : StoreOf(t, x, p)
  <1> DEFINE me == thr[t]
             d == me.cs
             b == KeyOf[me.want]
  <1>1. Types /\ ThreadOK(t)
    BY DEF Base
  <1>2. me.pc = "insert" /\ UNCHANGED <<alloc, stats, owner, testing, opens, removed, leaked, disturbed, overtaken>>
    BY DEF Store, At, history
  <1>3. PICK x \in Stores :
            /\ x \notin stored[d]
            /\ cid' = IF x = "id" THEN [cid EXCEPT ![d] = me.want] ELSE cid
            /\ refcnt' = IF x = "refs" THEN [refcnt EXCEPT ![d] = 2] ELSE refcnt
            /\ next' = IF x = "next" THEN [next EXCEPT ![d] = me.seen] ELSE next
            /\ map' = IF x = "map" THEN [map EXCEPT ![b] = d] ELSE map
            /\ stored' = [stored EXCEPT ![d] = @ \cup {x}]
            /\ Move(t, IF stored[d] \cup {x} = Stores THEN AfterGet(t) ELSE "insert")
    BY DEF Store, MayStore, LinkTo, InitialRefs
  <1> DEFINE p == IF stored[d] \cup {x} = Stores THEN AfterGet(t) ELSE "insert"
  <1>4. /\ d \in Entries /\ me.want \in Ids /\ b \in Buckets /\ me.seen \in Entries \cup {Null}
        /\ me.job \in {"open", "test"}
    BY <1>1, <1>2, LocalTypes DEF ThreadOK, Buckets
  <1>5. /\ p \in {"insert", "count", "decr"} /\ p \in PCs
        /\ p = "count" => me.job = "open"
        /\ p = "decr" => me.job = "test"
        /\ p = "insert" <=> stored[d] \cup {x} # Stores
    BY <1>4 DEF AfterGet, PCs
  <1> HIDE DEF p
  <1>6. Others(t) /\ LocalsAre(thr'[t], p, me.job, me.want, d, me.prev, me.seen, me.conn)
    BY <1>1, <1>3, <1>5, MoveLocals DEF p
  <1>7. cid' \in [Entries -> Ids] /\ stored' \in [Entries -> SUBSET Stores]
    BY <1>1, <1>3, <1>4 DEF Types
  <1>8. next' \in [Entries -> Entries \cup {Null}] /\ map' \in [Buckets -> Entries \cup {Null}]
    BY <1>1, <1>3, <1>4 DEF Types
  <1>9. refcnt' \in [Entries -> 0..RefMod - 1]
    <2>1. 2 \in 0..RefMod - 1
      BY Numbers
    <2>2. QED
      BY <1>1, <1>3, <1>4, <2>1 DEF Types
  <1>10. Types'
    BY <1>1, <1>2, <1>6, <1>7, <1>8, <1>9 DEF Types, Others
  <1>11. ThreadOK(t)'
    BY <1>1, <1>2, <1>4, <1>5, <1>6 DEF ThreadOK, LocalsAre
  <1>12. /\ stored'[d] = stored[d] \cup {x}
         /\ cid'[d] = (IF x = "id" THEN me.want ELSE cid[d])
         /\ \A e \in Entries \ {d} : stored'[e] = stored[e] /\ cid'[e] = cid[e]
    BY <1>1, <1>3, <1>4 DEF Types
  <1>13. /\ refcnt'[d] = (IF x = "refs" THEN 2 ELSE refcnt[d])
         /\ next'[d] = (IF x = "next" THEN me.seen ELSE next[d])
         /\ \A e \in Entries \ {d} : refcnt'[e] = refcnt[e] /\ next'[e] = next[e]
    BY <1>1, <1>3, <1>4 DEF Types
  <1>14. map'[b] = (IF x = "map" THEN d ELSE map[b]) /\ \A k \in Buckets \ {b} : map'[k] = map[k]
    BY <1>1, <1>3, <1>4 DEF Types
  <1>15. StoreOf(t, x, p)
    BY <1>2, <1>3, <1>4, <1>5, <1>6, <1>12, <1>13, <1>14 DEF StoreOf
  <1>16. QED
    BY <1>5, <1>10, <1>11, <1>15

LEMMA StoreBase == ASSUME Base, NEW t \in Threads, Store(t) PROVE Base'
  <1>1. PICK x \in Stores, p \in {"insert", "count", "decr"} : StoreOf(t, x, p)
    BY StoreEffect
  <1>2. /\ Others(t) /\ thr'[t].job = thr[t].job /\ thr'[t].conn = thr[t].conn
        /\ UNCHANGED <<owner, opens, testing, leaked, stats>>
    BY <1>1 DEF StoreOf, LocalsAre
  <1>3. ConnsHeld' /\ Tokens' /\ \A u \in Threads \ {t} : ThreadOK(u)'
    BY <1>2, QuietKept
  <1>4. QED
    BY <1>3, StoreEffect DEF Base

LEMMA Modulo == ASSUME NEW n \in Int PROVE n % RefMod \in 0..RefMod - 1
  BY Numbers

LEMMA SmallModulo == ASSUME NEW n \in Nat, n < RefMod PROVE n % RefMod = n
  BY RemainderSmall

LEMMA IncrBase == ASSUME Base, NEW t \in Threads, Incr(t) PROVE Base'
  <1>1. Types /\ ThreadOK(t)
    BY DEF Base
  <1>2. PICK p \in {"count", "decr"} :
            /\ thr[t].pc = "incr"
            /\ refcnt' = [refcnt EXCEPT ![thr[t].cs] = Up(@)]
            /\ UNCHANGED <<map, alloc, cid, stored, tag, next, stats, owner, testing, opens, removed, leaked, disturbed, overtaken>>
            /\ Move(t, p)
            /\ p = "count" <=> thr[t].job = "open"
    BY DEF Incr, AfterGet, At, history, tag
  <1>3. Others(t) /\ LocalsAre(thr'[t], p, thr[t].job, thr[t].want, thr[t].cs, thr[t].prev, thr[t].seen, thr[t].conn)
    BY <1>1, <1>2, MoveLocals DEF PCs
  <1>4. Types'
    <2>0. thr[t].cs \in Entries /\ refcnt[thr[t].cs] + 1 \in Int
      BY <1>1, <1>2 DEF Types, ThreadOK
    <2>1. Up(refcnt[thr[t].cs]) \in 0..RefMod - 1
      BY <2>0, Modulo DEF Up
    <2>2. refcnt' \in [Entries -> 0..RefMod - 1]
      BY <1>1, <1>2, <2>1 DEF Types
    <2>3. QED
      BY <1>1, <1>2, <1>3, <2>2 DEF Types, Others
  <1>5. ThreadOK(t)'
    BY <1>1, <1>2, <1>3 DEF ThreadOK, LocalsAre
  <1>6. ConnsHeld' /\ Tokens' /\ \A u \in Threads \ {t} : ThreadOK(u)'
    BY <1>2, <1>3, QuietKept DEF LocalsAre
  <1>7. QED
    BY <1>4, <1>5, <1>6 DEF Base

LEMMA CountBase == ASSUME Base, NEW t \in Threads, Count(t) PROVE Base'
  <1>1. Types /\ ThreadOK(t) /\ thr[t].conn \in Conns \cup {Null}
    BY LocalTypes DEF Base
  <1>2. /\ thr[t].pc = "count"
        /\ stats' = [stats EXCEPT ![thr[t].conn] = thr[t].cs]
        /\ UNCHANGED <<map, alloc, cid, stored, tag, refcnt, next, owner, testing, opens, removed, leaked, disturbed, overtaken>>
        /\ Move(t, "event_add")
    BY DEF Count, At, history, fields, tag
  <1>3. Others(t) /\ LocalsAre(thr'[t], "event_add", thr[t].job, thr[t].want, thr[t].cs, thr[t].prev, thr[t].seen, thr[t].conn)
    BY <1>1, <1>2, MoveLocals DEF PCs
  <1>4. thr[t].conn \in Conns /\ thr[t].cs \in Entries
    BY <1>1, <1>2 DEF ThreadOK
  <1>5. Types'
    BY <1>1, <1>2, <1>3, <1>4 DEF Types, Others
  <1>6. ThreadOK(t)'
    <2>1. stats'[thr[t].conn] = thr[t].cs
      BY <1>1, <1>2, <1>4 DEF Types
    <2>2. QED
      BY <1>1, <1>2, <1>3, <2>1 DEF ThreadOK, LocalsAre
  <1>7. ConnsHeld' /\ Tokens' /\ \A u \in Threads \ {t} : ThreadOK(u)'
    <2>1. \A x \in Entries : leaked'[x] \in Nat /\ leaked'[x] <= leaked[x]
      BY <1>1, <1>2 DEF Types
    <2>2. \A c \in Conns : c # thr[t].conn => stats'[c] = stats[c]
      BY <1>1, <1>2 DEF Types
    <2>3. QED
      BY <1>2, <1>3, <2>1, <2>2, OthersKept DEF LocalsAre
  <1>8. QED
    BY <1>5, <1>6, <1>7 DEF Base

LEMMA DecrBase == ASSUME Base, NEW t \in Threads, Decr(t) PROVE Base'
  <1>1. Types /\ ThreadOK(t) /\ thr[t].conn \in Conns \cup {Null}
    BY LocalTypes DEF Base
  <1>2. /\ thr[t].pc = "decr"
        /\ refcnt' = [refcnt EXCEPT ![thr[t].cs] = (refcnt[thr[t].cs] - 1) % RefMod]
        /\ stats' = IF thr[t].job = "close" THEN [stats EXCEPT ![thr[t].conn] = Null] ELSE stats
        /\ UNCHANGED <<map, alloc, cid, stored, tag, next, owner, testing, opens, removed, leaked, disturbed, overtaken>>
        /\ (thr[t].job # "test" /\ Move(t, "free")) \/ Return(t)
    BY DEF Decr, At, history, tag
  <1>3. thr[t].cs \in Entries /\ (thr[t].job = "close" => thr[t].conn \in Conns)
    BY <1>1, <1>2 DEF ThreadOK
  <1>4. /\ Others(t)
        /\ \/ /\ thr[t].job # "test"
              /\ LocalsAre(thr'[t], "free", thr[t].job, thr[t].want, thr[t].cs, thr[t].prev, thr[t].seen, thr[t].conn)
           \/ LocalsAre(thr'[t], "idle", "none", Null, Null, Null, Null, Null)
    BY <1>1, <1>2, MoveLocals, ReturnLocals DEF PCs
  <1>5. Types'
    <2>0. refcnt[thr[t].cs] - 1 \in Int
      BY <1>1, <1>3 DEF Types
    <2>1. (refcnt[thr[t].cs] - 1) % RefMod \in 0..RefMod - 1
      BY <2>0, Modulo
    <2>2. refcnt' \in [Entries -> 0..RefMod - 1]
      BY <1>1, <1>2, <2>1 DEF Types
    <2>3. stats' \in [Conns -> Entries \cup {Null}]
      BY <1>1, <1>2, <1>3 DEF Types
    <2>4. QED
      BY <1>1, <1>2, <1>4, <2>2, <2>3 DEF Types, Others
  <1>6. ThreadOK(t)'
    BY <1>1, <1>2, <1>3, <1>4 DEF ThreadOK, LocalsAre
  <1>7. ConnsHeld' /\ Tokens' /\ \A u \in Threads \ {t} : ThreadOK(u)'
    <2>1. \A x \in Entries : leaked'[x] \in Nat /\ leaked'[x] <= leaked[x]
      BY <1>1, <1>2 DEF Types
    <2>2. \A c \in Conns : c # thr[t].conn => stats'[c] = stats[c]
      BY <1>1, <1>2, <1>3 DEF Types
    <2>3. QED
      BY <1>2, <1>4, <2>1, <2>2, OthersKept DEF LocalsAre
  <1>8. QED
    BY <1>5, <1>6, <1>7 DEF Base

LEMMA FreeBase == ASSUME Base, NEW t \in Threads, Free(t) PROVE Base'
  <1>1. Types /\ ThreadOK(t)
    BY DEF Base
  <1>2. /\ alloc' = alloc \ {thr[t].cs}
        /\ UNCHANGED <<map, cid, stored, tag, refcnt, next, stats, owner, testing, opens, removed, leaked, disturbed, overtaken>>
        /\ Return(t)
    BY DEF Free, history, fields, tag
  <1>3. Others(t) /\ LocalsAre(thr'[t], "idle", "none", Null, Null, Null, Null, Null)
    BY <1>1, <1>2, ReturnLocals
  <1>4. Types'
    BY <1>1, <1>2, <1>3 DEF Types, Others
  <1>5. ThreadOK(t)'
    BY <1>3 DEF ThreadOK, LocalsAre
  <1>6. ConnsHeld' /\ Tokens' /\ \A u \in Threads \ {t} : ThreadOK(u)'
    BY <1>2, <1>3, QuietKept DEF LocalsAre
  <1>7. QED
    BY <1>4, <1>5, <1>6 DEF Base

LEMMA RmClientStatsBase == ASSUME Base, NEW t \in Threads, RmClientStats(t) PROVE Base'
  <1>1. Types
    BY DEF Base
  <1>2. PICK i \in Ids : Enter(t, "remove", i, Null)
    BY DEF RmClientStats
  <1>3. /\ UNCHANGED <<map, alloc, cid, stored, tag, refcnt, next, stats, owner, testing, opens, removed, leaked, overtaken>>
        /\ disturbed' \in BOOLEAN
    BY <1>1, <1>2 DEF RmClientStats, Enter, fields, tag, Types
  <1>4. t \in Workers /\ Others(t) /\ LocalsAre(thr'[t], "lookup", "remove", i, map[KeyOf[i]], Null, Null, Null)
    BY <1>1, <1>2, EnterLocals DEF Jobs, RmClientStats
  <1>5. Types'
    BY <1>1, <1>3, <1>4 DEF Types, Others
  <1>6. ThreadOK(t)'
    BY <1>4 DEF ThreadOK, LocalsAre
  <1>7. ConnsHeld' /\ Tokens' /\ \A u \in Threads \ {t} : ThreadOK(u)'
    BY <1>3, <1>4, QuietKept DEF LocalsAre
  <1>8. QED
    BY <1>5, <1>6, <1>7 DEF Base

LEMMA NothingToRemoveBase == ASSUME Base, NEW t \in Threads, NothingToRemove(t) PROVE Base'
  <1>1. Types
    BY DEF Base
  <1>2. /\ UNCHANGED <<map, alloc, cid, stored, tag, refcnt, next, stats, owner, testing, opens, removed, leaked, disturbed, overtaken>>
        /\ Return(t)
    BY DEF NothingToRemove, history, fields, tag
  <1>3. Others(t) /\ LocalsAre(thr'[t], "idle", "none", Null, Null, Null, Null, Null)
    BY <1>1, <1>2, ReturnLocals
  <1>4. Types'
    BY <1>1, <1>2, <1>3 DEF Types, Others
  <1>5. ThreadOK(t)'
    BY <1>3 DEF ThreadOK, LocalsAre
  <1>6. ConnsHeld' /\ Tokens' /\ \A u \in Threads \ {t} : ThreadOK(u)'
    BY <1>2, <1>3, QuietKept DEF LocalsAre
  <1>7. QED
    BY <1>4, <1>5, <1>6 DEF Base

LEMMA UnlinkBase == ASSUME Base, NEW t \in Threads, Unlink(t) PROVE Base'
  <1>1. Types /\ ThreadOK(t)
    BY DEF Base
  <1>2. /\ thr[t].pc = "unlink"
        /\ \/ map' = [map EXCEPT ![KeyOf[thr[t].want]] = Null] /\ next' = next
           \/ next' = [next EXCEPT ![thr[t].prev] = next[thr[t].cs]] /\ map' = map
        /\ removed' = removed \cup {thr[t].cs}
        /\ disturbed' \in BOOLEAN
        /\ Move(t, "decr")
        /\ UNCHANGED <<alloc, cid, stored, tag, refcnt, stats, owner, testing, opens, leaked, overtaken>>
    BY <1>1 DEF Unlink, At, Types, tag
  <1>3. Others(t) /\ LocalsAre(thr'[t], "decr", thr[t].job, thr[t].want, thr[t].cs, thr[t].prev, thr[t].seen, thr[t].conn)
    BY <1>1, <1>2, MoveLocals DEF PCs
  <1>4. thr[t].cs \in Entries
    BY <1>1, <1>2 DEF ThreadOK
  <1>5. Types'
    <2>1. map' \in [Buckets -> Entries \cup {Null}] /\ next' \in [Entries -> Entries \cup {Null}]
      BY <1>1, <1>2, <1>4 DEF Types
    <2>2. QED
      BY <1>1, <1>2, <1>3, <1>4, <2>1 DEF Types, Others
  <1>6. ThreadOK(t)'
    BY <1>1, <1>2, <1>3 DEF ThreadOK, LocalsAre
  <1>7. ConnsHeld' /\ Tokens' /\ \A u \in Threads \ {t} : ThreadOK(u)'
    BY <1>2, <1>3, QuietKept DEF LocalsAre
  <1>8. QED
    BY <1>5, <1>6, <1>7 DEF Base

\* The other threads' locals stay in order when no connection changes its entry.
LEMMA OtherThreads ==
    ASSUME Base, NEW t \in Threads, Others(t), stats' = stats
    PROVE  \A u \in Threads \ {t} : ThreadOK(u)'
  BY DEF Base, Others, ThreadOK

LEMMA EventAddBase == ASSUME Base, NEW t \in Threads, EventAdd(t) PROVE Base'
  <1> DEFINE c == thr[t].conn
             e == thr[t].cs
  <1>1. Types /\ ThreadOK(t) /\ ConnsHeld /\ Tokens /\ c \in Conns \cup {Null}
    BY LocalTypes DEF Base
  <1>2. /\ thr[t].pc = "event_add" /\ Return(t)
        /\ \/ owner' = [owner EXCEPT ![c] = t] /\ leaked' = leaked
           \/ Faults /\ leaked' = [leaked EXCEPT ![e] = @ + 1] /\ owner' = owner
        /\ UNCHANGED <<map, alloc, cid, stored, tag, refcnt, next, stats, testing, opens, removed, disturbed, overtaken>>
    BY DEF EventAdd, At, fields, tag
  <1>3. c \in Conns /\ e \in Entries /\ stats[c] = e /\ owner[c] = Null /\ thr[t].job = "open"
    BY <1>1, <1>2 DEF ThreadOK, ConnsHeld
  <1>4. Others(t) /\ LocalsAre(thr'[t], "idle", "none", Null, Null, Null, Null, Null)
    BY <1>1, <1>2, ReturnLocals
  <1>5. t \in Workers
    BY <1>1, <1>3 DEF ThreadOK
  <1>6. Types'
    <2>0. owner \in [Conns -> Workers \cup {Null}] /\ leaked \in [Entries -> Nat]
      BY <1>1 DEF Types
    <2>1. owner' \in [Conns -> Workers \cup {Null}]
      BY <1>2, <1>3, <1>5, <2>0
    <2>3. leaked' \in [Entries -> Nat]
      BY <1>2, <1>3, <2>0
    <2>2. QED
      BY <1>1, <1>2, <1>4, <2>1, <2>3 DEF Types, Others
  <1>7. ThreadOK(t)'
    BY <1>4 DEF ThreadOK, LocalsAre
  <1>8. ConnsHeld'
    <2>1. \A u \in Threads : thr'[u].conn # Null => u # t /\ thr'[u].conn = thr[u].conn
      BY <1>4 DEF Others, LocalsAre
    <2>2. \A u \in Threads \ {t} : thr[u].conn # Null => thr[u].conn # c
      BY <1>1, <1>3 DEF ConnsHeld
    <2>3. \A x \in Conns : owner'[x] = owner[x] \/ x = c
      BY <1>1, <1>2, <1>3 DEF Types
    <2>4. \A u \in Threads : thr[u].conn \in Conns \cup {Null}
      BY <1>1, LocalTypes
    <2>5. \A u \in Threads : thr'[u].conn # Null => owner'[thr'[u].conn] = Null
      BY <1>1, <2>1, <2>2, <2>3, <2>4 DEF ConnsHeld
    <2>6. \A u, v \in Threads : thr'[u].conn = thr'[v].conn /\ thr'[u].conn # Null => u = v
      BY <1>1, <2>1 DEF ConnsHeld
    <2>7. \A x \in Conns : owner'[x] # Null => stats'[x] \in Entries
      BY <1>1, <1>2, <1>3, <2>3 DEF ConnsHeld
    <2>8. QED
      BY <2>5, <2>6, <2>7 DEF ConnsHeld
  <1>9. Tokens'
    <2>1. Busy' = Busy \ {t} /\ t \in Busy
      BY <1>3, <1>4 DEF Busy, Others, LocalsAre
    <2>2. IsFiniteSet(Busy) /\ IsFiniteSet(Live) /\ Cardinality(Live) \in Nat /\ Cardinality(Busy) \in Nat
      BY Finite
    <2>3. Cardinality(Busy') = Cardinality(Busy) - 1
      BY <2>1, <2>2, CardMinus
    <2>4. \A x \in Entries : leaked[x] \in Nat /\ Cardinality(Live) + Cardinality(Busy) + leaked[x] <= opens
      BY <1>1 DEF Tokens, Types
    <2>5. \A x \in Entries : Cardinality(Live') + Cardinality(Busy') + leaked'[x] <= opens
      <3>1. CASE owner' = [owner EXCEPT ![c] = t] /\ leaked' = leaked
        <4>1. Live' = Live \cup {c} /\ c \notin Live
          BY <1>1, <1>3, <1>5, <3>1 DEF Live, Types
        <4>2. Cardinality(Live') = Cardinality(Live) + 1
          BY <2>2, <4>1, CardPlus
        <4>3. QED
          BY <2>2, <2>3, <2>4, <3>1, <4>2
      <3>2. CASE leaked' = [leaked EXCEPT ![e] = @ + 1] /\ owner' = owner
        <4>1. Live' = Live
          BY <3>2 DEF Live
        <4>2. \A x \in Entries : leaked'[x] \in Nat /\ leaked'[x] <= leaked[x] + 1
          BY <1>1, <3>2 DEF Types
        <4>3. QED
          <5>1. SUFFICES ASSUME NEW x \in Entries
                         PROVE  Cardinality(Live') + Cardinality(Busy') + leaked'[x] <= opens
            OBVIOUS
          <5> DEFINE l == Cardinality(Live)
                     n == Cardinality(Busy)
                     y == leaked[x]
                     z == leaked'[x]
          <5>2. /\ l \in Nat /\ n \in Nat /\ y \in Nat /\ z \in Nat /\ opens \in Nat
                /\ l + n + y <= opens /\ z <= y + 1
            BY <1>1, <2>2, <2>4, <4>2 DEF Types
          <5> HIDE DEF l, n, y, z
          <5>3. l + (n - 1) + z <= opens
            BY <5>2
          <5>4. QED
            BY <2>3, <4>1, <5>3 DEF l, n, z
      <3>3. QED
        BY <1>2, <3>1, <3>2
    <2>6. \A x \in Entries : ~Faults => leaked'[x] = 0
      BY <1>1, <1>2 DEF Tokens
    <2>7. QED
      BY <1>2, <2>5, <2>6 DEF Tokens
  <1>10. QED
    BY <1>2, <1>4, <1>6, <1>7, <1>8, <1>9, OtherThreads DEF Base

LEMMA ConnCloseBase == ASSUME Base, NEW t \in Threads, ConnClose(t) PROVE Base'
  <1>1. Types /\ ThreadOK(t) /\ ConnsHeld /\ Tokens /\ thr \in [Threads -> Locals]
    BY DEF Base, Types
  <1>2. PICK c \in Conns :
            /\ owner[c] = t
            /\ owner' = [owner EXCEPT ![c] = Null]
            /\ thr' = [thr EXCEPT ![t] = [Idle EXCEPT !.pc = "decr", !.job = "close",
                                                      !.cs = stats[c], !.conn = c]]
    BY DEF ConnClose
  <1>3. /\ thr[t].pc = "idle"
        /\ UNCHANGED <<map, alloc, cid, stored, tag, refcnt, next, stats, testing, opens, removed, leaked, disturbed, overtaken>>
    BY DEF ConnClose, At, fields, tag, history
  <1>4. t # Null /\ stats[c] \in Entries /\ t \in Workers
    BY <1>1, <1>2 DEF ConnsHeld, Threads, Types
  <1>5. Others(t) /\ LocalsAre(thr'[t], "decr", "close", Null, stats[c], Null, Null, c)
    <2> DEFINE r == [Idle EXCEPT !.pc = "decr", !.job = "close", !.cs = stats[c], !.conn = c]
    <2>1. LocalsAre(r, "decr", "close", Null, stats[c], Null, Null, c)
      BY <1>4 DEF LocalsAre, Locals, Idle, PCs, Jobs
    <2>2. r \in Locals
      BY <2>1 DEF LocalsAre
    <2> HIDE DEF r
    <2>3. thr' = [thr EXCEPT ![t] = r]
      BY <1>2 DEF r
    <2>4. Others(t) /\ thr'[t] = r
      BY <1>1, <2>2, <2>3 DEF Others
    <2>5. QED
      BY <2>1, <2>4
  <1>6. Types'
    BY <1>1, <1>2, <1>3, <1>5 DEF Types, Others
  <1>7. ThreadOK(t)'
    BY <1>4, <1>5 DEF ThreadOK, LocalsAre
  <1>8. ConnsHeld'
    <2>1. thr'[t].conn = c /\ \A u \in Threads \ {t} : thr'[u].conn = thr[u].conn
      BY <1>5 DEF Others, LocalsAre
    <2>2. \A u \in Threads : thr[u].conn # c
      BY <1>1, <1>2, <1>4 DEF ConnsHeld
    <2>3. owner'[c] = Null /\ \A x \in Conns : x # c => owner'[x] = owner[x]
      BY <1>1, <1>2 DEF Types
    <2>4. \A u \in Threads : thr[u].conn \in Conns \cup {Null}
      BY <1>1, LocalTypes
    <2>5. \A u \in Threads : thr'[u].conn # Null => owner'[thr'[u].conn] = Null
      BY <1>1, <2>1, <2>2, <2>3, <2>4 DEF ConnsHeld
    <2>6. \A u, v \in Threads : thr'[u].conn = thr'[v].conn /\ thr'[u].conn # Null => u = v
      BY <1>1, <2>1, <2>2 DEF ConnsHeld
    <2>7. \A x \in Conns : owner'[x] # Null => stats'[x] \in Entries
      BY <1>1, <1>3, <2>3 DEF ConnsHeld
    <2>8. QED
      BY <2>5, <2>6, <2>7 DEF ConnsHeld
  <1>9. Tokens'
    <2>1. Busy' = Busy \cup {t} /\ t \notin Busy
      BY <1>1, <1>3, <1>5 DEF Busy, Others, LocalsAre, ThreadOK
    <2>2. IsFiniteSet(Busy) /\ IsFiniteSet(Live) /\ Cardinality(Live) \in Nat /\ Cardinality(Busy) \in Nat
      BY Finite
    <2>3. Cardinality(Busy') = Cardinality(Busy) + 1
      BY <2>1, <2>2, CardPlus
    <2>4. Live' = Live \ {c} /\ c \in Live
      BY <1>1, <1>2, <1>4 DEF Live, Types
    <2>5. Cardinality(Live') = Cardinality(Live) - 1
      BY <2>2, <2>4, CardMinus
    <2>6. \A x \in Entries : leaked[x] \in Nat /\ Cardinality(Live) + Cardinality(Busy) + leaked[x] <= opens
      BY <1>1 DEF Tokens, Types
    <2>7. \A x \in Entries : Cardinality(Live') + Cardinality(Busy') + leaked'[x] <= opens
      BY <1>3, <2>2, <2>3, <2>5, <2>6
    <2>8. QED
      BY <1>1, <1>3, <2>7 DEF Tokens
  <1>10. QED
    BY <1>3, <1>5, <1>6, <1>7, <1>8, <1>9, OtherThreads DEF Base

LEMMA ConnNewBase == ASSUME Base, NEW t \in Threads, ConnNew(t) PROVE Base'
  <1>1. Types /\ ThreadOK(t) /\ ConnsHeld /\ Tokens
    BY DEF Base, Types
  <1>2. PICK c \in Conns, i \in Ids :
            /\ owner[c] = Null
            /\ \A u \in Threads : thr[u].conn # c
            /\ Enter(t, "open", i, c)
    BY DEF ConnNew
  <1>3. /\ opens < MaxOpens /\ opens' = opens + 1 /\ t \in Workers
        /\ UNCHANGED <<map, alloc, cid, stored, tag, refcnt, next, stats, owner, testing, removed, leaked, overtaken>>
        /\ disturbed' \in BOOLEAN
    BY <1>1, <1>2 DEF ConnNew, Enter, fields, tag, Types
  <1>4. Others(t) /\ LocalsAre(thr'[t], "lookup", "open", i, map[KeyOf[i]], Null, Null, c) /\ thr[t].pc = "idle"
    BY <1>1, <1>2, EnterLocals DEF Jobs
  <1>5. Types'
    <2>1. opens' \in 0..MaxOpens
      BY <1>1, <1>3 DEF Types
    <2>2. QED
      BY <1>1, <1>3, <1>4, <2>1 DEF Types, Others
  <1>6. ThreadOK(t)'
    BY <1>3, <1>4 DEF ThreadOK, LocalsAre
  <1>7. ConnsHeld'
    <2>1. thr'[t].conn = c /\ \A u \in Threads \ {t} : thr'[u].conn = thr[u].conn
      BY <1>4 DEF Others, LocalsAre
    <2>2. \A u \in Threads : thr'[u].conn # Null => owner[thr'[u].conn] = Null
      BY <1>1, <1>2, <2>1 DEF ConnsHeld
    <2>3. \A u, v \in Threads : thr'[u].conn = thr'[v].conn /\ thr'[u].conn # Null => u = v
      BY <1>1, <1>2, <2>1 DEF ConnsHeld
    <2>4. QED
      BY <1>1, <1>3, <2>2, <2>3 DEF ConnsHeld
  <1>8. Tokens'
    <2>1. Busy' = Busy \cup {t} /\ t \notin Busy
      BY <1>1, <1>4 DEF Busy, Others, LocalsAre, ThreadOK
    <2>2. IsFiniteSet(Busy) /\ Cardinality(Live) \in Nat /\ Cardinality(Busy) \in Nat
      BY Finite
    <2>3. Cardinality(Busy') = Cardinality(Busy) + 1
      BY <2>1, <2>2, CardPlus
    <2>4. Live' = Live
      BY <1>3 DEF Live
    <2>5. \A x \in Entries : leaked[x] \in Nat /\ Cardinality(Live) + Cardinality(Busy) + leaked[x] <= opens
      BY <1>1 DEF Tokens, Types
    <2>6. \A x \in Entries : Cardinality(Live') + Cardinality(Busy') + leaked'[x] <= opens'
      <3>1. SUFFICES ASSUME NEW x \in Entries
                     PROVE  Cardinality(Live') + Cardinality(Busy') + leaked'[x] <= opens'
        OBVIOUS
      <3>2. Cardinality(Live) + (Cardinality(Busy) + 1) + leaked[x] <= opens + 1
        <4>1. opens \in Nat
          BY <1>1 DEF Types
        <4>2. QED
          BY <2>2, <2>5, <4>1
      <3>3. QED
        BY <1>3, <2>3, <2>4, <3>2
    <2>7. QED
      BY <1>1, <1>3, <2>6 DEF Tokens
  <1>9. QED
    BY <1>3, <1>4, <1>5, <1>6, <1>7, <1>8, OtherThreads DEF Base

LEMMA TestUserBase == ASSUME Base, TestUser PROVE Base'
  <1>1. Types /\ Main \in Threads /\ ThreadOK(Main) /\ ConnsHeld /\ Tokens
    BY DEF Base, Threads
  <1> DEFINE i == Head(testing)
  <1>2. /\ testing # <<>> /\ i \in Ids /\ testing' = Tail(testing) /\ testing' \in Seq(Ids)
        /\ Enter(Main, "test", i, Null)
        /\ UNCHANGED <<map, alloc, cid, stored, tag, refcnt, next, stats, owner, opens, removed, leaked, overtaken>>
        /\ disturbed' \in BOOLEAN
    BY <1>1, HeadTailProperties DEF TestUser, Enter, fields, tag, Types
  <1> HIDE DEF i
  <1>4. /\ Others(Main) /\ thr[Main].pc = "idle"
        /\ LocalsAre(thr'[Main], "lookup", "test", i, map[KeyOf[i]], Null, Null, Null)
    BY <1>1, <1>2, EnterLocals DEF Jobs
  <1>5. Types'
    BY <1>1, <1>2, <1>4 DEF Types, Others
  <1>6. ThreadOK(Main)'
    BY <1>2, <1>4 DEF ThreadOK, LocalsAre
  <1>7. thr[Main].conn = Null /\ thr[Main].job = "none"
    BY <1>1, <1>4, LocalTypes DEF ThreadOK, Jobs
  <1>8. ConnsHeld'
    <2>1. \A u \in Threads : thr'[u].conn = thr[u].conn
      BY <1>4, <1>7 DEF Others, LocalsAre
    <2>2. QED
      BY <1>1, <1>2, <2>1 DEF ConnsHeld
  <1>9. Tokens'
    <2>1. Live' = Live /\ Busy' = Busy
      BY <1>2, <1>4, <1>7 DEF Live, Busy, Others, LocalsAre
    <2>2. QED
      BY <1>1, <1>2, <2>1 DEF Tokens
  <1>10. QED
    BY <1>1, <1>2, <1>4, <1>5, <1>6, <1>8, <1>9, OtherThreads DEF Base
-----------------------------------------------------------------------------
(* Counted, one step per action that the program can take *)

Holding == {"count", "event_add", "decr"}
Refs(t, e) == thr[t].cs = e /\ thr[t].pc \in Holding

\* There are never so many references that a count could wrap around.
InRange ==
    \A e \in Entries : Cardinality(LiveConns(e)) + Cardinality(LocalRefs(e)) + leaked[e] + 1 < RefMod

LEMMA NoWrap == Base => InRange
  <1>1. SUFFICES ASSUME Base, NEW e \in Entries
                 PROVE  Cardinality(LiveConns(e)) + Cardinality(LocalRefs(e)) + leaked[e] + 1 < RefMod
    BY DEF InRange
  <1>2. Types /\ Tokens
    BY <1>1 DEF Base
  <1>3. LiveConns(e) \in SUBSET Conns /\ LocalRefs(e) \in SUBSET Threads
    BY DEF LiveConns, LocalRefs
  <1> DEFINE lc == Cardinality(LiveConns(e))
             lr == Cardinality(LocalRefs(e))
             l == Cardinality(Live)
             n == Cardinality(Busy)
             x == leaked[e]
             c == Cardinality(Conns)
             w == Cardinality(Workers)
             m == IF Faults THEN MaxOpens ELSE 0
  <1>4. lc <= c /\ lr <= w + 1
    BY <1>3, Numbers, FS_Subset
  <1>5. lc \in Nat /\ lr \in Nat /\ l \in Nat /\ n \in Nat
    BY Finite
  <1>6. x \in Nat /\ opens \in Nat /\ opens <= MaxOpens /\ l + n + x <= opens /\ (~Faults => x = 0)
    BY <1>2 DEF Types, Tokens
  <1>7. c \in Nat /\ w \in Nat /\ RefMod \in Nat /\ RefMod > c + w + 2 + m /\ m \in Nat
    BY Numbers
  <1>8. x <= m
    BY <1>5, <1>6
  <1> HIDE DEF lc, lr, l, n, x, c, w, m
  <1>9. lc + lr + x + 1 < RefMod
    BY <1>4, <1>5, <1>6, <1>7, <1>8
  <1>10. QED
    BY <1>9 DEF lc, lr, x

\* How a step of t changes the set of threads that hold a reference.
LEMMA LocalRefsStep ==
    ASSUME NEW t \in Threads, Others(t), NEW e
    PROVE  /\ Cardinality(LocalRefs(e)) \in Nat
           /\ (Refs(t, e) <=> Refs(t, e)') => LocalRefs(e)' = LocalRefs(e)
           /\ ~Refs(t, e) /\ Refs(t, e)' => Cardinality(LocalRefs(e)') = Cardinality(LocalRefs(e)) + 1
           /\ Refs(t, e) /\ ~Refs(t, e)' => Cardinality(LocalRefs(e)') = Cardinality(LocalRefs(e)) - 1
  <1>1. LocalRefs(e) = {u \in Threads : Refs(u, e)} /\ LocalRefs(e)' = {u \in Threads : Refs(u, e)'}
    BY DEF LocalRefs, Refs, Holding
  <1>2. \A u \in Threads \ {t} : Refs(u, e)' <=> Refs(u, e)
    BY DEF Others, Refs
  <1>3. IsFiniteSet(LocalRefs(e)) /\ Cardinality(LocalRefs(e)) \in Nat
    BY Finite
  <1>4. (Refs(t, e) <=> Refs(t, e)') => LocalRefs(e)' = LocalRefs(e)
    BY <1>1, <1>2
  <1>5. ASSUME ~Refs(t, e), Refs(t, e)' PROVE Cardinality(LocalRefs(e)') = Cardinality(LocalRefs(e)) + 1
    <2>1. LocalRefs(e)' = LocalRefs(e) \cup {t} /\ t \notin LocalRefs(e)
      BY <1>1, <1>2, <1>5
    <2>2. QED
      BY <1>3, <2>1, CardPlus
  <1>6. ASSUME Refs(t, e), ~Refs(t, e)' PROVE Cardinality(LocalRefs(e)') = Cardinality(LocalRefs(e)) - 1
    <2>1. LocalRefs(e)' = LocalRefs(e) \ {t} /\ t \in LocalRefs(e)
      BY <1>1, <1>2, <1>6
    <2>2. QED
      BY <1>3, <2>1, CardMinus
  <1>7. QED
    BY <1>3, <1>4, <1>5, <1>6

\* A step of t that neither takes nor drops a reference and inserts nothing.
LEMMA LocalStep ==
    ASSUME Base, Counted, NEW t \in Threads, Others(t),
           UNCHANGED <<map, alloc, cid, stored, tag, refcnt, next, leaked, removed, owner>>,
           \A c \in Live : stats'[c] = stats[c],
           thr'[t].job # "remove" /\ thr'[t].pc \notin {"free", "insert"} /\ thr[t].pc # "insert",
           thr'[t].cs \in alloc \cup {Null} /\ thr'[t].seen \in alloc \cup {Null},
           \A e \in Entries : Refs(t, e)' <=> Refs(t, e),
           thr'[t].pc \in Holding \cup {"incr"} => thr'[t].cs \in Entries,
           thr'[t].pc = "incr" => tag[thr'[t].cs] = thr'[t].want
    PROVE  Counted'
  <1>1. NoRemoval /\ PointersValid /\ FilledIn /\ Partly /\ Exact /\ Types
    BY DEF Counted, Base
  <1>2. Live' = Live /\ \A u \in Threads \ {t} : thr'[u] = thr[u]
    BY DEF Live, Others
  <1>3. NoRemoval'
    BY <1>1, <1>2 DEF NoRemoval
  <1>4. PointersValid'
    BY <1>1, <1>2 DEF PointersValid
  <1>5. FilledIn'
    <2>1. \A u \in Threads, e \in Entries : Blank(u, e)' <=> Blank(u, e)
      BY <1>2 DEF Blank
    <2>2. thr'[t].pc \in Holding => tag[thr'[t].cs] # Null
      BY <1>1 DEF FilledIn, Refs, Holding
    <2>4. \A u \in Threads :
            /\ thr'[u].pc = "incr" => tag[thr'[u].cs] = thr'[u].want
            /\ thr'[u].pc \in Holding => tag[thr'[u].cs] # Null
            /\ thr'[u].pc = "insert" => tag[thr'[u].cs] = Null
      BY <1>1, <1>2, <2>2 DEF FilledIn, Holding
    <2>5. \A c \in Live' : tag[stats'[c]] # Null
      BY <1>1, <1>2 DEF FilledIn
    <2>6. \A e \in alloc : tag[e] = Null => leaked[e] = 0 /\ \E u \in Threads : Blank(u, e)'
      BY <1>1, <2>1 DEF FilledIn, Types
    <2>7. \A u, v \in Threads : \A e \in Entries : Blank(u, e)' /\ Blank(v, e)' => u = v
      BY <1>1, <2>1 DEF FilledIn
    <2>8. QED
      BY <2>4, <2>5, <2>6, <2>7 DEF FilledIn, Holding, Blank
  <1>6. Exact'
    <2>1. ASSUME NEW e \in alloc PROVE LiveConns(e)' = LiveConns(e) /\ LocalRefs(e)' = LocalRefs(e)
      <3>1. LiveConns(e)' = LiveConns(e)
        BY <1>2 DEF LiveConns, Live
      <3>2. LocalRefs(e)' = LocalRefs(e)
        BY <1>1, LocalRefsStep DEF Types
      <3>3. QED
        BY <3>1, <3>2
    <2>2. QED
      BY <1>1, <2>1 DEF Exact
  <1>7. Partly'
    BY <1>1, <1>2 DEF Partly
  <1>8. QED
    BY <1>3, <1>4, <1>5, <1>6, <1>7 DEF Counted

LEMMA WalkCounted == ASSUME Base, Counted, NEW t \in Threads, Walk(t) PROVE Counted'
  <1> DEFINE me == thr[t]
  <1>1. Types /\ thr \in [Threads -> Locals] /\ thr[t] \in Locals /\ PointersValid /\ NoRemoval
    BY DEF Base, Types, Counted
  <1>2. /\ me.pc = "lookup" /\ me.cs \in alloc
        /\ UNCHANGED <<map, alloc, cid, stored, tag, refcnt, next, stats, owner, testing, opens, removed, leaked, disturbed, overtaken>>
        /\ thr' = [thr EXCEPT ![t].prev = me.prev, ![t].cs = next[me.cs]]
    BY <1>1 DEF Walk, At, fields, tag, history, PointersValid, NoRemoval
  <1>3. next[me.cs] \in alloc \cup {Null} /\ me.seen \in alloc \cup {Null}
    BY <1>1, <1>2 DEF PointersValid
  <1>4. Others(t) /\ thr'[t].pc = "lookup" /\ thr'[t].job = me.job /\ thr'[t].cs = next[me.cs] /\ thr'[t].seen = me.seen
    BY <1>1, <1>2, <1>3 DEF Others, Locals, Types
  <1>5. \A e \in Entries : ~Refs(t, e)' /\ ~Refs(t, e)
    BY <1>2, <1>4 DEF Refs, Holding
  <1>6. thr'[t].job # "remove"
    BY <1>1, <1>4 DEF NoRemoval
  <1>7. \A b \in Buckets : map'[b] \in alloc \cup {Null}
    BY <1>1, <1>2 DEF PointersValid
  <1>8. QED
    BY <1>2, <1>3, <1>4, <1>5, <1>6, <1>7, LocalStep DEF Holding

LEMMA FoundCounted == ASSUME Base, Counted, NEW t \in Threads, Found(t), ~overtaken' PROVE Counted'
  <1> DEFINE me == thr[t]
  <1>1. Types /\ thr[t] \in Locals /\ PointersValid /\ NoRemoval /\ me.cs \in Entries \cup {Null}
    BY LocalTypes DEF Base, Counted
  <1>2. /\ me.pc = "lookup" /\ me.cs # Null /\ cid[me.cs] = me.want /\ stored[me.cs] = Stores
        /\ UNCHANGED <<map, alloc, cid, stored, refcnt, next, stats, owner, testing, opens, removed, leaked, disturbed>>
        /\ Move(t, "incr")
    BY <1>1 DEF Found, At, fields, NoRemoval, Matches
  <1>a. tag' = tag /\ tag[me.cs] = me.want
    BY <1>1, <1>2 DEF tag
  <1>3. Others(t) /\ LocalsAre(thr'[t], "incr", me.job, me.want, me.cs, me.prev, me.seen, me.conn)
    BY <1>1, <1>2, MoveLocals DEF PCs
  <1>4. thr'[t].pc = "incr" /\ thr'[t].job = me.job /\ thr'[t].cs = me.cs /\ thr'[t].seen = me.seen /\ thr'[t].want = me.want
    BY <1>3 DEF LocalsAre
  <1>5. \A e \in Entries : ~Refs(t, e)' /\ ~Refs(t, e)
    BY <1>2, <1>4 DEF Refs, Holding
  <1>6. thr'[t].job # "remove" /\ thr'[t].cs \in alloc \cup {Null} /\ thr'[t].seen \in alloc \cup {Null}
    BY <1>1, <1>4 DEF NoRemoval, PointersValid
  <1>7. QED
    BY <1>1, <1>2, <1>a, <1>3, <1>4, <1>5, <1>6, LocalStep DEF Holding

LEMMA CountCounted == ASSUME Base, Counted, NEW t \in Threads, Count(t) PROVE Counted'
  <1> DEFINE me == thr[t]
  <1>1. Types /\ thr[t] \in Locals /\ PointersValid /\ NoRemoval /\ ThreadOK(t) /\ ConnsHeld
    BY LocalTypes DEF Base, Counted
  <1>2. /\ me.pc = "count"
        /\ stats' = [stats EXCEPT ![me.conn] = me.cs]
        /\ UNCHANGED <<map, alloc, cid, stored, tag, refcnt, next, owner, testing, opens, removed, leaked, disturbed, overtaken>>
        /\ Move(t, "event_add")
    BY DEF Count, At, history, fields, tag
  <1>3. Others(t) /\ LocalsAre(thr'[t], "event_add", me.job, me.want, me.cs, me.prev, me.seen, me.conn)
    BY <1>1, <1>2, MoveLocals DEF PCs
  <1>4. thr'[t].pc = "event_add" /\ thr'[t].job = me.job /\ thr'[t].cs = me.cs /\ thr'[t].seen = me.seen
    BY <1>3 DEF LocalsAre
  <1>5. \A e \in Entries : Refs(t, e)' <=> Refs(t, e)
    BY <1>2, <1>4 DEF Refs, Holding
  <1>6. me.cs \in Entries /\ me.cs \in alloc \cup {Null} /\ me.seen \in alloc \cup {Null} /\ me.job # "remove"
    BY <1>1, <1>2 DEF NoRemoval, PointersValid, ThreadOK
  <1>7. \A b \in Buckets : map'[b] \in alloc \cup {Null}
    BY <1>1, <1>2 DEF PointersValid
  <1>8. \A c \in Live : stats'[c] = stats[c]
    <2>1. me.conn \in Conns \ Live
      BY <1>1, <1>2, LocalTypes DEF Live, ConnsHeld, ThreadOK
    <2>2. QED
      BY <1>1, <1>2, <2>1 DEF Live, Types
  <1>9. QED
    BY <1>2, <1>3, <1>4, <1>5, <1>6, <1>7, <1>8, LocalStep

\* A thread that was outside starts its search; so do conn_new and stat_test_data.
LEMMA EnterCounted ==
    ASSUME Base, Counted, NEW t \in Threads, NEW j \in {"open", "test"}, NEW i \in Ids,
           NEW c \in Conns \cup {Null}, Enter(t, j, i, c),
           UNCHANGED <<map, alloc, cid, stored, tag, refcnt, next, stats, owner>>
    PROVE  Counted'
  <1>1. Types /\ PointersValid
    BY DEF Base, Counted
  <1>2. j \in Jobs /\ UNCHANGED <<leaked, removed>> /\ KeyOf[i] \in Buckets
    BY DEF Jobs, Enter, Buckets
  <1>3. /\ thr[t].pc = "idle" /\ Others(t)
        /\ LocalsAre(thr'[t], "lookup", j, i, map[KeyOf[i]], Null, Null, c)
    BY <1>1, <1>2, EnterLocals
  <1>4. thr'[t].pc = "lookup" /\ thr'[t].job = j /\ thr'[t].cs = map[KeyOf[i]] /\ thr'[t].seen = Null
    BY <1>3 DEF LocalsAre
  <1>5. \A e \in Entries : ~Refs(t, e)' /\ ~Refs(t, e)
    BY <1>3, <1>4 DEF Refs, Holding
  <1>6. \A b \in Buckets : map[b] \in alloc \cup {Null}
    BY <1>1 DEF PointersValid
  <1>7. thr'[t].pc \notin Holding \cup {"incr", "insert", "free"}
    BY <1>4 DEF Holding
  <1>8. QED
    BY <1>2, <1>3, <1>4, <1>5, <1>6, <1>7, LocalStep

\* A step of t that changes counts and connections only.
LEMMA CountStep ==
    ASSUME Base, Counted, NEW t \in Threads, Others(t),
           UNCHANGED <<map, alloc, cid, stored, tag, next, removed>>,
           thr'[t].job # "remove" /\ thr'[t].pc \notin {"free", "incr", "insert"},
           thr[t].pc # "insert",
           \A e \in Entries : tag[e] = Null => refcnt'[e] = refcnt[e],
           thr'[t].cs \in alloc \cup {Null} /\ thr'[t].seen \in alloc \cup {Null},
           thr'[t].pc \in Holding => tag[thr'[t].cs] # Null,
           \A e \in alloc : leaked'[e] = leaked[e] \/ tag[e] # Null,
           \A c \in Live' : stats'[c] \in alloc /\ tag[stats'[c]] # Null
    PROVE  NoRemoval' /\ PointersValid' /\ FilledIn' /\ Partly'
  <1>1. NoRemoval /\ PointersValid /\ FilledIn /\ Partly /\ Exact /\ Types /\ \A u \in Threads : ThreadOK(u)
    BY DEF Counted, Base
  <1>2. \A u \in Threads \ {t} : thr'[u] = thr[u]
    BY DEF Others
  <1>3. NoRemoval'
    BY <1>1, <1>2 DEF NoRemoval
  <1>4. PointersValid'
    BY <1>1, <1>2 DEF PointersValid
  <1>5. FilledIn'
    <2>1. \A u \in Threads, e \in Entries : Blank(u, e)' <=> Blank(u, e)
      BY <1>2 DEF Blank
    <2>2. \A u \in Threads :
            /\ thr'[u].pc = "incr" => tag[thr'[u].cs] = thr'[u].want
            /\ thr'[u].pc \in Holding => tag[thr'[u].cs] # Null
            /\ thr'[u].pc = "insert" => tag[thr'[u].cs] = Null
      BY <1>1, <1>2 DEF FilledIn, Holding
    <2>3. \A e \in alloc : tag[e] = Null => leaked'[e] = 0 /\ \E u \in Threads : Blank(u, e)'
      BY <1>1, <2>1 DEF FilledIn, Types
    <2>4. \A u, v \in Threads : \A e \in Entries : Blank(u, e)' /\ Blank(v, e)' => u = v
      BY <1>1, <2>1 DEF FilledIn
    <2>5. QED
      BY <2>2, <2>3, <2>4 DEF FilledIn, Holding, Blank
  <1>6. Partly'
    <2>1. \A u \in Threads : thr'[u].pc = "insert" =>
            thr'[u] = thr[u] /\ thr[u].cs \in Entries /\ tag[thr[u].cs] = Null
      BY <1>1, <1>2 DEF FilledIn, ThreadOK
    <2>2. QED
      BY <1>1, <2>1 DEF Partly
  <1>7. QED
    BY <1>3, <1>4, <1>5, <1>6

LEMMA IncrCounted == ASSUME Base, Base', Counted, NEW t \in Threads, Incr(t) PROVE Counted'
  <1> DEFINE me == thr[t]
             d == me.cs
  <1>1. Types /\ thr[t] \in Locals /\ PointersValid /\ NoRemoval /\ FilledIn /\ Exact /\ ThreadOK(t)
    BY LocalTypes DEF Base, Counted
  <1>2. PICK p \in {"count", "decr"} :
            /\ me.pc = "incr"
            /\ refcnt' = [refcnt EXCEPT ![d] = Up(@)]
            /\ UNCHANGED <<map, alloc, cid, stored, tag, next, stats, owner, testing, opens, removed, leaked, disturbed, overtaken>>
            /\ Move(t, p)
    BY DEF Incr, AfterGet, At, history, tag
  <1>3. Others(t) /\ LocalsAre(thr'[t], p, me.job, me.want, d, me.prev, me.seen, me.conn)
    BY <1>1, <1>2, MoveLocals DEF PCs
  <1>4. thr'[t].pc = p /\ thr'[t].job = me.job /\ thr'[t].cs = d /\ thr'[t].seen = me.seen
    BY <1>3 DEF LocalsAre
  <1>5. d \in Entries /\ d \in alloc /\ me.seen \in alloc \cup {Null} /\ tag[d] # Null /\ me.job # "remove"
    BY <1>1, <1>2 DEF NoRemoval, PointersValid, ThreadOK, FilledIn
  <1>6. \A c \in Live' : stats'[c] \in alloc /\ tag[stats'[c]] # Null
    BY <1>1, <1>2 DEF PointersValid, FilledIn, Live
  <1>7. NoRemoval' /\ PointersValid' /\ FilledIn' /\ Partly'
    <2>1. \A e \in Entries : tag[e] = Null => refcnt'[e] = refcnt[e]
      BY <1>1, <1>2, <1>5 DEF Types
    <2>2. QED
      BY <1>2, <1>3, <1>4, <1>5, <1>6, <2>1, CountStep DEF Holding
  <1>8. Exact'
    <2>1. SUFFICES ASSUME NEW e \in alloc, tag[e] # Null
                   PROVE  refcnt'[e] = Cardinality(LiveConns(e)') + Cardinality(LocalRefs(e)') + leaked[e] + 1
      BY <1>2 DEF Exact
    <2>2. LiveConns(e)' = LiveConns(e) /\ e \in Entries /\ Cardinality(LiveConns(e)) \in Nat /\ leaked[e] \in Nat
      BY <1>1, <1>2, Finite DEF LiveConns, Types
    <2>3. refcnt[e] = Cardinality(LiveConns(e)) + Cardinality(LocalRefs(e)) + leaked[e] + 1
      BY <1>1, <2>1 DEF Exact
    <2>4. CASE e = d
      <3>1. Cardinality(LocalRefs(e)') = Cardinality(LocalRefs(e)) + 1 /\ Cardinality(LocalRefs(e)) \in Nat
        BY <1>2, <1>3, <1>4, <2>4, LocalRefsStep DEF Refs, Holding
      <3>2. InRange'
        BY <1>7, NoWrap, PTL
      <3>3. Cardinality(LiveConns(e)) + (Cardinality(LocalRefs(e)) + 1) + leaked[e] + 1 < RefMod
        BY <1>2, <2>2, <3>1, <3>2 DEF InRange
      <3>4. refcnt[e] + 1 < RefMod /\ refcnt[e] \in Nat
        BY <2>2, <2>3, <3>1, <3>3
      <3>5. refcnt'[e] = refcnt[e] + 1
        <4>1. refcnt'[e] = (refcnt[e] + 1) % RefMod
          BY <1>1, <1>2, <1>5, <2>4 DEF Up, Types
        <4>2. refcnt[e] + 1 \in Nat
          BY <3>4
        <4>3. QED
          BY <3>4, <4>1, <4>2, SmallModulo
      <3>6. QED
        BY <2>2, <2>3, <3>1, <3>5
    <2>5. CASE e # d
      <3>1. LocalRefs(e)' = LocalRefs(e)
        BY <1>4, <1>3, <2>5, LocalRefsStep DEF Refs
      <3>2. refcnt'[e] = refcnt[e]
        BY <1>1, <1>2, <2>2, <2>5 DEF Types
      <3>3. QED
        BY <2>2, <2>3, <3>1, <3>2
    <2>6. QED
      BY <2>4, <2>5
  <1>9. QED
    BY <1>7, <1>8 DEF Counted

LEMMA DecrCounted == ASSUME Base, Counted, NEW t \in Threads, Decr(t) PROVE Counted'
  <1> DEFINE me == thr[t]
             d == me.cs
  <1>1. Types /\ thr[t] \in Locals /\ PointersValid /\ NoRemoval /\ FilledIn /\ Exact /\ ThreadOK(t) /\ ConnsHeld
    BY LocalTypes DEF Base, Counted
  <1>2. /\ me.pc = "decr"
        /\ refcnt' = [refcnt EXCEPT ![d] = (refcnt[d] - 1) % RefMod]
        /\ stats' = IF me.job = "close" THEN [stats EXCEPT ![me.conn] = Null] ELSE stats
        /\ UNCHANGED <<map, alloc, cid, stored, tag, next, owner, testing, opens, removed, leaked, disturbed, overtaken>>
        /\ (refcnt[d] - 1) % RefMod # 0 => Return(t)
    BY DEF Decr, At, history, LastUser, tag
  <1>3. d \in Entries /\ d \in alloc /\ tag[d] # Null
    BY <1>1, <1>2 DEF PointersValid, ThreadOK, FilledIn
  <1>4. /\ refcnt[d] \in 0..RefMod - 1
        /\ refcnt[d] = Cardinality(LiveConns(d)) + Cardinality(LocalRefs(d)) + leaked[d] + 1
        /\ Cardinality(LiveConns(d)) \in Nat /\ leaked[d] \in Nat
    BY <1>1, <1>3, Finite DEF Exact, Types
  <1>5. Cardinality(LocalRefs(d)) \in Nat /\ Cardinality(LocalRefs(d)) > 0
    <2>1. t \in LocalRefs(d)
      BY <1>2 DEF LocalRefs
    <2>2. QED
      BY <2>1, Finite, FS_EmptySet
  <1>6. (refcnt[d] - 1) % RefMod = refcnt[d] - 1 /\ refcnt[d] - 1 # 0
    <2>1. refcnt[d] - 1 \in Nat /\ refcnt[d] - 1 > 0 /\ refcnt[d] - 1 < RefMod
      BY <1>4, <1>5
    <2>2. QED
      BY <2>1, SmallModulo
  <1>7. Others(t) /\ LocalsAre(thr'[t], "idle", "none", Null, Null, Null, Null, Null)
    BY <1>1, <1>2, <1>6, ReturnLocals
  <1>8. thr'[t].pc = "idle" /\ thr'[t].job = "none" /\ thr'[t].cs = Null /\ thr'[t].seen = Null
    BY <1>7 DEF LocalsAre
  <1>9. Live' = Live /\ \A c \in Live : stats'[c] = stats[c]
    <2>1. me.job = "close" => me.conn \in Conns \ Live
      BY <1>1, LocalTypes DEF Live, ConnsHeld, ThreadOK
    <2>2. QED
      BY <1>1, <1>2, <2>1 DEF Live, Types
  <1>10. NoRemoval' /\ PointersValid' /\ FilledIn' /\ Partly'
    <2>1. \A c \in Live' : stats'[c] \in alloc /\ tag[stats'[c]] # Null
      BY <1>1, <1>9 DEF PointersValid, FilledIn
    <2>2. QED
      <3>1. \A e \in Entries : tag[e] = Null => refcnt'[e] = refcnt[e]
        BY <1>1, <1>2, <1>3 DEF Types
      <3>2. QED
        BY <1>2, <1>7, <1>8, <2>1, <3>1, CountStep DEF Holding
  <1>11. Exact'
    <2>1. SUFFICES ASSUME NEW e \in alloc, tag[e] # Null
                   PROVE  refcnt'[e] = Cardinality(LiveConns(e)') + Cardinality(LocalRefs(e)') + leaked[e] + 1
      BY <1>2 DEF Exact
    <2>2. LiveConns(e)' = LiveConns(e)
      BY <1>9 DEF LiveConns, Live
    <2>3. CASE e = d
      <3>1. Cardinality(LocalRefs(e)') = Cardinality(LocalRefs(e)) - 1
        BY <1>2, <1>3, <1>7, <1>8, <2>3, LocalRefsStep DEF Refs, Holding
      <3>2. refcnt'[e] = refcnt[e] - 1
        BY <1>1, <1>2, <1>3, <1>6, <2>3 DEF Types
      <3>3. QED
        BY <1>4, <1>5, <2>2, <2>3, <3>1, <3>2
    <2>4. CASE e # d
      <3>1. LocalRefs(e)' = LocalRefs(e)
        BY <1>7, <1>8, <2>4, LocalRefsStep DEF Refs, Holding
      <3>2. refcnt'[e] = refcnt[e]
        BY <1>1, <1>2, <2>4 DEF Types
      <3>3. QED
        BY <1>1, <2>1, <2>2, <3>1, <3>2 DEF Exact
    <2>5. QED
      BY <2>3, <2>4
  <1>12. QED
    BY <1>10, <1>11 DEF Counted

LEMMA EventAddCounted == ASSUME Base, Counted, NEW t \in Threads, EventAdd(t) PROVE Counted'
  <1> DEFINE c == thr[t].conn
             d == thr[t].cs
  <1>1. Types /\ thr[t] \in Locals /\ PointersValid /\ NoRemoval /\ FilledIn /\ Exact /\ ThreadOK(t) /\ ConnsHeld
    BY LocalTypes DEF Base, Counted
  <1>2. /\ thr[t].pc = "event_add" /\ Return(t)
        /\ \/ owner' = [owner EXCEPT ![c] = t] /\ leaked' = leaked
           \/ leaked' = [leaked EXCEPT ![d] = @ + 1] /\ owner' = owner
        /\ UNCHANGED <<map, alloc, cid, stored, tag, refcnt, next, stats, testing, opens, removed, disturbed, overtaken>>
    BY DEF EventAdd, At, fields, tag
  <1>3. /\ c \in Conns /\ d \in Entries /\ d \in alloc /\ tag[d] # Null
        /\ stats[c] = d /\ owner[c] = Null /\ t # Null
    BY <1>1, <1>2, LocalTypes DEF ThreadOK, ConnsHeld, PointersValid, FilledIn, Threads
  <1>4. Others(t) /\ LocalsAre(thr'[t], "idle", "none", Null, Null, Null, Null, Null)
    BY <1>1, <1>2, ReturnLocals
  <1>5. thr'[t].pc = "idle" /\ thr'[t].job = "none" /\ thr'[t].cs = Null /\ thr'[t].seen = Null
    BY <1>4 DEF LocalsAre
  <1>6. Live' \subseteq Live \cup {c}
    BY <1>1, <1>2 DEF Live, Types
  <1>7. NoRemoval' /\ PointersValid' /\ FilledIn' /\ Partly'
    <2>1. \A x \in Live' : stats'[x] \in alloc /\ tag[stats'[x]] # Null
      BY <1>1, <1>2, <1>3, <1>6 DEF PointersValid, FilledIn
    <2>2. \A e \in alloc : leaked'[e] = leaked[e] \/ tag[e] # Null
      BY <1>1, <1>2, <1>3 DEF Types
    <2>3. QED
      BY <1>2, <1>4, <1>5, <2>1, <2>2, CountStep DEF Holding
  <1>8. Exact'
    <2>1. SUFFICES ASSUME NEW e \in alloc, tag[e] # Null
                   PROVE  refcnt[e] = Cardinality(LiveConns(e)') + Cardinality(LocalRefs(e)') + leaked'[e] + 1
      BY <1>2 DEF Exact
    <2>2. /\ refcnt[e] = Cardinality(LiveConns(e)) + Cardinality(LocalRefs(e)) + leaked[e] + 1
          /\ Cardinality(LiveConns(e)) \in Nat /\ leaked[e] \in Nat /\ IsFiniteSet(LiveConns(e))
          /\ e \in Entries
      BY <1>1, <2>1, Finite DEF Exact, Types
    <2>3. CASE e = d
      <3>1. Cardinality(LocalRefs(e)') = Cardinality(LocalRefs(e)) - 1 /\ Cardinality(LocalRefs(e)) \in Nat
        BY <1>2, <1>3, <1>4, <1>5, <2>3, LocalRefsStep DEF Refs, Holding
      <3>2. CASE owner' = [owner EXCEPT ![c] = t] /\ leaked' = leaked
        <4>1. LiveConns(e)' = LiveConns(e) \cup {c} /\ c \notin LiveConns(e)
          BY <1>1, <1>2, <1>3, <2>3, <3>2 DEF LiveConns, Types
        <4>2. Cardinality(LiveConns(e)') = Cardinality(LiveConns(e)) + 1
          BY <2>2, <4>1, CardPlus
        <4>3. QED
          BY <2>2, <3>1, <3>2, <4>2
      <3>3. CASE leaked' = [leaked EXCEPT ![d] = @ + 1] /\ owner' = owner
        <4>1. LiveConns(e)' = LiveConns(e)
          BY <1>2, <3>3 DEF LiveConns
        <4>2. leaked'[e] = leaked[e] + 1
          BY <1>1, <2>2, <2>3, <3>3 DEF Types
        <4>3. QED
          BY <2>2, <3>1, <4>1, <4>2
      <3>4. QED
        BY <1>2, <3>2, <3>3
    <2>4. CASE e # d
      <3>1. LocalRefs(e)' = LocalRefs(e)
        BY <1>4, <1>5, <2>4, LocalRefsStep DEF Refs, Holding
      <3>2. LiveConns(e)' = LiveConns(e)
        BY <1>1, <1>2, <1>3, <2>4 DEF LiveConns, Types
      <3>3. leaked'[e] = leaked[e]
        BY <1>1, <1>2, <2>2, <2>4 DEF Types
      <3>4. QED
        BY <2>2, <3>1, <3>2, <3>3
    <2>5. QED
      BY <2>3, <2>4
  <1>9. QED
    BY <1>7, <1>8 DEF Counted

LEMMA ConnCloseCounted == ASSUME Base, Counted, NEW t \in Threads, ConnClose(t) PROVE Counted'
  <1>1. Types /\ PointersValid /\ NoRemoval /\ FilledIn /\ Exact /\ ConnsHeld /\ thr \in [Threads -> Locals]
    BY LocalTypes DEF Base, Counted, Types
  <1>2. PICK c \in Conns :
            /\ owner[c] = t
            /\ owner' = [owner EXCEPT ![c] = Null]
            /\ thr' = [thr EXCEPT ![t] = [Idle EXCEPT !.pc = "decr", !.job = "close",
                                                      !.cs = stats[c], !.conn = c]]
    BY DEF ConnClose
  <1> DEFINE d == stats[c]
  <1>3. /\ thr[t].pc = "idle"
        /\ UNCHANGED <<map, alloc, cid, stored, tag, refcnt, next, stats, testing, opens, removed, leaked, disturbed, overtaken>>
    BY DEF ConnClose, At, fields, tag, history
  <1>4. owner[c] # Null /\ c \in Live /\ d \in Entries /\ d \in alloc /\ tag[d] # Null
    BY <1>1, <1>2 DEF ConnsHeld, Threads, Live, PointersValid, FilledIn
  <1>5. /\ Others(t)
        /\ thr'[t].pc = "decr" /\ thr'[t].job = "close" /\ thr'[t].cs = d /\ thr'[t].seen = Null
    BY <1>1, <1>2, <1>4 DEF Others, Idle, Locals, PCs, Jobs
  <1>6. Live' = Live \ {c}
    BY <1>1, <1>2 DEF Live, Types
  <1>7. NoRemoval' /\ PointersValid' /\ FilledIn' /\ Partly'
    <2>1. \A x \in Live' : stats'[x] \in alloc /\ tag[stats'[x]] # Null
      BY <1>1, <1>3, <1>6 DEF PointersValid, FilledIn
    <2>2. QED
      BY <1>3, <1>4, <1>5, <2>1, CountStep
  <1>8. Exact'
    <2>1. SUFFICES ASSUME NEW e \in alloc, tag[e] # Null
                   PROVE  refcnt[e] = Cardinality(LiveConns(e)') + Cardinality(LocalRefs(e)') + leaked[e] + 1
      BY <1>3 DEF Exact
    <2>2. /\ refcnt[e] = Cardinality(LiveConns(e)) + Cardinality(LocalRefs(e)) + leaked[e] + 1
          /\ Cardinality(LiveConns(e)) \in Nat /\ leaked[e] \in Nat /\ IsFiniteSet(LiveConns(e))
      BY <1>1, <2>1, Finite DEF Exact, Types
    <2>3. CASE e = d
      <3>1. Cardinality(LocalRefs(e)') = Cardinality(LocalRefs(e)) + 1 /\ Cardinality(LocalRefs(e)) \in Nat
        BY <1>3, <1>5, <2>3, LocalRefsStep DEF Refs, Holding
      <3>2. LiveConns(e)' = LiveConns(e) \ {c} /\ c \in LiveConns(e)
        BY <1>1, <1>2, <1>3, <1>4, <2>3 DEF LiveConns, Types
      <3>3. Cardinality(LiveConns(e)') = Cardinality(LiveConns(e)) - 1
        BY <2>2, <3>2, CardMinus
      <3>4. QED
        BY <2>2, <3>1, <3>3
    <2>4. CASE e # d
      <3>1. LocalRefs(e)' = LocalRefs(e)
        BY <1>3, <1>5, <2>4, LocalRefsStep DEF Refs, Holding
      <3>2. LiveConns(e)' = LiveConns(e)
        BY <1>1, <1>2, <1>3, <2>4 DEF LiveConns, Types
      <3>3. QED
        BY <2>2, <3>1, <3>2
    <2>5. QED
      BY <2>3, <2>4
  <1>9. QED
    BY <1>7, <1>8 DEF Counted

LEMMA NotFoundCounted == ASSUME Base, Counted, NEW t \in Threads, NotFound(t) PROVE Counted'
  <1> DEFINE me == thr[t]
             s == map[KeyOf[me.want]]
  <1>1. /\ Types /\ PointersValid /\ NoRemoval /\ FilledIn /\ Partly /\ Exact /\ ThreadOK(t)
        /\ thr \in [Threads -> Locals] /\ thr[t] \in Locals
    BY DEF Base, Counted, Types
  <1>2. PICK d \in Entries \ alloc :
            /\ alloc' = alloc \cup {d}
            /\ cid' = [cid EXCEPT ![d] = ZeroId]
            /\ stored' = [stored EXCEPT ![d] = {}]
            /\ refcnt' = [refcnt EXCEPT ![d] = 0]
            /\ next' = [next EXCEPT ![d] = Null]
            /\ leaked' = [leaked EXCEPT ![d] = 0]
            /\ removed' = removed \ {d}
            /\ thr' = [thr EXCEPT ![t].pc = "insert", ![t].cs = d, ![t].seen = map[KeyOf[thr[t].want]]]
    BY DEF NotFound
  <1>3. me.pc = "lookup" /\ UNCHANGED <<map, stats, owner>>
    BY DEF NotFound, At
  <1>4. s \in alloc \cup {Null} /\ s \in Entries \cup {Null}
    BY <1>1, <1>3 DEF ThreadOK, Types, Buckets, PointersValid
  <1>5. /\ Others(t)
        /\ thr'[t].pc = "insert" /\ thr'[t].job = me.job /\ thr'[t].cs = d /\ thr'[t].seen = s
    <2> HIDE DEF s
    <2>1. thr' = [thr EXCEPT ![t].pc = "insert", ![t].cs = d, ![t].seen = s]
      BY <1>2 DEF s
    <2>2. QED
      BY <1>1, <1>4, <2>1 DEF Others, Locals, PCs
  <1> HIDE DEF s
  <1>6. \A u \in Threads \ {t} : thr'[u] = thr[u] /\ thr[u].cs # d
    BY <1>1, <1>2, <1>5 DEF Others, PointersValid
  <1>a. /\ d \in Entries /\ d \notin alloc /\ alloc \subseteq Entries
        /\ stored'[d] = {} /\ next'[d] = Null /\ leaked'[d] = 0
        /\ \A e \in alloc : /\ stored'[e] = stored[e] /\ cid'[e] = cid[e]
                            /\ next'[e] = next[e] /\ refcnt'[e] = refcnt[e] /\ leaked'[e] = leaked[e]
    BY <1>1, <1>2 DEF Types
  <1>b. tag'[d] = Null /\ \A e \in alloc : tag'[e] = tag[e]
    BY <1>a DEF tag, Stores
  <1>7. /\ d \in Entries /\ d \notin alloc /\ alloc \subseteq Entries
        /\ tag'[d] = Null /\ next'[d] = Null /\ leaked'[d] = 0
        /\ \A e \in alloc : tag'[e] = tag[e] /\ next'[e] = next[e] /\ refcnt'[e] = refcnt[e] /\ leaked'[e] = leaked[e]
    BY <1>a, <1>b
  <1>8. Live' = Live
    BY <1>3 DEF Live
  <1>9. NoRemoval'
    BY <1>1, <1>2, <1>5, <1>6 DEF NoRemoval
  <1>10. PointersValid'
    BY <1>1, <1>2, <1>3, <1>4, <1>5, <1>6, <1>7, <1>8 DEF PointersValid
  <1>11. FilledIn'
    <2>1. \A u \in Threads \ {t}, e \in Entries : Blank(u, e)' <=> Blank(u, e)
      BY <1>6 DEF Blank
    <2>2. \A e \in Entries : (Blank(t, e)' <=> e = d) /\ ~Blank(t, e)
      BY <1>3, <1>5 DEF Blank
    <2>3. \A u \in Threads \ {t} : thr[u].cs \in alloc \cup {Null}
      BY <1>1 DEF PointersValid
    <2>4. \A u \in Threads \ {t} : thr[u].pc \in Holding \cup {"incr", "insert"} => thr[u].cs \in alloc
      BY <1>1, <2>3 DEF Base, ThreadOK, Holding
    <2>5. \A u \in Threads :
            /\ thr'[u].pc = "incr" => tag'[thr'[u].cs] = thr'[u].want
            /\ thr'[u].pc \in Holding => tag'[thr'[u].cs] # Null
            /\ thr'[u].pc = "insert" => tag'[thr'[u].cs] = Null
      BY <1>1, <1>5, <1>6, <1>7, <2>4 DEF FilledIn, Holding
    <2>6. \A c \in Live' : tag'[stats'[c]] # Null
      BY <1>1, <1>3, <1>7, <1>8 DEF FilledIn, PointersValid
    <2>7. \A e \in alloc' : tag'[e] = Null => leaked'[e] = 0 /\ \E u \in Threads : Blank(u, e)'
      <3>1. SUFFICES ASSUME NEW e \in alloc', tag'[e] = Null
                     PROVE  leaked'[e] = 0 /\ \E u \in Threads : Blank(u, e)'
        OBVIOUS
      <3>2. CASE e = d
        BY <1>7, <2>2, <3>2
      <3>3. CASE e # d
        <4>1. e \in alloc /\ e \in Entries /\ tag[e] = Null /\ leaked'[e] = leaked[e]
          BY <1>2, <1>7, <3>1, <3>3
        <4>2. leaked[e] = 0 /\ \E u \in Threads : Blank(u, e)
          BY <1>1, <4>1 DEF FilledIn
        <4>3. QED
          BY <2>1, <2>2, <4>1, <4>2
      <3>4. QED
        BY <3>2, <3>3
    <2>8. \A u, v \in Threads : \A e \in Entries : Blank(u, e)' /\ Blank(v, e)' => u = v
      <3>1. \A u \in Threads \ {t} : ~Blank(u, d)
        BY <1>6 DEF Blank
      <3>2. QED
        BY <1>1, <1>7, <2>1, <2>2, <3>1 DEF FilledIn
    <2>9. QED
      BY <2>5, <2>6, <2>7, <2>8 DEF FilledIn, Holding, Blank
  <1>12. Exact'
    <2>1. SUFFICES ASSUME NEW e \in alloc', tag'[e] # Null
                   PROVE  refcnt'[e] = Cardinality(LiveConns(e)') + Cardinality(LocalRefs(e)') + leaked'[e] + 1
      BY DEF Exact
    <2>2. e \in alloc /\ e # d
      BY <1>2, <1>7, <2>1
    <2>3. LiveConns(e)' = LiveConns(e)
      BY <1>3 DEF LiveConns
    <2>4. LocalRefs(e)' = LocalRefs(e)
      BY <1>3, <1>5, LocalRefsStep DEF Refs, Holding
    <2>5. QED
      BY <1>1, <1>7, <2>1, <2>2, <2>3, <2>4 DEF Exact
  <1>13. Partly'
    <2>1. \A u \in Threads \ {t} : thr[u].pc = "insert" => thr[u].cs \in alloc
      BY <1>1 DEF Base, ThreadOK, PointersValid
    <2>2. QED
      BY <1>1, <1>5, <1>6, <1>a, <2>1 DEF Partly
  <1>14. QED
    BY <1>9, <1>10, <1>11, <1>12, <1>13 DEF Counted

\* What a store does to the tags: with the last one the entry gets its client.
LEMMA StoreTags ==
    ASSUME Base, Counted, NEW t \in Threads, NEW x \in Stores, NEW p \in {"insert", "count", "decr"},
           StoreOf(t, x, p)
    PROVE  /\ tag[thr[t].cs] = Null
           /\ tag'[thr[t].cs] = (IF p = "insert" THEN Null ELSE thr[t].want)
           /\ p # "insert" => refcnt'[thr[t].cs] = 2
           /\ \A e \in Entries \ {thr[t].cs} : tag'[e] = tag[e]
  <1> DEFINE me == thr[t]
             d == me.cs
  <1>1. me.pc = "insert" /\ d \in Entries /\ x \notin stored[d] /\ stored'[d] = stored[d] \cup {x}
    BY DEF StoreOf
  <1>2. p = "insert" <=> stored'[d] # Stores
    BY DEF StoreOf
  <1>3. ("id" \in stored[d] => cid[d] = me.want) /\ ("refs" \in stored[d] => refcnt[d] = 2)
    BY <1>1 DEF Counted, Partly
  <1>4. cid'[d] = (IF x = "id" THEN me.want ELSE cid[d]) /\ refcnt'[d] = (IF x = "refs" THEN 2 ELSE refcnt[d])
    BY DEF StoreOf
  <1>5. stored'[d] = Stores => cid'[d] = me.want /\ refcnt'[d] = 2
    BY <1>1, <1>3, <1>4 DEF Stores
  <1>6. tag'[d] = (IF p = "insert" THEN Null ELSE me.want) /\ tag[d] = Null
    BY <1>1, <1>2, <1>5 DEF tag
  <1>7. \A e \in Entries \ {d} : tag'[e] = tag[e]
    BY DEF StoreOf, tag
  <1>8. QED
    BY <1>2, <1>5, <1>6, <1>7

LEMMA StoreCounted == ASSUME Base, Counted, NEW t \in Threads, Store(t) PROVE Counted'
  <1> DEFINE me == thr[t]
             d == me.cs
  <1>1. Types /\ PointersValid /\ NoRemoval /\ FilledIn /\ Partly /\ Exact /\ \A u \in Threads : ThreadOK(u)
    BY DEF Base, Counted
  <1>2. PICK x \in Stores, p \in {"insert", "count", "decr"} : StoreOf(t, x, p)
    BY StoreEffect
  <1>3. /\ me.pc = "insert" /\ Others(t) /\ d \in Entries /\ me.want \in Ids /\ me.want # Null
        /\ thr'[t].pc = p /\ thr'[t].job = me.job /\ thr'[t].cs = d /\ thr'[t].seen = me.seen /\ thr'[t].want = me.want
        /\ UNCHANGED <<alloc, stats, owner, removed, leaked>>
    BY <1>2 DEF StoreOf, LocalsAre
  <1>4. /\ tag[d] = Null /\ tag'[d] = (IF p = "insert" THEN Null ELSE me.want)
        /\ p # "insert" => refcnt'[d] = 2
        /\ \A e \in Entries \ {d} : tag'[e] = tag[e]
    BY <1>2, StoreTags
  <1>5. d \in alloc /\ me.seen \in alloc \cup {Null} /\ me.job # "remove" /\ leaked[d] = 0
    BY <1>1, <1>3, <1>4 DEF NoRemoval, PointersValid, FilledIn
  <1>6. \A u \in Threads \ {t} : thr'[u] = thr[u]
    BY <1>3 DEF Others
  <1>7. alloc \subseteq Entries /\ \A e \in Entries \ {d} : refcnt'[e] = refcnt[e]
    BY <1>1, <1>2 DEF Types, StoreOf
  <1>8. Live' = Live /\ \A c \in Live : stats[c] # d /\ stats[c] \in alloc
    BY <1>1, <1>3, <1>4 DEF Live, FilledIn, PointersValid
  <1>9. \A u \in Threads \ {t} : thr[u].pc \in Holding \cup {"incr", "insert"} => thr[u].cs \in Entries \ {d}
    <2>1. SUFFICES ASSUME NEW u \in Threads \ {t}, thr[u].pc \in Holding \cup {"incr", "insert"}
                   PROVE  thr[u].cs \in Entries \ {d}
      OBVIOUS
    <2>2. thr[u].cs \in Entries
      BY <1>1, <2>1 DEF ThreadOK, Holding
    <2>3. CASE thr[u].pc \in Holding
      BY <1>1, <1>4, <2>2, <2>3 DEF FilledIn, Holding
    <2>4. CASE thr[u].pc = "incr"
      <3>1. thr[u].want \in Ids /\ tag[thr[u].cs] = thr[u].want
        BY <1>1, <2>4 DEF FilledIn, ThreadOK
      <3>2. QED
        BY <1>4, <2>2, <3>1
    <2>5. CASE thr[u].pc = "insert"
      <3>1. thr[u].cs = d => Blank(u, d) /\ Blank(t, d)
        BY <1>3, <2>5 DEF Blank
      <3>2. QED
        BY <1>1, <1>3, <2>2, <3>1 DEF FilledIn
    <2>6. QED
      BY <2>1, <2>3, <2>4, <2>5
  <1>10. NoRemoval'
    BY <1>1, <1>3, <1>5, <1>6 DEF NoRemoval
  <1>11. PointersValid'
    <2>1. \A e \in alloc : next'[e] \in alloc \cup {Null}
      BY <1>1, <1>2, <1>5, <1>7 DEF PointersValid, StoreOf
    <2>2. \A b \in Buckets : map'[b] \in alloc \cup {Null}
      BY <1>1, <1>2, <1>5 DEF PointersValid, StoreOf
    <2>3. QED
      BY <1>1, <1>3, <1>5, <1>6, <1>8, <2>1, <2>2 DEF PointersValid
  <1>12. FilledIn'
    <2>1. \A u \in Threads \ {t}, e \in Entries : Blank(u, e)' <=> Blank(u, e)
      BY <1>6 DEF Blank
    <2>2. \A e \in Entries : (Blank(t, e)' <=> e = d /\ p = "insert") /\ (Blank(t, e) <=> e = d)
      BY <1>3 DEF Blank
    <2>3. \A u \in Threads :
            /\ thr'[u].pc = "incr" => tag'[thr'[u].cs] = thr'[u].want
            /\ thr'[u].pc \in Holding => tag'[thr'[u].cs] # Null
            /\ thr'[u].pc = "insert" => tag'[thr'[u].cs] = Null
      <3>1. SUFFICES ASSUME NEW u \in Threads
                     PROVE  /\ thr'[u].pc = "incr" => tag'[thr'[u].cs] = thr'[u].want
                            /\ thr'[u].pc \in Holding => tag'[thr'[u].cs] # Null
                            /\ thr'[u].pc = "insert" => tag'[thr'[u].cs] = Null
        OBVIOUS
      <3>2. CASE u = t
        BY <1>3, <1>4, <3>2 DEF Holding
      <3>3. CASE u # t /\ thr[u].pc \in Holding \cup {"incr", "insert"}
        <4>1. thr'[u] = thr[u] /\ tag'[thr[u].cs] = tag[thr[u].cs]
          BY <1>4, <1>6, <1>9, <3>3
        <4>2. QED
          BY <1>1, <4>1 DEF FilledIn, Holding
      <3>4. CASE u # t /\ thr[u].pc \notin Holding \cup {"incr", "insert"}
        BY <1>6, <3>4
      <3>5. QED
        BY <3>2, <3>3, <3>4
    <2>4. \A c \in Live' : tag'[stats'[c]] # Null
      BY <1>1, <1>3, <1>4, <1>7, <1>8 DEF FilledIn
    <2>5. \A e \in alloc' : tag'[e] = Null => leaked'[e] = 0 /\ \E u \in Threads : Blank(u, e)'
      <3>1. SUFFICES ASSUME NEW e \in alloc, tag'[e] = Null
                     PROVE  leaked[e] = 0 /\ \E u \in Threads : Blank(u, e)'
        BY <1>3
      <3>2. CASE e = d
        BY <1>3, <1>4, <1>5, <2>2, <3>1, <3>2
      <3>3. CASE e # d
        <4>1. e \in Entries /\ tag[e] = Null
          BY <1>4, <1>7, <3>1, <3>3
        <4>2. leaked[e] = 0 /\ \E u \in Threads : Blank(u, e)
          BY <1>1, <4>1 DEF FilledIn
        <4>3. QED
          BY <2>1, <2>2, <3>3, <4>1, <4>2
      <3>4. QED
        BY <3>2, <3>3
    <2>6. \A u, v \in Threads : \A e \in Entries : Blank(u, e)' /\ Blank(v, e)' => u = v
      <3>1. \A u \in Threads, e \in Entries : Blank(u, e)' => Blank(u, e)
        BY <2>1, <2>2
      <3>2. QED
        BY <1>1, <3>1 DEF FilledIn
    <2>7. QED
      BY <2>3, <2>4, <2>5, <2>6 DEF FilledIn, Holding, Blank
  <1>13. Exact'
    <2>1. SUFFICES ASSUME NEW e \in alloc, tag'[e] # Null
                   PROVE  refcnt'[e] = Cardinality(LiveConns(e)') + Cardinality(LocalRefs(e)') + leaked[e] + 1
      BY <1>3 DEF Exact
    <2>2. LiveConns(e)' = LiveConns(e)
      BY <1>3 DEF LiveConns
    <2>3. CASE e = d
      <3>0. p \in Holding /\ refcnt'[d] = 2
        BY <1>4, <2>1, <2>3 DEF Holding
      <3>1. LiveConns(e) = {}
        BY <1>8, <2>3 DEF LiveConns, Live
      <3>2. LocalRefs(e) = {}
        BY <1>3, <1>9, <2>3 DEF LocalRefs, Holding
      <3>3. Cardinality(LocalRefs(e)') = Cardinality(LocalRefs(e)) + 1
        BY <1>3, <2>3, <3>0, LocalRefsStep DEF Refs, Holding
      <3>4. QED
        BY <1>5, <2>2, <2>3, <3>0, <3>1, <3>2, <3>3, FS_EmptySet
    <2>4. CASE e # d
      <3>1. LocalRefs(e)' = LocalRefs(e)
        BY <1>3, <2>4, LocalRefsStep DEF Refs
      <3>2. refcnt'[e] = refcnt[e] /\ tag[e] # Null
        BY <1>4, <1>7, <2>1, <2>4
      <3>3. QED
        BY <1>1, <2>1, <2>2, <3>1, <3>2 DEF Exact
    <2>5. QED
      BY <2>3, <2>4
  <1>14. Partly'
    <2>1. SUFFICES ASSUME NEW u \in Threads, thr'[u].pc = "insert"
                   PROVE  /\ "id" \in stored'[thr'[u].cs] => cid'[thr'[u].cs] = thr'[u].want
                          /\ "refs" \in stored'[thr'[u].cs] => refcnt'[thr'[u].cs] = 2
      BY DEF Partly
    <2>2. CASE u = t
      <3>1. ("id" \in stored[d] => cid[d] = me.want) /\ ("refs" \in stored[d] => refcnt[d] = 2)
        BY <1>1, <1>3 DEF Partly
      <3>2. QED
        BY <1>2, <1>3, <2>2, <3>1 DEF StoreOf
    <2>3. CASE u # t
      <3>1. thr'[u] = thr[u] /\ thr[u].pc = "insert"
        BY <1>6, <2>1, <2>3
      <3>2. thr[u].cs \in Entries \ {d}
        BY <1>9, <2>3, <3>1
      <3>3. QED
        BY <1>1, <1>2, <3>1, <3>2 DEF Partly, StoreOf
    <2>4. QED
      BY <2>2, <2>3
  <1>15. QED
    BY <1>10, <1>11, <1>12, <1>13, <1>14 DEF Counted
-----------------------------------------------------------------------------
(* The theorems *)

LEMMA InitBase == ASSUME Init PROVE Base /\ Counted
  <1>1. \A t \in Threads : /\ thr[t] = Idle /\ thr[t].pc = "idle" /\ thr[t].job = "none" /\ thr[t].want = Null
                           /\ thr[t].cs = Null /\ thr[t].prev = Null /\ thr[t].seen = Null /\ thr[t].conn = Null
    BY DEF Init, Idle
  <1>2. Idle \in Locals
    BY DEF Idle, Locals, PCs, Jobs
  <1>3. Types
    <2>1. thr \in [Threads -> Locals]
      BY <1>2 DEF Init
    <2>2. refcnt \in [Entries -> 0..RefMod - 1] /\ opens \in 0..MaxOpens /\ leaked \in [Entries -> Nat]
      BY Numbers DEF Init
    <2>3. QED
      BY <2>1, <2>2 DEF Init, Types
  <1>4. \A t \in Threads : ThreadOK(t)
    BY <1>1 DEF ThreadOK
  <1>5. ConnsHeld
    BY <1>1 DEF ConnsHeld, Init
  <1>6. Live = {} /\ Busy = {} /\ \A e : LiveConns(e) = {}
    BY <1>1 DEF Live, Busy, Init, LiveConns
  <1>7. Tokens
    <2>1. Cardinality(Live) = 0 /\ Cardinality(Busy) = 0
      BY <1>6, FS_EmptySet
    <2>2. \A e \in Entries : Cardinality(Live) + Cardinality(Busy) + leaked[e] <= opens /\ leaked[e] = 0
      BY <2>1 DEF Init
    <2>3. QED
      BY <2>2 DEF Tokens
  <1>8. NoRemoval /\ PointersValid /\ FilledIn /\ Partly /\ Exact
    BY <1>1, <1>6 DEF Init, NoRemoval, PointersValid, FilledIn, Partly, Exact, Blank
  <1>9. QED
    BY <1>3, <1>4, <1>5, <1>7, <1>8 DEF Base, Counted

\* Base is kept by every step, removals included.
LEMMA BaseStep == ASSUME Base, [Next]_vars PROVE Base'
  <1>1. CASE TestUser
    BY <1>1, TestUserBase
  <1>2. ASSUME NEW t \in Threads,
               \/ ConnNew(t) \/ GetClientStats(t) \/ Count(t) \/ EventAdd(t) \/ ConnClose(t)
               \/ Decr(t) \/ Free(t) \/ RmClientStats(t) \/ NothingToRemove(t) \/ Unlink(t)
        PROVE  Base'
    BY <1>2, ConnNewBase, WalkBase, FoundBase, NotFoundBase, StoreBase, IncrBase, CountBase,
       EventAddBase, ConnCloseBase, DecrBase, FreeBase, RmClientStatsBase, NothingToRemoveBase, UnlinkBase
       DEF GetClientStats
  <1>3. CASE UNCHANGED vars
    <2>1. Types' /\ ConnsHeld'
      BY <1>3 DEF vars, fields, tag, history, Base, Types, ConnsHeld
    <2>2. \A t \in Threads : ThreadOK(t)'
      BY <1>3 DEF vars, Base, ThreadOK
    <2>3. Tokens'
      BY <1>3 DEF vars, history, Base, Tokens, Live, Busy
    <2>4. QED
      BY <2>1, <2>2, <2>3 DEF Base
  <1>4. QED
    BY <1>1, <1>2, <1>3 DEF Next

\* While nothing calls rm_client_stats, every step keeps the counts.
LEMMA CountedStep == ASSUME ~Removal, ~overtaken', Base, Base', Counted, [Next]_vars PROVE Counted'
  <1>1. CASE TestUser
    <2>1. /\ Main \in Threads /\ Head(testing) \in Ids /\ Enter(Main, "test", Head(testing), Null)
          /\ UNCHANGED <<map, alloc, cid, stored, tag, refcnt, next, stats, owner>>
      BY <1>1, HeadTailProperties DEF TestUser, Threads, Base, Types, fields, tag
    <2>2. QED
      BY <2>1, EnterCounted
  <1>2. ASSUME NEW t \in Threads, ConnNew(t) PROVE Counted'
    <2>1. PICK c \in Conns, i \in Ids : Enter(t, "open", i, c)
      BY <1>2 DEF ConnNew
    <2>2. UNCHANGED <<map, alloc, cid, stored, tag, refcnt, next, stats, owner>>
      BY <1>2 DEF ConnNew, fields, tag
    <2>3. QED
      BY <2>1, <2>2, EnterCounted
  <1>3. ASSUME NEW t \in Threads,
               Free(t) \/ RmClientStats(t) \/ NothingToRemove(t) \/ Unlink(t)
        PROVE  FALSE
    BY <1>3 DEF Free, RmClientStats, NothingToRemove, Unlink, At, Counted, NoRemoval, Base, ThreadOK
  <1>4. ASSUME NEW t \in Threads,
               GetClientStats(t) \/ Count(t) \/ EventAdd(t) \/ ConnClose(t) \/ Decr(t)
        PROVE  Counted'
    BY <1>4, WalkCounted, FoundCounted, NotFoundCounted, StoreCounted, IncrCounted,
       CountCounted, EventAddCounted, ConnCloseCounted, DecrCounted DEF GetClientStats
  <1>5. CASE UNCHANGED vars
    <2>1. UNCHANGED <<map, alloc, cid, refcnt, next, stored, stats, owner, thr, removed, leaked>>
      BY <1>5 DEF vars, fields, history
    <2>2. tag' = tag /\ Live' = Live /\ \A t \in Threads, e \in Entries : Blank(t, e)' = Blank(t, e)
      BY <2>1 DEF tag, Live, Blank
    <2>3. NoRemoval' /\ PointersValid' /\ Partly'
      BY <2>1, <2>2 DEF Counted, NoRemoval, PointersValid, Partly
    <2>4. FilledIn'
      BY <2>1, <2>2 DEF Counted, FilledIn, Blank
    <2>5. Exact'
      BY <2>1, <2>2 DEF Counted, Exact, LiveConns, LocalRefs
    <2>6. QED
      BY <2>3, <2>4, <2>5 DEF Counted
  <1>6. QED
    BY <1>1, <1>2, <1>3, <1>4, <1>5 DEF Next

\* The history variables only ever become true.
LEMMA OvertakenStays == ASSUME Base, [Next]_vars PROVE overtaken => overtaken'
  BY DEF Base, Types, Next, TestUser, ConnNew, RmClientStats, Enter, GetClientStats, Walk, Found, NotFound,
     Store, Incr, Count, EventAdd, ConnClose, Decr, Free, NothingToRemove, Unlink, history, vars

\* The invariant of the whole argument.
THEOREM Invariance == Spec => []IInv
  <1>1. Init => IInv
    BY InitBase DEF IInv
  <1>2. IInv /\ [Next]_vars => IInv'
    BY OvertakenStays, BaseStep, CountedStep DEF IInv
  <1>3. QED
    BY <1>1, <1>2, PTL DEF Spec

\* The types, with and without rm_client_stats and whatever order the stores are
\* seen in: each thread is at a step of get_client_stats, conn_new, conn_close or
\* rm_client_stats, none of them follows a NULL pointer, and no entry leaks more
\* references than connections were opened.
THEOREM TypeCorrect == Spec => []TypeOK
  <1>1. IInv => TypeOK
    <2>1. SUFFICES ASSUME Types, Tokens, ConnsHeld, \A t \in Threads : ThreadOK(t) PROVE TypeOK
      BY DEF IInv, Base
    <2>2. \A e \in Entries : leaked[e] \in 0..MaxOpens
      <3>1. Cardinality(Live) \in Nat /\ Cardinality(Busy) \in Nat
        BY Finite
      <3>2. QED
        BY <2>1, <3>1 DEF Types, Tokens
    <2>3. \A t \in Threads : thr[t].pc \notin {"idle", "lookup"} => thr[t].cs # Null
      BY <2>1, LocalTypes DEF ThreadOK, PCs
    <2>4. \A c \in Conns : owner[c] # Null => stats[c] # Null
      BY <2>1 DEF ConnsHeld
    <2>5. QED
      BY <2>1, <2>2, <2>3, <2>4 DEF Types, TypeOK, Locals, Jobs
  <1>2. QED
    BY <1>1, Invariance, PTL

\* refcount_incr and refcount_decr balance (stats.c, conn_new and conn_close):
\* although no lock is held between finding an entry and counting it, a count is
\* exactly the live connections and threads that refer to the entry, the map's
\* own reference, and what failed event_adds have leaked; and the entry of a live
\* connection is allocated.  It holds until a lookup matches an entry whose stores
\* are not all visible, and without rm_client_stats, which has no caller.  A count
\* is 16 bits wide: that is enough for one reference per conn structure and thread,
\* and, where event_add can fail, for every connection that was ever opened.
THEOREM CountsExact == ASSUME ~Removal PROVE Spec => []RefcountExact
  <1>1. ~Removal /\ IInv => RefcountExact
    <2>1. SUFFICES ASSUME Types, NoRemoval, PointersValid, FilledIn, Exact PROVE RefsAsCommented
      BY DEF IInv, Base, Counted, RefcountExact
    <2>2. ASSUME NEW e \in alloc, ~Unsettled(e)
          PROVE  refcnt[e] = Cardinality(LiveConns(e)) + Cardinality(LocalRefs(e)) + leaked[e]
                             + (IF e \in removed THEN 0 ELSE 1)
      <3>1. tag[e] # Null
        BY <2>1, <2>2 DEF FilledIn, Unsettled, Blank
      <3>2. QED
        BY <2>1, <3>1 DEF Exact, NoRemoval
    <2>3. \A c \in Conns : owner[c] # Null => stats[c] \in alloc
      BY <2>1 DEF PointersValid, Live
    <2>4. QED
      BY <2>2, <2>3 DEF RefsAsCommented
  <1>2. QED
    BY <1>1, Invariance, PTL
-----------------------------------------------------------------------------
(* Hop, a recursive function, unfolded by induction *)

N == Cardinality(Entries)

LEMMA NType == N \in Nat
  BY FS_CardinalityType DEF N

After(e) == IF e = Null THEN Null ELSE next[e]

\* Hop is the function its definition describes.
LEMMA HopUnfold ==
    ASSUME Types, NEW b \in Buckets
    PROVE  /\ Hop(b) \in [0..N -> Entries \cup {Null}]
           /\ Hop(b)[0] = map[b]
           /\ \A n \in 1..N : Hop(b)[n] = After(Hop(b)[n - 1])
  <1> DEFINE E == Entries \cup {Null}
             Good(h, n) == h[0] = map[b] /\ \A k \in 1..n : h[k] = After(h[k - 1])
             S == {n \in Nat : \E h \in [0..n -> E] : Good(h, n)}
  <1>1. map[b] \in E /\ \A e \in E : After(e) \in E
    BY DEF Types, After
  <1>2. 0 \in S
    <2> DEFINE h == [k \in 0..0 |-> map[b]]
    <2>1. h \in [0..0 -> E] /\ Good(h, 0)
      BY <1>1
    <2>2. QED
      BY <2>1
  <1>3. ASSUME NEW n \in Nat, n \in S PROVE n + 1 \in S
    <2>1. PICK h \in [0..n -> E] : Good(h, n)
      BY <1>3
    <2> DEFINE g == [k \in 0..n + 1 |-> IF k <= n THEN h[k] ELSE After(h[n])]
    <2>2. g \in [0..n + 1 -> E]
      <3>1. After(h[n]) \in E
        BY <1>1, <2>1
      <3>2. QED
        BY <2>1, <3>1
    <2>3. \A k \in 0..n : g[k] = h[k]
      OBVIOUS
    <2>4. g[n + 1] = After(h[n])
      OBVIOUS
    <2>5. g[0] = map[b]
      BY <2>1, <2>3
    <2>6. ASSUME NEW k \in 1..n + 1 PROVE g[k] = After(g[k - 1])
      <3> HIDE DEF g
      <3>1. CASE k <= n
        <4>1. k \in 1..n /\ k \in 0..n /\ k - 1 \in 0..n
          BY <3>1
        <4>2. g[k] = h[k] /\ g[k - 1] = h[k - 1] /\ h[k] = After(h[k - 1])
          BY <2>1, <2>3, <4>1
        <4>3. QED
          BY <4>2
      <3>2. CASE ~(k <= n)
        <4>1. k = n + 1 /\ k - 1 = n /\ n \in 0..n
          BY <3>2
        <4>2. QED
          BY <2>3, <2>4, <4>1
      <3>3. QED
        BY <3>1, <3>2
    <2>7. Good(g, n + 1)
      BY <2>5, <2>6
    <2> HIDE DEF g, Good
    <2>8. \E f \in [0..n + 1 -> E] : Good(f, n + 1)
      BY <2>2, <2>7
    <2>9. n + 1 \in Nat
      OBVIOUS
    <2>10. QED
      BY <2>8, <2>9
  <1>4. N \in S
    <2> HIDE DEF S
    <2>1. QED
      BY <1>2, <1>3, SetInduction, NType
  <1>5. PICK h \in [0..N -> E] : Good(h, N)
    BY <1>4
  <1> DEFINE F(f) == [n \in 0..N |-> IF n = 0 THEN map[b] ELSE IF f[n - 1] = Null THEN Null ELSE next[f[n - 1]]]
  <1>6. h = F(h)
    <2>1. \A n \in 0..N : h[n] = F(h)[n]
      <3>1. SUFFICES ASSUME NEW n \in 0..N PROVE h[n] = F(h)[n]
        OBVIOUS
      <3>2. n = 0 \/ n \in 1..N
        BY NType
      <3>3. QED
        BY <1>5, <3>2 DEF After
    <2>2. QED
      BY <2>1
  <1>7. Hop(b) = CHOOSE f : f = F(f)
    BY DEF Hop, N
  <1>8. Hop(b) = F(Hop(b))
    <2> HIDE DEF F
    <2>1. QED
      BY <1>6, <1>7
  <1> DEFINE g == Hop(b)
  <1>9. g = F(g)
    BY <1>8
  <1>10. g[0] = map[b]
    <2>1. 0 \in 0..N
      BY NType
    <2>2. QED
      BY <1>9, <2>1
  <1>11. ASSUME NEW n \in 1..N PROVE g[n] = After(g[n - 1])
    <2>1. n \in 0..N /\ n # 0
      BY NType
    <2>2. F(g)[n] = IF g[n - 1] = Null THEN Null ELSE next[g[n - 1]]
      BY <2>1
    <2>3. F(g)[n] = After(g[n - 1])
      BY <2>2 DEF After
    <2> HIDE DEF F, g
    <2>4. QED
      BY <1>9, <2>3
  <1> DEFINE U == {n \in Nat : n <= N => g[n] \in E}
  <1> HIDE DEF g, F, S
  <1>12. N \in Nat
    BY NType
  <1>13. ASSUME NEW n \in Nat, n \in U PROVE n + 1 \in U
    <2>1. CASE n + 1 <= N
      <3>1. n <= N /\ n + 1 \in 1..N /\ (n + 1) - 1 = n
        BY <1>12, <2>1
      <3>2. g[n] \in E
        BY <1>13, <3>1
      <3>3. g[n + 1] = After(g[n])
        BY <1>11, <3>1
      <3>4. QED
        BY <1>1, <3>2, <3>3
    <2>2. CASE ~(n + 1 <= N)
      BY <2>2
    <2>3. QED
      BY <2>1, <2>2
  <1>14. 0 \in U
    BY <1>1, <1>10
  <1>15. \A n \in 0..N : g[n] \in E
    <2>1. Nat \subseteq U
      <3> HIDE DEF U
      <3>1. QED
        BY <1>13, <1>14, SetInduction
    <2>2. QED
      BY <1>12, <2>1
  <1>16. g \in [0..N -> E]
    <2>1. g = [n \in 0..N |-> g[n]]
      BY <1>9 DEF F
    <2>2. QED
      BY <1>15, <2>1
  <1>17. QED
    BY <1>10, <1>11, <1>16 DEF g
-----------------------------------------------------------------------------
(* The chains, while nothing is removed *)

\* Entries have an age and a bucket: a pointer leads to an older entry of the
\* same bucket, and so does the pointer that a new entry is about to be given; a
\* lookup is at an entry of its bucket.
Graded(age, buck) ==
    /\ \A e \in alloc : next[e] # Null => age[next[e]] < age[e] /\ buck[next[e]] = buck[e]
    /\ \A e \in alloc : tag[e] # Null => buck[e] = KeyOf[tag[e]]
    /\ \A b \in Buckets : map[b] # Null => buck[map[b]] = b
    /\ \A t \in Threads : thr[t].pc = "insert" =>
        /\ buck[thr[t].cs] = KeyOf[thr[t].want]
        /\ thr[t].seen # Null => age[thr[t].seen] < age[thr[t].cs] /\ buck[thr[t].seen] = KeyOf[thr[t].want]
    /\ \A t \in Threads : thr[t].pc = "lookup" /\ thr[t].cs # Null => buck[thr[t].cs] = KeyOf[thr[t].want]

Chained == \E age, buck \in [Entries -> Nat] : Graded(age, buck)

\* So a chain ends, and all of it is allocated and of its bucket.
ChainsEnd ==
    \A b \in Buckets :
        /\ Hop(b)[N] = Null
        /\ \A e \in Chain(b) : e \in alloc /\ (tag[e] # Null => KeyOf[tag[e]] = b)

LEMMA GradedSound ==
    ASSUME Types, PointersValid, Chained
    PROVE  ChainsEnd
  <1>1. SUFFICES ASSUME NEW b \in Buckets
                 PROVE  /\ Hop(b)[N] = Null
                        /\ \A e \in Chain(b) : e \in alloc /\ (tag[e] # Null => KeyOf[tag[e]] = b)
    BY DEF ChainsEnd
  <1>2. PICK age \in [Entries -> Nat], buck \in [Entries -> Nat] : Graded(age, buck)
    BY DEF Chained
  <1> DEFINE h == Hop(b)
             Visited(n, S) == /\ IsFiniteSet(S) /\ Cardinality(S) = n + 1 /\ h[n] \in S
                              /\ \A x \in S : age[h[n]] <= age[x]
             U == {n \in Nat : n <= N /\ h[n] # Null => buck[h[n]] = b /\ \E S \in SUBSET alloc : Visited(n, S)}
  <1>3. h[0] = map[b] /\ \A n \in 1..N : h[n] = After(h[n - 1])
    BY HopUnfold
  <1> HIDE DEF h
  <1>4. N \in Nat /\ alloc \subseteq Entries /\ (\A e \in Entries : age[e] \in Nat)
    BY <1>2, NType DEF Types
  <1>5. 0 \in U
    <2>1. SUFFICES ASSUME h[0] # Null PROVE buck[h[0]] = b /\ \E S \in SUBSET alloc : Visited(0, S)
      OBVIOUS
    <2>2. h[0] \in alloc /\ buck[h[0]] = b
      BY <1>2, <1>3, <2>1 DEF Graded, PointersValid
    <2>0. IsFiniteSet({h[0]}) /\ Cardinality({h[0]}) = 1
      BY FS_Singleton
    <2>3. IsFiniteSet({h[0]}) /\ Cardinality({h[0]}) = 0 + 1
      BY <2>0
    <2>4. Visited(0, {h[0]})
      BY <1>4, <2>2, <2>3
    <2>5. {h[0]} \in SUBSET alloc
      BY <2>2
    <2> HIDE DEF Visited
    <2>6. QED
      BY <2>2, <2>4, <2>5
  <1>6. ASSUME NEW n \in Nat, n \in U PROVE n + 1 \in U
    <2>1. SUFFICES ASSUME n + 1 <= N, h[n + 1] # Null
                   PROVE  buck[h[n + 1]] = b /\ \E S \in SUBSET alloc : Visited(n + 1, S)
      <3> HIDE DEF Visited
      <3>1. n + 1 \in Nat
        OBVIOUS
      <3>2. QED
        BY <3>1
    <2>2. n <= N /\ n + 1 \in 1..N /\ (n + 1) - 1 = n
      BY <1>4, <2>1
    <2>3. h[n + 1] = After(h[n])
      BY <1>3, <2>2
    <2>4. h[n] # Null /\ h[n + 1] = next[h[n]]
      BY <2>1, <2>3 DEF After
    <2>5. buck[h[n]] = b
      BY <1>6, <2>2, <2>4
    <2>6. PICK S \in SUBSET alloc : Visited(n, S)
      BY <1>6, <2>2, <2>4
    <2>7. h[n] \in alloc
      BY <2>6
    <2>8. h[n + 1] \in alloc /\ age[h[n + 1]] < age[h[n]] /\ buck[h[n + 1]] = b
      BY <1>2, <2>1, <2>4, <2>5, <2>7 DEF Graded, PointersValid
    <2>9. \A x \in S : age[h[n + 1]] < age[x]
      BY <1>4, <2>6, <2>7, <2>8
    <2>10. h[n + 1] \notin S
      BY <1>4, <2>8, <2>9
    <2> DEFINE T == S \cup {h[n + 1]}
    <2>11. IsFiniteSet(T) /\ Cardinality(T) = (n + 1) + 1
      <3>1. IsFiniteSet(S) /\ Cardinality(S) = n + 1
        BY <2>6
      <3>2. IsFiniteSet(T) /\ Cardinality(T) = Cardinality(S) + 1
        BY <2>10, <3>1, FS_AddElement
      <3>3. QED
        BY <3>1, <3>2
    <2>12. \A x \in T : age[h[n + 1]] <= age[x]
      BY <1>4, <2>8, <2>9
    <2>13. T \in SUBSET alloc /\ h[n + 1] \in T
      BY <2>8
    <2> HIDE DEF T
    <2>14. Visited(n + 1, T)
      BY <2>11, <2>12, <2>13
    <2>15. QED
      BY <2>8, <2>13, <2>14
  <1>7. Nat \subseteq U
    <2> HIDE DEF U
    <2>1. QED
      BY <1>5, <1>6, SetInduction
  <1>8. ASSUME NEW n \in 0..N, h[n] # Null
        PROVE  h[n] \in alloc /\ buck[h[n]] = b /\ \E S \in SUBSET alloc : Visited(n, S)
    <2>1. n \in Nat /\ n <= N
      BY <1>4
    <2>2. n \in U
      BY <1>7, <2>1
    <2>3. QED
      BY <1>8, <2>1, <2>2
  <1>9. h[N] = Null
    <2>1. SUFFICES ASSUME h[N] # Null PROVE FALSE
      OBVIOUS
    <2>2. PICK S \in SUBSET alloc : Visited(N, S)
      <3> HIDE DEF Visited
      <3>1. N \in 0..N
        BY <1>4
      <3>2. QED
        BY <1>8, <2>1, <3>1
    <2>3. S \in SUBSET Entries /\ Cardinality(S) = N + 1
      BY <1>4, <2>2
    <2>4. Cardinality(S) <= N
      BY <2>3, FS_Subset DEF N
    <2>5. QED
      BY <1>4, <2>3, <2>4
  <1>10. ASSUME NEW e \in Chain(b) PROVE e \in alloc /\ (tag[e] # Null => KeyOf[tag[e]] = b)
    <2>1. PICK n \in 0..N : e = h[n] /\ e # Null
      BY <1>10 DEF Chain, N, h
    <2>2. e \in alloc /\ buck[e] = b
      BY <1>8, <2>1
    <2>3. QED
      BY <1>2, <2>2 DEF Graded
  <1>11. QED
    BY <1>9, <1>10 DEF h

\* A step of t that touches no pointer and inserts nothing.
LEMMA GradedKept ==
    ASSUME Chained, NEW t \in Threads, Others(t), UNCHANGED <<map, alloc, cid, stored, tag, next>>,
           thr'[t].pc # "insert", Types, PointersValid,
           thr'[t].pc = "lookup" =>
               \/ thr'[t].want \in Ids /\ thr'[t].cs = map[KeyOf[thr'[t].want]]
               \/ thr[t].pc = "lookup" /\ thr[t].cs # Null /\ thr'[t].want = thr[t].want /\ thr'[t].cs = next[thr[t].cs]
    PROVE  Chained'
  <1>1. PICK age \in [Entries -> Nat], buck \in [Entries -> Nat] : Graded(age, buck)
    BY DEF Chained
  <1>2. \A u \in Threads : thr'[u].pc = "insert" => thr'[u] = thr[u]
    BY DEF Others
  <1>3. thr'[t].pc = "lookup" /\ thr'[t].cs # Null => buck[thr'[t].cs] = KeyOf[thr'[t].want]
    <2>1. SUFFICES ASSUME thr'[t].pc = "lookup", thr'[t].cs # Null PROVE buck[thr'[t].cs] = KeyOf[thr'[t].want]
      OBVIOUS
    <2>2. CASE thr'[t].want \in Ids /\ thr'[t].cs = map[KeyOf[thr'[t].want]]
      BY <1>1, <2>1, <2>2 DEF Graded, Buckets
    <2>3. CASE thr[t].pc = "lookup" /\ thr[t].cs # Null /\ thr'[t].want = thr[t].want /\ thr'[t].cs = next[thr[t].cs]
      <3>1. thr[t].cs \in alloc
        BY <2>3 DEF PointersValid
      <3>2. next[thr[t].cs] # Null /\ buck[thr[t].cs] = KeyOf[thr[t].want]
        BY <1>1, <2>1, <2>3 DEF Graded
      <3>3. buck[next[thr[t].cs]] = buck[thr[t].cs]
        BY <1>1, <3>1, <3>2 DEF Graded
      <3>4. QED
        BY <2>3, <3>2, <3>3
    <2>4. QED
      BY <2>1, <2>2, <2>3
  <1>4. \A u \in Threads : thr'[u].pc = "lookup" /\ thr'[u].cs # Null => buck[thr'[u].cs] = KeyOf[thr'[u].want]
    BY <1>1, <1>3 DEF Graded, Others
  <1>5. \A u \in Threads : thr'[u].pc = "insert" =>
            /\ buck[thr'[u].cs] = KeyOf[thr'[u].want]
            /\ thr'[u].seen # Null => age[thr'[u].seen] < age[thr'[u].cs] /\ buck[thr'[u].seen] = KeyOf[thr'[u].want]
    BY <1>1, <1>2 DEF Graded
  <1>6. Graded(age, buck)'
    BY <1>1, <1>4, <1>5 DEF Graded
  <1>7. QED
    BY <1>6 DEF Chained

\* A new entry is younger than the head of the chain it will point to.
LEMMA NotFoundChained == ASSUME Base, Counted, Chained, NEW t \in Threads, NotFound(t) PROVE Chained'
  <1> DEFINE me == thr[t]
             s == map[KeyOf[me.want]]
  <1>1. /\ Types /\ PointersValid /\ thr \in [Threads -> Locals] /\ thr[t] \in Locals
        /\ \A u \in Threads : ThreadOK(u)
    BY DEF Base, Counted, Types
  <1>2. PICK d \in Entries \ alloc :
            /\ alloc' = alloc \cup {d}
            /\ stored' = [stored EXCEPT ![d] = {}]
            /\ cid' = [cid EXCEPT ![d] = ZeroId]
            /\ next' = [next EXCEPT ![d] = Null]
            /\ thr' = [thr EXCEPT ![t].pc = "insert", ![t].cs = d, ![t].seen = map[KeyOf[thr[t].want]]]
    BY DEF NotFound
  <1>3. me.pc = "lookup" /\ map' = map
    BY DEF NotFound, At
  <1>4. /\ me.want \in Ids /\ KeyOf[me.want] \in Buckets /\ KeyOf[me.want] \in Nat
        /\ s \in alloc \cup {Null} /\ s \in Entries \cup {Null}
    <2>1. me.want \in Ids
      BY <1>1, <1>3 DEF ThreadOK
    <2>2. KeyOf[me.want] \in Buckets /\ KeyOf[me.want] \in Nat
      BY <2>1 DEF Buckets
    <2>3. QED
      BY <1>1, <2>1, <2>2 DEF Types, PointersValid
  <1>5. PICK age \in [Entries -> Nat], buck \in [Entries -> Nat] : Graded(age, buck)
    BY DEF Chained
  <1>6. s # Null => buck[s] = KeyOf[me.want]
    BY <1>4, <1>5 DEF Graded
  <1>7. /\ Others(t)
        /\ thr'[t].pc = "insert" /\ thr'[t].cs = d /\ thr'[t].seen = s /\ thr'[t].want = me.want
    <2> HIDE DEF s
    <2>1. thr' = [thr EXCEPT ![t].pc = "insert", ![t].cs = d, ![t].seen = s]
      BY <1>2 DEF s
    <2>2. QED
      BY <1>1, <1>4, <2>1 DEF Others, Locals, PCs
  <1> HIDE DEF s
  <1>9. PICK a \in [Entries -> Nat], k \in [Entries -> Nat] :
            /\ k[d] = KeyOf[me.want] /\ (s # Null => a[s] < a[d])
            /\ \A e \in alloc : a[e] = age[e] /\ k[e] = buck[e]
    <2> DEFINE y == IF s = Null THEN 0 ELSE age[s] + 1
               a == [age EXCEPT ![d] = y]
               k == [buck EXCEPT ![d] = KeyOf[me.want]]
    <2>1. y \in Nat /\ (s # Null => age[s] < y /\ s # d)
      BY <1>2, <1>4
    <2> HIDE DEF y
    <2>2. a \in [Entries -> Nat] /\ k \in [Entries -> Nat]
      BY <1>4, <2>1
    <2>3. k[d] = KeyOf[me.want] /\ (s # Null => a[s] < a[d])
      BY <1>4, <2>1
    <2>4. \A e \in alloc : a[e] = age[e] /\ k[e] = buck[e]
      BY <1>1, <1>2 DEF Types
    <2> HIDE DEF a, k
    <2>5. QED
      BY <2>2, <2>3, <2>4
  <1>10. /\ tag'[d] = Null /\ next'[d] = Null
         /\ \A e \in alloc : tag'[e] = tag[e] /\ next'[e] = next[e]
    <2>1. /\ stored'[d] = {} /\ next'[d] = Null /\ alloc \subseteq Entries
          /\ \A e \in alloc : stored'[e] = stored[e] /\ cid'[e] = cid[e] /\ next'[e] = next[e]
      BY <1>1, <1>2 DEF Types
    <2>2. QED
      BY <2>1 DEF tag, Stores
  <1>11. \A e \in alloc' : next'[e] # Null => a[next'[e]] < a[e] /\ k[next'[e]] = k[e]
    <2>1. SUFFICES ASSUME NEW e \in alloc', next'[e] # Null PROVE a[next'[e]] < a[e] /\ k[next'[e]] = k[e]
      OBVIOUS
    <2>2. e \in alloc /\ next'[e] = next[e] /\ next[e] \in alloc
      BY <1>1, <1>2, <1>10, <2>1 DEF PointersValid
    <2>3. age[next[e]] < age[e] /\ buck[next[e]] = buck[e]
      BY <1>5, <2>1, <2>2 DEF Graded
    <2>4. QED
      BY <1>9, <2>2, <2>3
  <1>12. \A e \in alloc' : tag'[e] # Null => k[e] = KeyOf[tag'[e]]
    BY <1>2, <1>5, <1>9, <1>10 DEF Graded
  <1>13. \A b \in Buckets : map'[b] # Null => k[map'[b]] = b
    BY <1>1, <1>3, <1>5, <1>9 DEF Graded, PointersValid
  <1>14. \A u \in Threads : thr'[u].pc = "insert" =>
            /\ k[thr'[u].cs] = KeyOf[thr'[u].want]
            /\ thr'[u].seen # Null => a[thr'[u].seen] < a[thr'[u].cs] /\ k[thr'[u].seen] = KeyOf[thr'[u].want]
    <2>1. SUFFICES ASSUME NEW u \in Threads, thr'[u].pc = "insert"
                   PROVE  /\ k[thr'[u].cs] = KeyOf[thr'[u].want]
                          /\ thr'[u].seen # Null => a[thr'[u].seen] < a[thr'[u].cs] /\ k[thr'[u].seen] = KeyOf[thr'[u].want]
      OBVIOUS
    <2>2. CASE u = t
      BY <1>4, <1>6, <1>7, <1>9, <2>2
    <2>3. CASE u # t
      <3>1. thr'[u] = thr[u] /\ thr[u].pc = "insert"
        BY <1>7, <2>1, <2>3 DEF Others
      <3>2. thr[u].cs \in alloc /\ thr[u].seen \in alloc \cup {Null}
        BY <1>1, <3>1 DEF ThreadOK, PointersValid
      <3>3. /\ buck[thr[u].cs] = KeyOf[thr[u].want]
            /\ thr[u].seen # Null => age[thr[u].seen] < age[thr[u].cs] /\ buck[thr[u].seen] = KeyOf[thr[u].want]
        BY <1>5, <3>1 DEF Graded
      <3>4. QED
        BY <1>9, <3>1, <3>2, <3>3
    <2>4. QED
      BY <2>2, <2>3
  <1>17. \A u \in Threads : thr'[u].pc = "lookup" /\ thr'[u].cs # Null => k[thr'[u].cs] = KeyOf[thr'[u].want]
    <2>1. SUFFICES ASSUME NEW u \in Threads, thr'[u].pc = "lookup", thr'[u].cs # Null
                   PROVE  k[thr'[u].cs] = KeyOf[thr'[u].want]
      OBVIOUS
    <2>2. u # t /\ thr'[u] = thr[u]
      BY <1>7, <2>1 DEF Others
    <2>3. thr[u].cs \in alloc /\ buck[thr[u].cs] = KeyOf[thr[u].want]
      BY <1>1, <1>5, <2>1, <2>2 DEF PointersValid, Graded
    <2>4. QED
      BY <1>9, <2>2, <2>3
  <1>15. Graded(a, k)'
    BY <1>11, <1>12, <1>13, <1>14, <1>17 DEF Graded
  <1>16. QED
    BY <1>15 DEF Chained

LEMMA StoreChained == ASSUME Base, Counted, Chained, NEW t \in Threads, Store(t) PROVE Chained'
  <1> DEFINE me == thr[t]
             d == me.cs
             b == KeyOf[me.want]
  <1>1. Types /\ PointersValid
    BY DEF Base, Counted
  <1>2. PICK x \in Stores, p \in {"insert", "count", "decr"} : StoreOf(t, x, p)
    BY StoreEffect
  <1>3. /\ me.pc = "insert" /\ d \in Entries /\ b \in Buckets /\ alloc' = alloc
        /\ \A u \in Threads \ {t} : thr'[u] = thr[u]
        /\ thr'[t].pc = p /\ thr'[t].cs = d /\ thr'[t].seen = me.seen /\ thr'[t].want = me.want
    BY <1>2 DEF StoreOf, Others, LocalsAre
  <1>4. /\ next'[d] \in {me.seen, next[d]} /\ map'[b] \in {d, map[b]}
        /\ \A e \in Entries \ {d} : next'[e] = next[e]
        /\ \A k \in Buckets \ {b} : map'[k] = map[k]
    BY <1>2 DEF StoreOf
  <1>5. /\ tag'[d] \in {Null, me.want}
        /\ \A e \in Entries \ {d} : tag'[e] = tag[e]
    BY <1>2, StoreTags
  <1>6. PICK age \in [Entries -> Nat], buck \in [Entries -> Nat] : Graded(age, buck)
    BY DEF Chained
  <1>7. /\ buck[d] = b
        /\ me.seen # Null => age[me.seen] < age[d] /\ buck[me.seen] = b
    BY <1>3, <1>6 DEF Graded
  <1>8. alloc \subseteq Entries
    BY <1>1 DEF Types
  <1>9. \A e \in alloc : next'[e] # Null => age[next'[e]] < age[e] /\ buck[next'[e]] = buck[e]
    <2>1. SUFFICES ASSUME NEW e \in alloc, next'[e] # Null PROVE age[next'[e]] < age[e] /\ buck[next'[e]] = buck[e]
      OBVIOUS
    <2>2. next[e] # Null => age[next[e]] < age[e] /\ buck[next[e]] = buck[e]
      BY <1>6 DEF Graded
    <2>3. CASE e = d
      <3>1. next'[d] = me.seen \/ next'[d] = next[d]
        BY <1>4
      <3>2. QED
        BY <1>7, <2>1, <2>2, <2>3, <3>1
    <2>4. CASE e # d
      <3>1. next'[e] = next[e]
        BY <1>4, <1>8, <2>4
      <3>2. QED
        BY <2>1, <2>2, <3>1
    <2>5. QED
      BY <2>3, <2>4
  <1>10. \A e \in alloc : tag'[e] # Null => buck[e] = KeyOf[tag'[e]]
    BY <1>5, <1>6, <1>7, <1>8 DEF Graded
  <1>11. \A k \in Buckets : map'[k] # Null => buck[map'[k]] = k
    <2>1. SUFFICES ASSUME NEW k \in Buckets, map'[k] # Null PROVE buck[map'[k]] = k
      OBVIOUS
    <2>2. map[k] # Null => buck[map[k]] = k
      BY <1>6 DEF Graded
    <2>3. CASE k = b
      <3>1. map'[b] = d \/ map'[b] = map[b]
        BY <1>4
      <3>2. QED
        BY <1>7, <2>1, <2>2, <2>3, <3>1
    <2>4. CASE k # b
      <3>1. map'[k] = map[k]
        BY <1>4, <2>4
      <3>2. QED
        BY <2>1, <2>2, <3>1
    <2>5. QED
      BY <2>3, <2>4
  <1>12. \A u \in Threads : thr'[u].pc = "insert" =>
            /\ buck[thr'[u].cs] = KeyOf[thr'[u].want]
            /\ thr'[u].seen # Null => age[thr'[u].seen] < age[thr'[u].cs] /\ buck[thr'[u].seen] = KeyOf[thr'[u].want]
    <2>1. SUFFICES ASSUME NEW u \in Threads, thr'[u].pc = "insert"
                   PROVE  /\ buck[thr'[u].cs] = KeyOf[thr'[u].want]
                          /\ thr'[u].seen # Null => /\ age[thr'[u].seen] < age[thr'[u].cs]
                                                   /\ buck[thr'[u].seen] = KeyOf[thr'[u].want]
      OBVIOUS
    <2>2. CASE u = t
      BY <1>3, <1>7, <2>2
    <2>3. CASE u # t
      BY <1>3, <1>6, <2>1, <2>3 DEF Graded
    <2>4. QED
      BY <2>2, <2>3
  <1>13. \A u \in Threads : thr'[u].pc = "lookup" /\ thr'[u].cs # Null => buck[thr'[u].cs] = KeyOf[thr'[u].want]
    <2>1. SUFFICES ASSUME NEW u \in Threads, thr'[u].pc = "lookup", thr'[u].cs # Null
                   PROVE  buck[thr'[u].cs] = KeyOf[thr'[u].want]
      OBVIOUS
    <2>2. p # "lookup"
      OBVIOUS
    <2>3. u # t /\ thr'[u] = thr[u]
      BY <1>3, <2>1, <2>2
    <2>4. QED
      BY <1>6, <2>1, <2>3 DEF Graded
  <1>14. Graded(age, buck)'
    BY <1>3, <1>9, <1>10, <1>11, <1>12, <1>13 DEF Graded
  <1>15. QED
    BY <1>14 DEF Chained

LEMMA ChainedStep == ASSUME ~Removal, Base, Counted, Chained, [Next]_vars PROVE Chained'
  <1>1. Types /\ NoRemoval /\ PointersValid /\ \A t \in Threads : ThreadOK(t)
    BY DEF Base, Counted
  <1>2. ASSUME NEW t \in Threads, NEW j \in Jobs, NEW i \in Ids, NEW c \in Conns \cup {Null},
               Enter(t, j, i, c), UNCHANGED <<map, alloc, fields>>
        PROVE  Chained'
    <2>1. Others(t) /\ thr'[t].pc = "lookup" /\ thr'[t].want = i /\ thr'[t].cs = map[KeyOf[i]]
      BY <1>1, <1>2, EnterLocals DEF LocalsAre
    <2>2. UNCHANGED <<map, alloc, cid, stored, tag, next>>
      BY <1>2 DEF fields, tag
    <2>3. QED
      BY <1>1, <2>1, <2>2, GradedKept
  <1>3. CASE TestUser
    <2>1. /\ Main \in Threads /\ Head(testing) \in Ids /\ Enter(Main, "test", Head(testing), Null)
          /\ UNCHANGED <<map, alloc, fields>>
      BY <1>1, <1>3, HeadTailProperties DEF TestUser, Threads, Types
    <2>2. QED
      BY <1>2, <2>1 DEF Jobs
  <1>4. ASSUME NEW t \in Threads, ConnNew(t) PROVE Chained'
    <2>1. PICK c \in Conns, i \in Ids : Enter(t, "open", i, c)
      BY <1>4 DEF ConnNew
    <2>2. UNCHANGED <<map, alloc, fields>>
      BY <1>4 DEF ConnNew
    <2>3. QED
      BY <1>2, <2>1, <2>2 DEF Jobs
  <1>5. ASSUME NEW t \in Threads, Walk(t) PROVE Chained'
    <2>1. thr \in [Threads -> Locals] /\ thr[t] \in Locals /\ thr[t].pc = "lookup" /\ thr[t].cs # Null
      BY <1>1, <1>5 DEF Walk, At, Types
    <2>2. next[thr[t].cs] \in Entries \cup {Null}
      BY <1>1, <2>1, LocalTypes DEF Types
    <2>3. thr' = [thr EXCEPT ![t].prev = @, ![t].cs = next[thr[t].cs]]
      BY <1>1, <1>5 DEF Walk, NoRemoval
    <2>4. Others(t) /\ thr'[t].pc = "lookup" /\ thr'[t].want = thr[t].want /\ thr'[t].cs = next[thr[t].cs]
      BY <2>1, <2>2, <2>3 DEF Others, Locals
    <2>5. UNCHANGED <<map, alloc, cid, stored, tag, next>>
      BY <1>5 DEF Walk, fields, tag
    <2>6. QED
      BY <1>1, <2>1, <2>4, <2>5, GradedKept
  <1>6. ASSUME NEW t \in Threads, Found(t) \/ Incr(t) \/ Count(t) PROVE Chained'
    <2>1. PICK p \in {"unlink", "incr", "count", "decr", "event_add"} : Move(t, p)
      BY <1>6 DEF Found, Incr, Count, AfterGet
    <2>2. Others(t) /\ thr'[t].pc # "insert" /\ thr'[t].pc # "lookup"
      BY <1>1, <2>1, MoveLocals DEF LocalsAre, PCs
    <2>3. UNCHANGED <<map, alloc, cid, stored, tag, next>>
      BY <1>6 DEF Found, Incr, Count, fields, tag
    <2>4. QED
      BY <1>1, <2>2, <2>3, GradedKept
  <1>7. ASSUME NEW t \in Threads, EventAdd(t) \/ Decr(t) PROVE Chained'
    <2>1. Return(t) \/ Move(t, "free")
      BY <1>7 DEF EventAdd, Decr
    <2>2. Others(t) /\ thr'[t].pc # "insert" /\ thr'[t].pc # "lookup"
      BY <1>1, <2>1, MoveLocals, ReturnLocals DEF LocalsAre, PCs
    <2>3. UNCHANGED <<map, alloc, cid, stored, tag, next>>
      BY <1>7 DEF EventAdd, Decr, fields, tag
    <2>4. QED
      BY <1>1, <2>2, <2>3, GradedKept
  <1>8. ASSUME NEW t \in Threads, ConnClose(t) PROVE Chained'
    <2>1. PICK c \in Conns :
            thr' = [thr EXCEPT ![t] = [Idle EXCEPT !.pc = "decr", !.job = "close", !.cs = stats[c], !.conn = c]]
      BY <1>8 DEF ConnClose
    <2>2. stats[c] \in Entries \cup {Null} /\ thr \in [Threads -> Locals]
      BY <1>1 DEF Types
    <2>3. Others(t) /\ thr'[t].pc = "decr"
      BY <2>1, <2>2 DEF Others, Idle, Locals, PCs, Jobs
    <2>4. UNCHANGED <<map, alloc, cid, stored, tag, next>>
      BY <1>8 DEF ConnClose, fields, tag
    <2>5. QED
      BY <1>1, <2>3, <2>4, GradedKept
  <1>9. ASSUME NEW t \in Threads,
               Free(t) \/ RmClientStats(t) \/ NothingToRemove(t) \/ Unlink(t)
        PROVE  FALSE
    BY <1>1, <1>9 DEF Free, RmClientStats, NothingToRemove, Unlink, At, NoRemoval, ThreadOK
  <1>10. CASE UNCHANGED vars
    <2>1. PICK age \in [Entries -> Nat], buck \in [Entries -> Nat] : Graded(age, buck)
      BY DEF Chained
    <2>4. UNCHANGED <<map, alloc, cid, stored, next, thr>>
      BY <1>10 DEF vars, fields
    <2>5. tag' = tag
      BY <2>4 DEF tag
    <2>2. Graded(age, buck)'
      BY <2>1, <2>4, <2>5 DEF Graded
    <2>3. QED
      BY <2>2 DEF Chained
  <1>11. QED
    BY <1>3, <1>4, <1>5, <1>6, <1>7, <1>8, <1>9, <1>10, NotFoundChained, StoreChained
       DEF Next, GetClientStats

\* The grading exists until a lookup matches an unfinished entry.
LEMMA AlwaysChained == ASSUME ~Removal PROVE Spec => [](~overtaken => Chained)
  <1>1. Init => Chained
    <2>1. SUFFICES ASSUME Init PROVE Chained
      OBVIOUS
    <2>2. PICK z \in [Entries -> Nat] : z = [e \in Entries |-> 0]
      OBVIOUS
    <2>3. \A t \in Threads : thr[t].pc = "idle"
      BY <2>1 DEF Init, Idle
    <2>4. Graded(z, z)
      BY <2>1, <2>3 DEF Init, Graded
    <2>5. QED
      BY <2>4 DEF Chained
  <1>2. ~Removal /\ IInv /\ (~overtaken => Chained) /\ [Next]_vars => (~overtaken => Chained)'
    BY ChainedStep, OvertakenStays DEF IInv
  <1>3. QED
    BY <1>1, <1>2, Invariance, PTL DEF Spec

\* ChainsSound (stats.c, get_client_stats without its lock), for any number of
\* workers, connections and clients and however their reads and writes of the map
\* interleave, the four stores of an insertion included: a lookup terminates and
\* reads only allocated entries of its own bucket, until some lookup has matched an
\* entry whose stores were not all visible, and as long as rm_client_stats has no
\* caller.
THEOREM LookupsEnd == ASSUME ~Removal PROVE Spec => []ChainsSound
  <1>1. ~Removal /\ IInv /\ (~overtaken => Chained) => ChainsSound
    <2>1. SUFFICES ASSUME Types, PointersValid, FilledIn, Chained, NEW b \in Buckets
                   PROVE  /\ Hop(b)[N] = Null
                          /\ \A e \in Chain(b) : e \in alloc /\ (~Unsettled(e) => KeyOf[cid[e]] = b)
      BY DEF IInv, Base, Counted, ChainsSound, N
    <2>2. ChainsEnd
      BY <2>1, GradedSound
    <2>3. ASSUME NEW e \in Chain(b), ~Unsettled(e) PROVE KeyOf[cid[e]] = b
      <3>1. e \in alloc /\ e \in Entries
        BY <2>1, <2>2 DEF ChainsEnd, Types
      <3>2. tag[e] # Null
        BY <2>1, <2>3, <3>1 DEF FilledIn, Unsettled, Blank
      <3>3. tag[e] = cid[e]
        BY <3>1, <3>2 DEF tag
      <3>4. QED
        BY <2>1, <2>2, <3>2, <3>3 DEF ChainsEnd
    <2>4. QED
      BY <2>2, <2>3 DEF ChainsEnd
  <1>2. QED
    BY <1>1, Invariance, AlwaysChained, PTL
-----------------------------------------------------------------------------
(* One entry per client, while nobody shares a bucket *)

\* An entry is Fresh until s->map points to it.  Until then no pointer of another
\* thread, entry or connection leads to it.
Unpublished(t) == thr[t].pc = "insert" /\ "map" \notin stored[thr[t].cs]
Fresh(e) == \E t \in Threads : Unpublished(t) /\ thr[t].cs = e

PrivateTo(t) ==
    /\ \A b \in Buckets : map[b] # thr[t].cs
    /\ \A e \in alloc : next[e] # thr[t].cs
    /\ \A u \in Threads : thr[u].seen # thr[t].cs /\ (u # t => thr[u].cs # thr[t].cs)
    /\ \A c \in Live : stats[c] # thr[t].cs

Private ==
    \A t \in Threads :
        /\ Unpublished(t) => PrivateTo(t)
        /\ thr[t].pc = "insert" => next[thr[t].cs] = IF "next" \in stored[thr[t].cs] THEN thr[t].seen ELSE Null

\* y leads to e, or will as soon as its next pointer is stored.
Points(y, e) == next[y] = e \/ \E t \in Threads : thr[t].pc = "insert" /\ thr[t].cs = y /\ thr[t].seen = e

\* Every published entry is the first of a chain or follows another one.
Linked ==
    \A e \in alloc : \/ Fresh(e) \/ \E b \in Buckets : map[b] = e
                     \/ \E y \in alloc : ~Fresh(y) /\ Points(y, e)

OneEach == \A e, f \in alloc : tag[e] = tag[f] /\ tag[e] # Null => e = f

\* From x every entry of client i is reached: each set that contains x and
\* what its members point to holds them.  That is what a search has still ahead.
Closed(S) == \A y \in S \cap alloc : next[y] \in S \cup {Null}
Holds(S, i) == \A e \in alloc : tag[e] = i => e \in S
Covers(x, i) == \A S \in SUBSET Entries : x \in S \cup {Null} /\ Closed(S) => Holds(S, i)

\* A thread has its bucket to itself, so that the head it read is still the head
\* and the client it did not find has no entry but the one it is inserting.
Alone(t) ==
    /\ \A u \in InTheMap : t \in InTheMap /\ KeyOf[thr[t].want] = KeyOf[thr[u].want] => t = u
    /\ Unpublished(t) => thr[t].seen = map[KeyOf[thr[t].want]]
    /\ thr[t].pc = "lookup" => Covers(thr[t].cs, thr[t].want)
    /\ thr[t].pc = "insert" => \A e \in alloc : tag[e] = thr[t].want => e = thr[t].cs

Single == Linked /\ OneEach /\ \A t \in Threads : Alone(t)

Shared == Private /\ (~disturbed => Single)

\* Entries are finitely many: not each of some can have a younger one among them.
LEMMA NoAscent ==
    ASSUME NEW A \in SUBSET Entries, NEW age \in [Entries -> Nat],
           \A e \in A : \E y \in A : age[e] < age[y]
    PROVE  A = {}
  <1>1. SUFFICES ASSUME NEW a \in A PROVE FALSE
    OBVIOUS
  <1> DEFINE Above(S, x) == \A s \in S : age[s] < age[x]
             Many(n) == \E S \in SUBSET A : IsFiniteSet(S) /\ Cardinality(S) = n /\ \E x \in A : Above(S, x)
             U == {n \in Nat : Many(n)}
  <1>2. 0 \in U
    <2>1. IsFiniteSet({}) /\ Cardinality({}) = 0 /\ Above({}, a) /\ {} \in SUBSET A
      BY FS_EmptySet
    <2> HIDE DEF Above
    <2>2. QED
      BY <1>1, <2>1
  <1>3. ASSUME NEW n \in Nat, n \in U PROVE n + 1 \in U
    <2>1. PICK S \in SUBSET A, x \in A : IsFiniteSet(S) /\ Cardinality(S) = n /\ Above(S, x)
      <3> HIDE DEF Above
      <3>1. QED
        BY <1>3
    <2>2. PICK y \in A : age[x] < age[y]
      OBVIOUS
    <2> DEFINE T == S \cup {x}
    <2>3. x \notin S /\ T \in SUBSET A
      <3>1. x \in S => age[x] < age[x]
        BY <2>1
      <3>2. age[x] \in Nat
        OBVIOUS
      <3>3. \A m \in Nat : ~(m < m)
        OBVIOUS
      <3>4. x \notin S
        BY <3>1, <3>2, <3>3, Zenon
      <3>5. QED
        BY <3>4
    <2>4. IsFiniteSet(T) /\ Cardinality(T) = n + 1
      BY <2>1, <2>3, FS_AddElement
    <2>5. Above(T, y)
      <3>1. \A m, k, l \in Nat : m < k /\ k < l => m < l
        OBVIOUS
      <3>2. age[x] \in Nat /\ age[y] \in Nat /\ \A s \in S : age[s] \in Nat
        OBVIOUS
      <3>3. \A s \in S : age[s] < age[y]
        BY <2>1, <2>2, <3>1, <3>2
      <3>4. QED
        BY <2>2, <3>3
    <2> HIDE DEF T, Above
    <2>6. Many(n + 1)
      BY <2>3, <2>4, <2>5
    <2> HIDE DEF Many
    <2>7. n + 1 \in Nat
      OBVIOUS
    <2>8. QED
      BY <2>6, <2>7
  <1>4. N + 1 \in U
    <2> HIDE DEF U
    <2>1. N + 1 \in Nat
      BY NType
    <2>2. QED
      BY <1>2, <1>3, <2>1, SetInduction
  <1>5. PICK S \in SUBSET A : IsFiniteSet(S) /\ Cardinality(S) = N + 1
    BY <1>4
  <1>6. Cardinality(S) <= N
    BY <1>5, FS_Subset DEF N
  <1>7. QED
    BY <1>5, <1>6, NType

\* map[KeyOf[i]] leads to every entry of client i, when nobody is in its bucket.
LEMMA HeadCovers ==
    ASSUME Base, Counted, Chained, Private, Single, NEW i \in Ids,
           \A u \in InTheMap : KeyOf[thr[u].want] # KeyOf[i]
    PROVE  Covers(map[KeyOf[i]], i)
  <1> DEFINE b == KeyOf[i]
  <1>1. SUFFICES ASSUME NEW S \in SUBSET Entries, map[b] \in S \cup {Null}, Closed(S)
                 PROVE  Holds(S, i)
    BY DEF Covers
  <1>2. PICK age \in [Entries -> Nat], buck \in [Entries -> Nat] : Graded(age, buck)
    BY DEF Chained
  <1> DEFINE A == {e \in alloc \ S : ~Fresh(e) /\ buck[e] = b}
  <1>3. Types /\ PointersValid /\ (\A t \in Threads : ThreadOK(t)) /\ b \in Buckets
    BY DEF Base, Counted, Buckets
  <1>4. A \in SUBSET Entries
    BY <1>3 DEF Types
  <1>5. ASSUME NEW e \in A PROVE \E y \in A : age[e] < age[y]
    <2>1. e \in alloc /\ e \notin S /\ ~Fresh(e) /\ buck[e] = b /\ e # Null
      BY <1>4
    <2>2. \A k \in Buckets : map[k] # e
      BY <1>1, <1>2, <2>1 DEF Graded
    <2>3. PICK y \in alloc : ~Fresh(y) /\ Points(y, e)
      BY <2>1, <2>2 DEF Single, Linked
    <2>4. next[y] = e
      <3>1. ASSUME NEW u \in Threads, thr[u].pc = "insert", thr[u].cs = y, thr[u].seen = e PROVE FALSE
        <4>1. buck[e] = KeyOf[thr[u].want] /\ u \in InTheMap
          BY <1>2, <2>1, <3>1 DEF Graded, InTheMap
        <4>2. QED
          BY <2>1, <4>1
      <3>2. QED
        BY <2>3, <3>1 DEF Points
    <2>5. age[e] < age[y] /\ buck[y] = b
      BY <1>2, <2>1, <2>3, <2>4 DEF Graded
    <2>6. y \notin S
      BY <1>1, <2>1, <2>3, <2>4 DEF Closed
    <2>7. QED
      BY <2>3, <2>5, <2>6
  <1>6. A = {}
    <2> HIDE DEF A
    <2>1. QED
      BY <1>4, <1>5, NoAscent
  <1>7. ASSUME NEW e \in alloc, tag[e] = i PROVE e \in S
    <2>1. tag[e] # Null
      BY <1>7
    <2>2. buck[e] = b
      BY <1>2, <1>7, <2>1 DEF Graded
    <2>3. ~Fresh(e)
      <3>1. SUFFICES ASSUME NEW u \in Threads, Unpublished(u), thr[u].cs = e PROVE FALSE
        BY DEF Fresh
      <3>2. buck[e] = KeyOf[thr[u].want] /\ u \in InTheMap
        BY <1>2, <3>1 DEF Graded, InTheMap, Unpublished
      <3>3. QED
        BY <2>2, <3>2
    <2>4. QED
      BY <1>6, <1>7, <2>2, <2>3
  <1>8. QED
    BY <1>7 DEF Holds

\* Between insertions the map holds every published entry.
LEMMA AllInMap ==
    ASSUME Base, Counted, Chained, Linked, \A t \in Threads : thr[t].pc # "insert",
           NEW x \in alloc, ~Fresh(x)
    PROVE  x \in InMap
  <1>1. PICK age \in [Entries -> Nat], buck \in [Entries -> Nat] : Graded(age, buck)
    BY DEF Chained
  <1> DEFINE A == {e \in alloc \ InMap : ~Fresh(e)}
  <1>2. Types /\ PointersValid /\ ChainsEnd
    BY GradedSound DEF Base, Counted
  <1>3. A \in SUBSET Entries /\ \A e \in A : e # Null
    BY <1>2 DEF Types
  <1>4. ASSUME NEW b \in Buckets, NEW n \in 0..N, Hop(b)[n] # Null PROVE Hop(b)[n] \in InMap
    BY <1>4 DEF InMap, Chain, N
  <1>5. ASSUME NEW e \in A PROVE \E y \in A : age[e] < age[y]
    <2>1. e \in alloc /\ e \notin InMap /\ ~Fresh(e) /\ e # Null
      BY <1>3
    <2>2. \A b \in Buckets : map[b] # e
      <3>1. ASSUME NEW b \in Buckets, map[b] = e PROVE FALSE
        <4>1. Hop(b)[0] = e /\ 0 \in 0..N
          BY <1>2, <3>1, HopUnfold, NType
        <4>2. QED
          BY <1>4, <2>1, <4>1
      <3>2. QED
        BY <3>1
    <2>3. PICK y \in alloc : ~Fresh(y) /\ Points(y, e)
      BY <2>1, <2>2 DEF Linked
    <2>4. next[y] = e
      BY <2>3 DEF Points
    <2>5. age[e] < age[y]
      BY <1>1, <2>1, <2>3, <2>4 DEF Graded
    <2>6. y \notin InMap
      <3>1. SUFFICES ASSUME y \in InMap PROVE FALSE
        OBVIOUS
      <3>2. PICK b \in Buckets, n \in 0..N : Hop(b)[n] = y /\ y # Null
        BY <3>1 DEF InMap, Chain, N
      <3>3. Hop(b)[N] = Null
        BY <1>2 DEF ChainsEnd
      <3>4. n # N
        BY <3>2, <3>3
      <3>5. n + 1 \in 1..N /\ n + 1 \in 0..N /\ (n + 1) - 1 = n
        BY <3>4, NType
      <3>6. Hop(b)[n + 1] = e
        <4>1. Hop(b)[n + 1] = After(Hop(b)[n])
          BY <1>2, <3>5, HopUnfold
        <4>2. QED
          BY <2>4, <3>2, <4>1 DEF After
      <3>7. QED
        BY <1>4, <2>1, <3>5, <3>6
    <2>7. QED
      BY <2>3, <2>5, <2>6
  <1>6. A = {}
    <2> HIDE DEF A
    <2>1. QED
      BY <1>3, <1>5, NoAscent
  <1>7. QED
    BY <1>6

\* What the invariant is for.
LEMMA SharedSound ==
    ASSUME Base, Counted, Chained, Shared
    PROVE  SharedByClient
  <1>1. SUFFICES ASSUME ~disturbed, \A t \in Threads : thr[t].pc # "insert"
                 PROVE  /\ \A e, f \in InMap : cid[e] = cid[f] => e = f
                        /\ \A c \in Conns : owner[c] # Null => stats[c] \in InMap \cup removed
    BY DEF SharedByClient, At
  <1>2. Linked /\ OneEach /\ Private /\ PointersValid /\ FilledIn /\ Types
    BY <1>1 DEF Shared, Single, Counted, Base
  <1>3. InMap \subseteq alloc
    BY GradedSound DEF InMap, ChainsEnd, Base, Counted
  <1>4. ASSUME NEW c \in Conns, owner[c] # Null PROVE stats[c] \in InMap
    <2>1. c \in Live /\ stats[c] \in alloc
      BY <1>2, <1>4 DEF Live, PointersValid
    <2>2. ~Fresh(stats[c])
      BY <1>2, <2>1 DEF Fresh, Private, PrivateTo
    <2>3. QED
      BY <1>1, <1>2, <2>1, <2>2, AllInMap
  <1>5. \A e \in alloc : e \in Entries /\ tag[e] # Null
    BY <1>1, <1>2 DEF FilledIn, Blank, Types
  <1>6. \A e \in alloc : tag[e] = cid[e]
    BY <1>5 DEF tag
  <1>7. QED
    BY <1>2, <1>3, <1>4, <1>5, <1>6 DEF OneEach

\* A thread has nobody else's new entry in hand.
LEMMA NotFresh ==
    ASSUME Base, Private
    PROVE  /\ ~Fresh(Null)
           /\ \A t \in Threads : ~Unpublished(t) => ~Fresh(thr[t].cs)
           /\ \A b \in Buckets : ~Fresh(map[b])
           /\ \A e \in alloc : ~Fresh(next[e])
           /\ \A c \in Live : ~Fresh(stats[c])
           /\ \A t \in Threads : ~Fresh(thr[t].seen)
  <1>1. \A u \in Threads : Unpublished(u) => thr[u].cs # Null
    BY DEF Base, ThreadOK, Unpublished
  <1>2. QED
    BY <1>1 DEF Fresh, Private, PrivateTo

\* A step of t that inserts nothing.
LEMMA QuietShared ==
    ASSUME Base, Private, ~disturbed => Single, NEW t \in Threads, Others(t),
           UNCHANGED <<map, alloc, cid, stored, tag, next>>, disturbed' \in BOOLEAN, ~disturbed' => ~disturbed,
           thr[t].pc # "insert", thr'[t].pc # "insert",
           ~Fresh(thr'[t].cs), thr'[t].seen \in {Null, thr[t].seen},
           \A c \in Live' : (c \in Live /\ stats'[c] = stats[c]) \/ stats'[c] = thr[t].cs,
           ~disturbed' /\ t \in InTheMap' => \A u \in InTheMap \ {t} : KeyOf[thr'[t].want] # KeyOf[thr[u].want],
           ~disturbed' /\ thr'[t].pc = "lookup" => Covers(thr'[t].cs, thr'[t].want)
    PROVE  Shared'
  <1>1. /\ \A u \in Threads : u # t => thr'[u] = thr[u]
        /\ ~Unpublished(t) /\ ~Unpublished(t)'
        /\ \A u \in Threads : Unpublished(u)' <=> Unpublished(u)
    BY DEF Others, Unpublished
  <1>2. \A e : Fresh(e)' <=> Fresh(e)
    BY <1>1 DEF Fresh
  <1>3. ~Fresh(Null) /\ ~Fresh(thr[t].cs) /\ ~Fresh(thr'[t].seen)
    BY <1>1, NotFresh
  <1>4. ASSUME NEW u \in Threads, Unpublished(u)' PROVE PrivateTo(u)'
    <2>1. u # t /\ thr'[u] = thr[u] /\ PrivateTo(u)
      BY <1>1, <1>4 DEF Private
    <2>2. thr'[t].cs # thr[u].cs /\ thr[t].cs # thr[u].cs /\ thr'[t].seen # thr[u].cs
      <3>1. Fresh(thr[u].cs)
        BY <1>1, <1>4 DEF Fresh
      <3>2. QED
        BY <1>3, <3>1
    <2>3. \A v \in Threads : thr'[v].seen # thr[u].cs /\ (v # u => thr'[v].cs # thr[u].cs)
      BY <1>1, <2>1, <2>2 DEF PrivateTo
    <2>4. \A c \in Live' : stats'[c] # thr[u].cs
      BY <2>1, <2>2 DEF PrivateTo
    <2>5. (\A b \in Buckets : map'[b] # thr[u].cs) /\ \A e \in alloc' : next'[e] # thr[u].cs
      BY <2>1 DEF PrivateTo
    <2>6. QED
      BY <2>1, <2>3, <2>4, <2>5 DEF PrivateTo
  <1>5. Private'
    <2>1. \A u \in Threads : thr'[u].pc = "insert" =>
              next'[thr'[u].cs] = IF "next" \in stored'[thr'[u].cs] THEN thr'[u].seen ELSE Null
      BY <1>1 DEF Private
    <2>2. QED
      BY <1>4, <2>1 DEF Private
  <1>6. ASSUME ~disturbed' PROVE Single'
    <2>1. Linked /\ OneEach /\ (\A u \in Threads : Alone(u))
      BY <1>6 DEF Single
    <2>2. ASSUME NEW y, NEW e, Points(y, e) PROVE Points(y, e)'
      <3>1. \A u \in Threads : thr[u].pc = "insert" => thr'[u] = thr[u]
        BY <1>1
      <3>2. QED
        BY <2>2, <3>1 DEF Points
    <2>3. Linked'
      BY <1>2, <2>1, <2>2 DEF Linked
    <2>4. OneEach'
      BY <2>1 DEF OneEach
    <2>6. ASSUME NEW u \in Threads PROVE Alone(u)'
      <3>1. \A v \in InTheMap' : v # t => v \in InTheMap
        BY <1>1 DEF InTheMap
      <3>2. CASE u = t
        <4>1. \A v \in InTheMap' : t \in InTheMap' /\ KeyOf[thr'[t].want] = KeyOf[thr'[v].want] => t = v
          BY <1>1, <1>6, <3>1 DEF InTheMap
        <4>2. thr'[t].pc = "lookup" => Covers(thr[t].cs, thr[t].want)'
          BY <1>6 DEF Covers, Closed, Holds
        <4>3. QED
          BY <1>1, <3>2, <4>1, <4>2 DEF Alone
      <3>3. CASE u # t
        <4>1. thr'[u] = thr[u] /\ Alone(u)
          BY <1>1, <2>1, <3>3
        <4>2. ASSUME NEW v \in InTheMap', u \in InTheMap', KeyOf[thr'[u].want] = KeyOf[thr'[v].want]
              PROVE  u = v
          <5>1. u \in InTheMap
            BY <3>1, <3>3, <4>2
          <5>2. CASE v = t
            BY <1>6, <3>3, <4>1, <4>2, <5>1, <5>2
          <5>3. CASE v # t
            <6>1. v \in InTheMap /\ thr'[v] = thr[v]
              BY <1>1, <3>1, <4>2, <5>3 DEF InTheMap
            <6>2. QED
              BY <4>1, <4>2, <5>1, <6>1 DEF Alone
          <5>4. QED
            BY <5>2, <5>3
        <4>3. thr'[u].pc = "lookup" => Covers(thr[u].cs, thr[u].want)'
          BY <4>1 DEF Alone, Covers, Closed, Holds
        <4>4. Unpublished(u)' => thr'[u].seen = map'[KeyOf[thr'[u].want]]
          BY <1>1, <4>1 DEF Alone
        <4>5. thr'[u].pc = "insert" => \A e \in alloc' : tag'[e] = thr'[u].want => e = thr'[u].cs
          BY <4>1 DEF Alone
        <4>6. QED
          BY <4>2, <4>3, <4>4, <4>5 DEF Alone
      <3>4. QED
        BY <3>2, <3>3
    <2>7. QED
      BY <2>3, <2>4, <2>6 DEF Single
  <1>7. QED
    BY <1>5, <1>6 DEF Shared

\* conn_new and stat_test_data start a search.
LEMMA EnterShared ==
    ASSUME Base, Counted, Chained, Shared, NEW t \in Threads, NEW j \in {"open", "test"}, NEW i \in Ids,
           NEW c \in Conns \cup {Null}, Enter(t, j, i, c), UNCHANGED <<map, alloc, fields, tag, stats, owner>>
    PROVE  Shared'
  <1>1. Types /\ Private /\ (~disturbed => Single) /\ j \in Jobs
    BY DEF Base, Shared, Jobs
  <1>2. /\ thr[t].pc = "idle" /\ Others(t) /\ thr'[t].pc = "lookup" /\ thr'[t].want = i
        /\ thr'[t].cs = map[KeyOf[i]] /\ thr'[t].seen = Null
    BY <1>1, EnterLocals DEF LocalsAre
  <1>3. disturbed' = (disturbed \/ \E u \in InTheMap : KeyOf[thr[u].want] = KeyOf[i])
    BY DEF Enter
  <1>4. disturbed \in BOOLEAN
    BY <1>1 DEF Types
  <1>5. disturbed' \in BOOLEAN /\ (~disturbed' => ~disturbed /\ \A u \in InTheMap : KeyOf[thr[u].want] # KeyOf[i])
    BY <1>3, <1>4, Zenon
  <1>6. ~Fresh(thr'[t].cs)
    BY <1>1, <1>2, NotFresh DEF Buckets
  <1>7. ~disturbed' => Covers(thr'[t].cs, thr'[t].want)
    BY <1>1, <1>2, <1>5, HeadCovers
  <1>8. Live' = Live
    BY DEF Live
  <1>9. /\ UNCHANGED <<map, alloc, cid, stored, tag, next>> /\ thr[t].pc # "insert" /\ thr'[t].pc # "insert"
        /\ \A k \in Live' : k \in Live /\ stats'[k] = stats[k]
    BY <1>2, <1>8 DEF fields, tag
  <1>10. ~disturbed' => \A u \in InTheMap \ {t} : KeyOf[thr'[t].want] # KeyOf[thr[u].want]
    BY <1>2, <1>5
  <1>11. QED
    BY <1>1, <1>2, <1>5, <1>6, <1>7, <1>9, <1>10, QuietShared

\* The steps of a thread that stays where it is in the map, or leaves it.
LEMMA MoveShared ==
    ASSUME Base, Shared, NEW t \in Threads, Others(t), UNCHANGED <<map, alloc, cid, stored, tag, next, disturbed>>,
           thr[t].pc # "insert", thr'[t].pc # "insert", ~Fresh(thr'[t].cs),
           thr'[t].seen \in {Null, thr[t].seen},
           t \in InTheMap' => t \in InTheMap /\ thr'[t].want = thr[t].want,
           \A c \in Live' : (c \in Live /\ stats'[c] = stats[c]) \/ stats'[c] = thr[t].cs,
           ~disturbed /\ thr'[t].pc = "lookup" => Covers(thr'[t].cs, thr'[t].want)
    PROVE  Shared'
  <1>1. Private /\ (~disturbed => Single) /\ disturbed' \in BOOLEAN /\ (~disturbed' => ~disturbed)
    BY DEF Shared, Base, Types
  <1>2. ~disturbed' /\ t \in InTheMap' => \A u \in InTheMap \ {t} : KeyOf[thr'[t].want] # KeyOf[thr[u].want]
    BY <1>1 DEF Single, Alone
  <1>3. QED
    BY <1>1, <1>2, QuietShared

LEMMA WalkShared == ASSUME Base, Counted, Shared, NEW t \in Threads, Walk(t) PROVE Shared'
  <1> DEFINE me == thr[t]
  <1>1. Types /\ thr \in [Threads -> Locals] /\ thr[t] \in Locals /\ PointersValid /\ NoRemoval /\ Private
    BY DEF Base, Types, Counted, Shared
  <1>2. /\ me.pc = "lookup" /\ me.cs \in alloc /\ me.cs # Null /\ cid[me.cs] # me.want
        /\ UNCHANGED <<map, alloc, cid, stored, tag, next, stats, owner, disturbed>>
        /\ thr' = [thr EXCEPT ![t].prev = me.prev, ![t].cs = next[me.cs]]
    BY <1>1 DEF Walk, At, fields, tag, history, PointersValid, NoRemoval, Matches
  <1>a. tag[me.cs] # me.want
    BY <1>1, <1>2 DEF tag, Base, ThreadOK, Types
  <1>3. next[me.cs] \in alloc \cup {Null} /\ next[me.cs] \in Entries \cup {Null} /\ me.cs \in Entries
    BY <1>1, <1>2 DEF PointersValid, Types
  <1>4. Others(t) /\ thr'[t].pc = "lookup" /\ thr'[t].want = me.want /\ thr'[t].cs = next[me.cs] /\ thr'[t].seen = me.seen
    BY <1>1, <1>2, <1>3 DEF Others, Locals
  <1>5. ~Fresh(thr'[t].cs)
    BY <1>1, <1>2, <1>3, <1>4, NotFresh
  <1>6. ASSUME ~disturbed PROVE Covers(next[me.cs], me.want)
    <2>1. SUFFICES ASSUME NEW S \in SUBSET Entries, next[me.cs] \in S \cup {Null}, Closed(S)
                   PROVE  Holds(S, me.want)
      BY DEF Covers
    <2>2. Covers(me.cs, me.want)
      BY <1>2, <1>6 DEF Shared, Single, Alone
    <2> DEFINE T == S \cup {me.cs}
    <2>3. Closed(T) /\ T \in SUBSET Entries /\ me.cs \in T
      BY <1>3, <2>1 DEF Closed
    <2> HIDE DEF T
    <2>4. Holds(T, me.want)
      BY <2>2, <2>3 DEF Covers
    <2>5. QED
      BY <1>a, <2>4 DEF Holds, T
  <1>7. Live' = Live /\ t \in InTheMap
    BY <1>2 DEF Live, InTheMap
  <1>8. QED
    BY <1>2, <1>4, <1>5, <1>6, <1>7, MoveShared

\* Found, refcount_incr and Count.
LEMMA PassShared == ASSUME Base, Counted, Shared, NEW t \in Threads, Found(t) \/ Incr(t) \/ Count(t) PROVE Shared'
  <1> DEFINE me == thr[t]
  <1>1. Types /\ ConnsHeld /\ ThreadOK(t) /\ Private /\ NoRemoval
    BY DEF Base, Shared, Counted
  <1>2. PICK p \in {"incr", "count", "decr", "event_add"} : Move(t, p) /\ (p = "incr" => me.pc = "lookup")
    BY <1>1 DEF Found, Incr, Count, AfterGet, NoRemoval, At
  <1>3. /\ me.pc \in {"lookup", "incr", "count"}
        /\ UNCHANGED <<map, alloc, cid, stored, tag, next, owner, disturbed>>
        /\ (me.pc # "count" => UNCHANGED stats)
        /\ (me.pc = "count" => stats' = [stats EXCEPT ![me.conn] = me.cs])
    BY DEF Found, Incr, Count, At, fields, tag, history
  <1>4. Others(t) /\ thr'[t].pc = p /\ thr'[t].want = me.want /\ thr'[t].cs = me.cs /\ thr'[t].seen = me.seen
    BY <1>1, <1>2, MoveLocals DEF LocalsAre, PCs
  <1>5. ~Fresh(thr'[t].cs)
    BY <1>1, <1>3, <1>4, NotFresh DEF Unpublished
  <1>6. Live' = Live
    BY <1>3 DEF Live
  <1>7. \A c \in Live : stats'[c] = stats[c]
    BY <1>1, <1>3 DEF Live, Types, ConnsHeld
  <1>8. t \in InTheMap' => t \in InTheMap
    BY <1>2, <1>4 DEF InTheMap
  <1>9. QED
    BY <1>2, <1>3, <1>4, <1>5, <1>6, <1>7, <1>8, MoveShared

LEMMA EventAddShared == ASSUME Base, Counted, Shared, NEW t \in Threads, EventAdd(t) PROVE Shared'
  <1> DEFINE me == thr[t]
  <1>1. Types /\ ThreadOK(t) /\ Private
    BY DEF Base, Shared
  <1>2. /\ me.pc = "event_add" /\ Return(t)
        /\ UNCHANGED <<map, alloc, cid, stored, tag, next, stats, disturbed>>
        /\ owner' \in {owner, [owner EXCEPT ![me.conn] = t]}
    BY DEF EventAdd, At, fields, tag
  <1>3. Others(t) /\ thr'[t].pc = "idle" /\ thr'[t].cs = Null /\ thr'[t].seen = Null
    BY <1>1, <1>2, ReturnLocals DEF LocalsAre
  <1>4. ~Fresh(thr'[t].cs)
    BY <1>1, <1>3, NotFresh
  <1>5. \A c \in Live' : (c \in Live /\ stats'[c] = stats[c]) \/ stats'[c] = me.cs
    BY <1>1, <1>2 DEF Live, ThreadOK, Types
  <1>6. t \notin InTheMap'
    BY <1>3 DEF InTheMap
  <1>7. QED
    BY <1>2, <1>3, <1>4, <1>5, <1>6, MoveShared

LEMMA ConnCloseShared == ASSUME Base, Counted, Shared, NEW t \in Threads, ConnClose(t) PROVE Shared'
  <1>1. Types /\ Private /\ thr \in [Threads -> Locals]
    BY DEF Base, Shared, Types
  <1>2. PICK c \in Conns :
            /\ owner[c] = t /\ owner' = [owner EXCEPT ![c] = Null]
            /\ thr' = [thr EXCEPT ![t] = [Idle EXCEPT !.pc = "decr", !.job = "close", !.cs = stats[c], !.conn = c]]
    BY DEF ConnClose
  <1>3. thr[t].pc = "idle" /\ UNCHANGED <<map, alloc, cid, stored, tag, next, stats, disturbed>>
    BY DEF ConnClose, At, fields, tag, history
  <1>4. stats[c] \in Entries \cup {Null} /\ c \in Live
    BY <1>1, <1>2 DEF Types, Live, Threads
  <1>5. Others(t) /\ thr'[t].pc = "decr" /\ thr'[t].cs = stats[c] /\ thr'[t].seen = Null
    BY <1>1, <1>2, <1>4 DEF Others, Idle, Locals, PCs, Jobs
  <1>6. ~Fresh(thr'[t].cs)
    BY <1>1, <1>4, <1>5, NotFresh
  <1>7. \A k \in Live' : k \in Live /\ stats'[k] = stats[k]
    BY <1>1, <1>2, <1>3 DEF Live, Types
  <1>8. t \notin InTheMap'
    BY <1>5 DEF InTheMap
  <1>9. QED
    BY <1>3, <1>5, <1>6, <1>7, <1>8, MoveShared

LEMMA DecrShared == ASSUME Base, Counted, Shared, NEW t \in Threads, Decr(t) PROVE Shared'
  <1> DEFINE me == thr[t]
  <1>1. Types /\ ConnsHeld /\ ThreadOK(t) /\ Private
    BY DEF Base, Shared
  <1>2. /\ me.pc = "decr" /\ (Return(t) \/ Move(t, "free"))
        /\ UNCHANGED <<map, alloc, cid, stored, tag, next, owner, disturbed>>
        /\ (me.job # "close" => UNCHANGED stats)
        /\ (me.job = "close" => stats' = [stats EXCEPT ![me.conn] = Null])
    BY DEF Decr, At, history, tag
  <1>3. Others(t) /\ thr'[t].pc \in {"idle", "free"} /\ thr'[t].cs \in {Null, me.cs} /\ thr'[t].seen \in {Null, me.seen}
    BY <1>1, <1>2, ReturnLocals, MoveLocals DEF LocalsAre, PCs
  <1>4. ~Fresh(thr'[t].cs)
    BY <1>1, <1>2, <1>3, NotFresh DEF Unpublished
  <1>5. Live' = Live
    BY <1>2 DEF Live
  <1>6. \A c \in Live : stats'[c] = stats[c]
    BY <1>1, <1>2 DEF Live, Types, ConnsHeld, ThreadOK
  <1>7. t \notin InTheMap'
    BY <1>3 DEF InTheMap
  <1>8. QED
    BY <1>2, <1>3, <1>4, <1>5, <1>6, <1>7, MoveShared

LEMMA NotFoundShared == ASSUME Base, Counted, Shared, NEW t \in Threads, NotFound(t) PROVE Shared'
  <1> DEFINE me == thr[t]
             s == map[KeyOf[me.want]]
  <1>1. /\ Types /\ PointersValid /\ Private /\ FilledIn /\ thr \in [Threads -> Locals] /\ thr[t] \in Locals
        /\ \A u \in Threads : ThreadOK(u)
    BY DEF Base, Counted, Types, Shared
  <1>2. PICK d \in Entries \ alloc :
            /\ alloc' = alloc \cup {d}
            /\ stored' = [stored EXCEPT ![d] = {}]
            /\ cid' = [cid EXCEPT ![d] = ZeroId]
            /\ next' = [next EXCEPT ![d] = Null]
            /\ thr' = [thr EXCEPT ![t].pc = "insert", ![t].cs = d, ![t].seen = map[KeyOf[thr[t].want]]]
    BY DEF NotFound
  <1>3. me.pc = "lookup" /\ me.cs = Null /\ UNCHANGED <<map, stats, owner, disturbed>> /\ d # Null
    BY DEF NotFound, At
  <1>4. me.want \in Ids /\ KeyOf[me.want] \in Buckets /\ s \in alloc \cup {Null} /\ s \in Entries \cup {Null}
    <2>1. me.want \in Ids
      BY <1>1, <1>3 DEF ThreadOK
    <2>2. QED
      BY <1>1, <2>1 DEF Types, PointersValid, Buckets
  <1>5. /\ Others(t)
        /\ thr'[t].pc = "insert" /\ thr'[t].cs = d /\ thr'[t].seen = s /\ thr'[t].want = me.want
    <2> HIDE DEF s
    <2>1. thr' = [thr EXCEPT ![t].pc = "insert", ![t].cs = d, ![t].seen = s]
      BY <1>2 DEF s
    <2>2. QED
      BY <1>1, <1>4, <2>1 DEF Others, Locals, PCs
  <1> HIDE DEF s
  <1>6. /\ \A u \in Threads : u # t => thr'[u] = thr[u]
        /\ tag'[d] = Null /\ next'[d] = Null
        /\ \A e \in alloc : e # d /\ tag'[e] = tag[e] /\ next'[e] = next[e] /\ stored'[e] = stored[e]
        /\ stored'[d] = {}
    <2>1. /\ stored'[d] = {} /\ next'[d] = Null /\ alloc \subseteq Entries
          /\ \A e \in alloc : e # d /\ stored'[e] = stored[e] /\ cid'[e] = cid[e] /\ next'[e] = next[e]
      BY <1>1, <1>2 DEF Types
    <2>2. tag'[d] = Null /\ \A e \in alloc : tag'[e] = tag[e]
      BY <2>1 DEF tag, Stores
    <2>3. QED
      BY <1>5, <2>1, <2>2 DEF Others
  <1>7. /\ \A u \in Threads : thr[u].cs # d /\ thr[u].seen # d
        /\ \A b \in Buckets : map[b] # d
        /\ \A e \in alloc : next[e] # d
        /\ \A c \in Live : stats[c] # d
        /\ s # d
    BY <1>1, <1>2, <1>3, <1>4 DEF PointersValid
  <1>8. Live' = Live /\ ~Unpublished(t)
    BY <1>3 DEF Live, Unpublished
  <1>b. Unpublished(t)' /\ \A u \in Threads : u # t => (Unpublished(u)' <=> Unpublished(u))
    <2>1. ASSUME NEW u \in Threads, u # t, thr[u].pc = "insert" PROVE stored'[thr[u].cs] = stored[thr[u].cs]
      <3>1. thr[u].cs \in alloc
        BY <1>1, <2>1 DEF ThreadOK, PointersValid
      <3>2. QED
        BY <1>6, <3>1
    <2>2. QED
      BY <1>5, <1>6, <2>1 DEF Unpublished
  <1>9. \A e : Fresh(e)' <=> Fresh(e) \/ e = d
    BY <1>5, <1>6, <1>8, <1>b DEF Fresh
  <1>10. ASSUME NEW u \in Threads, Unpublished(u)' PROVE PrivateTo(u)'
    <2>1. CASE u = t
      <3>1. \A v \in Threads : thr'[v].seen # d /\ (v # t => thr'[v].cs # d)
        BY <1>5, <1>6, <1>7
      <3>2. \A e \in alloc' : next'[e] # d
        BY <1>2, <1>3, <1>6, <1>7
      <3>3. QED
        BY <1>3, <1>5, <1>7, <1>8, <2>1, <3>1, <3>2 DEF PrivateTo
    <2>2. CASE u # t
      <3>1. thr'[u] = thr[u] /\ PrivateTo(u) /\ thr[u].cs # Null /\ thr[u].cs # d
        BY <1>1, <1>6, <1>7, <1>b, <1>10, <2>2 DEF Private, ThreadOK, Unpublished
      <3>2. s # thr[u].cs
        BY <1>4, <3>1 DEF PrivateTo, s
      <3>3. \A v \in Threads : thr'[v].seen # thr[u].cs /\ (v # u => thr'[v].cs # thr[u].cs)
        BY <1>5, <1>6, <3>1, <3>2 DEF PrivateTo
      <3>4. \A e \in alloc' : next'[e] # thr[u].cs
        BY <1>2, <1>6, <3>1 DEF PrivateTo
      <3>5. QED
        BY <1>3, <1>8, <3>1, <3>3, <3>4 DEF PrivateTo
    <2>3. QED
      BY <2>1, <2>2
  <1>11. Private'
    <2>1. ASSUME NEW u \in Threads, thr'[u].pc = "insert"
          PROVE  next'[thr'[u].cs] = IF "next" \in stored'[thr'[u].cs] THEN thr'[u].seen ELSE Null
      <3>1. CASE u = t
        BY <1>5, <1>6, <3>1
      <3>2. CASE u # t
        <4>1. thr'[u] = thr[u] /\ thr[u].cs \in alloc
          BY <1>1, <1>6, <2>1, <3>2 DEF PointersValid, ThreadOK
        <4>2. QED
          BY <1>1, <1>6, <2>1, <4>1 DEF Private
      <3>3. QED
        BY <3>1, <3>2
    <2>2. QED
      BY <1>10, <2>1 DEF Private
  <1>12. ASSUME ~disturbed' PROVE Single'
    <2>1. Linked /\ OneEach /\ (\A u \in Threads : Alone(u))
      BY <1>3, <1>12 DEF Single, Shared
    <2>2. Linked'
      <3>1. ASSUME NEW y \in alloc, NEW e \in alloc, Points(y, e) PROVE Points(y, e)'
        <4>1. \A u \in Threads : thr[u].pc = "insert" => thr'[u] = thr[u]
          BY <1>3, <1>6
        <4>2. QED
          BY <1>6, <3>1, <4>1 DEF Points
      <3>2. ASSUME NEW e \in alloc', ~Fresh(e)'
            PROVE  (\E b \in Buckets : map'[b] = e) \/ \E y \in alloc' : ~Fresh(y)' /\ Points(y, e)'
        <4>1. e \in alloc /\ ~Fresh(e)
          BY <1>2, <1>9, <3>2
        <4>2. (\E b \in Buckets : map[b] = e) \/ \E y \in alloc : ~Fresh(y) /\ Points(y, e)
          BY <2>1, <4>1 DEF Linked
        <4>3. CASE \E b \in Buckets : map[b] = e
          BY <1>3, <4>3
        <4>4. ASSUME NEW y \in alloc, ~Fresh(y), Points(y, e) PROVE \E z \in alloc' : ~Fresh(z)' /\ Points(z, e)'
          <5>1. y \in alloc' /\ ~Fresh(y)' /\ Points(y, e)'
            BY <1>2, <1>6, <1>9, <3>1, <4>1, <4>4
          <5>2. QED
            BY <5>1
        <4>5. QED
          BY <4>2, <4>3, <4>4
      <3>3. QED
        BY <3>2 DEF Linked
    <2>3. OneEach'
      BY <1>2, <1>6, <2>1 DEF OneEach
    <2>4. \A e \in alloc : tag[e] # me.want
      <3>1. Covers(Null, me.want)
        BY <1>3, <2>1 DEF Alone
      <3>2. Closed({}) /\ {} \in SUBSET Entries
        BY DEF Closed
      <3>3. Holds({}, me.want)
        BY <3>1, <3>2 DEF Covers
      <3>4. QED
        BY <3>3 DEF Holds
    <2>5. InTheMap' = InTheMap /\ \A u \in Threads : thr'[u].want = thr[u].want
      BY <1>3, <1>5, <1>6 DEF InTheMap
    <2>6. ASSUME NEW u \in Threads PROVE Alone(u)'
      <3>1. ASSUME NEW v \in InTheMap', u \in InTheMap', KeyOf[thr'[u].want] = KeyOf[thr'[v].want] PROVE u = v
        <4>1. v \in InTheMap /\ u \in InTheMap /\ v \in Threads
          BY <2>5, <3>1 DEF InTheMap
        <4>2. KeyOf[thr[u].want] = KeyOf[thr[v].want]
          BY <2>5, <3>1, <4>1
        <4>3. QED
          BY <2>1, <4>1, <4>2 DEF Alone
      <3>2. Unpublished(u)' => thr'[u].seen = map'[KeyOf[thr'[u].want]]
        BY <1>3, <1>5, <1>6, <1>b, <2>1 DEF Alone, s
      <3>3. thr'[u].pc = "lookup" => Covers(thr[u].cs, thr[u].want)'
        <4>1. SUFFICES ASSUME thr'[u].pc = "lookup", NEW S \in SUBSET Entries,
                              thr'[u].cs \in S \cup {Null}, Closed(S)'
                       PROVE  Holds(S, thr[u].want)'
          BY DEF Covers, Closed, Holds
        <4>2. u # t /\ thr'[u] = thr[u] /\ Covers(thr[u].cs, thr[u].want)
          BY <1>5, <1>6, <2>1, <4>1 DEF Alone
        <4>3. Closed(S)
          BY <1>2, <1>6, <4>1 DEF Closed
        <4>4. Holds(S, thr[u].want)
          BY <4>1, <4>2, <4>3 DEF Covers
        <4>5. thr[u].want # Null
          BY <1>1, <4>1, <4>2 DEF ThreadOK
        <4>6. \A e \in alloc' : tag'[e] = thr'[u].want => e \in S
          BY <1>2, <1>6, <4>2, <4>4, <4>5 DEF Holds
        <4>7. QED
          BY <4>6 DEF Holds
      <3>4. thr'[u].pc = "insert" => \A e \in alloc' : tag'[e] = thr'[u].want => e = thr'[u].cs
        <4>1. CASE u = t
          BY <1>2, <1>4, <1>5, <1>6, <2>4, <4>1
        <4>2. CASE u # t
          <5>1. SUFFICES ASSUME thr[u].pc = "insert", NEW e \in alloc', tag'[e] = thr[u].want PROVE e = thr[u].cs
            BY <1>6, <4>2
          <5>2. thr[u].want # Null
            BY <1>1, <5>1 DEF ThreadOK
          <5>3. e \in alloc /\ tag[e] = thr[u].want
            BY <1>2, <1>6, <5>1, <5>2
          <5>4. QED
            BY <2>1, <5>1, <5>3 DEF Alone
        <4>3. QED
          BY <4>1, <4>2
      <3>5. QED
        BY <3>1, <3>2, <3>3, <3>4 DEF Alone
    <2>7. QED
      BY <2>2, <2>3, <2>6 DEF Single
  <1>13. QED
    BY <1>11, <1>12 DEF Shared

LEMMA StoreShared == ASSUME Base, Counted, Shared, NEW t \in Threads, Store(t) PROVE Shared'
  <1> DEFINE me == thr[t]
             d == me.cs
             b == KeyOf[me.want]
  <1>1. Types /\ PointersValid /\ Private /\ FilledIn /\ \A u \in Threads : ThreadOK(u)
    BY DEF Base, Counted, Shared
  <1>2. PICK x \in Stores, p \in {"insert", "count", "decr"} : StoreOf(t, x, p)
    BY StoreEffect
  <1>3. /\ me.pc = "insert" /\ d \in Entries /\ me.want \in Ids /\ b \in Buckets
        /\ UNCHANGED <<alloc, stats, owner, disturbed>>
        /\ \A u \in Threads : u # t => thr'[u] = thr[u]
        /\ thr'[t].pc = p /\ thr'[t].cs = d /\ thr'[t].seen = me.seen /\ thr'[t].want = me.want
    BY <1>2 DEF StoreOf, Others, LocalsAre
  <1>4. /\ x \notin stored[d] /\ stored'[d] = stored[d] \cup {x}
        /\ (p = "insert" <=> stored'[d] # Stores)
        /\ next'[d] = (IF x = "next" THEN me.seen ELSE next[d])
        /\ map'[b] = (IF x = "map" THEN d ELSE map[b])
        /\ \A e \in Entries \ {d} : stored'[e] = stored[e] /\ next'[e] = next[e]
        /\ \A k \in Buckets \ {b} : map'[k] = map[k]
    BY <1>2 DEF StoreOf
  <1>5. /\ tag[d] = Null /\ tag'[d] \in {Null, me.want}
        /\ \A e \in Entries \ {d} : tag'[e] = tag[e]
    BY <1>2, StoreTags
  <1>6. d \in alloc /\ alloc \subseteq Entries /\ Null \notin alloc
    BY <1>1, <1>3 DEF PointersValid, Types
  <1>7. /\ next[d] = (IF "next" \in stored[d] THEN me.seen ELSE Null)
        /\ next'[d] = (IF "next" \in stored'[d] THEN me.seen ELSE Null)
    <2>1. next[d] = (IF "next" \in stored[d] THEN me.seen ELSE Null)
      BY <1>1, <1>3 DEF Private
    <2>2. QED
      BY <1>4, <2>1
  <1>8. p # "insert" => next'[d] = me.seen
    BY <1>4, <1>7 DEF Stores
  <1>9. ASSUME NEW u \in Threads, u # t, thr[u].pc = "insert" PROVE thr[u].cs \in Entries \ {d} /\ thr[u].cs \in alloc
    <2>1. thr[u].cs \in Entries /\ thr[u].cs \in alloc
      BY <1>1, <1>9 DEF ThreadOK, PointersValid
    <2>2. thr[u].cs = d => Blank(u, d) /\ Blank(t, d)
      BY <1>3, <1>9 DEF Blank
    <2>3. QED
      BY <1>1, <1>3, <1>9, <2>1, <2>2 DEF FilledIn
  <1>10. \A u \in Threads : u # t => (Unpublished(u)' <=> Unpublished(u))
    BY <1>3, <1>4, <1>9 DEF Unpublished
  <1>11. (Unpublished(t)' <=> Unpublished(t) /\ x # "map") /\ (x = "map" => Unpublished(t))
    <2>1. "map" \notin stored[d] /\ x # "map" => p = "insert"
      BY <1>4 DEF Stores
    <2>2. QED
      BY <1>3, <1>4, <2>1 DEF Unpublished
  <1>12. \A u \in Threads : thr'[u].cs = thr[u].cs /\ thr'[u].seen = thr[u].seen /\ thr'[u].want = thr[u].want
    BY <1>3
  <1>13. ASSUME x = "map" PROVE PrivateTo(t) /\ \A u \in Threads : u # t => thr[u].cs # d
    BY <1>1, <1>11, <1>13 DEF Private, PrivateTo
  <1>14. \A e : Fresh(e)' <=> Fresh(e) /\ ~(x = "map" /\ e = d)
    <2>1. CASE x = "map"
      BY <1>10, <1>11, <1>12, <1>13, <2>1 DEF Fresh
    <2>2. CASE x # "map"
      BY <1>10, <1>11, <1>12, <2>2 DEF Fresh
    <2>3. QED
      BY <2>1, <2>2
  <1>15. Live' = Live
    BY <1>3 DEF Live
  <1>16. ASSUME NEW u \in Threads, Unpublished(u)' PROVE PrivateTo(u)'
    <2>1. PrivateTo(u) /\ (u = t => x # "map")
      BY <1>1, <1>10, <1>11, <1>16 DEF Private
    <2>2. \A e \in alloc : next'[e] # thr[u].cs
      <3>1. next[d] # thr[u].cs /\ me.seen # thr[u].cs
        BY <1>6, <2>1 DEF PrivateTo
      <3>2. QED
        BY <1>4, <1>6, <2>1, <3>1 DEF PrivateTo
    <2>3. \A k \in Buckets : map'[k] # thr[u].cs
      <3>1. x = "map" => d # thr[u].cs
        BY <1>13, <2>1
      <3>2. QED
        BY <1>3, <1>4, <2>1, <3>1 DEF PrivateTo
    <2>4. QED
      BY <1>3, <1>12, <1>15, <2>1, <2>2, <2>3 DEF PrivateTo
  <1>17. Private'
    <2>1. ASSUME NEW u \in Threads, thr'[u].pc = "insert"
          PROVE  next'[thr'[u].cs] = IF "next" \in stored'[thr'[u].cs] THEN thr'[u].seen ELSE Null
      <3>1. CASE u = t
        BY <1>3, <1>7, <3>1
      <3>2. CASE u # t
        <4>1. thr'[u] = thr[u] /\ thr[u].cs \in Entries \ {d}
          BY <1>3, <1>9, <2>1, <3>2
        <4>2. QED
          BY <1>1, <1>4, <2>1, <4>1 DEF Private
      <3>3. QED
        BY <3>1, <3>2
    <2>2. QED
      BY <1>16, <2>1 DEF Private
  <1>18. ASSUME ~disturbed' PROVE Single'
    <2>1. Linked /\ OneEach /\ (\A u \in Threads : Alone(u))
      BY <1>3, <1>18 DEF Single, Shared
    <2>2. \A e \in alloc : e # d => tag[e] # me.want
      BY <1>3, <2>1 DEF Alone
    <2>3. x = "map" => me.seen = map[b]
      BY <1>11, <2>1 DEF Alone
    <2>4. Linked'
      <3>1. ASSUME NEW y \in alloc, NEW e \in alloc, Points(y, e) PROVE Points(y, e)'
        <4>1. e # Null /\ y \in Entries
          BY <1>6
        <4>2. CASE y = d
          <5>1. CASE next[d] = e
            BY <1>4, <1>7, <4>1, <4>2, <5>1 DEF Points
          <5>2. ASSUME NEW u \in Threads, thr[u].pc = "insert", thr[u].cs = d, thr[u].seen = e PROVE Points(y, e)'
            <6>1. u = t
              BY <1>9, <5>2
            <6>2. CASE p = "insert"
              BY <1>3, <4>2, <5>2, <6>1, <6>2 DEF Points
            <6>3. CASE p # "insert"
              BY <1>8, <4>2, <5>2, <6>1, <6>3 DEF Points
            <6>4. QED
              BY <6>2, <6>3
          <5>3. QED
            BY <3>1, <4>2, <5>1, <5>2 DEF Points
        <4>3. CASE y # d
          <5>1. \A u \in Threads : thr[u].cs = y => thr'[u] = thr[u]
            BY <1>3, <4>3
          <5>2. next'[y] = next[y]
            BY <1>4, <4>1, <4>3
          <5>3. QED
            BY <3>1, <5>1, <5>2 DEF Points
        <4>4. QED
          BY <4>2, <4>3
      <3>2. ASSUME NEW e \in alloc, ~Fresh(e)'
            PROVE  (\E k \in Buckets : map'[k] = e) \/ \E y \in alloc : ~Fresh(y)' /\ Points(y, e)'
        <4>1. CASE x = "map" /\ e = d
          BY <1>3, <1>4, <4>1
        <4>2. CASE ~(x = "map" /\ e = d)
          <5>1. ~Fresh(e)
            BY <1>14, <3>2, <4>2
          <5>2. ASSUME NEW k \in Buckets, map[k] = e
                PROVE  (\E l \in Buckets : map'[l] = e) \/ \E y \in alloc : ~Fresh(y)' /\ Points(y, e)'
            <6>1. CASE x = "map" /\ k = b
              <7>1. PICK y \in alloc : y = d
                BY <1>6
              <7>2. ~Fresh(y)' /\ e = me.seen
                BY <1>14, <2>3, <5>2, <6>1, <7>1
              <7>3. Points(y, e)'
                <8>1. CASE p = "insert"
                  BY <1>3, <7>1, <7>2, <8>1 DEF Points
                <8>2. CASE p # "insert"
                  BY <1>8, <7>1, <7>2, <8>2 DEF Points
                <8>3. QED
                  BY <8>1, <8>2
              <7>4. QED
                BY <7>2, <7>3
            <6>2. CASE ~(x = "map" /\ k = b)
              BY <1>4, <5>2, <6>2
            <6>3. QED
              BY <6>1, <6>2
          <5>3. ASSUME NEW y \in alloc, ~Fresh(y), Points(y, e) PROVE ~Fresh(y)' /\ Points(y, e)'
            BY <1>14, <3>1, <5>3
          <5>4. QED
            BY <2>1, <5>1, <5>2, <5>3 DEF Linked
        <4>3. QED
          BY <4>1, <4>2
      <3>3. QED
        BY <1>3, <3>2 DEF Linked
    <2>5. OneEach'
      BY <1>3, <1>5, <1>6, <2>1, <2>2 DEF OneEach
    <2>6. t \in InTheMap /\ (\A u \in InTheMap' : u \in InTheMap)
      BY <1>3 DEF InTheMap
    <2>7. ASSUME NEW u \in InTheMap, u # t PROVE thr[u].want # me.want /\ KeyOf[thr[u].want] # b
      <3>1. u \in Threads
        BY DEF InTheMap
      <3>2. QED
        BY <2>1, <2>6, <2>7, <3>1 DEF Alone
    <2>8. ASSUME NEW u \in Threads PROVE Alone(u)'
      <3>1. ASSUME NEW v \in InTheMap', u \in InTheMap', KeyOf[thr'[u].want] = KeyOf[thr'[v].want] PROVE u = v
        <4>1. v \in InTheMap /\ u \in InTheMap /\ v \in Threads
          BY <2>6, <3>1 DEF InTheMap
        <4>2. KeyOf[thr[u].want] = KeyOf[thr[v].want]
          BY <1>12, <3>1, <4>1
        <4>3. QED
          BY <2>1, <4>1, <4>2 DEF Alone
      <3>2. Unpublished(u)' => thr'[u].seen = map'[KeyOf[thr'[u].want]]
        <4>1. SUFFICES ASSUME Unpublished(u)' PROVE thr[u].seen = map'[KeyOf[thr[u].want]]
          BY <1>12
        <4>2. CASE u = t
          BY <1>4, <1>11, <2>1, <4>1, <4>2 DEF Alone
        <4>3. CASE u # t
          <5>1. Unpublished(u) /\ u \in InTheMap
            BY <1>10, <4>1, <4>3 DEF InTheMap, Unpublished
          <5>2. KeyOf[thr[u].want] # b /\ KeyOf[thr[u].want] \in Buckets
            BY <1>1, <2>7, <4>3, <5>1 DEF ThreadOK, Unpublished, Buckets
          <5>3. QED
            BY <1>4, <2>1, <5>1, <5>2 DEF Alone
        <4>4. QED
          BY <4>2, <4>3
      <3>3. thr'[u].pc = "lookup" => Covers(thr[u].cs, thr[u].want)'
        <4>1. SUFFICES ASSUME thr'[u].pc = "lookup", NEW S \in SUBSET Entries,
                              thr'[u].cs \in S \cup {Null}, Closed(S)'
                       PROVE  Holds(S, thr[u].want)'
          BY DEF Covers, Closed, Holds
        <4>2. u # t /\ thr'[u] = thr[u] /\ Covers(thr[u].cs, thr[u].want)
          BY <1>3, <2>1, <4>1 DEF Alone
        <4>3. Closed(S)
          <5>1. next[d] \in {Null, next'[d]}
            BY <1>4, <1>7
          <5>2. QED
            BY <1>3, <1>4, <1>6, <4>1, <5>1 DEF Closed
        <4>4. Holds(S, thr[u].want)
          BY <4>1, <4>2, <4>3 DEF Covers
        <4>5. thr[u].want # me.want /\ thr[u].want # Null
          BY <1>1, <2>7, <4>1, <4>2 DEF InTheMap, ThreadOK
        <4>6. \A e \in alloc' : tag'[e] = thr'[u].want => e \in S
          BY <1>3, <1>5, <1>6, <4>2, <4>4, <4>5 DEF Holds
        <4>7. QED
          BY <4>6 DEF Holds
      <3>4. thr'[u].pc = "insert" => \A e \in alloc' : tag'[e] = thr'[u].want => e = thr'[u].cs
        <4>1. CASE u = t
          BY <1>3, <1>5, <1>6, <2>2, <4>1
        <4>2. CASE u # t
          <5>1. SUFFICES ASSUME thr[u].pc = "insert", NEW e \in alloc, tag'[e] = thr[u].want PROVE e = thr[u].cs
            BY <1>3, <4>2
          <5>2. thr[u].want # me.want /\ thr[u].want # Null
            BY <1>1, <2>7, <4>2, <5>1 DEF InTheMap, ThreadOK
          <5>3. tag[e] = thr[u].want
            BY <1>5, <1>6, <5>1, <5>2
          <5>4. QED
            BY <2>1, <5>1, <5>3 DEF Alone
        <4>3. QED
          BY <4>1, <4>2
      <3>5. QED
        BY <3>1, <3>2, <3>3, <3>4 DEF Alone
    <2>9. QED
      BY <2>4, <2>5, <2>8 DEF Single
  <1>19. QED
    BY <1>17, <1>18 DEF Shared

LEMMA SharedStep == ASSUME ~Removal, Base, Counted, Chained, Shared, [Next]_vars PROVE Shared'
  <1>1. Types /\ NoRemoval /\ \A t \in Threads : ThreadOK(t)
    BY DEF Base, Counted
  <1>2. CASE TestUser
    <2>1. /\ Main \in Threads /\ Head(testing) \in Ids /\ Enter(Main, "test", Head(testing), Null)
          /\ UNCHANGED <<map, alloc, fields, tag, stats, owner>>
      BY <1>1, <1>2, HeadTailProperties DEF TestUser, Threads, Types, fields, tag
    <2>2. QED
      BY <2>1, EnterShared
  <1>3. ASSUME NEW t \in Threads, ConnNew(t) PROVE Shared'
    <2>1. PICK c \in Conns, i \in Ids : Enter(t, "open", i, c)
      BY <1>3 DEF ConnNew
    <2>2. UNCHANGED <<map, alloc, fields, tag, stats, owner>>
      BY <1>3 DEF ConnNew, fields, tag
    <2>3. QED
      BY <2>1, <2>2, EnterShared
  <1>4. ASSUME NEW t \in Threads,
               Free(t) \/ RmClientStats(t) \/ NothingToRemove(t) \/ Unlink(t)
        PROVE  FALSE
    BY <1>1, <1>4 DEF Free, RmClientStats, NothingToRemove, Unlink, At, NoRemoval, ThreadOK
  <1>5. CASE UNCHANGED vars
    <2>1. UNCHANGED <<map, alloc, cid, stored, tag, next, stats, owner, thr, disturbed>>
      BY <1>5 DEF vars, fields, tag, history
    <2>2. Private'
      BY <2>1 DEF Shared, Private, PrivateTo, Live, Unpublished
    <2>3. ASSUME ~disturbed' PROVE Single'
      <3>1. Linked /\ OneEach /\ \A t \in Threads : Alone(t)
        BY <2>1, <2>3 DEF Shared, Single
      <3>2. Linked' /\ OneEach'
        BY <2>1, <3>1 DEF Linked, OneEach, Fresh, Points, Unpublished
      <3>3. \A t \in Threads : Alone(t)'
        BY <2>1, <3>1 DEF Alone, Covers, Closed, Holds, InTheMap, Unpublished
      <3>4. QED
        BY <3>2, <3>3 DEF Single
    <2>4. QED
      BY <2>2, <2>3 DEF Shared
  <1>6. QED
    BY <1>2, <1>3, <1>4, <1>5, WalkShared, PassShared, EventAddShared, ConnCloseShared, DecrShared,
       NotFoundShared, StoreShared DEF Next, GetClientStats

\* A lookup that has its bucket to itself matches no unfinished entry.
LEMMA NotOvertaken ==
    ASSUME ~Removal, Base, Counted, Chained, Single, ~overtaken, [Next]_vars
    PROVE  ~overtaken'
  <1>1. ASSUME NEW t \in Threads, Found(t) PROVE ~overtaken'
    <2> DEFINE e == thr[t].cs
    <2>1. thr[t].pc = "lookup" /\ e # Null /\ overtaken' = (overtaken \/ stored[e] # Stores)
      BY <1>1 DEF Found, At
    <2>2. e \in alloc /\ e \in Entries /\ FilledIn
      BY <2>1 DEF Counted, PointersValid, Base, Types
    <2>3. ASSUME stored[e] # Stores PROVE FALSE
      <3>1. PICK u \in Threads : thr[u].pc = "insert" /\ thr[u].cs = e
        BY <2>2, <2>3 DEF FilledIn, Blank, tag
      <3>2. PICK age \in [Entries -> Nat], buck \in [Entries -> Nat] : Graded(age, buck)
        BY DEF Chained
      <3>3. KeyOf[thr[t].want] = KeyOf[thr[u].want]
        BY <2>1, <3>1, <3>2 DEF Graded
      <3>4. t \in InTheMap /\ u \in InTheMap
        BY <2>1, <3>1 DEF InTheMap
      <3>5. QED
        BY <2>1, <3>1, <3>3, <3>4 DEF Single, Alone
    <2>4. QED
      BY <2>1, <2>3
  <1>2. ASSUME NEW t \in Threads, Walk(t) \/ NotFound(t) \/ Store(t) \/ Incr(t) \/ ConnNew(t) \/ RmClientStats(t)
        PROVE  ~overtaken'
    BY <1>2 DEF Walk, NotFound, Store, Incr, ConnNew, RmClientStats, Enter, history
  <1>3. ASSUME NEW t \in Threads,
               Count(t) \/ EventAdd(t) \/ ConnClose(t) \/ Decr(t) \/ Free(t) \/ NothingToRemove(t) \/ Unlink(t)
        PROVE  ~overtaken'
    BY <1>3 DEF Count, EventAdd, ConnClose, Decr, Free, NothingToRemove, Unlink, history
  <1>4. CASE TestUser \/ UNCHANGED vars
    BY <1>4 DEF TestUser, Enter, vars, history
  <1>5. QED
    BY <1>1, <1>2, <1>3, <1>4 DEF Next, GetClientStats

LEMMA DisturbedStays == ASSUME Base, [Next]_vars PROVE disturbed => disturbed'
  BY DEF Base, Types, Next, TestUser, ConnNew, RmClientStats, Enter, GetClientStats, Walk, Found, NotFound,
     Store, Incr, Count, EventAdd, ConnClose, Decr, Free, NothingToRemove, Unlink, history, vars

\* The two histories, and what holds while they are false.
Quiet == /\ ~overtaken => Chained /\ Shared
         /\ ~disturbed => ~overtaken

\* SharedByClient (stats.c, get_client_stats and its publication without a lock),
\* for any number of workers and clients and with the stores of an insertion in
\* any order: as long as no two threads were in one bucket at once, the map
\* holds at most one entry per client and the entry of every live connection, so
\* that the connections of one client share their statistics.  Without
\* rm_client_stats, which has no caller.
THEOREM ClientsShare == ASSUME ~Removal PROVE Spec => []SharedByClient
  <1>1. Init => Shared /\ Chained /\ ~overtaken
    <2>1. SUFFICES ASSUME Init PROVE Shared /\ Chained
      BY DEF Init
    <2>2. (\A t \in Threads : thr[t].pc = "idle") /\ alloc = {} /\ \A b \in Buckets : map[b] = Null
      BY <2>1 DEF Init, Idle
    <2>3. Shared
      BY <2>2 DEF Shared, Private, Single, Linked, OneEach, Alone, InTheMap, Unpublished
    <2>4. PICK z \in [Entries -> Nat] : z = [e \in Entries |-> 0]
      OBVIOUS
    <2>5. Graded(z, z)
      BY <2>2 DEF Graded
    <2>6. QED
      BY <2>3, <2>5 DEF Chained
  <1>2. ~Removal /\ IInv /\ Quiet /\ [Next]_vars => Quiet'
    <2>1. SUFFICES ASSUME ~Removal, IInv, Quiet, [Next]_vars PROVE Quiet'
      OBVIOUS
    <2>2. Base /\ (overtaken => overtaken') /\ (disturbed => disturbed')
      BY <2>1, OvertakenStays, DisturbedStays DEF IInv
    <2>3. ~overtaken => Counted /\ Chained /\ Shared
      BY <2>1 DEF IInv, Quiet
    <2>4. ASSUME ~overtaken PROVE Chained' /\ Shared'
      BY <2>1, <2>2, <2>3, <2>4, ChainedStep, SharedStep
    <2>5. ASSUME ~disturbed PROVE ~overtaken'
      <3>1. ~overtaken /\ Single
        BY <2>1, <2>3, <2>5 DEF Quiet, Shared
      <3>2. QED
        BY <2>1, <2>2, <2>3, <3>1, NotOvertaken
    <2>6. QED
      BY <2>2, <2>4, <2>5 DEF Quiet
  <1>3. ~Removal /\ IInv /\ Quiet => SharedByClient
    <2>1. SUFFICES ASSUME ~Removal, IInv, Quiet, ~disturbed PROVE SharedByClient
      BY DEF SharedByClient
    <2>2. Base /\ Counted /\ Chained /\ Shared
      BY <2>1 DEF IInv, Quiet
    <2>3. QED
      BY <2>2, SharedSound
  <1>4. Init => Quiet
    BY <1>1 DEF Quiet
  <1>5. QED
    BY <1>2, <1>3, <1>4, Invariance, PTL DEF Spec
=============================================================================
