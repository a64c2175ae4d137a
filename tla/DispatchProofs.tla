---------------------------- MODULE DispatchProofs ----------------------------
(***************************************************************************)
(* Invariants of Dispatch, proved for any number of clients, descriptors,  *)
(* structures and workers, any pipe and free list size, with and without   *)
(* failures.                                                               *)
(*                                                                         *)
(* The argument: each step moves at most one descriptor and one structure  *)
(* from one place to another.  The places are named first, then the        *)
(* invariant says that they are disjoint, that none holds anything twice,  *)
(* and that together they hold what is open or allocated.                  *)
(***************************************************************************)
EXTENDS Dispatch, SequenceTheorems, TLAPS

USE DispatchAssumption

(* What the helper operators return. *)

\* The next worker in turn is a worker.
LEMMA NextThreadType ==
    ASSUME last_thread \in Threads
    PROVE  NextThread \in Threads
  BY DEF NextThread, Threads

\* The elements of a sequence after an Append: the old ones and the new one,
\* which is in no other position.
LEMMA AppendElements ==
    ASSUME NEW S, NEW s \in Seq(S), NEW e \in S
    PROVE  /\ Append(s, e) \in Seq(S)
           /\ Len(Append(s, e)) = Len(s) + 1
           /\ \A k \in 1..Len(Append(s, e)) :
                 Append(s, e)[k] = IF k <= Len(s) THEN s[k] ELSE e
           /\ \A x : (\E k \in 1..Len(Append(s, e)) : Append(s, e)[k] = x)
                     <=> (\E k \in 1..Len(s) : s[k] = x) \/ x = e
  <1>1. Len(s) \in Nat
    BY LenProperties
  <1>2. /\ Append(s, e) \in Seq(S)
        /\ Len(Append(s, e)) = Len(s) + 1
        /\ \A k \in 1..Len(s) : Append(s, e)[k] = s[k]
        /\ Append(s, e)[Len(s) + 1] = e
    BY AppendProperties
  <1>3. \A k \in 1..Len(Append(s, e)) : k \in 1..Len(s) \/ k = Len(s) + 1
    BY <1>1, <1>2
  <1>4. QED
    BY <1>1, <1>2, <1>3

\* Taking the head off a sequence without duplicates removes that element.
LEMMA TailElements ==
    ASSUME NEW S, NEW s \in Seq(S), s # <<>>,
           \A k, l \in 1..Len(s) : s[k] = s[l] => k = l
    PROVE  /\ Head(s) \in S /\ Head(s) = s[1] /\ 1 \in 1..Len(s)
           /\ Tail(s) \in Seq(S)
           /\ Len(Tail(s)) = Len(s) - 1
           /\ \A k \in 1..Len(Tail(s)) : k + 1 \in 1..Len(s) /\ Tail(s)[k] = s[k + 1]
           /\ \A x : (\E k \in 1..Len(Tail(s)) : Tail(s)[k] = x)
                     <=> (\E k \in 1..Len(s) : s[k] = x) /\ x # Head(s)
  <1>1. Len(s) \in Nat \ {0}
    BY EmptySeq
  <1>2. /\ Head(s) \in S
        /\ Tail(s) \in Seq(S)
        /\ Len(Tail(s)) = Len(s) - 1
        /\ \A k \in 1..Len(Tail(s)) : Tail(s)[k] = s[k + 1]
    BY HeadTailProperties
  <1>3. Head(s) = s[1]
    OBVIOUS
  <1>4. \A k \in 1..Len(Tail(s)) : k + 1 \in 1..Len(s)
    BY <1>1, <1>2
  <1>5. ASSUME NEW x
        PROVE  (\E k \in 1..Len(Tail(s)) : Tail(s)[k] = x)
               <=> (\E k \in 1..Len(s) : s[k] = x) /\ x # Head(s)
    <2>1. ASSUME NEW k \in 1..Len(Tail(s)), Tail(s)[k] = x
          PROVE  (\E l \in 1..Len(s) : s[l] = x) /\ x # Head(s)
      <3>1. k + 1 \in 1..Len(s) /\ s[k + 1] = x /\ k + 1 # 1
        BY <1>1, <1>2, <1>4, <2>1
      <3>2. QED
        BY <1>1, <1>3, <3>1
    <2>2. ASSUME NEW k \in 1..Len(s), s[k] = x, x # Head(s)
          PROVE  \E l \in 1..Len(Tail(s)) : Tail(s)[l] = x
      <3>1. k - 1 \in 1..Len(Tail(s))
        BY <1>1, <1>2, <1>3, <2>2
      <3>2. Tail(s)[k - 1] = s[k]
        BY <1>1, <1>2, <3>1
      <3>3. QED
        BY <2>2, <3>1, <3>2
    <2>3. QED
      BY <2>1, <2>2
  <1>6. QED
    BY <1>1, <1>2, <1>3, <1>4, <1>5

\* Taking the last element off a sequence without duplicates removes that one.
LEMMA FrontElements ==
    ASSUME NEW S, NEW s \in Seq(S), s # <<>>,
           \A k, l \in 1..Len(s) : s[k] = s[l] => k = l
    PROVE  LET front == SubSeq(s, 1, Len(s) - 1)
           IN  /\ Len(s) \in 1..Len(s) /\ s[Len(s)] \in S
               /\ front \in Seq(S)
               /\ Len(front) = Len(s) - 1
               /\ \A k \in 1..Len(front) : k \in 1..Len(s) /\ front[k] = s[k]
               /\ \A x : (\E k \in 1..Len(front) : front[k] = x)
                         <=> (\E k \in 1..Len(s) : s[k] = x) /\ x # s[Len(s)]
  <1> DEFINE n == Len(s) - 1
             front == SubSeq(s, 1, n)
  <1>1. Len(s) \in Nat \ {0} /\ n \in Nat /\ n \in Int /\ 1 \in Int /\ Len(s) \in 1..Len(s)
    BY EmptySeq
  <1>2. \A k \in 1..Len(s) : s[k] \in S
    BY ElementOfSeq
  <1>3. /\ front \in Seq(S)
        /\ Len(front) = IF 1 <= n THEN n - 1 + 1 ELSE 0
        /\ \A k \in 1..n - 1 + 1 : front[k] = s[1 + k - 1]
    <2>1. \A k \in 1..n : s[k] \in S
      BY <1>1, <1>2
    <2> HIDE DEF n
    <2>2. QED
      BY <1>1, <2>1, SubSeqProperties
  <1>4. Len(front) = n /\ \A k \in 1..n : k \in 1..Len(s) /\ front[k] = s[k]
    <2>1. n - 1 + 1 = n /\ \A k \in 1..n : 1 + k - 1 = k /\ k \in 1..Len(s)
      BY <1>1
    <2> HIDE DEF front, n
    <2>2. QED
      BY <1>1, <1>3, <2>1
  <1>5. ASSUME NEW x
        PROVE  (\E k \in 1..Len(front) : front[k] = x)
               <=> (\E k \in 1..Len(s) : s[k] = x) /\ x # s[Len(s)]
    <2>1. ASSUME NEW k \in 1..n, front[k] = x
          PROVE  (\E l \in 1..Len(s) : s[l] = x) /\ x # s[Len(s)]
      <3>1. k \in 1..Len(s) /\ s[k] = x /\ k # Len(s)
        BY <1>1, <1>4, <2>1
      <3>2. QED
        BY <1>1, <3>1
    <2>2. ASSUME NEW k \in 1..Len(s), s[k] = x, x # s[Len(s)]
          PROVE  k \in 1..n /\ front[k] = x
      <3>1. k # Len(s)
        BY <2>2
      <3>2. k \in 1..n
        BY <1>1, <3>1
      <3>3. QED
        BY <1>4, <2>2, <3>2
    <2>3. QED
      BY <1>4, <2>1, <2>2
  <1>6. QED
    BY <1>1, <1>2, <1>3, <1>4, <1>5
-----------------------------------------------------------------------------
(* The inductive invariant *)

\* Where a conn structure can be.
OnFreelist(c) == \E k \in 1..Len(freeconns) : freeconns[k] = c
InHand(c)     == \E t \in Threads : wconn[t] = c
IsLive(c)     == base[c] # None

\* Where a client's socket can be.
InDispatch(f) == dfd = f /\ ~pushed
IsQueued(f)   == \E t \in Threads : \E k \in 1..Len(queue[t]) : queue[t][k] = f
IsHeld(f)     == \E t \in Threads : wfd[t] = f
IsWatched(f)  == \E c \in Conns : base[c] # None /\ sfd[c] = f

\* What a worker has in hand follows from where it is in its handler.
HandPCs == {"event_add", "give_back_close", "conn_close", "give_back"}
SocketPCs == {"conn_new", "event_add", "give_back_close", "close", "conn_close"}

WorkerHolds ==
    /\ pushed => dfd # None
    /\ \A t \in Threads : /\ wconn[t] # None <=> pc[t] \in HandPCs
                          /\ wfd[t] # None <=> pc[t] \in SocketPCs

\* A structure is allocated if and only if it is in one of its places ...
ConnPlaces ==
    \A c \in Conns :
        /\ c \in heap <=> OnFreelist(c) \/ InHand(c) \/ IsLive(c)
        /\ ~(OnFreelist(c) /\ InHand(c))
        /\ ~(OnFreelist(c) /\ IsLive(c))
        /\ ~(InHand(c) /\ IsLive(c))

\* ... and only once there.
ConnOnce ==
    /\ \A k, l \in 1..Len(freeconns) : freeconns[k] = freeconns[l] => k = l
    /\ \A t, u \in Threads : wconn[t] = wconn[u] /\ wconn[t] # None => t = u

\* A socket is open if and only if it is in one of its places ...
FdPlaces ==
    \A f \in Fds :
        /\ peer[f] # None <=> InDispatch(f) \/ IsQueued(f) \/ IsHeld(f) \/ IsWatched(f)
        /\ ~(InDispatch(f) /\ IsQueued(f))
        /\ ~(InDispatch(f) /\ IsHeld(f))
        /\ ~(InDispatch(f) /\ IsWatched(f))
        /\ ~(IsQueued(f) /\ IsHeld(f))
        /\ ~(IsQueued(f) /\ IsWatched(f))
        /\ ~(IsHeld(f) /\ IsWatched(f))

\* ... and only once there; a live connection has a socket.
FdOnce ==
    /\ \A t, u \in Threads : \A k \in 1..Len(queue[t]), l \in 1..Len(queue[u]) :
          queue[t][k] = queue[u][l] => t = u /\ k = l
    /\ \A t, u \in Threads : wfd[t] = wfd[u] /\ wfd[t] # None => t = u
    /\ \A c, d \in Conns : base[c] # None /\ base[d] # None /\ sfd[c] = sfd[d] => c = d
    /\ \A c \in Conns : base[c] # None => sfd[c] # None

IInv ==
    /\ TypeOK
    /\ WorkerHolds
    /\ ConnPlaces
    /\ ConnOnce
    /\ FdPlaces
    /\ FdOnce
    /\ NoneStranded
-----------------------------------------------------------------------------
(* Structures *)

\* A step that leaves the structures alone leaves them in their places.
LEMMA ConnUnchanged ==
    ASSUME ConnPlaces, ConnOnce, UNCHANGED <<wconn, heap, base, freeconns>>
    PROVE  ConnPlaces' /\ ConnOnce'
  BY DEF ConnPlaces, ConnOnce, OnFreelist, InHand, IsLive

\* A worker with empty hands takes a structure that no other worker has.
LEMMA TakeInHand ==
    ASSUME TypeOK, ConnOnce, NEW t \in Threads, NEW c \in Conns,
           wconn[t] = None, ~InHand(c), wconn' = [wconn EXCEPT ![t] = c]
    PROVE  /\ \A k \in Conns : InHand(k)' <=> InHand(k) \/ k = c
           /\ \A u, v \in Threads : wconn'[u] = wconn'[v] /\ wconn'[u] # None => u = v
  <1>1. None \notin Conns
    OBVIOUS
  <1>2. \A u \in Threads : wconn'[u] = IF u = t THEN c ELSE wconn[u]
    BY DEF TypeOK
  <1>3. \A u \in Threads : wconn[u] # c
    BY DEF InHand
  <1>4. QED
    BY <1>1, <1>2, <1>3 DEF InHand, ConnOnce

\* A worker lets go of the structure in its hands.
LEMMA LetGo ==
    ASSUME TypeOK, ConnOnce, NEW t \in Threads,
           wconn[t] # None, wconn' = [wconn EXCEPT ![t] = None]
    PROVE  /\ \A k \in Conns : InHand(k)' <=> InHand(k) /\ k # wconn[t]
           /\ \A u, v \in Threads : wconn'[u] = wconn'[v] /\ wconn'[u] # None => u = v
  <1>1. None \notin Conns
    OBVIOUS
  <1>2. \A u \in Threads : wconn'[u] = IF u = t THEN None ELSE wconn[u]
    BY DEF TypeOK
  <1>3. \A u \in Threads : wconn[u] = wconn[t] => u = t
    BY DEF ConnOnce
  <1>4. QED
    BY <1>1, <1>2, <1>3 DEF InHand, ConnOnce

\* Every step keeps each allocated structure in one place.
LEMMA ConnStep == IInv /\ [Next]_vars => ConnPlaces' /\ ConnOnce'
  <1> SUFFICES ASSUME IInv, [Next]_vars PROVE ConnPlaces' /\ ConnOnce'
    OBVIOUS
  <1> USE DEF IInv
  <1>0. None \notin Conns /\ None \notin Threads
    BY DEF Threads
  <1>1. CASE Connect \/ Accept \/ Push \/ Notify \/ UNCHANGED vars
    <2>1. UNCHANGED <<wconn, heap, base, freeconns>>
      BY <1>1 DEF Connect, Accept, Push, Notify, vars, worker, structs, freelist
    <2>2. QED
      BY <2>1, ConnUnchanged
  <1>2. ASSUME NEW t \in Threads, ReadNotify(t) \/ Pop(t) \/ CloseFd(t)
        PROVE  ConnPlaces' /\ ConnOnce'
    <2>1. UNCHANGED <<wconn, heap, base, freeconns>>
      BY <1>2 DEF ReadNotify, Pop, CloseFd, structs, freelist
    <2>2. QED
      BY <2>1, ConnUnchanged
  <1>3. ASSUME NEW t \in Threads, ConnNew(t)
        PROVE  ConnPlaces' /\ ConnOnce'
    <2>1. wconn[t] = None /\ base' = base
      BY <1>3 DEF ConnNew, WorkerHolds, HandPCs
    <2>2. CASE /\ freeconns # <<>>
               /\ wconn' = [wconn EXCEPT ![t] = freeconns[Len(freeconns)]]
               /\ freeconns' = SubSeq(freeconns, 1, Len(freeconns) - 1)
               /\ UNCHANGED heap
      <3> DEFINE c == freeconns[Len(freeconns)]
      <3>1. /\ c \in Conns /\ OnFreelist(c)
            /\ \A k \in Conns : OnFreelist(k)' <=> OnFreelist(k) /\ k # c
            /\ \A k, l \in 1..Len(freeconns') : freeconns'[k] = freeconns'[l] => k = l
        <4>1. freeconns \in Seq(Conns) /\ \A k, l \in 1..Len(freeconns) :
                                            freeconns[k] = freeconns[l] => k = l
          BY DEF TypeOK, ConnOnce
        <4>2. /\ Len(freeconns) \in 1..Len(freeconns) /\ c \in Conns
              /\ \A k \in 1..Len(freeconns') :
                    k \in 1..Len(freeconns) /\ freeconns'[k] = freeconns[k]
              /\ \A x : (\E k \in 1..Len(freeconns') : freeconns'[k] = x)
                        <=> (\E k \in 1..Len(freeconns) : freeconns[k] = x) /\ x # c
          BY <2>2, <4>1, FrontElements
        <4>3. QED
          BY <4>1, <4>2 DEF OnFreelist
      <3> HIDE DEF c
      <3>2. ~InHand(c) /\ wconn' = [wconn EXCEPT ![t] = c]
        BY <2>2, <3>1 DEF ConnPlaces, c
      <3>3. /\ \A k \in Conns : InHand(k)' <=> InHand(k) \/ k = c
            /\ \A u, v \in Threads : wconn'[u] = wconn'[v] /\ wconn'[u] # None => u = v
        BY <2>1, <3>1, <3>2, TakeInHand
      <3>4. \A k \in Conns : IsLive(k)' <=> IsLive(k)
        BY <2>1 DEF IsLive
      <3>5. QED
        BY <2>2, <3>1, <3>2, <3>3, <3>4 DEF ConnPlaces, ConnOnce
    <2>3. CASE /\ freeconns = <<>>
               /\ \E c \in Conns \ heap : /\ heap' = heap \cup {c}
                                         /\ wconn' = [wconn EXCEPT ![t] = c]
               /\ UNCHANGED freeconns
      <3>1. PICK c \in Conns \ heap : heap' = heap \cup {c} /\ wconn' = [wconn EXCEPT ![t] = c]
        BY <2>3
      <3>2. ~InHand(c) /\ ~OnFreelist(c) /\ ~IsLive(c)
        BY DEF ConnPlaces
      <3>3. /\ \A k \in Conns : InHand(k)' <=> InHand(k) \/ k = c
            /\ \A u, v \in Threads : wconn'[u] = wconn'[v] /\ wconn'[u] # None => u = v
        BY <2>1, <3>1, <3>2, TakeInHand
      <3>4. \A k \in Conns : (IsLive(k)' <=> IsLive(k)) /\ (OnFreelist(k)' <=> OnFreelist(k))
        BY <2>1, <2>3 DEF IsLive, OnFreelist
      <3>5. \A k, l \in 1..Len(freeconns') : freeconns'[k] = freeconns'[l] => k = l
        BY <2>3 DEF ConnOnce
      <3>6. QED
        BY <3>1, <3>2, <3>3, <3>4, <3>5 DEF ConnPlaces, ConnOnce
    <2>4. CASE UNCHANGED <<heap, wconn, freeconns>>
      BY <2>1, <2>4, ConnUnchanged
    <2>5. QED
      BY <1>3, <2>2, <2>3, <2>4 DEF ConnNew
  <1>4. ASSUME NEW t \in Threads, EventAdd(t)
        PROVE  ConnPlaces' /\ ConnOnce'
    <2>1. wconn[t] # None /\ wconn[t] \in Conns /\ UNCHANGED <<heap, freeconns>>
      BY <1>4 DEF EventAdd, WorkerHolds, HandPCs, TypeOK, freelist
    <2>2. CASE base' = [base EXCEPT ![wconn[t]] = t] /\ wconn' = [wconn EXCEPT ![t] = None]
      <3>1. /\ \A k \in Conns : InHand(k)' <=> InHand(k) /\ k # wconn[t]
            /\ \A u, v \in Threads : wconn'[u] = wconn'[v] /\ wconn'[u] # None => u = v
        BY <2>1, <2>2, LetGo
      <3>2. InHand(wconn[t])
        BY DEF InHand
      <3>3. \A k \in Conns : /\ OnFreelist(k)' <=> OnFreelist(k)
                             /\ IsLive(k)' <=> IsLive(k) \/ k = wconn[t]
        BY <1>0, <2>1, <2>2 DEF IsLive, OnFreelist, TypeOK
      <3>4. \A k, l \in 1..Len(freeconns') : freeconns'[k] = freeconns'[l] => k = l
        BY <2>1 DEF ConnOnce
      <3>5. QED
        BY <2>1, <3>1, <3>2, <3>3, <3>4 DEF ConnPlaces, ConnOnce
    <2>3. CASE UNCHANGED <<base, wconn>>
      BY <2>1, <2>3, ConnUnchanged
    <2>4. QED
      BY <1>4, <2>2, <2>3 DEF EventAdd
  <1>5. ASSUME NEW t \in Threads, AddToFreelist(t)
        PROVE  ConnPlaces' /\ ConnOnce'
    <2> DEFINE c == wconn[t]
    <2>1. c # None /\ c \in Conns /\ UNCHANGED base /\ wconn' = [wconn EXCEPT ![t] = None]
      BY <1>5 DEF AddToFreelist, WorkerHolds, HandPCs, TypeOK
    <2>2. /\ \A k \in Conns : InHand(k)' <=> InHand(k) /\ k # c
          /\ \A u, v \in Threads : wconn'[u] = wconn'[v] /\ wconn'[u] # None => u = v
      BY <2>1, LetGo
    <2>3. InHand(c) /\ ~OnFreelist(c) /\ \A k \in Conns : IsLive(k)' <=> IsLive(k)
      BY <2>1 DEF InHand, IsLive, ConnPlaces
    <2> HIDE DEF c
    <2>4. CASE freeconns' = Append(freeconns, c) /\ UNCHANGED heap
      <3>1. freeconns \in Seq(Conns) /\ Len(freeconns) \in Nat
        BY LenProperties DEF TypeOK
      <3>2. /\ Len(freeconns') = Len(freeconns) + 1
            /\ \A k \in 1..Len(freeconns') :
                  freeconns'[k] = IF k <= Len(freeconns) THEN freeconns[k] ELSE c
            /\ \A x : (\E k \in 1..Len(freeconns') : freeconns'[k] = x)
                      <=> (\E k \in 1..Len(freeconns) : freeconns[k] = x) \/ x = c
        BY <2>1, <2>4, <3>1, AppendElements
      <3>3. \A k \in Conns : OnFreelist(k)' <=> OnFreelist(k) \/ k = c
        BY <3>2 DEF OnFreelist
      <3>4. \A k, l \in 1..Len(freeconns') : freeconns'[k] = freeconns'[l] => k = l
        BY <2>3, <3>1, <3>2 DEF ConnOnce, OnFreelist
      <3>5. QED
        BY <2>1, <2>2, <2>3, <2>4, <3>3, <3>4 DEF ConnPlaces, ConnOnce
    <2>5. CASE heap' = heap \ {c} /\ UNCHANGED freeconns
      <3>1. \A k \in Conns : OnFreelist(k)' <=> OnFreelist(k)
        BY <2>5 DEF OnFreelist
      <3>2. \A k, l \in 1..Len(freeconns') : freeconns'[k] = freeconns'[l] => k = l
        BY <2>5 DEF ConnOnce
      <3>3. QED
        BY <2>1, <2>2, <2>3, <2>5, <3>1, <3>2 DEF ConnPlaces, ConnOnce
    <2>6. QED
      BY <1>5, <2>4, <2>5 DEF AddToFreelist, GiveBack, freelist, c
  <1>6. ASSUME NEW t \in Threads, ConnClose(t)
        PROVE  ConnPlaces' /\ ConnOnce'
    <2>1. PICK c \in Conns : /\ base[c] = t
                            /\ base' = [base EXCEPT ![c] = None]
                            /\ wconn' = [wconn EXCEPT ![t] = c]
      BY <1>6 DEF ConnClose, EventDel
    <2>2. wconn[t] = None /\ UNCHANGED <<heap, freeconns>>
      BY <1>6 DEF ConnClose, WorkerHolds, HandPCs, freelist
    <2>3. IsLive(c) /\ ~InHand(c) /\ ~OnFreelist(c)
      BY <1>0, <2>1 DEF IsLive, ConnPlaces
    <2>4. /\ \A k \in Conns : InHand(k)' <=> InHand(k) \/ k = c
          /\ \A u, v \in Threads : wconn'[u] = wconn'[v] /\ wconn'[u] # None => u = v
      BY <2>1, <2>2, <2>3, TakeInHand
    <2>5. \A k \in Conns : /\ OnFreelist(k)' <=> OnFreelist(k)
                           /\ IsLive(k)' <=> IsLive(k) /\ k # c
      BY <2>1, <2>2 DEF IsLive, OnFreelist, TypeOK
    <2>6. \A k, l \in 1..Len(freeconns') : freeconns'[k] = freeconns'[l] => k = l
      BY <2>2 DEF ConnOnce
    <2>7. QED
      BY <2>1, <2>2, <2>3, <2>4, <2>5, <2>6 DEF ConnPlaces, ConnOnce
  <1>7. QED
    BY <1>1, <1>2, <1>3, <1>4, <1>5, <1>6 DEF Next, Adopt, Release
-----------------------------------------------------------------------------
(* Sockets *)

\* A step that leaves the sockets alone leaves them in their places.
LEMMA FdUnchanged ==
    ASSUME FdPlaces, FdOnce, UNCHANGED <<peer, dfd, pushed, queue, wfd, sfd, base>>
    PROVE  FdPlaces' /\ FdOnce'
  BY DEF FdPlaces, FdOnce, InDispatch, IsQueued, IsHeld, IsWatched

\* A worker that holds no socket takes one that no other worker holds.
LEMMA TakeFd ==
    ASSUME TypeOK, FdOnce, NEW t \in Threads, NEW f \in Fds,
           wfd[t] = None, ~IsHeld(f), wfd' = [wfd EXCEPT ![t] = f]
    PROVE  /\ \A g \in Fds : IsHeld(g)' <=> IsHeld(g) \/ g = f
           /\ \A u, v \in Threads : wfd'[u] = wfd'[v] /\ wfd'[u] # None => u = v
  <1>1. None \notin Fds
    OBVIOUS
  <1>2. \A u \in Threads : wfd'[u] = IF u = t THEN f ELSE wfd[u]
    BY DEF TypeOK
  <1>3. \A u \in Threads : wfd[u] # f
    BY DEF IsHeld
  <1>4. QED
    BY <1>1, <1>2, <1>3 DEF IsHeld, FdOnce

\* A worker lets go of the socket it holds.
LEMMA LetGoFd ==
    ASSUME TypeOK, FdOnce, NEW t \in Threads,
           wfd[t] # None, wfd' = [wfd EXCEPT ![t] = None]
    PROVE  /\ \A g \in Fds : IsHeld(g)' <=> IsHeld(g) /\ g # wfd[t]
           /\ \A u, v \in Threads : wfd'[u] = wfd'[v] /\ wfd'[u] # None => u = v
  <1>1. None \notin Fds
    OBVIOUS
  <1>2. \A u \in Threads : wfd'[u] = IF u = t THEN None ELSE wfd[u]
    BY DEF TypeOK
  <1>3. \A u \in Threads : wfd[u] = wfd[t] => u = t
    BY DEF FdOnce
  <1>4. QED
    BY <1>1, <1>2, <1>3 DEF IsHeld, FdOnce

\* conn_queue_push puts a socket that is in no queue at the end of one.
LEMMA PushFd ==
    ASSUME TypeOK, FdOnce, NEW t \in Threads, NEW f \in Fds,
           ~IsQueued(f), queue' = [queue EXCEPT ![t] = Append(@, f)]
    PROVE  /\ \A g \in Fds : IsQueued(g)' <=> IsQueued(g) \/ g = f
           /\ \A u, v \in Threads : \A k \in 1..Len(queue'[u]), l \in 1..Len(queue'[v]) :
                 queue'[u][k] = queue'[v][l] => u = v /\ k = l
  <1>1. /\ queue'[t] = Append(queue[t], f)
        /\ \A u \in Threads : u # t => queue'[u] = queue[u]
    BY DEF TypeOK
  <1>2. queue[t] \in Seq(Fds) /\ Len(queue[t]) \in Nat
    BY LenProperties DEF TypeOK
  <1>3. /\ Len(queue'[t]) = Len(queue[t]) + 1
        /\ \A k \in 1..Len(queue'[t]) :
              queue'[t][k] = IF k <= Len(queue[t]) THEN queue[t][k] ELSE f
        /\ \A x : (\E k \in 1..Len(queue'[t]) : queue'[t][k] = x)
                  <=> (\E k \in 1..Len(queue[t]) : queue[t][k] = x) \/ x = f
    BY <1>1, <1>2, AppendElements
  <1>4. \A g \in Fds : IsQueued(g)' <=> IsQueued(g) \/ g = f
    BY <1>1, <1>3 DEF IsQueued
  <1>5. \A u \in Threads : \A k \in 1..Len(queue'[u]) :
          \/ k \in 1..Len(queue[u]) /\ queue'[u][k] = queue[u][k]
          \/ u = t /\ k = Len(queue[t]) + 1 /\ queue'[u][k] = f
    BY <1>1, <1>2, <1>3
  <1>6. \A u \in Threads : \A k \in 1..Len(queue[u]) : queue[u][k] # f
    BY DEF IsQueued
  <1>7. QED
    BY <1>4, <1>5, <1>6 DEF FdOnce

\* conn_queue_pop takes the first socket out of a queue.
LEMMA PopFd ==
    ASSUME TypeOK, FdOnce, NEW t \in Threads,
           queue[t] # <<>>, queue' = [queue EXCEPT ![t] = Tail(@)]
    PROVE  /\ Head(queue[t]) \in Fds /\ IsQueued(Head(queue[t]))
           /\ \A g \in Fds : IsQueued(g)' <=> IsQueued(g) /\ g # Head(queue[t])
           /\ \A u, v \in Threads : \A k \in 1..Len(queue'[u]), l \in 1..Len(queue'[v]) :
                 queue'[u][k] = queue'[v][l] => u = v /\ k = l
  <1>1. /\ queue'[t] = Tail(queue[t])
        /\ \A u \in Threads : u # t => queue'[u] = queue[u]
    BY DEF TypeOK
  <1>2. queue[t] \in Seq(Fds) /\ \A k, l \in 1..Len(queue[t]) :
                                  queue[t][k] = queue[t][l] => k = l
    BY DEF TypeOK, FdOnce
  <1> DEFINE s == queue[t]
             f == Head(s)
  <1>3. /\ f \in Fds /\ f = s[1] /\ 1 \in 1..Len(s)
        /\ Len(Tail(s)) = Len(s) - 1
        /\ \A k \in 1..Len(Tail(s)) : k + 1 \in 1..Len(s) /\ Tail(s)[k] = s[k + 1]
        /\ \A x : (\E k \in 1..Len(Tail(s)) : Tail(s)[k] = x)
                  <=> (\E k \in 1..Len(s) : s[k] = x) /\ x # f
    <2> HIDE DEF s
    <2>1. QED
      BY <1>2, TailElements DEF s
  <1> HIDE DEF f
  <1>4. \A u \in Threads : u # t => \A k \in 1..Len(queue[u]) : queue[u][k] # f
    BY <1>3 DEF FdOnce
  <1>5. ASSUME NEW g \in Fds PROVE IsQueued(g)' <=> IsQueued(g) /\ g # f
    <2>1. (\E k \in 1..Len(queue'[t]) : queue'[t][k] = g)
          <=> (\E k \in 1..Len(queue[t]) : queue[t][k] = g) /\ g # f
      <3>1. queue'[t] = Tail(s)
        BY <1>1
      <3>2. (\E k \in 1..Len(Tail(s)) : Tail(s)[k] = g)
            <=> (\E k \in 1..Len(s) : s[k] = g) /\ g # f
        BY <1>3, Zenon
      <3>3. QED
        BY <3>1, <3>2, Zenon
    <2>2. ASSUME NEW u \in Threads, u # t
          PROVE  (\E k \in 1..Len(queue'[u]) : queue'[u][k] = g)
                 <=> (\E k \in 1..Len(queue[u]) : queue[u][k] = g) /\ g # f
      BY <1>1, <1>4, <2>2
    <2>3. QED
      BY <2>1, <2>2 DEF IsQueued
  <1>6. ASSUME NEW u \in Threads, NEW v \in Threads,
               NEW k \in 1..Len(queue'[u]), NEW l \in 1..Len(queue'[v]),
               queue'[u][k] = queue'[v][l]
        PROVE  u = v /\ k = l
    <2>1. CASE u = t /\ v = t
      BY <1>2, <1>3, <1>6, <2>1
    <2>2. CASE u = t /\ v # t
      BY <1>1, <1>3, <1>6, <2>2 DEF FdOnce
    <2>3. CASE u # t /\ v = t
      BY <1>1, <1>3, <1>6, <2>3 DEF FdOnce
    <2>4. CASE u # t /\ v # t
      BY <1>1, <1>6, <2>4 DEF FdOnce
    <2>5. QED
      BY <2>1, <2>2, <2>3, <2>4
  <1>7. IsQueued(f)
    BY <1>3 DEF IsQueued
  <1>8. QED
    BY <1>3, <1>5, <1>6, <1>7 DEF f

\* Every step keeps each open socket in one place.
LEMMA FdStep == IInv /\ [Next]_vars => FdPlaces' /\ FdOnce'
  <1> SUFFICES ASSUME IInv, [Next]_vars PROVE FdPlaces' /\ FdOnce'
    OBVIOUS
  <1> USE DEF IInv
  <1>0. None \notin Fds /\ None \notin Threads /\ None \notin Clients
    BY DEF Threads
  <1>1. CASE Connect \/ UNCHANGED vars
    <2>1. UNCHANGED <<peer, dfd, pushed, queue, wfd, sfd, base>>
      BY <1>1 DEF Connect, vars, dispatcher, worker, structs
    <2>2. QED
      BY <2>1, FdUnchanged
  <1>2. ASSUME NEW t \in Threads, ReadNotify(t) \/ ConnNew(t) \/ AddToFreelist(t)
        PROVE  FdPlaces' /\ FdOnce'
    <2>1. UNCHANGED <<peer, dfd, pushed, queue, wfd, sfd, base>>
      BY <1>2 DEF ReadNotify, ConnNew, AddToFreelist, dispatcher, structs
    <2>2. QED
      BY <2>1, FdUnchanged
  <1>3. CASE Accept
    <2>1. UNCHANGED <<pushed, queue, wfd, sfd, base>> /\ dfd = None
      BY <1>3 DEF Accept, worker, structs
    <2>2. CASE UNCHANGED <<peer, dfd>>
      BY <2>1, <2>2, FdUnchanged
    <2>3. CASE \E c \in arrived, f \in Fds :
                  peer[f] = None /\ peer' = [peer EXCEPT ![f] = c] /\ dfd' = f
      <3>1. PICK c \in arrived, f \in Fds :
                  peer[f] = None /\ peer' = [peer EXCEPT ![f] = c] /\ dfd' = f
        BY <2>3
      <3>2. ~pushed' /\ c # None /\ \A g \in Fds : peer'[g] # None <=> peer[g] # None \/ g = f
        BY <1>0, <2>1, <3>1 DEF WorkerHolds, TypeOK
      <3>3. ~IsQueued(f) /\ ~IsHeld(f) /\ ~IsWatched(f)
        BY <3>1 DEF FdPlaces
      <3>4. \A g \in Fds : /\ InDispatch(g)' <=> g = f
                           /\ ~InDispatch(g)
                           /\ IsQueued(g)' <=> IsQueued(g)
                           /\ IsHeld(g)' <=> IsHeld(g)
                           /\ IsWatched(g)' <=> IsWatched(g)
        BY <1>0, <2>1, <3>1, <3>2 DEF InDispatch, IsQueued, IsHeld, IsWatched
      <3>5. FdPlaces'
        BY <3>2, <3>3, <3>4 DEF FdPlaces
      <3>6. QED
        BY <2>1, <3>5 DEF FdOnce
    <2>4. QED
      BY <1>3, <2>2, <2>3 DEF Accept
  <1>4. CASE Push
    <2>1. /\ dfd \in Fds /\ ~pushed /\ pushed' /\ NextThread \in Threads
          /\ queue' = [queue EXCEPT ![NextThread] = Append(@, dfd)]
          /\ UNCHANGED <<peer, dfd, wfd, sfd, base>>
      BY <1>4, NextThreadType DEF Push, ConnQueuePush, TypeOK, worker, structs
    <2>2. InDispatch(dfd) /\ ~IsQueued(dfd)
      BY <2>1 DEF InDispatch, FdPlaces
    <2>3. /\ \A g \in Fds : IsQueued(g)' <=> IsQueued(g) \/ g = dfd
          /\ \A u, v \in Threads : \A k \in 1..Len(queue'[u]), l \in 1..Len(queue'[v]) :
                queue'[u][k] = queue'[v][l] => u = v /\ k = l
      BY <2>1, <2>2, PushFd
    <2>4. \A g \in Fds : /\ ~InDispatch(g)'
                         /\ InDispatch(g) <=> g = dfd
                         /\ IsHeld(g)' <=> IsHeld(g)
                         /\ IsWatched(g)' <=> IsWatched(g)
      BY <2>1 DEF InDispatch, IsHeld, IsWatched
    <2>5. FdPlaces'
      BY <2>1, <2>2, <2>3, <2>4 DEF FdPlaces
    <2>6. QED
      BY <2>1, <2>3, <2>5 DEF FdOnce
  <1>5. CASE Notify
    <2>1. pushed /\ dfd' = None /\ UNCHANGED <<peer, queue, wfd, sfd, base>>
      BY <1>5 DEF Notify, worker, structs
    <2>2. \A g \in Fds : /\ ~InDispatch(g)' /\ ~InDispatch(g)
                         /\ IsQueued(g)' <=> IsQueued(g)
                         /\ IsHeld(g)' <=> IsHeld(g)
                         /\ IsWatched(g)' <=> IsWatched(g)
      BY <1>0, <2>1 DEF InDispatch, IsQueued, IsHeld, IsWatched
    <2>3. FdPlaces'
      BY <2>1, <2>2 DEF FdPlaces
    <2>4. QED
      BY <2>1, <2>3 DEF FdOnce
  <1>6. ASSUME NEW t \in Threads, Pop(t)
        PROVE  FdPlaces' /\ FdOnce'
    <2>1. wfd[t] = None /\ UNCHANGED <<peer, dfd, pushed, sfd, base>>
      BY <1>6 DEF Pop, WorkerHolds, SocketPCs, dispatcher, structs
    <2>2. CASE queue[t] = <<>>
      BY <1>6, <2>1, <2>2, FdUnchanged DEF Pop
    <2>3. CASE queue[t] # <<>>
      <3> DEFINE f == Head(queue[t])
      <3>1. wfd' = [wfd EXCEPT ![t] = f] /\ queue' = [queue EXCEPT ![t] = Tail(@)]
        BY <1>6, <2>3 DEF Pop
      <3>2. /\ f \in Fds /\ IsQueued(f)
            /\ \A g \in Fds : IsQueued(g)' <=> IsQueued(g) /\ g # f
            /\ \A u, v \in Threads : \A k \in 1..Len(queue'[u]), l \in 1..Len(queue'[v]) :
                  queue'[u][k] = queue'[v][l] => u = v /\ k = l
        BY <2>3, <3>1, PopFd
      <3> HIDE DEF f
      <3>3. ~IsHeld(f)
        BY <3>2 DEF FdPlaces
      <3>4. /\ \A g \in Fds : IsHeld(g)' <=> IsHeld(g) \/ g = f
            /\ \A u, v \in Threads : wfd'[u] = wfd'[v] /\ wfd'[u] # None => u = v
        BY <2>1, <3>1, <3>2, <3>3, TakeFd
      <3>5. \A g \in Fds : /\ InDispatch(g)' <=> InDispatch(g)
                           /\ IsWatched(g)' <=> IsWatched(g)
        BY <2>1 DEF InDispatch, IsWatched
      <3>6. FdPlaces'
        BY <2>1, <3>2, <3>4, <3>5 DEF FdPlaces
      <3>7. QED
        BY <2>1, <3>2, <3>4, <3>6 DEF FdOnce
    <2>4. QED
      BY <2>2, <2>3
  <1>7. ASSUME NEW t \in Threads, EventAdd(t)
        PROVE  FdPlaces' /\ FdOnce'
    <2> DEFINE c == wconn[t]
               f == wfd[t]
    <2>1. /\ c \in Conns /\ f \in Fds
          /\ sfd' = [sfd EXCEPT ![c] = f]
          /\ UNCHANGED <<peer, dfd, pushed, queue>>
      BY <1>7 DEF EventAdd, WorkerHolds, HandPCs, SocketPCs, TypeOK, dispatcher
    <2>2. IsHeld(f) /\ base[c] = None /\ ~IsWatched(f)
      <3>1. IsHeld(f) /\ InHand(c)
        BY DEF IsHeld, InHand
      <3>2. QED
        BY <2>1, <3>1 DEF ConnPlaces, FdPlaces, IsLive
    <2>3. \A k \in Conns : sfd'[k] = IF k = c THEN f ELSE sfd[k]
      BY <2>1 DEF TypeOK
    <2>4. \A g \in Fds : /\ InDispatch(g)' <=> InDispatch(g)
                         /\ IsQueued(g)' <=> IsQueued(g)
      BY <2>1 DEF InDispatch, IsQueued
    <2> HIDE DEF c, f
    <2>5. CASE base' = [base EXCEPT ![c] = t] /\ wfd' = [wfd EXCEPT ![t] = None]
      <3>1. \A k \in Conns : base'[k] = IF k = c THEN t ELSE base[k]
        BY <2>1, <2>5 DEF TypeOK
      <3>2. /\ \A g \in Fds : IsHeld(g)' <=> IsHeld(g) /\ g # f
            /\ \A u, v \in Threads : wfd'[u] = wfd'[v] /\ wfd'[u] # None => u = v
        BY <1>0, <2>1, <2>5, LetGoFd DEF f
      <3>3. \A g \in Fds : IsWatched(g)' <=> IsWatched(g) \/ g = f
        BY <1>0, <2>1, <2>2, <2>3, <3>1 DEF IsWatched
      <3>4. FdPlaces'
        BY <2>1, <2>2, <2>4, <3>2, <3>3 DEF FdPlaces
      <3>5. \A k \in Conns : base'[k] # None => sfd'[k] # None
        BY <1>0, <2>1, <2>3, <3>1 DEF FdOnce
      <3>6. \A k \in Conns : base[k] # None => sfd[k] # f
        BY <2>2 DEF IsWatched
      <3>7. \A k, l \in Conns : base'[k] # None /\ base'[l] # None /\ sfd'[k] = sfd'[l] => k = l
        BY <2>3, <3>1, <3>6 DEF FdOnce
      <3>8. QED
        BY <2>1, <3>2, <3>4, <3>5, <3>7 DEF FdOnce
    <2>6. CASE UNCHANGED <<base, wfd>>
      <3>1. \A g \in Fds : /\ IsHeld(g)' <=> IsHeld(g)
                           /\ IsWatched(g)' <=> IsWatched(g)
        BY <2>2, <2>3, <2>6 DEF IsHeld, IsWatched
      <3>2. FdPlaces'
        BY <2>1, <2>4, <3>1 DEF FdPlaces
      <3>3. QED
        BY <2>1, <2>2, <2>3, <2>6, <3>2 DEF FdOnce
    <2>7. QED
      BY <1>7, <2>5, <2>6 DEF EventAdd, c, f
  <1>8. ASSUME NEW t \in Threads, CloseFd(t)
        PROVE  FdPlaces' /\ FdOnce'
    <2> DEFINE f == wfd[t]
    <2>1. /\ f \in Fds
          /\ wfd' = [wfd EXCEPT ![t] = None]
          /\ peer' = [peer EXCEPT ![f] = None]
          /\ UNCHANGED <<dfd, pushed, queue, sfd, base>>
      BY <1>8 DEF CloseFd, WorkerHolds, SocketPCs, TypeOK, dispatcher, structs
    <2>2. /\ \A g \in Fds : IsHeld(g)' <=> IsHeld(g) /\ g # f
          /\ \A u, v \in Threads : wfd'[u] = wfd'[v] /\ wfd'[u] # None => u = v
      BY <1>0, <2>1, LetGoFd
    <2>3. IsHeld(f)
      BY DEF IsHeld
    <2> HIDE DEF f
    <2>4. \A g \in Fds : /\ InDispatch(g)' <=> InDispatch(g)
                         /\ IsQueued(g)' <=> IsQueued(g)
                         /\ IsWatched(g)' <=> IsWatched(g)
      BY <2>1 DEF InDispatch, IsQueued, IsWatched
    <2>5. \A g \in Fds : peer'[g] # None <=> peer[g] # None /\ g # f
      BY <2>1 DEF TypeOK
    <2>6. FdPlaces'
      BY <2>1, <2>2, <2>3, <2>4, <2>5 DEF FdPlaces
    <2>7. QED
      BY <2>1, <2>2, <2>6 DEF FdOnce
  <1>9. ASSUME NEW t \in Threads, ConnClose(t)
        PROVE  FdPlaces' /\ FdOnce'
    <2>1. PICK c \in Conns : /\ base[c] = t
                            /\ base' = [base EXCEPT ![c] = None]
                            /\ wfd' = [wfd EXCEPT ![t] = sfd[c]]
      BY <1>9 DEF ConnClose, EventDel
    <2>2. wfd[t] = None /\ UNCHANGED <<peer, dfd, pushed, queue, sfd>>
      BY <1>9 DEF ConnClose, WorkerHolds, SocketPCs, dispatcher
    <2> DEFINE f == sfd[c]
    <2>3. f \in Fds /\ IsWatched(f) /\ ~IsHeld(f)
      <3>1. f \in Fds
        BY <1>0, <2>1 DEF FdOnce, TypeOK
      <3>2. IsWatched(f)
        BY <1>0, <2>1 DEF IsWatched
      <3>3. QED
        BY <3>1, <3>2 DEF FdPlaces
    <2>4. /\ \A g \in Fds : IsHeld(g)' <=> IsHeld(g) \/ g = f
          /\ \A u, v \in Threads : wfd'[u] = wfd'[v] /\ wfd'[u] # None => u = v
      BY <2>1, <2>2, <2>3, TakeFd
    <2>5. \A k \in Conns : base'[k] # None <=> base[k] # None /\ k # c
      BY <2>1 DEF TypeOK
    <2>6. \A k \in Conns : base[k] # None /\ sfd[k] = f => k = c
      BY <1>0, <2>1 DEF FdOnce
    <2>7. \A g \in Fds : /\ InDispatch(g)' <=> InDispatch(g)
                         /\ IsQueued(g)' <=> IsQueued(g)
                         /\ IsWatched(g)' <=> IsWatched(g) /\ g # f
      BY <2>2, <2>5, <2>6 DEF InDispatch, IsQueued, IsWatched
    <2> HIDE DEF f
    <2>8. FdPlaces'
      BY <2>2, <2>3, <2>4, <2>7 DEF FdPlaces
    <2>9. QED
      BY <2>2, <2>4, <2>5, <2>8 DEF FdOnce
  <1>10. QED
    BY <1>1, <1>2, <1>3, <1>4, <1>5, <1>6, <1>7, <1>8, <1>9 DEF Next, Adopt, Release
-----------------------------------------------------------------------------
(* Types, control state and notifications *)

\* Every step preserves the types.  A close needs FdPlaces: the socket it closes
\* has a client at the other end.
LEMMA TypeStep == IInv /\ [Next]_vars => TypeOK'
  <1> SUFFICES ASSUME IInv, [Next]_vars PROVE TypeOK'
    OBVIOUS
  <1> USE DEF IInv
  <1>1. CASE Connect \/ UNCHANGED vars
    BY <1>1 DEF Connect, TypeOK, vars, dispatcher, notices, worker, structs, freelist
  <1>2. CASE Accept
    BY <1>2 DEF Accept, TypeOK, notices, worker, structs, freelist
  <1>3. CASE Push
    <2>1. dfd \in Fds /\ NextThread \in Threads
      BY <1>3, NextThreadType DEF Push, TypeOK
    <2>2. Append(queue[NextThread], dfd) \in Seq(Fds)
      BY <2>1, AppendProperties DEF TypeOK
    <2>3. queue' \in [Threads -> Seq(Fds)] /\ last_thread' \in Threads
      BY <1>3, <2>1, <2>2 DEF Push, ConnQueuePush, TypeOK
    <2>4. pushed' \in BOOLEAN
      BY <1>3, Zenon DEF Push
    <2>5. QED
      BY <1>3, <2>3, <2>4 DEF Push, TypeOK, notices, worker, structs, freelist
  <1>4. CASE Notify
    <2>1. pipe' \in [Threads -> 0..PipeSize] /\ lost' \in [Threads -> Nat]
      <3>1. /\ last_thread \in Threads /\ pipe[last_thread] \in 0..PipeSize
            /\ pipe \in [Threads -> 0..PipeSize] /\ lost \in [Threads -> Nat]
        BY DEF TypeOK
      <3>2. CASE /\ pipe[last_thread] < PipeSize
                 /\ pipe' = [pipe EXCEPT ![last_thread] = @ + 1]
                 /\ UNCHANGED lost
        BY <3>1, <3>2
      <3>3. CASE lost' = [lost EXCEPT ![last_thread] = @ + 1] /\ UNCHANGED pipe
        BY <3>1, <3>3
      <3>4. QED
        BY <1>4, <3>2, <3>3 DEF Notify
    <2>2. pushed' \in BOOLEAN
      BY <1>4, Zenon DEF Notify
    <2>3. QED
      BY <1>4, <2>1, <2>2 DEF Notify, TypeOK, worker, structs, freelist
  <1>5. ASSUME NEW t \in Threads, ReadNotify(t)
        PROVE  TypeOK'
    <2>1. pipe' \in [Threads -> 0..PipeSize]
      <3>1. pipe \in [Threads -> 0..PipeSize] /\ pipe[t] \in 0..PipeSize /\ pipe[t] > 0
        BY <1>5 DEF ReadNotify, TypeOK
      <3>2. pipe' = pipe \/ pipe' = [pipe EXCEPT ![t] = @ - 1]
        BY <1>5 DEF ReadNotify, Consumed
      <3>3. QED
        BY <3>1, <3>2
    <2>2. pc' \in [Threads -> PCs]
      BY <1>5 DEF ReadNotify, TypeOK, PCs
    <2>3. QED
      BY <1>5, <2>1, <2>2 DEF ReadNotify, TypeOK, dispatcher, structs, freelist
  <1>6. ASSUME NEW t \in Threads, Pop(t)
        PROVE  TypeOK'
    <2>1. queue[t] # <<>> => Head(queue[t]) \in Fds /\ Tail(queue[t]) \in Seq(Fds)
      BY HeadTailProperties DEF TypeOK
    <2>2. queue' \in [Threads -> Seq(Fds)]
      BY <1>6, <2>1 DEF Pop, TypeOK
    <2>3. wfd' \in [Threads -> Fds \cup {None}]
      <3>1. wfd' = wfd \/ \E f \in Fds : wfd' = [wfd EXCEPT ![t] = f]
        BY <1>6, <2>1 DEF Pop
      <3>2. QED
        BY <3>1 DEF TypeOK
    <2>4. pc' \in [Threads -> PCs]
      <3>1. \E p \in PCs : pc' = [pc EXCEPT ![t] = p]
        BY <1>6 DEF Pop, PCs
      <3>2. QED
        BY <3>1 DEF TypeOK
    <2>5. QED
      BY <1>6, <2>2, <2>3, <2>4 DEF Pop, TypeOK, dispatcher, notices, structs, freelist
  <1>7. ASSUME NEW t \in Threads, ConnNew(t)
        PROVE  TypeOK'
    <2>1. /\ freeconns # <<>> => /\ freeconns[Len(freeconns)] \in Conns
                                /\ SubSeq(freeconns, 1, Len(freeconns) - 1) \in Seq(Conns)
      BY FrontElements DEF TypeOK, ConnOnce
    <2>2. wconn' \in [Threads -> Conns \cup {None}]
      BY <1>7, <2>1 DEF ConnNew, TypeOK
    <2>3. freeconns' \in Seq(Conns) /\ heap' \subseteq Conns
      BY <1>7, <2>1 DEF ConnNew, TypeOK
    <2>4. pc' \in [Threads -> PCs]
      <3>1. \E p \in PCs : pc' = [pc EXCEPT ![t] = p]
        BY <1>7 DEF ConnNew, PCs
      <3>2. QED
        BY <3>1 DEF TypeOK
    <2>5. QED
      BY <1>7, <2>2, <2>3, <2>4 DEF ConnNew, TypeOK, dispatcher, notices
  <1>8. ASSUME NEW t \in Threads, EventAdd(t)
        PROVE  TypeOK'
    <2>1. wconn[t] \in Conns /\ wfd[t] \in Fds
      BY <1>8 DEF EventAdd, WorkerHolds, HandPCs, SocketPCs, TypeOK
    <2>2. sfd' \in [Conns -> Fds \cup {None}] /\ base' \in [Conns -> Threads \cup {None}]
      <3>1. sfd' = [sfd EXCEPT ![wconn[t]] = wfd[t]]
        BY <1>8 DEF EventAdd
      <3>2. base' = base \/ base' = [base EXCEPT ![wconn[t]] = t]
        BY <1>8 DEF EventAdd
      <3>3. sfd \in [Conns -> Fds \cup {None}] /\ base \in [Conns -> Threads \cup {None}]
        BY DEF TypeOK
      <3>4. sfd' \in [Conns -> Fds \cup {None}]
        BY <2>1, <3>1, <3>3
      <3>5. base' \in [Conns -> Threads \cup {None}]
        BY <2>1, <3>2, <3>3
      <3>6. QED
        BY <3>4, <3>5
    <2>3. wconn' \in [Threads -> Conns \cup {None}] /\ wfd' \in [Threads -> Fds \cup {None}]
      <3>1. wconn' = wconn \/ wconn' = [wconn EXCEPT ![t] = None]
        BY <1>8 DEF EventAdd
      <3>2. wfd' = wfd \/ wfd' = [wfd EXCEPT ![t] = None]
        BY <1>8 DEF EventAdd
      <3>3. QED
        BY <3>1, <3>2 DEF TypeOK
    <2>4. pc' \in [Threads -> PCs]
      <3>1. \E p \in PCs : pc' = [pc EXCEPT ![t] = p]
        BY <1>8 DEF EventAdd, PCs
      <3>2. QED
        BY <3>1 DEF TypeOK
    <2>5. QED
      BY <1>8, <2>2, <2>3, <2>4 DEF EventAdd, TypeOK, dispatcher, notices, freelist
  <1>9. ASSUME NEW t \in Threads, AddToFreelist(t)
        PROVE  TypeOK'
    <2>1. wconn[t] \in Conns /\ Len(freeconns) \in Nat
      BY <1>9, LenProperties DEF AddToFreelist, WorkerHolds, HandPCs, TypeOK
    <2>2. Append(freeconns, wconn[t]) \in Seq(Conns)
      BY <2>1, AppendProperties DEF TypeOK
    <2>3. freeconns' \in Seq(Conns) /\ freetotal' \in Nat /\ heap' \subseteq Conns
      <3>1. \/ /\ freeconns' = Append(freeconns, wconn[t])
               /\ freetotal' = freetotal \/ freetotal' = 2 * freetotal
               /\ heap' = heap
            \/ heap' = heap \ {wconn[t]} /\ freeconns' = freeconns /\ freetotal' = freetotal
        BY <1>9 DEF AddToFreelist, GiveBack, freelist
      <3>2. freeconns \in Seq(Conns) /\ freetotal \in Nat /\ heap \subseteq Conns
        BY DEF TypeOK
      <3>3. QED
        BY <2>2, <3>1, <3>2
    <2>4. wconn' \in [Threads -> Conns \cup {None}] /\ pc' \in [Threads -> PCs]
      BY <1>9 DEF AddToFreelist, AfterGiveBack, TypeOK, PCs
    <2>5. QED
      BY <1>9, <2>3, <2>4 DEF AddToFreelist, TypeOK, dispatcher, notices
  <1>10. ASSUME NEW t \in Threads, CloseFd(t)
         PROVE  TypeOK'
    <2>1. wfd[t] \in Fds
      BY <1>10 DEF CloseFd, WorkerHolds, SocketPCs, TypeOK
    <2>2. peer[wfd[t]] \in Clients
      BY <2>1 DEF FdPlaces, IsHeld, TypeOK
    <2>3. /\ gone' \subseteq Clients /\ peer' \in [Fds -> Clients \cup {None}]
          /\ wfd' \in [Threads -> Fds \cup {None}] /\ pc' \in [Threads -> PCs]
      BY <1>10, <2>1, <2>2 DEF CloseFd, TypeOK, PCs
    <2>4. QED
      BY <1>10, <2>3 DEF CloseFd, TypeOK, dispatcher, notices, structs, freelist
  <1>11. ASSUME NEW t \in Threads, ConnClose(t)
         PROVE  TypeOK'
    <2>1. /\ wconn' \in [Threads -> Conns \cup {None}] /\ wfd' \in [Threads -> Fds \cup {None}]
          /\ base' \in [Conns -> Threads \cup {None}] /\ pc' \in [Threads -> PCs]
      BY <1>11 DEF ConnClose, EventDel, TypeOK, PCs
    <2>2. QED
      BY <1>11, <2>1 DEF ConnClose, TypeOK, dispatcher, notices, freelist
  <1>12. QED
    BY <1>1, <1>2, <1>3, <1>4, <1>5, <1>6, <1>7, <1>8, <1>9, <1>10, <1>11
    DEF Next, Adopt, Release

\* A worker's hands are full exactly where its handler says so.
LEMMA HoldsStep == IInv /\ [Next]_vars => WorkerHolds'
  <1> SUFFICES ASSUME IInv, [Next]_vars PROVE WorkerHolds'
    OBVIOUS
  <1> USE DEF IInv
  <1>0. None \notin Fds /\ None \notin Conns /\ None \notin Threads
    BY DEF Threads
  <1>1. CASE Connect \/ Accept \/ Push \/ Notify \/ UNCHANGED vars
    <2>1. UNCHANGED <<pc, wfd, wconn>>
      BY <1>1 DEF Connect, Accept, Push, Notify, vars, worker
    <2>2. pushed' => dfd' # None
      BY <1>0, <1>1 DEF Connect, Accept, Push, Notify, vars, dispatcher, WorkerHolds
    <2>3. QED
      BY <2>1, <2>2 DEF WorkerHolds
  <1>2. ASSUME NEW t \in Threads, Adopt(t) \/ Release(t) \/ ConnClose(t)
        PROVE  WorkerHolds'
    <2>1. UNCHANGED <<dfd, pushed>>
      BY <1>2 DEF Adopt, Release, ReadNotify, Pop, ConnNew, EventAdd, AddToFreelist,
                  CloseFd, ConnClose, dispatcher
    <2>2. \A u \in Threads : u # t =>
             pc'[u] = pc[u] /\ wfd'[u] = wfd[u] /\ wconn'[u] = wconn[u]
      BY <1>2 DEF Adopt, Release, ReadNotify, Pop, ConnNew, EventAdd, AddToFreelist,
                  CloseFd, ConnClose, TypeOK
    <2> DEFINE Holds == /\ wconn'[t] # None <=> pc'[t] \in HandPCs
                        /\ wfd'[t] # None <=> pc'[t] \in SocketPCs
    <2>3. /\ wconn[t] # None <=> pc[t] \in HandPCs
          /\ wfd[t] # None <=> pc[t] \in SocketPCs
      BY DEF WorkerHolds
    <2>4. ASSUME ReadNotify(t) PROVE Holds
      BY <2>3, <2>4 DEF ReadNotify, TypeOK, HandPCs, SocketPCs
    <2>5. ASSUME Pop(t) PROVE Holds
      <3>1. queue[t] # <<>> => Head(queue[t]) \in Fds
        BY HeadTailProperties DEF TypeOK
      <3>2. QED
        BY <1>0, <2>3, <2>5, <3>1 DEF Pop, TypeOK, HandPCs, SocketPCs
    <2>6. ASSUME ConnNew(t) PROVE Holds
      <3>1. freeconns # <<>> => freeconns[Len(freeconns)] \in Conns
        BY FrontElements DEF TypeOK, ConnOnce
      <3>2. QED
        BY <1>0, <2>3, <2>6, <3>1 DEF ConnNew, TypeOK, HandPCs, SocketPCs
    <2>7. ASSUME EventAdd(t) PROVE Holds
      BY <2>3, <2>7 DEF EventAdd, TypeOK, HandPCs, SocketPCs
    <2>8. ASSUME AddToFreelist(t) PROVE Holds
      BY <2>3, <2>8 DEF AddToFreelist, AfterGiveBack, TypeOK, HandPCs, SocketPCs
    <2>9. ASSUME CloseFd(t) PROVE Holds
      BY <2>3, <2>9 DEF CloseFd, TypeOK, HandPCs, SocketPCs
    <2>10. ASSUME ConnClose(t) PROVE Holds
      BY <1>0, <2>3, <2>10 DEF ConnClose, TypeOK, HandPCs, SocketPCs, FdOnce
    <2>11. Holds
      BY <1>2, <2>4, <2>5, <2>6, <2>7, <2>8, <2>9, <2>10 DEF Adopt, Release
    <2>12. QED
      BY <2>1, <2>2, <2>11 DEF WorkerHolds
  <1>3. QED
    BY <1>1, <1>2 DEF Next

\* Every queued socket keeps its notification.
LEMMA StrandedStep == IInv /\ [Next]_vars => NoneStranded'
  <1> SUFFICES ASSUME IInv, [Next]_vars PROVE NoneStranded'
    OBVIOUS
  <1> USE DEF IInv
  <1> DEFINE Owed(u) == IF pushed /\ last_thread = u THEN 1 ELSE 0
             Read(u) == IF pc[u] = "pop" THEN 1 ELSE 0
  <1>1. \A u \in Threads : /\ Len(queue[u]) \in Nat /\ pipe[u] \in Nat /\ lost[u] \in Nat
                           /\ Owed(u) \in Nat /\ Read(u) \in Nat
                           /\ Len(queue[u]) <= pipe[u] + lost[u] + Owed(u) + Read(u)
    BY LenProperties DEF TypeOK, NoneStranded
  <1>2. CASE Connect \/ Accept \/ UNCHANGED vars
    BY <1>2 DEF Connect, Accept, NoneStranded, vars, dispatcher, notices, worker
  <1>3. CASE Push
    <2>1. dfd \in Fds /\ NextThread \in Threads /\ ~pushed /\ pushed' /\ last_thread' = NextThread
      BY <1>3, NextThreadType DEF Push, TypeOK
    <2>2. \A u \in Threads : Len(queue'[u]) = IF u = NextThread THEN Len(queue[u]) + 1
                                                              ELSE Len(queue[u])
      <3>1. Len(Append(queue[NextThread], dfd)) = Len(queue[NextThread]) + 1
        BY <2>1, AppendProperties DEF TypeOK
      <3>2. QED
        BY <1>3, <2>1, <3>1 DEF Push, ConnQueuePush, TypeOK
    <2>3. UNCHANGED <<pipe, lost, pc>>
      BY <1>3 DEF Push, notices, worker
    <2>4. ASSUME NEW u \in Threads
          PROVE  Len(queue'[u]) <= pipe'[u] + lost'[u] + Owed(u)' + Read(u)'
      <3>1. CASE u = NextThread
        BY <1>1, <2>1, <2>2, <2>3, <3>1
      <3>2. CASE u # NextThread
        BY <1>1, <2>1, <2>2, <2>3, <3>2
      <3>3. QED
        BY <3>1, <3>2
    <2>5. QED
      BY <2>4 DEF NoneStranded
  <1>4. CASE Notify
    <2>1. /\ pushed /\ ~pushed' /\ last_thread \in Threads
          /\ UNCHANGED <<queue, pc>>
      BY <1>4 DEF Notify, TypeOK, worker
    <2>2. \A u \in Threads : pipe'[u] + lost'[u] = IF u = last_thread THEN pipe[u] + lost[u] + 1
                                                                      ELSE pipe[u] + lost[u]
      BY <1>1, <1>4 DEF Notify, TypeOK
    <2>3. \A u \in Threads : pipe'[u] \in Nat /\ lost'[u] \in Nat
      <3>1. TypeOK'
        BY TypeStep
      <3>2. QED
        BY <3>1 DEF TypeOK
    <2>4. ASSUME NEW u \in Threads
          PROVE  Len(queue'[u]) <= pipe'[u] + lost'[u] + Owed(u)' + Read(u)'
      <3>1. CASE u = last_thread
        BY <1>1, <2>1, <2>2, <2>3, <3>1
      <3>2. CASE u # last_thread
        BY <1>1, <2>1, <2>2, <2>3, <3>2
      <3>3. QED
        BY <3>1, <3>2
    <2>5. QED
      BY <2>4 DEF NoneStranded
  <1>5. ASSUME NEW t \in Threads, ReadNotify(t)
        PROVE  NoneStranded'
    <2>1. UNCHANGED <<queue, lost, pushed, last_thread>>
      BY <1>5 DEF ReadNotify, dispatcher
    <2>2. \A u \in Threads : u # t => pipe'[u] = pipe[u] /\ pc'[u] = pc[u]
      BY <1>5 DEF ReadNotify, TypeOK
    <2>3. /\ pc[t] # "pop" /\ pc'[t] = "pop"
          /\ pipe'[t] = pipe[t] \/ pipe'[t] = pipe[t] - 1
      BY <1>5 DEF ReadNotify, Consumed, TypeOK
    <2>4. ASSUME NEW u \in Threads
          PROVE  Len(queue'[u]) <= pipe'[u] + lost'[u] + Owed(u)' + Read(u)'
      <3>1. CASE u = t
        BY <1>1, <2>1, <2>3, <3>1
      <3>2. CASE u # t
        BY <1>1, <2>1, <2>2, <3>2
      <3>3. QED
        BY <3>1, <3>2
    <2>5. QED
      BY <2>4 DEF NoneStranded
  <1>6. ASSUME NEW t \in Threads, Pop(t)
        PROVE  NoneStranded'
    <2>1. UNCHANGED <<pipe, lost, pushed, last_thread>>
      BY <1>6 DEF Pop, dispatcher, notices
    <2>2. \A u \in Threads : u # t => queue'[u] = queue[u] /\ pc'[u] = pc[u]
      BY <1>6 DEF Pop, TypeOK
    <2>3. Len(queue'[t]) = 0 \/ Len(queue'[t]) = Len(queue[t]) - 1
      <3>1. CASE queue[t] = <<>>
        BY <1>6, <3>1 DEF Pop
      <3>2. CASE queue[t] # <<>>
        <4>1. queue'[t] = Tail(queue[t])
          BY <1>6, <3>2 DEF Pop, TypeOK
        <4>2. Len(Tail(queue[t])) = Len(queue[t]) - 1
          BY <3>2, HeadTailProperties DEF TypeOK
        <4>3. QED
          BY <4>1, <4>2
      <3>3. QED
        BY <3>1, <3>2
    <2>4. pc[t] = "pop" /\ pc'[t] # "pop"
      BY <1>6 DEF Pop, TypeOK
    <2>5. Len(queue'[t]) <= pipe[t] + lost[t] + Owed(t)
      BY <1>1, <2>3, <2>4
    <2>6. ASSUME NEW u \in Threads
          PROVE  Len(queue'[u]) <= pipe'[u] + lost'[u] + Owed(u)' + Read(u)'
      <3>1. CASE u = t
        BY <1>1, <2>1, <2>4, <2>5, <3>1
      <3>2. CASE u # t
        BY <1>1, <2>1, <2>2, <3>2
      <3>3. QED
        BY <3>1, <3>2
    <2>7. QED
      BY <2>6 DEF NoneStranded
  <1>7. ASSUME NEW t \in Threads,
               ConnNew(t) \/ EventAdd(t) \/ Release(t) \/ ConnClose(t)
        PROVE  NoneStranded'
    <2>1. UNCHANGED <<queue, pipe, lost, pushed, last_thread>>
      BY <1>7 DEF ConnNew, EventAdd, Release, AddToFreelist, CloseFd, ConnClose, dispatcher, notices
    <2>2. \A u \in Threads : (pc[u] = "pop") <=> (pc'[u] = "pop")
      BY <1>7 DEF ConnNew, EventAdd, Release, AddToFreelist, AfterGiveBack, CloseFd, ConnClose, TypeOK
    <2>3. QED
      BY <1>1, <2>1, <2>2 DEF NoneStranded
  <1>8. QED
    BY <1>2, <1>3, <1>4, <1>5, <1>6, <1>7 DEF Next, Adopt
-----------------------------------------------------------------------------
(* The theorems *)

LEMMA InitIInv == Init => IInv
  <1> SUFFICES ASSUME Init PROVE IInv
    OBVIOUS
  <1>0. None \notin Fds /\ None \notin Conns /\ None \notin Threads
    BY DEF Threads
  <1>1. NThreads - 1 \in Threads /\ 0 \in 0..PipeSize /\ FreeTotal \in Nat /\ Len(<<>>) = 0
    BY DEF Threads
  <1>2. TypeOK
    <2>1. pushed \in BOOLEAN
      BY Zenon DEF Init
    <2>2. <<>> \in Seq(Fds) /\ <<>> \in Seq(Conns)
      OBVIOUS
    <2>3. pc \in [Threads -> PCs]
      BY DEF Init, PCs
    <2>4. QED
      BY <1>1, <2>1, <2>2, <2>3 DEF Init, TypeOK
  <1>3. WorkerHolds
    BY DEF Init, WorkerHolds, HandPCs, SocketPCs
  <1>4. \A c \in Conns : ~OnFreelist(c) /\ ~InHand(c) /\ ~IsLive(c)
    BY <1>0, <1>1 DEF Init, OnFreelist, InHand, IsLive
  <1>5. ConnPlaces /\ ConnOnce
    BY <1>1, <1>4 DEF Init, ConnPlaces, ConnOnce
  <1>6. \A f \in Fds : ~InDispatch(f) /\ ~IsQueued(f) /\ ~IsHeld(f) /\ ~IsWatched(f)
    BY <1>0, <1>1 DEF Init, InDispatch, IsQueued, IsHeld, IsWatched
  <1>7. FdPlaces /\ FdOnce
    BY <1>1, <1>6 DEF Init, FdPlaces, FdOnce
  <1>8. NoneStranded
    BY <1>1 DEF Init, NoneStranded
  <1>9. QED
    BY <1>2, <1>3, <1>5, <1>7, <1>8 DEF IInv

\* The invariant of the whole argument.
THEOREM Invariance == Spec => []IInv
  <1>1. IInv /\ [Next]_vars => IInv'
    BY TypeStep, HoldsStep, ConnStep, FdStep, StrandedStep DEF IInv
  <1>2. QED
    BY InitIInv, <1>1, PTL DEF Spec

\* Descriptors, queues, pipes, workers and structures keep their types, and a
\* notify pipe never holds more than its capacity.
THEOREM TypeCorrect == Spec => []TypeOK
  BY Invariance, PTL DEF IInv

\* conn_queue_push and the notify pipe: a queued socket always has a notification
\* written, being written or just read, unless the write failed.
THEOREM NotificationsKept == Spec => []NoneStranded
  BY Invariance, PTL DEF IInv

\* The holders of a structure are its places.
LEMMA ConnPlacesExclusive == IInv => ConnExclusive
  <1> SUFFICES ASSUME IInv, NEW c \in Conns
               PROVE  IF c \in heap THEN ExactlyOne(ConnHolders(c)) ELSE ConnHolders(c) = {}
    BY DEF ConnExclusive
  <1> USE DEF IInv
  <1>1. DOMAIN freeconns = 1..Len(freeconns)
    BY LenProperties DEF TypeOK
  <1>2. \A x : x \in ConnHolders(c) <=>
          \/ \E k \in 1..Len(freeconns) : freeconns[k] = c /\ x = <<"freeconns", k>>
          \/ \E t \in Threads : wconn[t] = c /\ x = <<"worker", t>>
          \/ \E t \in Threads : base[c] = t /\ x = <<"live", t>>
    BY <1>1, Zenon DEF ConnHolders
  <1>3. IsLive(c) <=> \E t \in Threads : base[c] = t
    BY DEF IsLive, TypeOK, Threads
  <1>4. (ConnHolders(c) # {}) <=> OnFreelist(c) \/ InHand(c) \/ IsLive(c)
    BY <1>2, <1>3 DEF OnFreelist, InHand
  <1>5. ASSUME NEW x \in ConnHolders(c), NEW y \in ConnHolders(c)
        PROVE  x = y
    <2>1. CASE OnFreelist(c)
      BY <1>2, <1>3, <2>1 DEF ConnPlaces, ConnOnce, InHand
    <2>2. CASE InHand(c)
      BY <1>2, <1>3, <2>2 DEF ConnPlaces, ConnOnce, InHand, OnFreelist
    <2>3. CASE IsLive(c)
      BY <1>2, <1>3, <2>3 DEF ConnPlaces, InHand, OnFreelist
    <2>4. QED
      BY <1>4, <2>1, <2>2, <2>3
  <1>6. QED
    BY <1>4, <1>5 DEF ConnPlaces, ExactlyOne

\* No conn structure is ever in two places or lost: not on the free list twice,
\* not used by two workers, not recycled while an event base still has it
\* (conn_from_freelist, conn_add_to_freelist, conn_close).
THEOREM StructuresExclusive == Spec => []ConnExclusive
  BY Invariance, ConnPlacesExclusive, PTL

\* The holders of a socket are its places.
LEMMA FdPlacesExclusive == IInv => FdExclusive
  <1> SUFFICES ASSUME IInv, NEW f \in Fds
               PROVE  IF peer[f] # None THEN ExactlyOne(FdHolders(f)) ELSE FdHolders(f) = {}
    BY DEF FdExclusive
  <1> USE DEF IInv
  <1>1. \A t \in Threads : DOMAIN queue[t] = 1..Len(queue[t])
    BY LenProperties DEF TypeOK
  <1>2. \A x : x \in FdHolders(f) <=>
          \/ dfd = f /\ ~pushed /\ x = <<"dispatcher", f>>
          \/ \E t \in Threads : \E k \in 1..Len(queue[t]) : queue[t][k] = f /\ x = <<"queue", t, k>>
          \/ \E t \in Threads : wfd[t] = f /\ x = <<"worker", t>>
          \/ \E c \in Conns : base[c] # None /\ sfd[c] = f /\ x = <<"live", c>>
    <2> DEFINE D == {<<"dispatcher", d>> : d \in {d \in {dfd} : d = f /\ ~pushed}}
               Q == UNION {Positions(t, f) : t \in Threads}
               W == {<<"worker", t>> : t \in {t \in Threads : wfd[t] = f}}
               L == {<<"live", c>> : c \in {c \in Conns : base[c] # None /\ sfd[c] = f}}
               AtD(x) == dfd = f /\ ~pushed /\ x = <<"dispatcher", f>>
               AtQ(x) == \E t \in Threads : \E k \in 1..Len(queue[t]) :
                           queue[t][k] = f /\ x = <<"queue", t, k>>
               AtW(x) == \E t \in Threads : wfd[t] = f /\ x = <<"worker", t>>
               AtL(x) == \E c \in Conns : base[c] # None /\ sfd[c] = f /\ x = <<"live", c>>
    <2>1. \A x : x \in D <=> AtD(x)
      BY Zenon
    <2>2. \A x : x \in Q <=> AtQ(x)
      <3>1. \A t \in Threads : \A x : x \in Positions(t, f) <=>
              \E k \in 1..Len(queue[t]) : queue[t][k] = f /\ x = <<"queue", t, k>>
        BY <1>1, Zenon DEF Positions
      <3>2. \A x : x \in Q <=> \E t \in Threads : x \in Positions(t, f)
        OBVIOUS
      <3>3. QED
        BY <3>1, <3>2, Zenon
    <2>3. \A x : x \in W <=> AtW(x)
      BY Zenon
    <2>4. \A x : x \in L <=> AtL(x)
      BY Zenon
    <2>5. FdHolders(f) = D \cup Q \cup W \cup L
      BY Zenon DEF FdHolders
    <2> HIDE DEF D, Q, W, L
    <2>6. \A x : x \in FdHolders(f) <=> AtD(x) \/ AtQ(x) \/ AtW(x) \/ AtL(x)
      <3> HIDE DEF AtD, AtQ, AtW, AtL
      <3>1. QED
        BY <2>1, <2>2, <2>3, <2>4, <2>5
    <2>7. QED
      BY <2>6, Zenon
  <1>3. (FdHolders(f) # {}) <=> InDispatch(f) \/ IsQueued(f) \/ IsHeld(f) \/ IsWatched(f)
    BY <1>2 DEF InDispatch, IsQueued, IsHeld, IsWatched
  <1>4. ASSUME NEW x \in FdHolders(f), NEW y \in FdHolders(f)
        PROVE  x = y
    <2>1. CASE InDispatch(f)
      BY <1>2, <2>1 DEF FdPlaces, IsQueued, IsHeld, IsWatched
    <2>2. CASE IsQueued(f)
      BY <1>2, <2>2 DEF FdPlaces, FdOnce, InDispatch, IsHeld, IsWatched
    <2>3. CASE IsHeld(f)
      BY <1>2, <2>3 DEF FdPlaces, FdOnce, InDispatch, IsQueued, IsWatched
    <2>4. CASE IsWatched(f)
      BY <1>2, <2>4 DEF FdPlaces, FdOnce, InDispatch, IsQueued, IsHeld
    <2>5. QED
      BY <1>3, <2>1, <2>2, <2>3, <2>4
  <1>5. QED
    BY <1>3, <1>4 DEF FdPlaces, ExactlyOne

\* From accept to close every open socket has exactly one owner among the main
\* thread, the queues, the workers and the event bases, and a closed one has
\* none, although the kernel reuses its number at once.
THEOREM SocketsExclusive == Spec => []FdExclusive
  BY Invariance, FdPlacesExclusive, PTL
=============================================================================
