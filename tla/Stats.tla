-------------------------------- MODULE Stats --------------------------------
(***************************************************************************)
(* The per-client statistics (stats.c, locking.h): a hash map of reference *)
(* counted client_stats that every worker searches and extends from        *)
(* conn_new and releases from conn_close, and that the main thread fills   *)
(* with test users before the server listens.  The map has a lock that     *)
(* nobody takes, so each access to shared memory is a step, each store     *)
(* that fills in a new entry too; a reference count is changed under its   *)
(* entry's own lock and is one step.                                       *)
(*                                                                         *)
(* The connection counters, which only the stats command reports, are left *)
(* out; the requests counter is in Connection.  Sockets, events and the    *)
(* free list are in Dispatch.                                              *)
(***************************************************************************)
EXTENDS Integers, Sequences, FiniteSets

CONSTANTS
    Workers,      \* the worker threads
    Main,         \* the main thread
    Ids,          \* client ids, drawn with rand()
    KeyOf,        \* [Ids -> buckets]: client_id % map_size
    Conns,        \* conn structures
    Entries,      \* addresses of client_stats structures
    TestUsers,    \* the ids stat_test_data draws
    RefMod,       \* 2^16: refcnt is an unsigned short
    ZeroId,       \* the client id 0, which calloc leaves in a new entry
    Reorder,      \* TRUE: the stores that fill in and publish an entry, which
                  \* nothing orders, may be seen in any order
    Faults,       \* TRUE: event_add may fail in conn_new
    Removal,      \* TRUE: rm_client_stats is used (the program has no caller),
                  \* by one thread at a time and while no other is in the map
    MaxOpens,     \* bound: connections opened in all
    Null

ASSUME StatsAssumption ==
    /\ Main \notin Workers
    /\ IsFiniteSet(Workers) /\ IsFiniteSet(Conns) /\ IsFiniteSet(Entries)
    /\ KeyOf \in [Ids -> Nat]
    /\ TestUsers \in Seq(Ids)
    /\ ZeroId \in Ids
    /\ MaxOpens \in Nat
    /\ RefMod \in Nat
    /\ RefMod > Cardinality(Conns) + Cardinality(Workers) + 2 + (IF Faults THEN MaxOpens ELSE 0)
    /\ Reorder \in BOOLEAN /\ Faults \in BOOLEAN /\ Removal \in BOOLEAN
    /\ Null \notin Ids \cup Conns \cup Entries \cup Workers \cup {Main}

Threads == Workers \cup {Main}
Buckets == {KeyOf[i] : i \in Ids}

VARIABLES
    map,          \* [Buckets]: s->map, the first entry of each chain
    alloc,        \* allocated entries
    cid, refcnt, next,  \* [Entries]: the entry's fields
    stored,       \* [Entries]: which of the stores of its insertion are visible
    stats,        \* [Conns]: c->stats
    owner,        \* [Conns]: the worker in whose event base c is live, or Null
    thr,          \* [Threads]: program counter and locals
    testing,      \* test users still to be generated
    opens,        \* connections opened so far
    removed,      \* history: entries taken out by rm_client_stats
    leaked,       \* [Entries], history: references failed conn_news did not give back
    disturbed,    \* history: two threads were in one bucket, or removing the
                  \* first entry of a chain emptied the bucket
    overtaken     \* history: a lookup matched an entry not yet completely stored

fields == <<cid, refcnt, next, stored>>
history == <<removed, leaked, disturbed, overtaken>>
vars == <<map, alloc, fields, stats, owner, thr, testing, opens, history>>

Idle == [pc |-> "idle", job |-> "none", want |-> Null, cs |-> Null, prev |-> Null,
         seen |-> Null, conn |-> Null]

\* new_stats, and no connection yet
Init ==
    /\ map = [b \in Buckets |-> Null]
    /\ alloc = {}
    /\ cid = [e \in Entries |-> ZeroId] /\ next = [e \in Entries |-> Null]
    /\ refcnt = [e \in Entries |-> 0] /\ stored = [e \in Entries |-> {}]
    /\ stats = [c \in Conns |-> Null] /\ owner = [c \in Conns |-> Null]
    /\ thr = [t \in Threads |-> Idle]
    /\ testing = TestUsers
    /\ opens = 0
    /\ removed = {} /\ leaked = [e \in Entries |-> 0]
    /\ disturbed = FALSE /\ overtaken = FALSE

At(t, pc) == thr[t].pc = pc
Move(t, pc) == thr' = [thr EXCEPT ![t].pc = pc]
Return(t) == thr' = [thr EXCEPT ![t] = Idle]

-----------------------------------------------------------------------------
(* get_client_stats *)

\* Threads between reading a bucket and the end of their search or insertion.
InTheMap == {u \in Threads : thr[u].pc \in {"lookup", "insert", "incr", "unlink"}}

\* A thread enters get_client_stats or rm_client_stats and reads the bucket.
Enter(t, job, i, c) ==
    /\ At(t, "idle")
    /\ job = "remove" => InTheMap = {}
    /\ \A u \in InTheMap : thr[u].job # "remove"
    /\ disturbed' = (disturbed \/ \E u \in InTheMap : KeyOf[thr[u].want] = KeyOf[i])
    /\ UNCHANGED <<removed, leaked, overtaken>>
    /\ thr' = [thr EXCEPT ![t] = [pc |-> "lookup", job |-> job, want |-> i,
                                  cs |-> map[KeyOf[i]], prev |-> Null,
                                  seen |-> Null, conn |-> c]]

\* main listens only after stat_test_data has returned.
Listening == testing = <<>> /\ At(Main, "idle")

\* conn_new, for a connection of client i in an unused structure
ConnNew(t) ==
    /\ t \in Workers
    /\ Listening
    /\ opens < MaxOpens
    /\ opens' = opens + 1
    /\ \E c \in Conns, i \in Ids :
        /\ owner[c] = Null
        /\ \A u \in Threads : thr[u].conn # c
        /\ Enter(t, "open", i, c)
    /\ UNCHANGED <<map, alloc, fields, stats, owner, testing>>

\* stat_test_data, before any connection is accepted
TestUser ==
    /\ testing # <<>>
    /\ Enter(Main, "test", Head(testing), Null)
    /\ testing' = Tail(testing)
    /\ UNCHANGED <<map, alloc, fields, stats, owner, opens>>

\* the entry of the client looked for
MatchesKey(e, i) == cid[e] = KeyOf[i]    \* mutant: compared with the bucket's key
Matches(e, i) == cid[e] = i

\* The assignments to a new entry and to its bucket, in the order of the code.
StoreOrder == <<"id", "refs", "next", "map">>
Stores == {"id", "refs", "next", "map"}

Walk(t) ==
    LET me == thr[t] IN
    /\ At(t, "lookup")
    /\ me.cs # Null
    /\ ~Matches(me.cs, me.want)
    /\ thr' = [thr EXCEPT ![t].prev = IF me.job = "remove" THEN me.cs ELSE @,
                          ![t].cs = next[me.cs]]
    /\ UNCHANGED <<map, alloc, fields, stats, owner, testing, opens, history>>

Found(t) ==
    LET me == thr[t] IN
    /\ At(t, "lookup")
    /\ me.cs # Null
    /\ Matches(me.cs, me.want)
    /\ Move(t, IF me.job = "remove" THEN "unlink" ELSE "incr")
    /\ overtaken' = (overtaken \/ stored[me.cs] # Stores)
    /\ UNCHANGED <<map, alloc, fields, stats, owner, testing, opens, removed, leaked, disturbed>>

\* A new entry, all zero, and the head of the chain it will point to.
NotFound(t) ==
    LET me == thr[t] IN
    /\ At(t, "lookup")
    /\ me.cs = Null
    /\ me.job # "remove"
    /\ \E e \in Entries \ alloc :
        /\ alloc' = alloc \cup {e}
        /\ cid' = [cid EXCEPT ![e] = ZeroId]
        /\ refcnt' = [refcnt EXCEPT ![e] = 0]
        /\ next' = [next EXCEPT ![e] = Null]
        /\ stored' = [stored EXCEPT ![e] = {}]
        /\ leaked' = [leaked EXCEPT ![e] = 0]
        /\ removed' = removed \ {e}
        /\ thr' = [thr EXCEPT ![t].pc = "insert", ![t].cs = e,
                              ![t].seen = map[KeyOf[me.want]]]
    /\ UNCHANGED <<map, stats, owner, testing, opens, disturbed, overtaken>>

\* 1 for hashmap ref, one for return ref
OneRef == 1    \* mutant: the map's reference is not counted
InitialRefs == 2

AfterGet(t) == IF thr[t].job = "open" THEN "count" ELSE "decr"

\* what cs->next points to
LinkToSelf(t) == thr[t].cs    \* mutant: the head is read after it was replaced
LinkTo(t) == thr[t].seen

\* May x be the next store of e's insertion that the other threads see?
MayStore(e, x) ==
    /\ x \notin stored[e]
    /\ \A m, n \in DOMAIN StoreOrder :
        ~Reorder /\ StoreOrder[n] = x /\ m < n => StoreOrder[m] \in stored[e]

\* One store of the insertion: client_id, refcnt or next of the new entry, or
\* s->map[key], which publishes it.  After the last one get_client_stats returns.
Store(t) ==
    LET me == thr[t] IN
    /\ At(t, "insert")
    /\ \E x \in Stores :
        /\ MayStore(me.cs, x)
        /\ cid' = IF x = "id" THEN [cid EXCEPT ![me.cs] = me.want] ELSE cid
        /\ refcnt' = IF x = "refs" THEN [refcnt EXCEPT ![me.cs] = InitialRefs] ELSE refcnt
        /\ next' = IF x = "next" THEN [next EXCEPT ![me.cs] = LinkTo(t)] ELSE next
        /\ map' = IF x = "map" THEN [map EXCEPT ![KeyOf[me.want]] = me.cs] ELSE map
        /\ stored' = [stored EXCEPT ![me.cs] = @ \cup {x}]
        /\ Move(t, IF stored[me.cs] \cup {x} = Stores THEN AfterGet(t) ELSE "insert")
    /\ UNCHANGED <<alloc, stats, owner, testing, opens, history>>

\* one more reference, in an unsigned short
Up(n) == (n + 1) % RefMod

\* refcount_incr on the entry that was found
Incr(t) ==
    LET e == thr[t].cs IN
    /\ At(t, "incr")
    /\ refcnt' = [refcnt EXCEPT ![e] = Up(@)]
    /\ Move(t, AfterGet(t))
    /\ UNCHANGED <<map, alloc, cid, next, stored, stats, owner, testing, opens, history>>

-----------------------------------------------------------------------------
(* The rest of conn_new, conn_close, and rm_client_stats *)

\* conn_new keeps the reference in the connection.
CountForgets(t) ==    \* mutant: c->stats is not set
    /\ At(t, "count")
    /\ Move(t, "event_add")
    /\ UNCHANGED <<map, alloc, fields, stats, owner, testing, opens, history>>
Count(t) ==
    LET me == thr[t] IN
    /\ At(t, "count")
    /\ stats' = [stats EXCEPT ![me.conn] = me.cs]
    /\ Move(t, "event_add")
    /\ UNCHANGED <<map, alloc, fields, owner, testing, opens, history>>

\* If event_add fails the structure is given back, its reference is not.
EventAdd(t) ==
    /\ At(t, "event_add")
    /\ \/ owner' = [owner EXCEPT ![thr[t].conn] = t] /\ UNCHANGED leaked
       \/ Faults /\ leaked' = [leaked EXCEPT ![thr[t].cs] = @ + 1] /\ UNCHANGED owner
    /\ Return(t)
    /\ UNCHANGED <<map, alloc, fields, stats, testing, opens, removed, disturbed, overtaken>>

\* conn_close begins; live_connections is left as it is.
ConnClose(t) ==
    /\ At(t, "idle")
    /\ \E c \in Conns :
        /\ owner[c] = t
        /\ owner' = [owner EXCEPT ![c] = Null]
        /\ thr' = [thr EXCEPT ![t] = [Idle EXCEPT !.pc = "decr", !.job = "close",
                                                  !.cs = stats[c], !.conn = c]]
    /\ UNCHANGED <<map, alloc, fields, stats, testing, opens, history>>

\* who frees an entry whose last reference it gave up
LastUserOfTwo(res) == res <= 1    \* mutant: frees one reference early
LastUser(res) == res = 0

\* refcount_decr; stat_test_data ignores the result
Decr(t) ==
    LET me == thr[t]
        res == (refcnt[me.cs] - 1) % RefMod
    IN  /\ At(t, "decr")
        /\ refcnt' = [refcnt EXCEPT ![me.cs] = res]
        /\ IF LastUser(res) /\ me.job # "test" THEN Move(t, "free") ELSE Return(t)
        /\ stats' = IF me.job = "close" THEN [stats EXCEPT ![me.conn] = Null] ELSE stats
        /\ UNCHANGED <<map, alloc, cid, next, stored, owner, testing, opens, history>>

\* free_client_stats
Free(t) ==
    /\ At(t, "free")
    /\ alloc' = alloc \ {thr[t].cs}
    /\ Return(t)
    /\ UNCHANGED <<map, fields, stats, owner, testing, opens, history>>

RmClientStats(t) ==
    /\ Removal
    /\ t \in Workers
    /\ Listening
    /\ \E i \in Ids : Enter(t, "remove", i, Null)
    /\ UNCHANGED <<map, alloc, fields, stats, owner, testing, opens>>

\* rm_client_stats finds no entry of that client.
NothingToRemove(t) ==
    /\ At(t, "lookup")
    /\ thr[t].cs = Null
    /\ thr[t].job = "remove"
    /\ Return(t)
    /\ UNCHANGED <<map, alloc, fields, stats, owner, testing, opens, history>>

\* The entry is taken out of its chain; removing the first one empties the bucket.
Unlink(t) ==
    LET me == thr[t] IN
    /\ At(t, "unlink")
    /\ IF me.prev = Null
       THEN map' = [map EXCEPT ![KeyOf[me.want]] = Null] /\ UNCHANGED next
       ELSE next' = [next EXCEPT ![me.prev] = next[me.cs]] /\ UNCHANGED map
    /\ removed' = removed \cup {me.cs}
    /\ disturbed' = (disturbed \/ (me.prev = Null /\ next[me.cs] # Null))
    /\ Move(t, "decr")
    /\ UNCHANGED <<alloc, cid, refcnt, stored, stats, owner, testing, opens, leaked, overtaken>>

-----------------------------------------------------------------------------
GetClientStats(t) == Walk(t) \/ Found(t) \/ NotFound(t) \/ Store(t) \/ Incr(t)

Next ==
    \/ TestUser
    \/ \E t \in Threads :
        \/ ConnNew(t) \/ GetClientStats(t) \/ Count(t) \/ EventAdd(t)
        \/ ConnClose(t) \/ Decr(t) \/ Free(t)
        \/ RmClientStats(t) \/ NothingToRemove(t) \/ Unlink(t)

Spec == Init /\ [][Next]_vars
-----------------------------------------------------------------------------
(* Properties *)

PCs == {"idle", "lookup", "insert", "incr", "count", "event_add", "decr", "free", "unlink"}

\* Every field has a value of its C type, and no pointer that get_client_stats,
\* conn_new, conn_close or rm_client_stats follows without a test is NULL: a
\* thread past its search has an entry, and a live connection has statistics.
TypeOK ==
    /\ map \in [Buckets -> Entries \cup {Null}]
    /\ alloc \subseteq Entries
    /\ cid \in [Entries -> Ids]
    /\ refcnt \in [Entries -> 0..RefMod - 1]
    /\ next \in [Entries -> Entries \cup {Null}]
    /\ stored \in [Entries -> SUBSET Stores]
    /\ stats \in [Conns -> Entries \cup {Null}]
    /\ owner \in [Conns -> Workers \cup {Null}]
    /\ thr \in [Threads -> [pc : PCs, job : {"none", "open", "test", "close", "remove"},
                            want : Ids \cup {Null}, cs : Entries \cup {Null},
                            prev : Entries \cup {Null}, seen : Entries \cup {Null},
                            conn : Conns \cup {Null}]]
    /\ testing \in Seq(Ids)
    /\ opens \in 0..MaxOpens
    /\ removed \subseteq Entries /\ leaked \in [Entries -> 0..MaxOpens]
    /\ disturbed \in BOOLEAN /\ overtaken \in BOOLEAN
    /\ \A t \in Threads : thr[t].pc \notin {"idle", "lookup"} => thr[t].cs # Null
    /\ \A c \in Conns : owner[c] # Null => stats[c] # Null

\* The n-th pointer of a bucket's chain.
Hop(b) ==
    LET hop[n \in 0..Cardinality(Entries)] ==
            IF n = 0 THEN map[b]
            ELSE IF hop[n - 1] = Null THEN Null ELSE next[hop[n - 1]]
    IN  hop

Chain(b) == {Hop(b)[n] : n \in 0..Cardinality(Entries)} \ {Null}
InMap == UNION {Chain(b) : b \in Buckets}

\* The entry is not completely stored yet, or on its way out of the map or of memory.
Unsettled(e) == \E t \in Threads :
    thr[t].cs = e /\ thr[t].pc \in {"insert", "unlink", "free"}

\* Whatever the workers do to it without a lock, every chain ends, holds only
\* allocated entries, and its settled entries are of its own bucket: a lookup
\* terminates and reads no freed memory.  Unless a lookup has matched an entry
\* before all its stores were visible.
ChainsSound ==
    ~overtaken =>
        \A b \in Buckets :
            /\ Hop(b)[Cardinality(Entries)] = Null
            /\ \A e \in Chain(b) : e \in alloc /\ (~Unsettled(e) => KeyOf[cid[e]] = b)

LiveConns(e) == {c \in Conns : owner[c] # Null /\ stats[c] = e}

\* Threads that own a reference to e in a local variable.
LocalRefs(e) == {t \in Threads : thr[t].cs = e
                                 /\ thr[t].pc \in {"count", "event_add", "decr"}}

\* A settled entry's count is exactly "1 for hashmap ref" until it is removed,
\* "one for return ref" of each call of get_client_stats that a live connection or
\* a local variable still holds (stats.c), and one for each connection whose
\* event_add failed; and the statistics of a live connection are allocated.
RefsAsCommented ==
    /\ \A e \in alloc : ~Unsettled(e) =>
        refcnt[e] = Cardinality(LiveConns(e)) + Cardinality(LocalRefs(e)) + leaked[e]
                    + (IF e \in removed THEN 0 ELSE 1)
    /\ \A c \in Conns : owner[c] # Null => stats[c] \in alloc

\* Lost map slots, concurrent lookups and stores seen out of order never unbalance
\* a count, and it never wraps around, as long as no lookup matches an entry before
\* all its stores are visible.  So the statistics of a live connection are never
\* freed under it.
RefcountExact == ~overtaken => RefsAsCommented

\* Unless two threads were in one bucket at once, or the first entry of a chain
\* was removed, the map between insertions holds one entry per client and a live
\* connection's entry is in it (or was removed), as get_client_stats promises
\* ("the stats for a particular client"): connections of one client share their
\* statistics.
SharedByClient ==
    ~disturbed /\ (\A t \in Threads : ~At(t, "insert")) =>
        /\ \A e, f \in InMap : cid[e] = cid[f] => e = f
        /\ \A c \in Conns : owner[c] # Null => stats[c] \in InMap \cup removed
=============================================================================
