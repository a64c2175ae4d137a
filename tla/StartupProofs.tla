----------------------------- MODULE StartupProofs -----------------------------
(***************************************************************************)
(* Invariants of Startup, proved for any number of workers, backends and   *)
(* addresses, with and without failures.                                   *)
(*                                                                         *)
(* The argument: init_count is the number of workers past                  *)
(* register_thread_initialized, so that it reaches NThreads only when no   *)
(* worker is left out, and main waits only while it is below that.         *)
(***************************************************************************)
EXTENDS Startup, FiniteSetTheorems, SequenceTheorems, TLAPS

USE StartupAssumption

\* The workers that have been counted.
Registered == {w \in Workers : wpc[w] \in {"unlock", "event_loop"}}

\* What the main thread has done so far, phase by phase.
Phases ==
    /\ mpc \in {"setup", "backends", "create"} => i \in Workers
    /\ mpc \in {"setup", "backends"} => \A w \in Workers : wpc[w] \in {"none", "ready"}
    /\ mpc = "setup" => \A w \in Workers : w < i => wpc[w] = "ready"
    /\ mpc = "backends" => \A w \in Workers : w <= i => wpc[w] = "ready"
    /\ mpc = "create" => \A w \in Workers : IF w < i THEN wpc[w] \notin {"none", "ready"}
                                                     ELSE wpc[w] = "ready"
    /\ mpc \in {"lock", "wait", "listen", "event_loop"} =>
          \A w \in Workers : wpc[w] \notin {"none", "ready"}
    /\ mpc \in {"lock", "wait"} => i = 0

\* A listening connection for each success, at most one per address.
Listening ==
    /\ listeners = success
    /\ mpc \in {"listen", "event_loop"} => i <= NAddrs /\ success <= i
    /\ mpc \in {"setup", "backends", "create", "lock", "wait"} => success = 0
    /\ mpc = "event_loop" => success # 0

\* Who holds init_lock.
LockHeld ==
    /\ init_lock = Main => mpc = "wait" /\ ~waiting
    /\ \A w \in Workers : wpc[w] \in {"register", "unlock"} <=> init_lock = w

\* The count is exact; main waits only while it is too low.
Counted ==
    /\ init_count = Cardinality(Registered)
    /\ waiting => mpc = "wait" /\ init_count < NThreads
    /\ mpc \in {"listen", "event_loop"} => init_count >= NThreads

IInv == TypeOK /\ Phases /\ Listening /\ LockHeld /\ Counted
-----------------------------------------------------------------------------
(* Lemmas *)

\* The loops of thread_init go from one worker to the next and back to the first.
LEMMA NextIndex ==
    ASSUME NEW n \in Workers
    PROVE  (n + 1) % NThreads = IF n = NThreads - 1 THEN 0 ELSE n + 1
  BY DEF Workers

\* Any workers can be counted, and are all of them when there are NThreads.
LEMMA WorkerCount ==
    ASSUME NEW S \in SUBSET Workers
    PROVE  /\ IsFiniteSet(S)
           /\ Cardinality(S) \in 0..NThreads
           /\ Cardinality(S) >= NThreads <=> S = Workers
  <1>1. 0 \in Int /\ NThreads - 1 \in Int
    OBVIOUS
  <1>2. IsFiniteSet(Workers) /\ Cardinality(Workers) = NThreads
    <2>1. /\ IsFiniteSet(0..NThreads - 1)
          /\ Cardinality(0..NThreads - 1) = IF 0 > NThreads - 1 THEN 0 ELSE NThreads - 1 - 0 + 1
      BY <1>1, FS_Interval
    <2>2. QED
      BY <2>1 DEF Workers
  <1>3. /\ IsFiniteSet(S)
        /\ Cardinality(S) <= Cardinality(Workers)
        /\ Cardinality(Workers) = Cardinality(S) => Workers = S
    BY <1>2, FS_Subset
  <1>4. Cardinality(S) \in Nat
    BY <1>3, FS_CardinalityType
  <1>5. QED
    BY <1>2, <1>3, <1>4

\* The registered workers stay the same when none registers.
LEMMA SameRegistered ==
    ASSUME \A w \in Workers : wpc'[w] \in {"unlock", "event_loop"}
                              <=> wpc[w] \in {"unlock", "event_loop"}
    PROVE  Registered' = Registered
  BY DEF Registered

\* register_thread_initialized adds one to the registered workers.
LEMMA OneRegisters ==
    ASSUME NEW w \in Workers, TypeOK, wpc[w] = "register",
           wpc' = [wpc EXCEPT ![w] = "unlock"]
    PROVE  Cardinality(Registered') = Cardinality(Registered) + 1
  <1>1. Registered' = Registered \cup {w} /\ w \notin Registered
    BY DEF Registered, TypeOK
  <1>2. IsFiniteSet(Registered)
    BY WorkerCount DEF Registered
  <1>3. Cardinality(Registered \cup {w}) =
          IF w \in Registered THEN Cardinality(Registered) ELSE Cardinality(Registered) + 1
    BY <1>2, FS_AddElement
  <1>4. QED
    BY <1>1, <1>3
-----------------------------------------------------------------------------
(* Every step of the main thread preserves the invariant *)

\* The types of the variables that a step leaves alone, and the identities.
LEMMA Apart == Main \notin Workers /\ Nobody \notin Workers /\ Main # Nobody
  BY DEF Workers

\* thread_init: setting up, connecting, creating.
LEMMA SetupStep ==
    ASSUME IInv, SetupThread \/ MemcacheConnect \/ ThreadIsSetUp \/ CreateWorker
    PROVE  IInv'
  <1> USE DEF IInv
  <1> DEFINE WorkerPCs == {"none", "ready", "created", "register", "unlock", "event_loop"}
  <1>1. wpc \in [Workers -> WorkerPCs] /\ i \in Workers /\ i \in Nat
    BY DEF TypeOK, Phases, SetupThread, MemcacheConnect, ThreadIsSetUp, CreateWorker, Workers
  <1>2. UNCHANGED <<init_lock, init_count, waiting, listeners, success>>
    BY DEF SetupThread, MemcacheConnect, ThreadIsSetUp, CreateWorker, barrier, sockets
  <1>3. ~waiting /\ init_lock # Main
    BY DEF SetupThread, MemcacheConnect, ThreadIsSetUp, CreateWorker, Counted, LockHeld
  <1>4. CASE SetupThread
    <2>1. UNCHANGED <<i, memcache, hosts, unclosed>>
      BY <1>4 DEF SetupThread
    <2>2. CASE mpc' = "backends" /\ backend' = 0 /\ wpc' = [wpc EXCEPT ![i] = "ready"]
      <3>0. wpc' \in [Workers -> WorkerPCs] /\ backend' \in 0..NBackends
        BY <1>1, <2>2
      <3>1. TypeOK'
        BY <1>2, <2>1, <2>2, <3>0 DEF TypeOK, MainPCs
      <3>2. \A w \in Workers : wpc[w] \in {"none", "ready"} /\ wpc'[w] \in {"none", "ready"}
        BY <1>1, <1>4, <2>2 DEF SetupThread, Phases
      <3>3. Phases'
        BY <1>1, <1>4, <2>1, <2>2, <3>2 DEF SetupThread, Phases, Workers
      <3>4. Listening'
        BY <1>2, <1>4, <2>2 DEF SetupThread, Listening
      <3>5. LockHeld'
        BY <1>2, <1>3, <3>2 DEF LockHeld
      <3>6. Registered' = Registered
        BY <3>2, SameRegistered
      <3>7. Counted'
        BY <1>2, <1>3, <2>2, <3>6 DEF Counted
      <3>8. QED
        BY <3>1, <3>3, <3>4, <3>5, <3>7
    <2>3. CASE mpc' = "exited" /\ UNCHANGED <<wpc, backend>>
      <3>1. TypeOK'
        BY <1>2, <2>1, <2>3 DEF TypeOK, MainPCs
      <3>2. Phases' /\ Listening' /\ LockHeld'
        BY <1>2, <1>3, <2>1, <2>3 DEF Phases, Listening, LockHeld
      <3>3. Counted'
        BY <1>2, <1>3, <2>3 DEF Counted, Registered
      <3>4. QED
        BY <3>1, <3>2, <3>3
    <2>4. QED
      BY <1>4, <2>2, <2>3 DEF SetupThread, Exit
  <1>5. CASE MemcacheConnect
    <2>1. /\ UNCHANGED <<mpc, i, wpc>>
          /\ backend \in 0..NBackends /\ backend < NBackends
          /\ backend' = backend + 1 /\ hosts' = hosts \ {backend}
      BY <1>5 DEF MemcacheConnect, TypeOK
    <2>2. memcache' \in [Workers -> Seq([host : 0..NBackends - 1, port : {"own", "default"}])]
      <3> DEFINE M == [host : 0..NBackends - 1, port : {"own", "default"}]
                 m == [host |-> backend, port |-> PortOf(backend)]
      <3>1. m \in M
        BY <2>1 DEF PortOf
      <3>2. memcache \in [Workers -> Seq(M)]
        BY DEF TypeOK
      <3>3. memcache' = memcache \/ memcache' = [memcache EXCEPT ![i] = Append(@, m)]
        BY <1>5 DEF MemcacheConnect
      <3> HIDE DEF M, m
      <3>4. Append(memcache[i], m) \in Seq(M)
        BY <1>1, <3>1, <3>2, AppendProperties
      <3>5. QED
        BY <1>1, <3>2, <3>3, <3>4 DEF M
    <2>3. unclosed' \in Nat
      BY <1>5 DEF MemcacheConnect, TypeOK
    <2>4. TypeOK'
      <3>1. backend' \in 0..NBackends /\ hosts' \subseteq Ported
        BY <2>1 DEF TypeOK
      <3>2. UNCHANGED <<mpc, i, wpc, init_lock, init_count, waiting, listeners, success>>
        BY <1>2, <2>1
      <3>3. QED
        BY <2>2, <2>3, <3>1, <3>2 DEF TypeOK
    <2>5. Phases' /\ Listening' /\ LockHeld'
      BY <1>2, <2>1 DEF Phases, Listening, LockHeld
    <2>6. Counted'
      BY <1>2, <2>1 DEF Counted, Registered
    <2>7. QED
      BY <2>4, <2>5, <2>6
  <1>6. CASE ThreadIsSetUp
    <2>1. /\ mpc = "backends" /\ i' = (i + 1) % NThreads
          /\ mpc' = IF i' = 0 THEN "create" ELSE "setup"
          /\ UNCHANGED <<wpc, backend, memcache, hosts, unclosed>>
      BY <1>6 DEF ThreadIsSetUp, threads
    <2>2. i' = IF i = NThreads - 1 THEN 0 ELSE i + 1
      BY <1>1, <2>1, NextIndex
    <2>3. i' \in Workers /\ i' \in 0..NThreads + NAddrs /\ mpc' \in {"create", "setup"}
      BY <1>1, <2>1, <2>2 DEF Workers
    <2>4. TypeOK'
      BY <1>2, <2>1, <2>3 DEF TypeOK, MainPCs
    <2>5. Phases'
      <3>1. \A w \in Workers : wpc[w] \in {"none", "ready"} /\ (w <= i => wpc[w] = "ready")
        BY <2>1 DEF Phases
      <3>2. CASE i = NThreads - 1
        <4>1. i' = 0 /\ mpc' = "create" /\ \A w \in Workers : wpc'[w] = "ready" /\ ~(w < i')
          BY <2>1, <2>2, <3>1, <3>2 DEF Workers
        <4>2. QED
          BY <2>3, <4>1 DEF Phases
      <3>3. CASE i # NThreads - 1
        <4>1. i' = i + 1 /\ mpc' = "setup"
          BY <1>1, <2>1, <2>2, <3>3
        <4>2. \A w \in Workers : w < i' => wpc'[w] = "ready"
          BY <1>1, <2>1, <3>1, <4>1 DEF Workers
        <4>3. QED
          BY <2>1, <2>3, <3>1, <4>1, <4>2 DEF Phases
      <3>4. QED
        BY <3>2, <3>3
    <2>6. Listening' /\ LockHeld'
      BY <1>2, <1>3, <2>1, <2>3 DEF Listening, LockHeld
    <2>7. Counted'
      BY <1>2, <1>3, <2>1, <2>3 DEF Counted, Registered
    <2>8. QED
      BY <2>4, <2>5, <2>6, <2>7
  <1>7. CASE CreateWorker
    <2>1. mpc = "create" /\ UNCHANGED <<backend, memcache, hosts, unclosed>>
      BY <1>7 DEF CreateWorker
    <2>2. CASE /\ wpc' = [wpc EXCEPT ![i] = "created"]
               /\ i' = (i + 1) % NThreads
               /\ mpc' = IF i' = 0 THEN "lock" ELSE "create"
      <3>1. i' = IF i = NThreads - 1 THEN 0 ELSE i + 1
        BY <1>1, <2>2, NextIndex
      <3>2. i' \in Workers /\ i' \in 0..NThreads + NAddrs /\ mpc' \in {"lock", "create"}
        BY <1>1, <2>2, <3>1 DEF Workers
      <3>3. wpc' \in [Workers -> WorkerPCs]
        BY <1>1, <2>2
      <3>4. TypeOK'
        BY <1>2, <2>1, <3>2, <3>3 DEF TypeOK, MainPCs
      <3>5. wpc[i] = "ready"
        BY <1>1, <2>1 DEF Phases
      <3>6. \A w \in Workers : wpc'[w] = IF w = i THEN "created" ELSE wpc[w]
        BY <1>1, <2>2
      <3>7. Phases'
        <4>1. \A w \in Workers : IF w < i THEN wpc[w] \notin {"none", "ready"} ELSE wpc[w] = "ready"
          BY <2>1 DEF Phases
        <4>2. CASE i = NThreads - 1
          <5>1. i' = 0 /\ mpc' = "lock" /\ \A w \in Workers : wpc'[w] \notin {"none", "ready"}
            BY <2>2, <3>1, <3>6, <4>1, <4>2 DEF Workers
          <5>2. QED
            BY <5>1 DEF Phases
        <4>3. CASE i # NThreads - 1
          <5>1. i' = i + 1 /\ mpc' = "create"
            BY <1>1, <2>2, <3>1, <4>3
          <5>2. \A w \in Workers : IF w < i' THEN wpc'[w] \notin {"none", "ready"}
                                             ELSE wpc'[w] = "ready"
            BY <1>1, <3>6, <4>1, <5>1 DEF Workers
          <5>3. QED
            BY <3>2, <5>1, <5>2 DEF Phases
        <4>4. QED
          BY <4>2, <4>3
      <3>8. Listening'
        BY <1>2, <2>1, <3>2 DEF Listening
      <3>9. LockHeld'
        BY <1>2, <1>3, <3>5, <3>6 DEF LockHeld
      <3>10. Registered' = Registered
        BY <3>5, <3>6, SameRegistered
      <3>11. Counted'
        BY <1>2, <1>3, <3>2, <3>10 DEF Counted
      <3>12. QED
        BY <3>4, <3>7, <3>8, <3>9, <3>11
    <2>3. CASE mpc' = "exited" /\ UNCHANGED <<wpc, i>>
      <3>1. TypeOK'
        BY <1>2, <2>1, <2>3 DEF TypeOK, MainPCs
      <3>2. Phases' /\ Listening' /\ LockHeld'
        BY <1>2, <1>3, <2>1, <2>3 DEF Phases, Listening, LockHeld
      <3>3. Counted'
        BY <1>2, <1>3, <2>3 DEF Counted, Registered
      <3>4. QED
        BY <3>1, <3>2, <3>3
    <2>4. QED
      BY <1>7, <2>2, <2>3 DEF CreateWorker, Exit
  <1>8. QED
    BY <1>4, <1>5, <1>6, <1>7

\* The barrier: main takes init_lock, waits, is woken.
LEMMA BarrierStep ==
    ASSUME IInv, LockInit \/ CondWait \/ Relock \/ SpuriousWakeup
    PROVE  IInv'
  <1> USE DEF IInv
  <1>1. UNCHANGED <<i, wpc, backend, memcache, hosts, init_count, listeners, success, unclosed>>
    BY DEF LockInit, CondWait, Relock, SpuriousWakeup, threads, sockets
  <1>2. Registered' = Registered
    BY <1>1, SameRegistered
  <1>3. CASE LockInit
    <2>1. /\ mpc = "lock" /\ mpc' = "wait" /\ waiting' = waiting
          /\ init_lock = Nobody /\ init_lock' = Main
      BY <1>3 DEF LockInit
    <2>2. ~waiting
      BY <2>1 DEF Counted
    <2>3. TypeOK'
      BY <1>1, <2>1 DEF TypeOK, MainPCs
    <2>4. Phases' /\ Listening'
      BY <1>1, <2>1 DEF Phases, Listening
    <2>5. LockHeld'
      BY <1>1, <2>1, <2>2, Apart DEF LockHeld
    <2>6. Counted'
      BY <1>1, <1>2, <2>1, <2>2 DEF Counted
    <2>7. QED
      BY <2>3, <2>4, <2>5, <2>6
  <1>4. CASE CondWait
    <2>1. /\ mpc = "wait" /\ ~waiting /\ init_lock = Main /\ init_lock' = Nobody
          /\ IF AllRegistered THEN mpc' = "listen" /\ waiting' = waiting
                              ELSE mpc' = "wait" /\ waiting'
      BY <1>4 DEF CondWait
    <2>2. waiting' \in BOOLEAN
      BY <1>4, Zenon DEF CondWait, TypeOK
    <2>3. TypeOK'
      BY <1>1, <2>1, <2>2 DEF TypeOK, MainPCs
    <2>4. Phases'
      BY <1>1, <2>1 DEF Phases
    <2>5. Listening'
      BY <1>1, <2>1 DEF Listening, Phases
    <2>6. LockHeld'
      BY <1>1, <2>1, Apart DEF LockHeld
    <2>7. Counted'
      BY <1>1, <1>2, <2>1 DEF Counted, AllRegistered, TypeOK
    <2>8. QED
      BY <2>3, <2>4, <2>5, <2>6, <2>7
  <1>5. CASE Relock
    <2>1. /\ mpc = "wait" /\ mpc' = "wait" /\ ~waiting /\ waiting' = waiting
          /\ init_lock = Nobody /\ init_lock' = Main
      BY <1>5 DEF Relock
    <2>2. TypeOK'
      BY <1>1, <2>1 DEF TypeOK
    <2>3. Phases' /\ Listening'
      BY <1>1, <2>1 DEF Phases, Listening
    <2>4. LockHeld'
      BY <1>1, <2>1, Apart DEF LockHeld
    <2>5. Counted'
      BY <1>1, <1>2, <2>1 DEF Counted
    <2>6. QED
      BY <2>2, <2>3, <2>4, <2>5
  <1>6. CASE SpuriousWakeup
    <2>1. waiting /\ ~waiting' /\ UNCHANGED <<mpc, init_lock>>
      BY <1>6 DEF SpuriousWakeup
    <2>2. waiting' \in BOOLEAN
      BY <1>6, Zenon DEF SpuriousWakeup
    <2>3. TypeOK'
      BY <1>1, <2>1, <2>2 DEF TypeOK
    <2>4. Phases' /\ Listening' /\ LockHeld'
      BY <1>1, <2>1 DEF Phases, Listening, LockHeld
    <2>5. Counted'
      BY <1>1, <1>2, <2>1 DEF Counted
    <2>6. QED
      BY <2>3, <2>4, <2>5
  <1>7. QED
    BY <1>3, <1>4, <1>5, <1>6

\* worker_entry: a worker takes init_lock, registers, releases it.
LEMMA WorkerStep ==
    ASSUME IInv, NEW w \in Workers, WorkerEntry(w)
    PROVE  IInv'
  <1> USE DEF IInv
  <1> DEFINE WorkerPCs == {"none", "ready", "created", "register", "unlock", "event_loop"}
  <1>0. wpc \in [Workers -> WorkerPCs]
    BY DEF TypeOK
  <1>1. /\ mpc # "exited"
        /\ UNCHANGED <<mpc, i, backend, memcache, hosts, listeners, success, unclosed>>
    BY DEF WorkerEntry, RegisterLock, RegisterThreadInitialized, EnterEventLoop, Running, sockets
  <1>2. wpc[w] \in {"created", "register", "unlock"}
    BY DEF WorkerEntry, RegisterLock, RegisterThreadInitialized, EnterEventLoop
  <1>3. \E p \in {"register", "unlock", "event_loop"} : wpc' = [wpc EXCEPT ![w] = p]
    BY DEF WorkerEntry, RegisterLock, RegisterThreadInitialized, EnterEventLoop
  <1>4. wpc' \in [Workers -> WorkerPCs]
    BY <1>0, <1>3
  <1>5. \A v \in Workers : /\ v # w => wpc'[v] = wpc[v]
                           /\ wpc'[v] \in {"none", "ready"} <=> wpc[v] \in {"none", "ready"}
                           /\ wpc'[v] = "ready" <=> wpc[v] = "ready"
    BY <1>0, <1>2, <1>3
  <1>6. Phases' /\ Listening'
    BY <1>1, <1>5 DEF Phases, Listening
  <1>7. CASE RegisterLock(w)
    <2>1. /\ wpc[w] = "created" /\ wpc'[w] = "register"
          /\ init_lock = Nobody /\ init_lock' = w /\ UNCHANGED <<init_count, waiting>>
      BY <1>0, <1>7 DEF RegisterLock
    <2>2. TypeOK'
      BY <1>1, <1>4, <2>1 DEF TypeOK
    <2>3. LockHeld'
      BY <1>5, <2>1, Apart DEF LockHeld
    <2>4. Registered' = Registered
      BY <1>5, <2>1, SameRegistered
    <2>5. Counted'
      BY <1>1, <2>1, <2>4 DEF Counted
    <2>6. QED
      BY <1>6, <2>2, <2>3, <2>5
  <1>8. CASE RegisterThreadInitialized(w)
    <2>1. /\ wpc[w] = "register" /\ wpc'[w] = "unlock" /\ wpc' = [wpc EXCEPT ![w] = "unlock"]
          /\ init_count' = init_count + 1 /\ ~waiting' /\ UNCHANGED init_lock
      BY <1>0, <1>8 DEF RegisterThreadInitialized, Raise, Signal
    <2>2. Cardinality(Registered') = Cardinality(Registered) + 1
      BY <2>1, OneRegisters
    <2>3. Cardinality(Registered') \in 0..NThreads
      <3>1. Registered' \in SUBSET Workers
        BY DEF Registered
      <3>2. QED
        BY <3>1, WorkerCount
    <2>4. init_count' = Cardinality(Registered')
      BY <2>1, <2>2 DEF Counted
    <2>5. waiting' \in BOOLEAN
      BY <1>8, Zenon DEF RegisterThreadInitialized, Signal
    <2>6. TypeOK'
      BY <1>1, <1>4, <2>1, <2>3, <2>4, <2>5 DEF TypeOK
    <2>7. LockHeld'
      BY <1>1, <1>5, <2>1 DEF LockHeld
    <2>8. Counted'
      BY <1>1, <2>1, <2>4 DEF Counted, TypeOK
    <2>9. QED
      BY <1>6, <2>6, <2>7, <2>8
  <1>9. CASE EnterEventLoop(w)
    <2>1. /\ wpc[w] = "unlock" /\ wpc'[w] = "event_loop"
          /\ init_lock' = Nobody /\ UNCHANGED <<init_count, waiting>>
      BY <1>0, <1>9 DEF EnterEventLoop
    <2>2. init_lock = w
      BY <2>1 DEF LockHeld
    <2>3. TypeOK'
      BY <1>1, <1>4, <2>1 DEF TypeOK
    <2>4. LockHeld'
      BY <1>5, <2>1, <2>2, Apart DEF LockHeld
    <2>5. Registered' = Registered
      BY <1>5, <2>1, SameRegistered
    <2>6. Counted'
      BY <1>1, <2>1, <2>5 DEF Counted
    <2>7. QED
      BY <1>6, <2>3, <2>4, <2>6
  <1>10. QED
    BY <1>7, <1>8, <1>9 DEF WorkerEntry

\* server_socket: one address after the other.
LEMMA ListenStep ==
    ASSUME IInv, ServerSocket
    PROVE  IInv'
  <1> USE DEF IInv
  <1>1. /\ mpc = "listen"
        /\ UNCHANGED <<wpc, backend, memcache, hosts, init_lock, init_count, waiting, unclosed>>
    BY DEF ServerSocket, SkipAddress, ListenOn, ListenFails, Serve, threads, barrier
  <1>2. /\ i \in Nat /\ i <= NAddrs /\ success <= i /\ listeners = success /\ success \in Nat
        /\ init_lock # Main /\ ~waiting
    BY <1>1 DEF TypeOK, Listening, LockHeld, Counted
  <1>3. Registered' = Registered
    BY <1>1, SameRegistered
  <1>4. CASE SkipAddress \/ ListenOn
    <2>1. /\ i < NAddrs /\ i' = i + 1 /\ mpc' = "listen" /\ listeners' = success'
          /\ success' = success \/ success' = success + 1
      BY <1>1, <1>2, <1>4 DEF SkipAddress, ListenOn, sockets
    <2>2. /\ i' \in 0..NThreads + NAddrs /\ listeners' \in 0..NAddrs /\ success' \in 0..NAddrs
          /\ i' <= NAddrs /\ success' <= i'
      BY <1>2, <2>1
    <2>3. TypeOK'
      BY <1>1, <2>1, <2>2 DEF TypeOK
    <2>4. Phases' /\ LockHeld'
      BY <1>1, <2>1 DEF Phases, LockHeld
    <2>5. Listening'
      BY <2>1, <2>2 DEF Listening
    <2>6. Counted'
      BY <1>1, <1>3, <2>1 DEF Counted
    <2>7. QED
      BY <2>3, <2>4, <2>5, <2>6
  <1>5. CASE ListenFails \/ Serve
    <2>1. /\ mpc' \in {"exited", "event_loop"} /\ (mpc' = "event_loop" => success # 0)
          /\ UNCHANGED <<i, listeners, success>>
      BY <1>5 DEF ListenFails, Serve, Exit, sockets
    <2>2. TypeOK'
      BY <1>1, <2>1 DEF TypeOK, MainPCs
    <2>3. Phases'
      BY <1>1, <2>1 DEF Phases
    <2>4. LockHeld' /\ Listening'
      BY <1>1, <1>2, <2>1 DEF LockHeld, Listening
    <2>5. Counted'
      BY <1>1, <1>2, <1>3, <2>1 DEF Counted
    <2>6. QED
      BY <2>2, <2>3, <2>4, <2>5
  <1>6. QED
    BY <1>4, <1>5 DEF ServerSocket
-----------------------------------------------------------------------------
(* The theorems *)

LEMMA InitIInv == Init => IInv
  <1> SUFFICES ASSUME Init PROVE IInv
    OBVIOUS
  <1>1. 0 \in Workers /\ 0 \in 0..NThreads + NAddrs /\ 0 \in 0..NThreads /\ 0 \in 0..NBackends
        /\ 0 \in 0..NAddrs /\ \A w \in Workers : ~(w < 0)
    BY DEF Workers
  <1>2. waiting \in BOOLEAN
    BY Zenon DEF Init
  <1>3. TypeOK
    BY <1>1, <1>2 DEF Init, TypeOK, MainPCs
  <1>4. Phases /\ Listening
    BY <1>1 DEF Init, Phases, Listening
  <1>5. LockHeld
    BY Apart DEF Init, LockHeld
  <1>6. Registered = {}
    BY DEF Init, Registered
  <1>7. Counted
    BY <1>6, FS_EmptySet DEF Init, Counted
  <1>8. QED
    BY <1>3, <1>4, <1>5, <1>7 DEF IInv

\* The invariant of the whole argument.
THEOREM Invariance == Spec => []IInv
  <1>1. ASSUME IInv, UNCHANGED vars PROVE IInv'
    BY <1>1 DEF IInv, TypeOK, Phases, Listening, LockHeld, Counted, Registered,
                vars, threads, barrier, sockets
  <1>2. IInv /\ [Next]_vars => IInv'
    BY <1>1, SetupStep, BarrierStep, WorkerStep, ListenStep DEF Next, ThreadInit
  <1>3. QED
    BY InitIInv, <1>2, PTL DEF Spec

\* Every variable keeps its type; in particular no worker is counted twice by
\* register_thread_initialized.
THEOREM TypeCorrect == Spec => []TypeOK
  BY Invariance, PTL DEF IInv

\* thread_init returns, and main listens and accepts, only when every worker has
\* registered; main's event loop runs only with a listening connection.
THEOREM ReadyBeforeDispatch == Spec => []ReadyToDispatch
  <1>1. ASSUME IInv PROVE ReadyToDispatch
    <2>1. CASE mpc \in {"listen", "event_loop"}
      <3>1. Registered = Workers
        <4>1. Registered \in SUBSET Workers
          BY DEF Registered
        <4>2. Cardinality(Registered) >= NThreads
          BY <1>1, <2>1 DEF IInv, Counted
        <4>3. QED
          BY <4>1, <4>2, WorkerCount
      <3>2. mpc = "event_loop" => listeners > 0
        BY <1>1 DEF IInv, Listening, TypeOK
      <3>3. QED
        BY <3>1, <3>2 DEF ReadyToDispatch, Registered
    <2>2. QED
      BY <2>1 DEF ReadyToDispatch
  <1>2. QED
    BY Invariance, <1>1, PTL

\* No lost wakeup: whenever main is blocked in pthread_cond_wait, a worker that
\* is yet to signal exists.
THEOREM WakeupNeverLost == Spec => []WakeupPending
  <1>1. ASSUME IInv PROVE WakeupPending
    <2> SUFFICES ASSUME waiting PROVE \E w \in Workers : wpc[w] \in {"created", "register"}
      BY DEF WakeupPending
    <2>1. mpc = "wait" /\ Cardinality(Registered) < NThreads
      BY <1>1 DEF IInv, Counted
    <2>2. Registered # Workers
      <3>1. Registered \in SUBSET Workers
        BY DEF Registered
      <3>2. Cardinality(Registered) \in 0..NThreads /\ ~(Cardinality(Registered) >= NThreads)
        BY <2>1, <3>1, WorkerCount
      <3>3. QED
        BY <3>1, <3>2, WorkerCount
    <2>3. PICK w \in Workers : wpc[w] \notin {"unlock", "event_loop"}
      BY <2>2 DEF Registered
    <2>4. QED
      BY <1>1, <2>1, <2>3 DEF IInv, Phases, TypeOK
  <1>2. QED
    BY Invariance, <1>1, PTL
=============================================================================
