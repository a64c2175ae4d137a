------------------------------- MODULE Startup -------------------------------
(***************************************************************************)
(* Bringing the server up (main in server.c, thread_init and setup_thread  *)
(* in threads.c, memcache_connect in memcache_conn.c, server_socket in     *)
(* server.c): the main thread prepares one worker after the other and      *)
(* connects its backends, starts them all, waits at a condition variable   *)
(* until each has registered, opens the listening sockets and enters its   *)
(* event loop.  Every failure the code treats as fatal ends the process.   *)
(*                                                                         *)
(* Which backends and addresses work is chosen by the environment.  The    *)
(* test users of stat_test_data are in Stats.                              *)
(***************************************************************************)
EXTENDS Naturals, Sequences, SequencesExt

CONSTANTS
    NThreads,     \* config.threads
    NBackends,    \* config.backends.len
    Ported,       \* the backends named as "host:port", the others as "host"
    NAddrs,       \* addresses getaddrinfo returns for the port
    Faults,       \* TRUE: pipe, pthread_create, listen, conn_new ... may fail
    Main, Nobody  \* the main thread; no holder of init_lock

ASSUME StartupAssumption ==
    /\ NThreads \in Nat \ {0}
    /\ NBackends \in Nat /\ Ported \subseteq 0..NBackends - 1
    /\ NAddrs \in Nat \ {0}
    /\ Faults \in BOOLEAN
    /\ Main \notin Nat /\ Nobody \notin Nat /\ Main # Nobody

Workers == 0..NThreads - 1

VARIABLES
    mpc,          \* what the main thread is doing
    i,            \* loop index of thread_init, or of server_socket
    \* per worker
    wpc,          \* "none", "ready" (set up by main), then its own steps
    backend,      \* the backend setup_thread tries next
    memcache,     \* t->memcache: the backend and the port of each connection
    hosts,        \* the names in config.backends.hosts that still have a port
    \* the barrier
    init_lock,    \* its holder
    init_count,
    waiting,      \* main is blocked in pthread_cond_wait
    \* sockets
    listeners,    \* connections in conn_listening
    success,      \* server_socket's count
    unclosed      \* backend sockets whose descriptor is forgotten

threads == <<wpc, backend, memcache, hosts>>
barrier == <<init_lock, init_count, waiting>>
sockets == <<listeners, success>>
vars == <<mpc, i, threads, barrier, sockets, unclosed>>

Init ==
    /\ mpc = "setup" /\ i = 0
    /\ wpc = [w \in Workers |-> "none"]
    /\ backend = 0
    /\ memcache = [w \in Workers |-> <<>>] /\ hosts = Ported
    /\ init_lock = Nobody /\ init_count = 0 /\ waiting = FALSE
    /\ listeners = 0 /\ success = 0
    /\ unclosed = 0

\* exit() in any thread ends them all.
Running == mpc # "exited"
Exit == mpc' = "exited"

-----------------------------------------------------------------------------
(* thread_init *)

\* pipe, event_init, event_add of the notify event, conn_queue_new
SetupThread ==
    /\ mpc = "setup"
    /\ \/ /\ mpc' = "backends"
          /\ backend' = 0
          /\ wpc' = [wpc EXCEPT ![i] = "ready"]
       \/ Faults /\ Exit /\ UNCHANGED <<wpc, backend>>
    /\ UNCHANGED <<i, memcache, hosts, barrier, sockets, unclosed>>

\* The port memcache_connect uses: it cuts a name at its ':', so the name has
\* lost its port when the next worker comes to it.
PortOf(h) == IF h \in hosts THEN "own" ELSE "default"

\* memcache_connect: it succeeds, gives up before it has a socket or after it
\* closed it again, or forgets the socket (connect or conn_new failed).
MemcacheConnect ==
    /\ mpc = "backends"
    /\ backend < NBackends
    /\ backend' = backend + 1
    /\ hosts' = hosts \ {backend}
    /\ \/ /\ memcache' = [memcache EXCEPT ![i] = Append(@, [host |-> backend, port |-> PortOf(backend)])]
          /\ UNCHANGED unclosed
       \/ UNCHANGED <<memcache, unclosed>>
       \/ unclosed' = unclosed + 1 /\ UNCHANGED memcache
    /\ UNCHANGED <<mpc, i, wpc, barrier, sockets>>

\* setup_thread returns; when all threads are set up they are created.
ThreadIsSetUp ==
    /\ mpc = "backends"
    /\ backend = NBackends
    /\ i' = (i + 1) % NThreads
    /\ mpc' = IF i' = 0 THEN "create" ELSE "setup"
    /\ UNCHANGED <<threads, barrier, sockets, unclosed>>

\* create_worker
CreateWorker ==
    /\ mpc = "create"
    /\ \/ /\ wpc' = [wpc EXCEPT ![i] = "created"]
          /\ i' = (i + 1) % NThreads
          /\ mpc' = IF i' = 0 THEN "lock" ELSE "create"
       \/ Faults /\ Exit /\ UNCHANGED <<wpc, i>>
    /\ UNCHANGED <<backend, memcache, hosts, barrier, sockets, unclosed>>

LockInit ==
    /\ mpc = "lock"
    /\ init_lock = Nobody
    /\ init_lock' = Main
    /\ mpc' = "wait"
    /\ UNCHANGED <<i, threads, init_count, waiting, sockets, unclosed>>

AllButOne == init_count >= NThreads - 1    \* mutant: one thread not waited for
AllRegistered == init_count >= NThreads

\* The loop around pthread_cond_wait, which gives up the lock while it waits.
CondWait ==
    /\ mpc = "wait"
    /\ ~waiting
    /\ init_lock = Main
    /\ init_lock' = Nobody
    /\ IF AllRegistered
       THEN mpc' = "listen" /\ UNCHANGED waiting
       ELSE waiting' = TRUE /\ UNCHANGED mpc
    /\ UNCHANGED <<i, threads, init_count, sockets, unclosed>>

\* Woken by a signal, pthread_cond_wait takes the lock again.
Relock ==
    /\ mpc = "wait"
    /\ ~waiting
    /\ init_lock = Nobody
    /\ init_lock' = Main
    /\ UNCHANGED <<mpc, i, threads, init_count, waiting, sockets, unclosed>>

\* POSIX allows pthread_cond_wait to return without a signal.
SpuriousWakeup ==
    /\ Running
    /\ waiting
    /\ waiting' = FALSE
    /\ UNCHANGED <<mpc, i, threads, init_lock, init_count, sockets, unclosed>>

-----------------------------------------------------------------------------
(* worker_entry *)

RegisterLock(w) ==
    /\ Running
    /\ wpc[w] = "created"
    /\ init_lock = Nobody
    /\ init_lock' = w
    /\ wpc' = [wpc EXCEPT ![w] = "register"]
    /\ UNCHANGED <<mpc, i, backend, memcache, hosts, init_count, waiting, sockets, unclosed>>

SignalNobody == UNCHANGED waiting    \* mutant: pthread_cond_signal is missing
Signal == waiting' = FALSE

RaiseTwice(n) == n + 2    \* mutant: a worker is counted twice
Raise(n) == n + 1

\* init_count++, pthread_cond_signal
RegisterThreadInitialized(w) ==
    /\ Running
    /\ wpc[w] = "register"
    /\ init_count' = Raise(init_count)
    /\ Signal
    /\ wpc' = [wpc EXCEPT ![w] = "unlock"]
    /\ UNCHANGED <<mpc, i, backend, memcache, hosts, init_lock, sockets, unclosed>>

EnterEventLoop(w) ==
    /\ Running
    /\ wpc[w] = "unlock"
    /\ init_lock' = Nobody
    /\ wpc' = [wpc EXCEPT ![w] = "event_loop"]
    /\ UNCHANGED <<mpc, i, backend, memcache, hosts, init_count, waiting, sockets, unclosed>>

-----------------------------------------------------------------------------
(* server_socket *)

\* new_socket fails, or the address is in use: try the next one.
SkipAddress ==
    /\ mpc = "listen"
    /\ i < NAddrs
    /\ i' = i + 1
    /\ UNCHANGED <<mpc, threads, barrier, sockets, unclosed>>

\* bind, listen and conn_new succeed.
ListenOn ==
    /\ mpc = "listen"
    /\ i < NAddrs
    /\ i' = i + 1
    /\ success' = success + 1
    /\ listeners' = listeners + 1
    /\ UNCHANGED <<mpc, threads, barrier, unclosed>>

\* Out of descriptors, another bind error, listen or conn_new fails, or no
\* address at all: server_socket or its caller ends the process.
ListenFails ==
    /\ mpc = "listen"
    /\ Faults \/ (i = NAddrs /\ success = 0)
    /\ Exit
    /\ UNCHANGED <<i, threads, barrier, sockets, unclosed>>

\* server_socket returns success == 0, and main enters its event loop.
Serve ==
    /\ mpc = "listen"
    /\ i = NAddrs
    /\ success # 0
    /\ mpc' = "event_loop"
    /\ UNCHANGED <<i, threads, barrier, sockets, unclosed>>

-----------------------------------------------------------------------------
ThreadInit == \/ SetupThread \/ MemcacheConnect \/ ThreadIsSetUp \/ CreateWorker
              \/ LockInit \/ CondWait \/ Relock
ServerSocket == SkipAddress \/ ListenOn \/ ListenFails \/ Serve
WorkerEntry(w) == RegisterLock(w) \/ RegisterThreadInitialized(w) \/ EnterEventLoop(w)

Next == \/ ThreadInit \/ ServerSocket \/ SpuriousWakeup
        \/ \E w \in Workers : WorkerEntry(w)

Spec == Init /\ [][Next]_vars

\* Every thread keeps running, and a mutex that is free again and again is
\* eventually got; nothing makes a wait return but the signal.
FairSpec ==
    /\ Spec
    /\ WF_vars(ThreadInit \/ ServerSocket)
    /\ SF_vars(LockInit \/ Relock)
    /\ \A w \in Workers : SF_vars(WorkerEntry(w))
-----------------------------------------------------------------------------
(* Properties *)

MainPCs == {"setup", "backends", "create", "lock", "wait", "listen", "event_loop", "exited"}

\* The types; register_thread_initialized counts each worker at most once.
TypeOK ==
    /\ mpc \in MainPCs
    /\ i \in 0..NThreads + NAddrs
    /\ wpc \in [Workers -> {"none", "ready", "created", "register", "unlock", "event_loop"}]
    /\ backend \in 0..NBackends
    /\ memcache \in [Workers -> Seq([host : 0..NBackends - 1, port : {"own", "default"}])]
    /\ hosts \subseteq Ported
    /\ init_lock \in Workers \cup {Main, Nobody}
    /\ init_count \in 0..NThreads
    /\ waiting \in BOOLEAN
    /\ listeners \in 0..NAddrs
    /\ success \in 0..NAddrs
    /\ unclosed \in Nat

\* Main accepts a connection only when every worker has its queue, pipe and
\* event base and has come as far as its event loop ("Wait for all the threads
\* to set themselves up before returning"), and the server has a listener.
ReadyToDispatch ==
    /\ mpc \in {"listen", "event_loop"} =>
        \A w \in Workers : wpc[w] \in {"unlock", "event_loop"}
    /\ mpc = "event_loop" => listeners > 0

\* A worker that has not registered yet will still wake the main thread: the
\* signal is given after the count is raised and under the lock, so it cannot
\* fall between the test of init_count and the wait.
WakeupPending == waiting => \E w \in Workers : wpc[w] \in {"created", "register"}

\* Start-up ends: the server serves or has given up.
StartsUp == <>(mpc \in {"event_loop", "exited"})

\* "memcache server to connect to at backend" (-s in settings.c): every worker
\* talks to the server that the option names, at the port it names.
BackendsAsNamed ==
    \A w \in Workers : \A m \in ToSet(memcache[w]) :
        m.port = (IF m.host \in Ported THEN "own" ELSE "default")
=============================================================================
