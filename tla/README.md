# A TLA+ model of the synthetic memcached proxy

The program (`src/src/*.c`) is a multi-threaded memcached look-alike in the
style of memcached itself: a main thread accepts connections and hands them
round-robin to worker threads; each worker runs a libevent loop and drives a
state machine for every connection it owns. A `get` is answered with one fixed
item per key, a `set` is parsed, its value thrown away, and answered `STORED`.

## 1. Inventory

| part | source | state | operations | interacts with |
|---|---|---|---|---|
| connection state machine | `server.c`, `fsm.h` | `conn.state`, `after_write`, `ev_flags`, read buffer (`rbuf`, `rcurr`, `rbytes`, `rsize`), `sbytes`, output lists, `ileft`, `mem_blob`, `mem_free_delay`; locals `nreqs`, `num_allocs` | `event_handler`, `drive_machine`, `reset_cmd_handler`, `read_network`, `read_command`, `process_command`, `transmit`, `error_response` | libevent calls it; it calls the command handlers; shares `conn` with the free list |
| accept and dispatch | `server.c` (`conn_listening`), `threads.c` | `last_thread`, one queue and one pipe per worker | `dispatch_conn_new`, `conn_queue_push/pop`, `thread_new_conn_handler` | main thread to worker: queue (mutex) and pipe (wake-up byte) |
| connection structures | `connections.c/.h` | the `conn` structs, `freeconns`, `freetotal`, `freecurr` | `conn_new`, `conn_close`, free list, `conn_update_event`, `conn_set_state`; `conn_add_msghdr`, `conn_add_iov`, `conn_expand_items`, `conn_ensure_rpc_space` | free list shared by all workers (mutex) |
| requests and replies | `commands.c`, `protocol.c` | none of their own | `tokenize_command`, `parse_command`, `process_{get,update,stat}_command` | called from the state machine, choose its next state |
| client statistics | `stats.c`, `locking.h` | hash map of reference-counted `client_stats` | `get_client_stats`, `rm_client_stats`, `free_client_stats`, `refcount_*` | called by `conn_new`/`conn_close` of every worker; the map has a lock nobody takes |
| backend RPC | `memcache_conn.c` | `rpc[]`, `rpcused`, `rpcdone`, `rpcwaiting` | `memcache_connect`, `memcache_get`, `memcached_response` | connects at start-up; `memcache_get` has no compiled caller |
| thread start-up | `threads.c` | `init_count`, `init_cond` | `thread_init`, `setup_thread`, `register_thread_initialized` | barrier between main and workers |
| items | `items.c` | one fixed item | `item_get`, no-op `item_remove`, `item_update` | replies point into items |
| number parsing | `utils.c` | - | `safe_strtol` | value lengths of `set` and of RPC replies |
| settings, `main` | `settings.c`, `server.c` | `config` | option parsing, listening socket | before any concurrency |

What is hard here, and what correctness means:

* **Connection.** Bytes arrive in any pieces; a command can be anywhere in the
  buffer when the budget runs out, the buffer fills or the send buffer is full.
  Requests must be answered once, in order, with their own reply; the buffer
  indices must stay consistent; the connection must never go to sleep on work it
  already has; one event must do a bounded amount of work; a client that goes
  away must be noticed in every state; nothing of a client may leak into the
  next user of the recycled structure.
* **Dispatch.** Queue and pipe are two channels that must agree; descriptors and
  structures are reused by other threads the moment they are released. Each must
  have exactly one holder, and every accepted client must reach a worker.
* **Statistics.** Every worker walks and extends a hash map without its lock. Chains
  must stay finite and in allocated memory, reference counts balanced, and the
  connections of one client must share an entry.
* **Output lists.** Message headers point into an array of iovecs that grows while a
  partial write has advanced them. Bytes must leave once, in order.
* **Command handlers.** Lines are cut in place, eight tokens at a time, by loops with
  out-of-memory exits; lengths are narrowed from a long to an int.
* **RPC.** Responses of several backends are matched with waiting clients by position
  in queues that are compacted and grow while requests are in flight.
* **Start-up.** A barrier on a condition variable, and set-up that may fail half-way.

Section 6 lists what is left out; the hazards, line by line, are in
`PROJECT.json`.

## 2. Modules

| module | models |
|---|---|
| `Requests` | the kinds of command line, the bytes they occupy on the wire, the reply owed to each |
| `InOrderService` | abstract: what one connection promises its client |
| `Connection` | one client connection: `drive_machine` with everything it calls, the socket, the client |
| `Dispatch` | accept, dispatch, adoption, closing, free list, with the main thread and all workers interleaved |
| `Stats` | the client map: every access to shared memory of every worker and of `stat_test_data` is a step |
| `Startup` | `main`, `thread_init`, `memcache_connect`, the barrier, `server_socket` |
| `ByteStream` | abstract: what the output of a connection promises |
| `OutputBuffer` | msghdr and iovec lists and `transmit`, for client and backend connections |
| `Tokenizer` | `tokenize_command` as an operator, with a reference split into words |
| `ValueLength` | `safe_strtol` and the narrowing to an int as operators, with a reference value |
| `Commands` | `process_get_command`'s loops over tokens, items and refills; the lengths `process_update_command` and `process_hit_response` read |
| `Rpc` | forwarding gets to backends: the in-flight queues, the waiting clients, a backend connection's states |
| `ConnectionProofs`, `DispatchProofs`, `StartupProofs`, `StatsProofs`, `OutputBufferProofs`, `CommandsProofs`, `RpcProofs` | the inductive invariants of those modules and the theorems (section 5) |
| `InductionLemmas` | induction over the naturals in a form the provers can use, and what `FlattenSeq` computes |
| `MCConnection`, `MCDispatch`, `MCStats`, `MCStartup`, `MCOutputBuffer`, `MCCommands`, `MCRpc` | instances for TLC |

How they fit together: `Dispatch` and `Connection` meet at `conn_new` and `conn_close`,
where `Stats` has its part of the same two functions. `OutputBuffer` details the `out`
queue of `Connection`, `Commands` its `ParseCmd` step, `Rpc` the states a client
connection enters when gets are forwarded. `Commands` uses the operators of `Tokenizer`
and `ValueLength`.

### Connection

Each iteration of `drive_machine`'s loop is one action, as is each iteration of
`read_network`'s loop: between two system calls the client may send, read or
hang up. The other connections of the worker do not appear; they only delay
this one, which the interleaving with the client already allows.

| model | code |
|---|---|
| `active`, `nreqs` | a call of `drive_machine` is running, and its local budget |
| `rbuf`, `roff`, `rsize` | `rcurr[0 .. rbytes-1]`, `rcurr - rbuf`, `rsize` |
| `num_allocs`, `received` | locals of `read_network` |
| `out` | what `wbuf` or the msghdr list still has to send |
| `snd`, `sock`, `peer` | the kernel's send and receive queues, and how the client's end stands |
| `handled`, `answered`, `stillDue`, `requests` | history variables and the client's request counter; no guard reads them |

`NewCmd`, `Waiting`, `Read`, `ParseCmd`, `ReadValue`, `Transmit`, `ConnClose`
are the cases of `drive_machine`; `conn_read_value` falls through to
`conn_swallow` as in the code. `EventHandler` is libevent's call with readiness
as poll would report it. `Recycle` is `conn_new` on the structure that
`conn_close` put on the free list: `rsize`, `sbytes`, `mem_free_delay` keep their
old values, as in the code.

Data abstraction: a byte is known by the line it belongs to and by whether it
is that line's `\n`; a reply is a sequence of units (`VALUE`, `END`, `STORED`,
...). `ParseCommand` gives back a request only for exactly the bytes of its line; any
other run of bytes ending in `\n`, such as the tail of a value, is an unknown
command. So a model that swallows one byte too many or too few really goes out
of step with the client. A `bget` line is treated as a `get`; the code differs only in
that an unterminated `bget` beyond 1024 bytes is cut off like any other line.

A set that is refused, for its key or its length, is still followed by its data block,
which nothing swallows: the block is read as a line (`refused` marks it). A value holds
no `\n` of its own and spells no command, so this line gets one `ERROR`; a block with
several lines, or with commands in it, would get more. The `int` of `c->sbytes` is kept
(`IntMax`), and the sets of `Request` are those whose length and `\r\n` fit it;
`ValueLength` and `Commands` have the others.

Failures: `realloc` of the read buffer, the blob's `malloc`, the lists of a get
(`GetOutOfMemory`: of its keys those before the failing one and, once memory is back,
that one are answered, whole or torn, and the rest is lost; or `END` fails and
`SERVER_ERROR` replaces the reply), `event_del` and `event_add` may fail when `Faults` is
set; the client may half-close or reset at any time when `Hangup` is set, and bytes
queued before a reset may be lost.

### InOrderService

The abstract specification: `Serve` answers the next pending request, `RefuseBlock` is
the `ERROR` for the data block of a refused set, `Deliver` moves one unit to the client,
`Fail` is the one last `SERVER_ERROR`, `Drop` closes the connection and may lose a tail of
the replies, `Reopen` starts the next client from nothing. Only with `Faults` may `Fail`
happen, or `Serve` answer a get with one of `OutOfMemoryReplies`. `Connection` implements it
with `pending` = the requests not yet answered, `block` = a refused set's block is next,
and `outq` = send queue followed by pending output (`ServiceSpec`).
The run `connection_safety` checks this on small instances; section 5 has the proof.

### Dispatch

One action per system call or mutex section of the main thread (`Accept`, `Push`,
`Notify`) and of each worker (`ReadNotify`, `Pop`, `ConnNew`, `EventAdd` for adopting;
`ConnClose` = `event_del`, `CloseFd`, `AddToFreelist` for closing). A live connection
may end at any time; what it does while live is `Connection`. Failing calls:
`fcntl` after `accept`, `malloc` in `conn_new`, `event_add`, `realloc` of the free
list, and both ends of the notify pipe. When the pipe's `read` fails the code
switches on an uninitialised byte: either it acts as if notified, or it returns.
Running out of descriptors (`EMFILE`) leaves the client in the backlog.

### Stats

`thr[t]` is a thread's place in `get_client_stats`, `conn_new`, `conn_close` or
`rm_client_stats` with its locals; `map`, `cid`, `next`, `refcnt` are the memory they share.
Reading the bucket, each hop, allocating, each of the four stores of an insertion (`Store`:
`client_id`, `refcnt`, `next`, and the bucket, which publishes the entry), counting up
(`Incr`) and down (`Decr`) and `Free` are separate steps, because no lock is held between
them; with `Reorder`, the four stores may be seen in any order. Until its id is stored an
entry has the id 0 that `calloc` left, which a lookup of that client (`ZeroId`) matches.
`refcount_*` take the entry's own lock and are one step, modulo `RefMod`. `rm_client_stats`
has no caller; it runs while no other thread is in the map, the only use its interface
allows. Histories: `stored` has the stores that are visible, `overtaken` that a lookup
matched an entry before all of them were; `leaked` counts references that a failed
`event_add` did not give back, `disturbed` that two threads were in one bucket at once or
that removing the first entry of a chain emptied its bucket.

### Startup

Main's steps are those of `thread_init` (`SetupThread`, `MemcacheConnect` per backend,
`CreateWorker`, then the barrier) and of `server_socket`; a worker's are
`register_thread_initialized` and the entry to its event loop. `pthread_cond_wait` is
`CondWait` (releases the lock and sleeps), a wake-up by `Signal` or spurious, and `Relock`.
Every failure the code answers with `exit` leads to `exited`.

### OutputBuffer and ByteStream

Bytes are numbered as they are written and an iovec is a run of numbers, so that
`Pending`, the bytes the headers still cover in sending order, can be compared with
what was written. One iteration of `conn_add_iov`'s loop is one step, with
`conn_add_msghdr` and `conn_ensure_iov_space` inside it. `ByteStream` appends, sends a
prefix of what is pending, or discards all of it while nothing of it is on the wire;
`OutputBuffer` implements it with `pend <- Pending`. A backend connection begins with an
array that need not grow: growth while headers are partly sent breaks the stream
(section 4), as does a header list that cannot grow, so `Faults` is `{"iov", "event"}`:
the array may fail to grow, and so may `conn_update_event` when a write would block
(`unscheduled`), which closes the connection.

### Tokenizer, ValueLength, Commands

A line is a sequence of letters, spaces and a final `NUL`; the tokenizer's cuts are
written into it as in the code. `Commands` starts where `parse_command` calls the handler.
`Hit`, `OutOfMemory`, `KeyTooLong`, `KeysDone`, `Refill` and `End` are the exits of the loop
bodies of `process_get_command`; `out` has the fragments added, `i`, `isize` and `ileft` the
item list. Either realloc may fail as often as it likes, and the key that failed is tried
again; `full` says that the iovec array had no room at the last attempt, so that a failing
one adds nothing to the output any more. `ProcessUpdate` and `ProcessHit` take a token with
a length to `c->sbytes`, in
integers of `IntBits` and `LongBits`.

### Rpc

One worker (`thread`, chosen from `Threads`: the gets it receives and its connections to
backends), which runs one connection at a time: `Event` picks a ready backend
connection, then `drive_machine`'s cases follow until it waits for an event again, and only
the network moves in between. The caller of `memcache_get` is the version of
`process_get_command` that `commands.c` keeps in comments; everything else is compiled in.
After `ReqPerEvent` responses a backend connection yields (`NewCmd`, `Resume`).
`memcache_get` is `Forward`: each backend's `conn_add_iov` may find no memory, and each
`conn_update_event` may fail, which leaves the backend connection to be closed (`Close`, if
an event is left to run it); the caller looks at neither. `Reply` is the end of
`process_hit_response` and `process_miss_response`, with their failing `conn_update_event`.
`flaws` records what forwarding met that the code does not cope with (section 4); no get
is forwarded after one that met a flaw, and the properties say which flaws they exclude.
Assumed: connections stay open but for these failures, the event calls of `conn_waiting`,
of `conn_new_cmd` and of `conn_rpc_wait` itself succeed (`Connection` has the first two
failing), and the caller's `conn_add_msghdr` finds memory.

## 3. Runs

| run | question | bounds |
|---|---|---|
| `connection_safety` | invariants and refinement of `Connection` with faults, hang-ups and recycling | seven scripts of two or three requests, with refused sets and gets; `INT_MAX` 8; two clients in turn; buffer of 4 bytes that can double once per call; send buffer of 2 units; budget 1 |
| `connection_live` | `AllAnswered`, `HangupCloses` | three scripts, two clients in turn, hang-ups, no faults, budget 1 |
| `connection_blob` | a statement of the code's comments that does not hold | see section 4 |
| `dispatch_safety` | holders of sockets and structures, notifications | 4 clients, 3 descriptors, 3 structures, 2 workers, free list of 1 that must grow, pipe of 2 bytes; symmetric in clients, descriptors and structures |
| `dispatch_live` | `Adopted` | 3 clients and descriptors, no faults, no symmetry |
| `stats_map` | chains, counts and sharing under unlocked access | 2 workers and main, 2 colliding clients, 3 structures, 3 connections, 4 entries, one test user; reordering, faults and removal; symmetric in workers, structures and entries |
| `startup` | the barrier, and that start-up ends | 3 workers, 2 backends, 2 addresses, every failure |
| `startup_ports` | where workers connect | the same, without faults; section 4 |
| `output_stream` | the output lists implement `ByteStream` | payload of 3 bytes, 2 entries per header, 2 headers before the list grows; a client with an array of 2 that grows, a backend with one of 9; no output begun after 9 bytes |
| `commands` | keys, replies, lengths, termination | every line of up to 9 letters and spaces, 3 tokens per cut, keys up to 2 letters, an item list of 1, reallocs that fail any number of times; every token of up to 3 characters from 8, ints of 5 bits, longs of 7 |
| `commands_oom` | what follows a failed realloc | lines of up to 7 characters; section 4 |
| `rpc_forward` | order, completeness and progress of forwarded gets | 3 gets of 2 clients in every order with 2 backends, 4 gets of 3 clients with one backend; queues of one slot that double, hits in one or two parts, a yield after each response, failing realloc and event calls |

The largest runs are `connection_safety` with 3.5 million distinct states, `stats_map` with
1.6 million and `rpc_forward` with 0.6 million.

The bounds make the interesting cases happen: values shorter and longer than
the buffer, commands that start in the middle of it, a full buffer with and
without a complete line, a get beyond `LineMax`, an unterminated line that is
cut off, replies larger than the send buffer, more pipelined commands than the
budget, a block read as a line, reuse of descriptors and structures, two notifications
in one pipe; two
inserts into one bucket, an entry met half filled in, an entry freed and its memory
used again; replies that end exactly at a header's limit, that need a third header, and
that a partial write stops inside an iovec; lines of exactly as many words as a cut
takes, with trailing and repeated spaces, and three cuts of one line; numbers at both
ends of an int and beyond a long's; a queue that is used up, doubled and compacted with
and without requests in flight; three responses read at once, and a yield between them.

Properties: `WakeupArmed` (a sleeping connection is registered for the event that
resumes its work), `ReadBufferSound`, `RequestBudget`, `RetainedUntilSent`,
`ServiceSpec`, `AllAnswered`, `HangupCloses`; `ConnExclusive` and `FdExclusive`
(exactly one holder), `NoneStranded` (queue and pipe agree), `Adopted`; `ChainsSound`,
`RefcountExact`, `SharedByClient` of the map; `ReadyToDispatch`, `WakeupPending`, `StartsUp`;
`MsgRanges` (headers cover the filled iovecs without gap), `ClosedOnlyByPeer` (no message
that `sendmsg` refuses), `StreamSpec`; `KeysInOrder`, `AllServed`, `WellFormedReply`,
`LengthExact`, `Finishes`; `QueueOrdered`, `RespondAfterAll`, `StaysInSync`, `RpcAnswered`.

Deadlock checking is off: a connection whose client is done, a server whose
clients are all served, a handler that has finished and a process that exited may rest.

Fairness: weak fairness of the event loop and of `drive_machine` together: a
worker thread keeps being scheduled and libevent reports readiness as long as it
lasts. `connection_live` also assumes that the client goes
on sending what it has and reading replies; without the second no server could
finish. `dispatch_live` assumes that the main thread and each worker keep running, not
that clients connect or that connections end; it has a descriptor for every client.
`startup` assumes that threads keep running and, as strong fairness, that a mutex that is
free again and again is eventually got; nothing is assumed of spurious wake-ups. In
`commands` a handler runs on, and `Finishes` allows it to run for ever only while reallocs
go on failing. `rpc_forward` assumes that backends answer and the
network delivers, and strong fairness of `Event`, because `event_base_loop` reports every
connection that is ready before it asks again.

## 4. Where code and comments disagree

Three runs show a statement of the repository violated:

* `connection_blob`: `mem_free_delay` is the "number of requests to wait before free'ing
  mem_blob" (`connections.h:113`). `conn_new_cmd` is entered again, without a request,
  after a yield, and counts then too.
* `commands_oom`: "If the loop was terminated because of out-of-memory ... we send
  SERVER_ERROR instead" (`commands.c:236`). The `break` leaves only the inner loop; the
  line is cut again from the key that failed, the outer loop ends with
  `key_token->value` NULL, and `END` follows a reply that may be torn.
* `startup_ports`: `-s` names the "memcache server to connect to at backend"
  (`settings.c:15`). `memcache_connect` cuts the name at its `:` in place
  (`memcache_conn.c:41`), so only the first worker finds the port.

The models also contain these, which a property excludes by name or states at its true
bound:

* "Only process nreqs at a time" (`server.c:309`): an event that starts in `conn_read`
  reaches its first command uncharged, so 21 commands are processed, not 20.
  `RequestBudget` states, and `BudgetCorrect` proves, the bound that holds.
* Two workers that insert into one bucket can lose an entry or enter a client twice, and
  `rm_client_stats` of the first entry empties the bucket (`stats.c:35`, `:58`): `disturbed`
  in `SharedByClient`. Counts stay balanced through that: `RefcountExact` and `ChainsSound`
  except only a lookup that matched an entry not completely stored (`overtaken`). The
  reference taken in `conn_new` leaks when `event_add` fails (`connections.c:156`): `leaked`.
* The count of a new entry is "1 for hashmap ref, one for return ref" (`stats.c:33`), but
  nothing orders its stores: a worker that finds the entry published and its id stored counts
  itself from 0 to 1, and the store of 2 wipes that out. Its connection is not counted, and
  when both connections have closed the entry is freed while its bucket still leads to it:
  `overtaken`. `RefsAsCommented`, which is `RefcountExact` without that condition, fails on the
  instance of `stats_map`.
* The comment at `commands.c:236` also takes it that running out of memory terminates the
  loop. The key that failed is cut and tried again for as long as realloc fails, and the
  worker spins: `Finishes` allows that and nothing else.
* `sbytes` is "bytes to swallow of the wire" (`connections.h:73`), but the terminator is added
  to the length in an `int` (`commands.c:265`, `memcache_conn.c:192`), so that it can be
  negative. `LengthExact` states the sum modulo the width.
* "TODO: we need to reschedule c for this to actually occur..." (`memcache_conn.c:175`,
  `:206`): a client whose last response cannot register it for writing is in `conn_closing`
  without an event, and stays there: the flaw `stranded`, which `RpcAnswered` excludes.
* The data block of a refused set is read as commands (`commands.c:253`-`262`), and the client
  gets a reply too many: `RefuseBlock` in `InOrderService`. A get that runs out of memory may
  lose its later keys, since the cut that is made again ends at the key that failed, and what
  was added of that key stays in the reply: `OutOfMemoryReplies`.
* A get forwarded while a backend connection swallows a value makes it forget the
  rest (`memcache_conn.c:126`); compaction moves bytes where it means pointers
  (`connections.c:386`); a queue that could not grow is written past its end
  (`memcache_conn.c:118`). A request that found no memory is not sent, and a client all of
  whose requests did not waits for ever, since `memcache_get`'s result is not looked at
  (`memcache_conn.c:108`-`115`); nor does it look at a backend connection that could not be
  registered for writing (`:131`). All are `flaws` in `Rpc`.
* `conn_ensure_iov_space` re-points headers that a partial write has advanced to entries
  already sent (`connections.c:302`), and `conn_add_iov` ignores a failing
  `conn_add_msghdr` (`connections.c:329`): excluded by the constants of `output_stream`.
* Lengths outside an int are narrowed and accepted (`utils.c:27`): -4294967291 is 5; and what
  follows white space in a token is ignored, so that `5\tx` is 5. `LengthExact` says so: the
  length swallowed is the declared one modulo the width of an int.

Seen while modelling and not the subject of a property: `conn_shrink` has no body;
`conn_close` does not lower `live_connections`; a get whose later key is too long does not
release the items of its earlier keys (harmless while `item_remove` does nothing);
`item_init_system` fills 7 of the 17 bytes a reply sends; `server_socket` returns zero
although it skipped addresses; the socket of a backend that cannot be connected is not
closed.

## 5. Proofs

Every theorem is checked by TLAPS to the last step and holds for every value of the
constants that satisfies the module's named assumption, with and without faults unless it
says otherwise.

| module | theorem | states |
|---|---|---|
| `ConnectionProofs` | `Invariance`, `TypeCorrect` | `[]IInv`, `[]TypeOK` |
| | `ReadBufferCorrect` | `[]ReadBufferSound` |
| | `WakeupCorrect` | `[]WakeupArmed` |
| | `BudgetCorrect` | `[]RequestBudget` |
| | `RetainedCorrect` | `[]RetainedUntilSent` |
| | `StaysInStep` | `[]InStep` |
| | `Refinement` | `ServiceSpec`: `Connection` implements `InOrderService` |
| `DispatchProofs` | `Invariance`, `TypeCorrect` | `[]IInv`, `[]TypeOK` |
| | `NotificationsKept` | `[]NoneStranded` |
| | `StructuresExclusive` | `[]ConnExclusive` |
| | `SocketsExclusive` | `[]FdExclusive` |
| `StartupProofs` | `Invariance`, `TypeCorrect` | `[]IInv`, `[]TypeOK` |
| | `ReadyBeforeDispatch` | `[]ReadyToDispatch` |
| | `WakeupNeverLost` | `[]WakeupPending` |
| `StatsProofs` | `Invariance`, `TypeCorrect` | `[]IInv`, `[]TypeOK` |
| | `CountsExact` | `[]RefcountExact`, if not `Removal` |
| | `LookupsEnd` | `[]ChainsSound`, if not `Removal` |
| | `ClientsShare` | `[]SharedByClient`, if not `Removal` |
| `OutputBufferProofs` | `Invariance`, `TypeCorrect` | `[]IInv`, `[]TypeOK` |
| | `ClientRanges` | `[](~backend => MsgRanges)` |
| | `ClientClosed` | `[](~backend => ClosedOnlyByPeer)`, if `"msglist"` is not in `Faults` |
| | `ClientStream` | `~backend => StreamSpec`: a client's output implements `ByteStream`, if `"msglist"` is not in `Faults` |
| `CommandsProofs` | `TypeCorrect` | `[]TypeOK` |
| | `InOrder` | `[]KeysInOrder` |
| | `Served` | `[]AllServed` |
| | `WellFormed` | `[]WellFormedReply` |
| | `LengthsExact` | `[]LengthExact` |
| `RpcProofs` | `Invariance`, `TypeCorrect` | `[]IInv`, `[]TypeOK` |
| | `QueueInOrder` | `[]QueueOrdered` |
| | `WaitsForAll` | `[]RespondAfterAll` |
| | `KeepsInSync` | `[]StaysInSync` |

**Assumptions.** Sizes, numbers of threads and budgets are positive, bounds and delays not
negative, `Null`-like values are distinct from what they stand beside. `Stats` and `Rpc`
count, so workers, connections, entries and backends are finite sets; `Stats` also assumes
that a count (an `unsigned short` in the code) has room for one reference per conn structure
and thread and the map's own, and, where `event_add` may fail, for every connection opened in
the behaviour: live references are limited by descriptors, but leaked ones are never given
back, and 2^16 of those would wrap it. `Requests` has only sets whose length and `\r\n` fit an
int.
`OutputBuffer` assumes that the header list starts with at least two elements
(`MSG_LIST_INITIAL` is 10) and the iovec array is not empty, and that no fragment is.
`Commands` assumes that a line is a C string, with one `'\0'` at its end, that a token for a
length is not empty and that a cut has room for a token beside the one that ends it
(`MAX_TOKENS` is 8).

**Why each needs its invariant.**

* `Connection`. None of the properties is inductive alone. Even the types are not: how much
  `read` may take is `rsize - rbytes`, which is a length only because the unparsed bytes fit
  the buffer (`BufferFits`). `WakeupArmed` needs to know in which states `drive_machine` can
  return (`Asleep`), that output exists only in the writing states (`OutputDrained`), and
  that a connection heading for `conn_waiting` has no complete line left (`LinesParsed`),
  which holds because `read_network` goes back to `conn_waiting` only if it added nothing
  (`ReadLoop`). `RequestBudget` needs the relation of commands processed to budget charged,
  which differs by one before and after `conn_parse_cmd` (`Charged`).
* `Connection` implements `InOrderService`. The step that matters is `ProcessCommand`: the
  line it takes off the buffer must be the line of request `answered + 1`, whole and alone,
  although all it knows of the stream is where the next `'\n'` is. `InStep` says that it is:
  the bytes buffered, in the socket and half sent are, in this order, `sbytes` bytes of a
  value, if one is being swallowed, or the block of a set that was refused, if it is the next
  line, and then whole requests, one after the other, up to the last the client has started
  to send (`Aligned`, over `Framed`); that requests not yet
  started are the rest of the script (`SentSoFar`); that a value is swallowed only for a
  `set` (`SetPending`); and that the `SERVER_ERROR` of a failed `realloc` is the last reply
  (`LastReply`), since the buffer it throws away breaks the framing. `FirstLine` then gives
  the parsed request, and taking its bytes off the front leaves a framed stream
  (`FramedDrop`, `FramedFirst`); so does what the client appends (`FramedExtend`). With
  `OutputDrained` each completed request appends exactly its reply to the send queue
  (`ServeStep`). `Framed` states the cumulative lengths with an existentially quantified
  function instead of a sum, which keeps induction out of the proof.
* `Dispatch`. A step moves a descriptor or a structure from one place to the next.
  `ConnPlaces` and `FdPlaces` list the places and say that they are disjoint and hold all
  there is, `ConnOnce` and `FdOnce` that no queue or list holds anything twice, and
  `WorkerHolds` what a worker has in its hands at each of its steps. Exactly one holder
  follows; so does that a worker that was notified finds its queue filled.
* `Startup`. `init_count` is the number of workers past `register_thread_initialized`
  (`Counted`, which needs `LockHeld`), and main sleeps only while it is below `NThreads`: as
  long as main sleeps some worker has not been counted and will signal.
* `Stats`. `Base` says which locals each step may rely on and that a structure is live or in
  one thread's hands; `Tokens` bounds what failures can leak by the connections opened.
  `Counted` adds that pointers lead to allocated entries, what the stores made so far have
  left in a new entry (`FilledIn`, `Partly`), and that counts are exact; there are never
  enough references to wrap one (`NoWrap`). It holds without `rm_client_stats`, which has no
  caller, and until a lookup matches an entry whose four stores are not all visible
  (`overtaken`): from then on counts can be wrong and entries freed under the map, as
  section 4 says. The run `stats_map` checks the properties with removal too.
  That chains end is not inductive as a statement about `Hop`: `Chained` grades the
  entries. Each has an age and a bucket, and every pointer, including one a thread still has
  in its locals, leads to an older entry of the same bucket. Racing inserts may drop entries
  but never close a circle. `SharedByClient` needs to know why a search that found nothing
  is right: whatever entries its client has lie ahead of it (`Covers`), because every
  published entry is the first of a chain or follows one (`Linked`), and the head a thread
  has read is still the head while it has the bucket to itself (`Alone`). `Private` says
  that an entry not yet published is known to its maker only, and `NotOvertaken` that a
  lookup that has its bucket to itself meets no entry half stored.
* `OutputBuffer`. Headers lie in order inside the filled part of the array (`Ordered`), which
  keeps every computed index within it. On a client's connection fragments are added only
  while nothing of the output has been sent (`Phases`); then `conn_ensure_iov_space`, which
  lays the headers out from the start of the array again, moves none of them. A backend's
  connection has no such phases, and growth after a partial write breaks `MsgRanges`
  (section 4): hence the theorem speaks of clients. `Sized` follows the entries per header;
  it needs a header list that can grow, because `conn_add_iov` goes on with a full header
  when `conn_add_msghdr` fails.
* `OutputBuffer` implements `ByteStream`. What is pending is a concatenation over headers of
  concatenations over entries. Since the headers are adjacent it is one run of the array,
  from the first entry not sent to `iovused` (`PendingIs`); `conn_add_iov` extends that run
  by one entry (`AddsBytes`), `transmit` cuts it after any number of entries and bytes
  (`Sent`), and passing an empty header leaves it (`AheadMoved`). `SInv` adds that no pending
  entry is empty, so that a header with entries has bytes to send, that nothing is pending
  when the next request is read, and that no byte of a reply is on the wire while it is
  built, so that `error_response` may throw it away.
* `Commands`. A word is known by where it starts. An iteration of `tokenize_command`'s loop
  keeps `Scanned`: the tokens so far are the words from the first on, each ended by a `'\0'`,
  and what lies ahead is the line as received. So a cut that begins outside a word yields the
  words that follow (`TokenizeLine`). `IInv` says that the tokens ahead of
  `process_get_command` are the words behind those it has answered (`GetAhead`), that they
  lead to the end of the line unless a realloc failed (`GetComplete`), and that the output is
  one value for each item (`GetOut`). `LengthExact` compares a loop with a sum over the
  places of a numeral, defined without an order, over all ways to find one in the token
  (`Readings`): `PlacesAre` shows that what `strtol`
  accumulates is that sum, and `WrapIs` what narrowing makes of a number. Powers of
  two and ten are a recursive function (`Power`), since the provers know nothing of `^`.
* `Rpc`. A backend's queue has as many slots in use as requests unsent, unanswered or
  answered and not parsed (`InFlight`); what arrived is cut at most at its ends (`WellCut`);
  while the queue is undamaged the slots are the clients owed a response (`Matched`), each
  as often as it still waits (`Awaited`); and until a get interrupts one a block that comes
  next is being swallowed (`InSync`). Requests without memory and connections without an
  event disturb none of this: they are counted where they stop.

**Induction.** What a recursive function computes (the running sums of
`conn_ensure_iov_space`, the hops along a chain, the loop of `tokenize_command`, the digits
of a number, a flattened sequence) is shown with `InductionLemmas`: the
library's induction theorems are stated for predicates, which the provers cannot
instantiate, so `SetInduction` states induction for a set of naturals and derives it from
the least element of a set (`LeastNat`).

**Only model-checked.**

* Liveness (`AllAnswered`, `HangupCloses`, `Adopted`, `StartsUp`, `Finishes`, `RpcAnswered`):
  fairness is beyond the prover.
* `RefcountExact`, `ChainsSound` and `SharedByClient` with removal: `stats_map` checks them
  for one that runs while no other thread is in the map.
* `MsgRanges`, `ClosedOnlyByPeer` and `StreamSpec` on a backend's connection, which hold only
  while the array need not grow: `output_stream` checks them with room for all requests.

Every other property of a passing run is proved.

## 6. Left open

Open to a proof: the properties of `Stats` with `rm_client_stats` (counts survive a removal,
but threads may then hold entries the map no longer has), and the output of a backend whose
array is large enough. No module declares a RECURSIVE operator, so each can be proved about
as it stands.

Not modelled:

* `conn_timeout` and `conn_timeout_post`: nothing in the program enters these states.
* Backends that hang up, workers without a backend, and clients that leave while they
  wait: `Rpc` assumes connections that stay open unless a call on them fails. The code has
  no handling of these
  cases, and in the compiled program no get sends an RPC.
* Option parsing (`settings.c`): straight-line code before any thread runs; its results
  are constants of the modules.
* `conn_add_msghdr`'s other callers, `process_stat_command`'s text, log output, CPU
  affinity, the random draw of blob sizes and delays (a choice from `Waits`),
  `event_handler`'s check that `fd` equals `c->sfd` (it follows from `FdExclusive`).
* Crashes of the process: nothing is persisted; `dispatch_conn_new` and `conn_init` use
  unchecked allocations whose failure ends the program.
