------------------------------- MODULE Requests -------------------------------
(***************************************************************************)
(* The requests a client can put on a connection, the bytes they occupy on *)
(* the wire and the reply the server owes each of them (parse_command in   *)
(* protocol.c, the process_*_command handlers in commands.c).              *)
(*                                                                         *)
(* Data abstraction: a byte is known only by the line it belongs to and by *)
(* whether it is the '\n' that ends that line; a reply is a sequence of    *)
(* reply units.  Lengths are small stand-ins for the real ones; what the   *)
(* connection does with them (count, split, join, swallow) is kept.        *)
(***************************************************************************)
EXTENDS Naturals, Sequences

CONSTANT IntMax     \* INT_MAX, 2147483647

(***************************************************************************)
(* get     a get/bget/gets line with n >= 1 keys       (VALUE * n, END)    *)
(* set     a set/add/replace/... line, n value bytes follow  (STORED)      *)
(* stats   printed on the server's stderr, the client gets nothing         *)
(* badget  n keys, then one longer than KEY_MAX_LENGTH    (CLIENT_ERROR)   *)
(* badset  a set with such a key or an unusable length    (CLIENT_ERROR);  *)
(*         its n value bytes follow all the same                           *)
(* unknown any other line, n bytes longer than usual      (ERROR)          *)
(***************************************************************************)
Commands == {"get", "set", "stats", "badget", "badset", "unknown"}

\* A get without a key is no get to parse_command, and a set so long that c->sbytes
\* overflows is left to module ValueLength.
Request == [cmd : Commands \ {"get", "set"}, n : Nat]
           \cup [cmd : {"get"}, n : Nat \ {0}]
           \cup [cmd : {"set"}, n : 0..IntMax - 2]

\* TORN: what failed attempts left of a value in the output, then the whole value.
Units == {"VALUE", "TORN", "END", "STORED", "ERROR", "CLIENT_ERROR", "SERVER_ERROR"}

\* What the client reads for a request that the server completes.
Reply(r) ==
    CASE r.cmd = "get"     -> [i \in 1..r.n + 1 |-> IF i <= r.n THEN "VALUE" ELSE "END"]
      [] r.cmd = "set"     -> <<"STORED">>
      [] r.cmd = "stats"   -> <<>>
      [] r.cmd = "unknown" -> <<"ERROR">>
      [] OTHER             -> <<"CLIENT_ERROR">>

\* What becomes of a get that ran out of memory at key j: the key is tried again
\* until it succeeds, and all keys behind it are lost.
CutReply(j, u) == [i \in 1..j + 1 |-> IF i < j THEN "VALUE" ELSE IF i = j THEN u ELSE "END"]

\* The replies a get may have when memory runs out.  A key that is too long
\* goes unnoticed behind the cut.
OutOfMemoryReplies(r) ==
    IF r.cmd \in {"get", "badget"} /\ r.n > 0
    THEN {<<"SERVER_ERROR">>} \cup {CutReply(j, u) : j \in 1..r.n, u \in {"VALUE", "TORN"}}
    ELSE {}

-----------------------------------------------------------------------------
Byte == [req : Request, end : BOOLEAN]

\* The bytes of a value, were they read as a command line.
Junk == [cmd |-> "unknown", n |-> 0]

LineLength(r) ==
    CASE r.cmd \in {"get", "unknown"} -> r.n + 1
      [] r.cmd = "badget"            -> r.n + 2
      [] OTHER                       -> 2

Line(r) == [i \in 1..LineLength(r) |-> [req |-> r, end |-> i = LineLength(r)]]

\* The data block of a set: n bytes of value and "\r\n".  The value holds no other
\* '\n' and does not spell a command.
Value(n) == [i \in 1..n + 2 |-> [req |-> Junk, end |-> i = n + 2]]

\* Everything a client writes for a request: it sends the data block of a set
\* before it can know that the set is refused.
Wire(r) == IF r.cmd \in {"set", "badset"} THEN Line(r) \o Value(r.n) ELSE Line(r)

\* parse_command: the command a '\n'-terminated run of bytes is read as.  A line
\* that is not whole (its head or a piece of a value is missing) is no command.
ParseCommand(line) ==
    LET r == line[Len(line)].req
    IN  IF line = Line(r) THEN r ELSE Junk
=============================================================================
