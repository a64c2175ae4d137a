------------------------------- MODULE Commands -------------------------------
(***************************************************************************)
(* The handlers of one line (commands.c, memcache_conn.c), after it was    *)
(* cut into tokens.  process_get_command takes the keys from the tokens    *)
(* that parse_command cut, cuts the rest of a long line as it is needed,   *)
(* and every key adds three fragments to the reply and an item to          *)
(* c->ilist, either of which may find no memory.  process_update_command   *)
(* and process_hit_response read the length of a data block from a token.  *)
(*                                                                         *)
(* The blob is in Connection, the fragments' iovecs are in OutputBuffer.   *)
(***************************************************************************)
EXTENDS Tokenizer, ValueLength

CONSTANTS
    Lines,        \* command lines of gets, '\0'-terminated
    Lengths,      \* tokens that declare the length of a data block
    MaxTokens,    \* MAX_TOKENS, 8 in protocol.h
    KeyMax,       \* KEY_MAX_LENGTH, 250 in protocol.h
    ItemInit,     \* ITEM_LIST_INITIAL, 200 in connections.h
    Faults        \* which reallocs may fail, and how often they like: a subset of {"items", "iov"}

ASSUME CommandsAssumption ==
    /\ MaxTokens \in Nat /\ MaxTokens > 1
    /\ \A l \in Lines : l \in Seq(STRING) /\ \A p \in DOMAIN l : l[p] = Nul <=> p = Len(l)
    /\ \A l \in Lines : l # <<>>
    /\ Lengths \subseteq Seq(0..13) \ {<<>>}
    /\ KeyMax \in Nat /\ ItemInit \in Nat \ {0}
    /\ Faults \subseteq {"items", "iov"}

VARIABLES
    handler,   \* "get", "update" (a set) or "hit" (a backend's VALUE line)
    line,      \* the command line as it was received; for a length, its token
    str,       \* the same, as the tokenizer has left it
    tokens,    \* the tokens cut last
    key_token, \* index of the current one
    i, isize,  \* items remembered, and room for them in c->ilist
    ileft,     \* c->ileft
    out,       \* the fragments of the reply
    pc,        \* of a get: "keys" and "refill" in the loop, "end" after it, "done";
               \* of a length: "parse", then "rejected" (for a hit: exit) or "swallow"
    sbytes,    \* c->sbytes
    full,      \* the iovec array is full: no fragment was added since an add failed
    failed,    \* history: which reallocs failed, at least once
    visited    \* history: the keys answered

reply == <<i, isize, ileft, out, full, failed, visited>>
vars == <<handler, line, str, tokens, key_token, pc, sbytes, reply>>

\* parse_command up to the call of process_get_command
InitGet ==
    /\ handler = "get" /\ pc = "keys"
    /\ line \in Lines
    /\ LET t == TokenizeCommand(line, 1, MaxTokens)
       IN  Len(t.tokens) >= 3 /\ str = t.str /\ tokens = t.tokens
    /\ key_token = 2

\* process_update_command or process_hit_response at the token with the length
InitLength ==
    /\ handler \in {"update", "hit"} /\ pc = "parse"
    /\ line \in Lengths
    /\ str = line /\ tokens = <<[value |-> 1, length |-> Len(line)]>>
    /\ key_token = 1

Init ==
    /\ InitGet \/ InitLength
    /\ i = 0 /\ isize = ItemInit /\ ileft = 0
    /\ out = <<>> /\ sbytes = 0
    /\ full = FALSE /\ failed = {}
    /\ visited = <<>>

-----------------------------------------------------------------------------
(* process_get_command *)

Key == tokens[key_token]

\* what conn_add_iov is called with for the item that item_get returns
Fragments == <<"VALUE", "key", "data">>

KeyTooLong ==
    /\ pc = "keys" /\ Key.length > KeyMax
    /\ out' = <<"CLIENT_ERROR">>
    /\ pc' = "done"
    /\ UNCHANGED <<handler, line, str, tokens, sbytes, key_token, i, isize, ileft, full, failed, visited>>

\* c->ilist has room for one more item, if need be after conn_expand_items
ExpandedLate == IF i > isize THEN 2 * isize ELSE isize    \* mutant: one item too late
Expanded == IF i >= isize THEN 2 * isize ELSE isize

Hit ==
    /\ pc = "keys" /\ Key.length \in 1..KeyMax
    /\ isize' = Expanded
    /\ out' = out \o Fragments
    /\ i' = i + 1
    /\ visited' = Append(visited, Key)
    /\ key_token' = key_token + 1
    /\ full' = FALSE
    /\ UNCHANGED <<handler, line, str, tokens, sbytes, ileft, pc, failed>>

\* break: the item is removed again, the loop over the tokens is left.  conn_add_iov
\* may add some of the fragments before it finds no memory, and none while the
\* iovec array is still full.
OutOfMemory ==
    /\ pc = "keys" /\ Key.length \in 1..KeyMax
    /\ \/ /\ "items" \in Faults /\ i >= isize
          /\ failed' = failed \cup {"items"}
          /\ UNCHANGED <<isize, out, full>>
       \/ /\ "iov" \in Faults
          /\ failed' = failed \cup {"iov"} /\ full' = TRUE
          /\ isize' = Expanded
          /\ \E n \in 0..2 : (full => n = 0) /\ out' = out \o SubSeq(Fragments, 1, n)
    /\ pc' = "refill"
    /\ UNCHANGED <<handler, line, str, tokens, sbytes, key_token, i, ileft, visited>>

KeysDone ==
    /\ pc = "keys" /\ Key.length = 0
    /\ pc' = "refill"
    /\ UNCHANGED <<handler, line, str, tokens, sbytes, key_token, i, isize, ileft, out, full, failed, visited>>

\* More of the line is cut, from wherever the current token points.
FirstToken == tokens[1].value    \* mutant: from where the last cut began
Remaining == Key.value
Refill ==
    /\ pc = "refill"
    /\ IF Key.value # Null
       THEN LET t == TokenizeCommand(str, Remaining, MaxTokens)
            IN  str' = t.str /\ tokens' = t.tokens /\ key_token' = 1
       ELSE UNCHANGED <<str, tokens, key_token>>
    /\ pc' = IF tokens'[key_token'].value # Null THEN "keys" ELSE "end"
    /\ UNCHANGED <<handler, line, sbytes, i, isize, ileft, out, full, failed, visited>>

\* the items to release once the reply is sent
ItemsButOne == IF i > 0 THEN i - 1 ELSE 0    \* mutant: one is forgotten
ItemsRetained == i

\* "END\r\n" is added; SERVER_ERROR if a key is left or that finds no memory.
End ==
    /\ pc = "end"
    /\ ileft' = ItemsRetained
    /\ \E fails \in IF Key.value = Null /\ "iov" \in Faults THEN BOOLEAN ELSE {FALSE} :
        /\ out' = IF fails \/ Key.value # Null THEN <<"SERVER_ERROR">> ELSE Append(out, "END")
        /\ failed' = IF fails THEN failed \cup {"iov"} ELSE failed
    /\ pc' = "done"
    /\ UNCHANGED <<handler, line, str, tokens, sbytes, key_token, i, isize, full, visited>>

-----------------------------------------------------------------------------
(* process_update_command and process_hit_response *)

Reject == pc' = "rejected" /\ UNCHANGED sbytes
Swallow(n) == pc' = "swallow" /\ sbytes' = Wrap(n, IntBits)

ProcessUpdate ==
    /\ pc = "parse" /\ handler = "update"
    /\ LET r == Strtol(line)
           vlen == Narrow(r.value)
       IN  IF Accepts(line, r) /\ vlen >= 0
           THEN Swallow(vlen + Terminator("update"))
           ELSE Reject
    /\ UNCHANGED <<handler, line, str, tokens, key_token, reply>>

ProcessHit ==
    /\ pc = "parse" /\ handler = "hit"
    /\ LET r == Strtol(line)
       IN  IF Accepts(line, r)
           THEN Swallow(Narrow(r.value) + Terminator("hit"))
           ELSE Reject
    /\ UNCHANGED <<handler, line, str, tokens, key_token, reply>>

-----------------------------------------------------------------------------
ProcessGet == KeyTooLong \/ Hit \/ OutOfMemory \/ KeysDone \/ Refill \/ End

Next == ProcessGet \/ ProcessUpdate \/ ProcessHit

Spec == Init /\ [][Next]_vars
\* A handler runs on: nothing in it waits.
FairSpec == Spec /\ WF_vars(Next)

-----------------------------------------------------------------------------
(* Properties *)

\* The items remembered fit c->ilist, and tokens never overflow their array.
TypeOK ==
    /\ handler \in {"get", "update", "hit"}
    /\ pc \in {"keys", "refill", "end", "done", "parse", "rejected", "swallow"}
    /\ i \in 0..isize /\ ileft \in 0..i
    /\ Len(tokens) \in 1..MaxTokens /\ key_token \in DOMAIN tokens
    /\ visited \in Seq([value : Nat, length : Nat])
    /\ full \in BOOLEAN /\ failed \subseteq Faults
    /\ Fits(sbytes, IntBits)

Keys == Tail(Words(line))
Answered == pc = "done" /\ Last(out) = "END"

\* Keys are answered in the order of the line, each once, however often the line
\* had to be cut again (tokenize_command) and whatever ran out of memory.
KeysInOrder == handler = "get" => IsPrefix(visited, Keys)

\* Without a failure no key is left out: the reply is one VALUE per key and END,
\* and as many items are released after it.
AllServed ==
    Answered /\ failed = {} =>
        /\ visited = Keys
        /\ ileft = Len(Keys)
        /\ Len(out) = 3 * Len(Keys) + 1

\* A reply that ends in END consists of whole values, one per retained item, even
\* when the item list could not grow; only conn_add_iov can leave a torn one.
WellFormedReply ==
    Answered /\ "iov" \notin failed =>
        out = FlattenSeq([n \in 1..ileft |-> Fragments]) \o <<"END">>

\* A length is read from a token exactly when, behind white space, the token starts
\* with a numeral that fits a long and ends there or at white space (safe_strtol):
\* "5x" is refused, "5\tx" is 5.  A set is also refused when the int that the long
\* is stored in is negative: -4294967291 is 5.  The block swallowed is as long as
\* declared with its terminator, modulo the width of an int; so it is exactly that
\* whenever both fit.
LengthExact ==
    /\ pc = "swallow" =>
        \E n \in Readings(line) :
            /\ Fits(n, LongBits)
            /\ Congruent(sbytes, n + Terminator(handler))
            /\ n \in 0..Longest(handler) => sbytes = n + Terminator(handler)
    /\ pc = "rejected" =>
        \A n \in Readings(line) :
            Fits(n, LongBits) => handler = "update" /\ Narrow(n) < 0

\* The line is finished with, unless memory is refused for ever: the nested loops
\* over tokens and cuts end (process_get_command), and so do the other handlers.
Finishes == <>(pc \in {"done", "rejected", "swallow"}) \/ []<><<OutOfMemory>>_vars

\* "If the loop was terminated because of out-of-memory ... we send SERVER_ERROR
\* instead" (commands.c): END is never sent after a failure.
OomReported == Answered => failed = {}
=============================================================================
