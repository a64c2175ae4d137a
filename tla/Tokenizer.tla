------------------------------- MODULE Tokenizer -------------------------------
(***************************************************************************)
(* tokenize_command (protocol.c): cuts a command line into words in place, *)
(* at most max_tokens - 1 of them, and leaves a terminal token that points *)
(* at what is still to be cut, or nowhere.                                 *)
(*                                                                         *)
(* A string is a sequence of characters, a pointer into it an index, and   *)
(* Null is 0.  Of the characters only ' ' and '\0' matter.                 *)
(***************************************************************************)
EXTENDS Integers, Sequences, SequencesExt, FiniteSets

Nul == "NUL"
Space == "space"
Null == 0

\* strlen(command), for a string that starts in the middle of str
StrLen(str, command) == SelectInSubSeq(str, command, Len(str), LAMBDA c : c = Nul) - command

\* The scan has found a token of max_tokens - 1: it stops behind it.
EnoughLate(tokens, max_tokens) == Len(tokens) = max_tokens    \* mutant: no room for the terminal
Enough(tokens, max_tokens) == Len(tokens) = max_tokens - 1

\* One iteration of the loop; x has the variables s, e, tokens and the string, and
\* whether the loop was left.
Scan(x, max_tokens) ==
    LET found == Append(x.tokens, [value |-> x.s, length |-> x.e - x.s])
    IN  IF x.stop THEN x
        ELSE IF x.str[x.e] # Space THEN [x EXCEPT !.e = x.e + 1]
        ELSE IF x.s = x.e THEN [s |-> x.e + 1, e |-> x.e + 1, tokens |-> x.tokens, str |-> x.str, stop |-> FALSE]
        ELSE [s |-> x.e + 1, e |-> x.e + 1, tokens |-> found,
              str |-> [x.str EXCEPT ![x.e] = Nul], stop |-> Enough(found, max_tokens)]

\* The terminal token: NULL when the whole string was scanned.
RestNever(str, e) == Null    \* mutant: the rest of a long line is forgotten
RestAlways(str, e) == e      \* mutant: the end of the string is not noticed
Rest(str, e) == IF str[e] = Nul THEN Null ELSE e

\* The tokens, and the string with its separators replaced
TokenizeCommand(str, command, max_tokens) ==
    LET start == [s |-> command, e |-> command, tokens |-> <<>>, str |-> str, stop |-> FALSE]
        scan[n \in 0..StrLen(str, command)] ==
            IF n = 0 THEN start ELSE Scan(scan[n - 1], max_tokens)
        x == scan[StrLen(str, command)]
        last == IF x.s # x.e THEN <<[value |-> x.s, length |-> x.e - x.s]>> ELSE <<>>
    IN  [str    |-> x.str,
         tokens |-> x.tokens \o last \o <<[value |-> Rest(x.str, x.e), length |-> 0]>>]

-----------------------------------------------------------------------------
\* Reference: the words of a line, where they start and how long they are.
Words(line) ==
    LET letter(p) == p \in DOMAIN line /\ line[p] \notin {Space, Nul}
        starts == {p \in DOMAIN line : letter(p) /\ ~letter(p - 1)}
        nth(n) == CHOOSE p \in starts : Cardinality({q \in starts : q <= p}) = n
        length(p) == Min({n \in 1..Len(line) : ~letter(p + n)})
    IN  [n \in 1..Cardinality(starts) |-> [value |-> nth(n), length |-> length(nth(n))]]
=============================================================================
