------------------------------ MODULE ValueLength ------------------------------
(***************************************************************************)
(* The length of a data block, from the token that declares it to c->sbytes, *)
(* the number of bytes to swallow: safe_strtol (utils.c), as used by       *)
(* process_update_command (commands.c) for a set and process_hit_response  *)
(* (memcache_conn.c) for a backend's VALUE line.  strtol works on a long,  *)
(* the result is stored in an int, and the "\r\n" (or "\r\nEND\r\n")     *)
(* behind the block is added to it; both widths are kept.                  *)
(***************************************************************************)
EXTENDS Integers, Sequences, SequencesExt, Functions

CONSTANTS
    IntBits,      \* 32
    LongBits      \* 64

ASSUME ValueLengthAssumption ==
    IntBits \in Nat \ {0} /\ LongBits \in Nat /\ LongBits >= IntBits

\* the characters of a token
Digit == 0..9
Tab == 10         \* whitespace other than ' ', which cannot be in a token
Plus == 11
Minus == 12
Letter == 13

-----------------------------------------------------------------------------
\* b to the power n, and the number that a loop over the digits d accumulates,
\* as recursive functions: the provers know nothing of ^.
Power(b, n) ==
    LET p[k \in 0..n] == IF k = 0 THEN 1 ELSE b * p[k - 1]
    IN  p[n]
Accumulated(base, d) ==
    LET acc[k \in 0..Len(d)] == IF k = 0 THEN 0 ELSE base * acc[k - 1] + d[k]
    IN  acc[Len(d)]

\* Two's complement
Half(bits) == Power(2, bits - 1)
Fits(n, bits) == n >= -Half(bits) /\ n < Half(bits)
Wrap(n, bits) == ((n + Half(bits)) % (2 * Half(bits))) - Half(bits)

\* How many of the elements of s from p on satisfy Test before one does not.
RunLength(s, p, Test(_)) ==
    LET past == SelectInSubSeq(s, p, Len(s), LAMBDA c : ~Test(c))
    IN  (IF past = 0 THEN Len(s) + 1 ELSE past) - p

\* strtol(str, &endptr, 10): white space, a sign, digits
Strtol(s) ==
    LET blanks == RunLength(s, 1, LAMBDA c : c = Tab)
        sign   == IF blanks < Len(s) /\ s[blanks + 1] \in {Plus, Minus} THEN 1 ELSE 0
        first  == blanks + sign + 1
        digits == RunLength(s, first, LAMBDA c : c \in Digit)
        n      == Accumulated(10, SubSeq(s, first, first + digits - 1))
    IN  [value  |-> IF sign = 1 /\ s[first - 1] = Minus THEN -n ELSE n,
         endptr |-> IF digits = 0 THEN 1 ELSE first + digits]

\* Whether safe_strtol accepts what strtol returned.
AcceptsPrefix(s, r) == Fits(r.value, LongBits) /\ r.endptr # 1    \* mutant: "5x" is 5
Accepts(s, r) ==
    /\ Fits(r.value, LongBits)
    /\ r.endptr # 1
    /\ r.endptr > Len(s) \/ s[r.endptr] = Tab

\* *out = l, an int
Narrow(l) == Wrap(l, IntBits)

\* What ends a data block on the wire: "\r\n", and for a hit "END\r\n" as well
Terminator(who) == IF who = "update" THEN 2 ELSE 7

-----------------------------------------------------------------------------
\* Reference: a decimal numeral, and what it stands for.
Unsigned(s) == IF Head(s) \in {Plus, Minus} THEN Tail(s) ELSE s
IsNumeral(s) == Unsigned(s) # <<>> /\ ToSet(Unsigned(s)) \subseteq Digit
Declared(s) ==
    LET u == Unsigned(s)
        n == SumFunction([k \in DOMAIN u |-> u[k] * Power(10, Len(u) - k)])
    IN  IF Head(s) = Minus THEN -n ELSE n

\* Whether s, from its character b + 1 to its character e, is a numeral, with nothing
\* but white space before it and nothing or white space behind it; and the numbers
\* that a token stands for by that, one at most.
Reads(s, b, e) ==
    /\ b < e
    /\ \A k \in 1..b : s[k] = Tab
    /\ IsNumeral(SubSeq(s, b + 1, e))
    /\ e = Len(s) \/ s[e + 1] = Tab
Readings(s) ==
    {Declared(SubSeq(s, q[1] + 1, q[2])) :
        q \in {p \in (0..Len(s)) \X (0..Len(s)) : Reads(s, p[1], p[2])}}

\* equal but for overflows of an int
Congruent(m, n) == (m - n) % (2 * Half(IntBits)) = 0

\* the largest length that leaves room for the terminator in an int
Longest(who) == Half(IntBits) - 1 - Terminator(who)
=============================================================================
