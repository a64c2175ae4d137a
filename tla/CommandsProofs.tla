---------------------------- MODULE CommandsProofs ----------------------------
(***************************************************************************)
(* The invariants of Commands, proved for every line, any limit on tokens  *)
(* and key lengths, any number of failed reallocs and any width of int and *)
(* long.                                                                   *)
(*                                                                         *)
(* The argument for a get: a word is known by where it starts, and its     *)
(* number by how many start before it (Before).  An iteration of           *)
(* tokenize_command's loop keeps Scanned: the tokens so far are the words  *)
(* from the first one on, each ended by a '\0', and what lies ahead is the *)
(* line as it was.  So a cut from any place outside a word yields the next *)
(* words (TokenizeLine), and process_get_command, whose tokens ahead are   *)
(* always the words behind those it has answered (GetAhead), may cut the   *)
(* line again and again without losing or repeating one (Recut).           *)
(*                                                                         *)
(* For a length: what strtol accumulates digit by digit is the sum of the  *)
(* digits times powers of ten (PlacesAre), and storing it in an int does   *)
(* not change a number that fits (WrapIs).                                 *)
(***************************************************************************)
EXTENDS Commands, InductionLemmas, FiniteSetTheorems, SequenceTheorems, TLAPS

-----------------------------------------------------------------------------
(* The words of a line, and the inductive invariant *)

\* Characters; the provers do not know that "NUL" is a string.
Char == STRING \cup {Nul}
Tok == [value : Nat, length : Nat]

\* A C string: it ends at its first '\0'.
CString(l) == l \in Seq(Char) /\ l # <<>> /\ \A p \in DOMAIN l : l[p] = Nul <=> p = Len(l)

\* The words of a line, by the position where they start.
IsLetter(l, p) == p \in DOMAIN l /\ l[p] \notin {Space, Nul}
Starts(l) == {p \in DOMAIN l : IsLetter(l, p) /\ ~IsLetter(l, p - 1)}
Before(l, p) == Cardinality({q \in Starts(l) : q < p})
WordLen(l, p) == Min({n \in 1..Len(l) : ~IsLetter(l, p + n)})

\* t is the n-th word of l.
IsWord(l, t, n) == t \in Tok /\ t.value \in Starts(l) /\ t.length = WordLen(l, t.value) /\ Before(l, t.value) = n - 1

\* s is l after some of its spaces were overwritten.
CutOf(s, l) == s \in Seq(Char) /\ Len(s) = Len(l) /\ \A p \in DOMAIN l : s[p] = l[p] \/ (l[p] = Space /\ s[p] = Nul)

\* t is the n-th word of l, and in s a string of its own.
CutWord(s, l, t, n) ==
    /\ IsWord(l, t, n) /\ t.length > 0
    /\ t.value + t.length \in DOMAIN l /\ s[t.value + t.length] = Nul
    /\ \A p \in t.value..t.value + t.length - 1 : IsLetter(l, p)

\* From r on l is uncut, and n of its words come before.
Uncut(s, l, r, n) ==
    /\ r \in 2..Len(l) - 1 /\ l[r - 1] = Space
    /\ \A p \in r..Len(l) : s[p] = l[p]
    /\ Before(l, r) = n

\* s and the tokens ts from the k-th on: words of l from the n-th on, and
\* behind them where the rest of the line begins.
Cut(s, l, ts, k, n) ==
    /\ CutOf(s, l)
    /\ ts \in Seq(Tok) /\ k \in 1..Len(ts) /\ Len(ts) <= MaxTokens
    /\ \A j \in k..Len(ts) - 1 : CutWord(s, l, ts[j], n + (j - k))
    /\ Last(ts).length = 0
    /\ Last(ts).value # Null => Uncut(s, l, Last(ts).value, (n - 1) + (Len(ts) - k))

Complete(l, ts, k, n) == Last(ts).value = Null => Cardinality(Starts(l)) = (n - 1) + (Len(ts) - k)

\* What a reply is made of.
Piece == {"VALUE", "key", "data", "END", "CLIENT_ERROR", "SERVER_ERROR"}
Copies(n) == FlattenSeq([k \in 1..n |-> Fragments])

Counters ==
    /\ i \in Nat /\ isize \in Nat \ {0} /\ i <= isize /\ ileft \in 0..i
    /\ full \in BOOLEAN /\ failed \subseteq Faults

NoFailure == failed = {}

\* process_get_command between two steps: the keys answered are the words of the
\* line from the second on, and the tokens ahead are those that follow.
GetLine ==
    /\ handler = "get" /\ pc \in {"keys", "refill", "end", "done"} /\ sbytes = 0
    /\ CString(line) /\ Starts(line) # {}
    /\ tokens \in Seq(Tok) /\ key_token \in DOMAIN tokens /\ Len(tokens) <= MaxTokens
GetVisited ==
    /\ visited \in Seq(Tok) /\ i = Len(visited)
    /\ \A n \in 1..Len(visited) : IsWord(line, visited[n], n + 1)
GetAhead == pc # "done" => Cut(str, line, tokens, key_token, Len(visited) + 2)
GetComplete == pc # "done" /\ NoFailure => Complete(line, tokens, key_token, Len(visited) + 2)
GetOut == out \in Seq(Piece) /\ (pc # "done" /\ "iov" \notin failed => out = Copies(i))
GetPc ==
    /\ pc = "end" => tokens[key_token].value = Null
    /\ pc = "refill" /\ NoFailure => tokens[key_token].length = 0
GetDone ==
    pc = "done" /\ Last(out) = "END" =>
        /\ ileft = i
        /\ "iov" \notin failed => out = Copies(i) \o <<"END">>
        /\ NoFailure => Cardinality(Starts(line)) = Len(visited) + 1

InGet == GetLine /\ GetVisited /\ GetAhead /\ GetComplete /\ GetOut /\ GetPc /\ GetDone

InLength ==
    /\ handler \in {"update", "hit"} /\ pc \in {"parse", "rejected", "swallow"}
    /\ i = 0 /\ ileft = 0 /\ visited = <<>>
    /\ line \in Lengths /\ tokens = <<[value |-> 1, length |-> Len(line)]>> /\ key_token = 1

IInv == Counters /\ (InGet \/ InLength)

-----------------------------------------------------------------------------
(* Words and where they start *)

\* A line has finitely many words.
LEMMA StartsFinite ==
    ASSUME NEW l, CString(l)
    PROVE  /\ Len(l) \in Nat /\ DOMAIN l = 1..Len(l) /\ Starts(l) \subseteq 1..Len(l)
           /\ IsFiniteSet(Starts(l)) /\ Cardinality(Starts(l)) \in Nat
           /\ \A p : IsFiniteSet({q \in Starts(l) : q < p}) /\ Before(l, p) \in Nat
  <1>1. Len(l) \in Nat /\ DOMAIN l = 1..Len(l)
    BY DEF CString
  <1>2. Starts(l) \subseteq 1..Len(l)
    BY <1>1 DEF Starts
  <1>3. IsFiniteSet(1..Len(l))
    BY <1>1, FS_Interval
  <1>4. IsFiniteSet(Starts(l))
    BY <1>2, <1>3, FS_Subset
  <1>5. \A p : IsFiniteSet({q \in Starts(l) : q < p})
    <2>1. \A p : {q \in Starts(l) : q < p} \in SUBSET Starts(l)
      OBVIOUS
    <2>2. QED
      BY <1>4, <2>1, FS_Subset
  <1>6. QED
    BY <1>1, <1>2, <1>4, <1>5, FS_CardinalityType DEF Before

\* One more word has begun behind p if one begins there.
LEMMA BeforeStep ==
    ASSUME NEW l, CString(l), NEW p \in Nat
    PROVE  Before(l, p + 1) = IF p \in Starts(l) THEN Before(l, p) + 1 ELSE Before(l, p)
  <1> DEFINE A == {q \in Starts(l) : q < p}
             B == {q \in Starts(l) : q < p + 1}
  <1>0. Before(l, p) = Cardinality(A) /\ Before(l, p + 1) = Cardinality(B)
    BY DEF Before
  <1>1. IsFiniteSet(A) /\ Starts(l) \subseteq Nat /\ Cardinality(A) \in Nat
    BY <1>0, StartsFinite
  <1>2. CASE p \in Starts(l)
    <2>1. B = A \cup {p} /\ p \notin A
      BY <1>1, <1>2
    <2>2. QED
      BY <1>0, <1>1, <1>2, <2>1, FS_AddElement
  <1>3. CASE p \notin Starts(l)
    <2>1. B = A
      BY <1>1, <1>3
    <2>2. QED
      BY <1>0, <1>3, <2>1
  <1>4. QED
    BY <1>2, <1>3

\* The words before the first character, and before the end.
LEMMA BeforeEnds ==
    ASSUME NEW l, CString(l)
    PROVE  Before(l, 1) = 0 /\ Before(l, Len(l)) = Cardinality(Starts(l))
  <1>1. Len(l) \in Nat /\ DOMAIN l = 1..Len(l) /\ Starts(l) \subseteq 1..Len(l)
    BY StartsFinite
  <1>2. {q \in Starts(l) : q < 1} = {}
    BY <1>1
  <1>3. Len(l) \notin Starts(l)
    BY DEF Starts, IsLetter, CString
  <1>4. {q \in Starts(l) : q < Len(l)} = Starts(l)
    BY <1>1, <1>3
  <1>5. QED
    BY <1>2, <1>4, FS_EmptySet DEF Before

\* No two words have as many before them.
LEMMA BeforeMonotone ==
    ASSUME NEW l, CString(l), NEW p \in Starts(l), NEW q \in Nat, p < q
    PROVE  Before(l, p) < Before(l, q)
  <1> DEFINE A == {x \in Starts(l) : x < p}
             B == {x \in Starts(l) : x < q}
  <1>0. Before(l, p) = Cardinality(A) /\ Before(l, q) = Cardinality(B)
    BY DEF Before
  <1>1. IsFiniteSet(A) /\ IsFiniteSet(B) /\ Starts(l) \subseteq Nat /\ Cardinality(A) \in Nat /\ Cardinality(B) \in Nat
    <2>1. \A x : IsFiniteSet({y \in Starts(l) : y < x})
      BY StartsFinite
    <2>2. IsFiniteSet(A) /\ IsFiniteSet(B)
      BY <2>1
    <2>3. QED
      BY <2>2, StartsFinite, FS_CardinalityType
  <1>2. A \cup {p} \in SUBSET B /\ p \notin A
    BY <1>1
  <1>3. Cardinality(A \cup {p}) = Cardinality(A) + 1 /\ Cardinality(A \cup {p}) <= Cardinality(B)
    BY <1>1, <1>2, FS_AddElement, FS_Subset
  <1> HIDE DEF A, B
  <1>4. Cardinality(A) < Cardinality(B)
    BY <1>1, <1>3
  <1>5. QED
    BY <1>0, <1>4

\* Between words no word begins; a run of letters is one.
LEMMA RunIsWord ==
    ASSUME NEW l, CString(l), NEW s \in Nat, NEW e \in Nat, 1 <= s, s < e, e <= Len(l),
           \A p \in s..e - 1 : IsLetter(l, p), ~IsLetter(l, s - 1), ~IsLetter(l, e)
    PROVE  /\ s \in Starts(l) /\ WordLen(l, s) = e - s
           /\ Before(l, e) = Before(l, s) + 1 /\ Before(l, e + 1) = Before(l, s) + 1
  <1>1. Len(l) \in Nat /\ DOMAIN l = 1..Len(l) /\ Starts(l) \subseteq 1..Len(l)
    BY StartsFinite
  <1>2. s \in Starts(l) /\ e \notin Starts(l)
    <2>1. s \in s..e - 1
      OBVIOUS
    <2>2. IsLetter(l, s)
      BY <2>1
    <2>3. QED
      BY <2>2 DEF Starts, IsLetter
  <1>3. \A q \in Starts(l) : ~(s < q /\ q < e)
    <2>1. SUFFICES ASSUME NEW q \in Starts(l), s < q, q < e PROVE FALSE
      OBVIOUS
    <2>2. q - 1 \in s..e - 1
      BY <1>1, <2>1
    <2>3. QED
      BY <2>2 DEF Starts
  <1>4. Before(l, e) = Before(l, s + 1)
    <2>1. {q \in Starts(l) : q < e} = {q \in Starts(l) : q < s + 1}
      BY <1>1, <1>3
    <2>2. QED
      BY <2>1 DEF Before
  <1>5. Before(l, s + 1) = Before(l, s) + 1 /\ Before(l, e + 1) = Before(l, e)
    BY <1>2, BeforeStep
  <1>6. WordLen(l, s) = e - s
    <2> DEFINE S == {n \in 1..Len(l) : ~IsLetter(l, s + n)}
               d == e - s
    <2>1. d \in S
      <3>1. d \in 1..Len(l) /\ s + d = e
        BY <1>1
      <3>2. QED
        BY <3>1
    <2>2. \A n \in S : d <= n
      <3>1. SUFFICES ASSUME NEW n \in S, ~(d <= n) PROVE FALSE
        OBVIOUS
      <3>2. s + n \in s..e - 1
        BY <1>1, <3>1
      <3>3. QED
        BY <3>2
    <2>3. d \in Int /\ \A n \in S : n \in Int
      OBVIOUS
    <2> HIDE DEF S, d
    <2>4. Min(S) = d
      <3>1. Min(S) = CHOOSE x \in S : \A y \in S : x <= y
        BY DEF Min
      <3>2. \A x \in S : (\A y \in S : x <= y) => x = d
        BY <2>1, <2>2, <2>3
      <3>3. QED
        BY <2>1, <2>2, <3>1, <3>2
    <2>5. QED
      BY <2>4 DEF WordLen, S, d
  <1>7. QED
    BY <1>2, <1>4, <1>5, <1>6

\* The reference: a word of the line at its place.
LEMMA WordsAt ==
    ASSUME NEW l, CString(l)
    PROVE  /\ \E T : Words(l) \in Seq(T)
           /\ Len(Words(l)) = Cardinality(Starts(l))
           /\ \A n \in Nat, t \in Tok : IsWord(l, t, n) => n \in 1..Len(Words(l)) /\ Words(l)[n] = t
  <1> DEFINE S == Starts(l)
             C == Cardinality(S)
             UpTo(p) == {q \in S : q <= p}
             Nth(n) == CHOOSE p \in S : Cardinality(UpTo(p)) = n
             W == [n \in 1..C |-> [value |-> Nth(n), length |-> WordLen(l, Nth(n))]]
  <1>1. Words(l) = W
    BY DEF Words, Starts, IsLetter, WordLen
  <1>2. S \subseteq 1..Len(l) /\ C \in Nat /\ Len(l) \in Nat /\ \A p : Before(l, p) \in Nat
    BY StartsFinite
  <1>3. ASSUME NEW p \in S PROVE Cardinality(UpTo(p)) = Before(l, p) + 1
    <2>1. UpTo(p) = {q \in S : q < p + 1}
      BY <1>2
    <2>2. Cardinality(UpTo(p)) = Before(l, p + 1)
      BY <2>1 DEF Before
    <2>3. QED
      BY <1>2, <2>2, BeforeStep
  <1>4. ASSUME NEW p \in S, NEW q \in S, Before(l, p) = Before(l, q) PROVE p = q
    <2>1. p \in Nat /\ q \in Nat /\ Before(l, p) \in Nat
      BY <1>2
    <2>2. ~(p < q) /\ ~(q < p)
      BY <1>4, <2>1, BeforeMonotone
    <2>3. QED
      BY <2>1, <2>2
  <1> HIDE DEF S, UpTo
  <1>5. ASSUME NEW n \in Nat, NEW t \in Tok, IsWord(l, t, n) PROVE n \in 1..C /\ W[n] = t
    <2> DEFINE p == t.value
    <2>1. p \in S /\ Before(l, p) = n - 1 /\ t.length = WordLen(l, p)
      BY <1>5 DEF IsWord, S
    <2> HIDE DEF p
    <2>2. p < Len(l)
      <3>1. p # Len(l)
        BY <2>1 DEF Starts, IsLetter, CString, S
      <3>2. QED
        BY <1>2, <2>1, <3>1
    <2>3. Before(l, p) < Before(l, Len(l)) /\ Before(l, Len(l)) = C
      BY <1>2, <2>1, <2>2, BeforeMonotone, BeforeEnds DEF S
    <2>4. n \in 1..C
      BY <1>2, <2>1, <2>3
    <2>5. Cardinality(UpTo(p)) = n
      BY <1>3, <2>1
    <2>6. Nth(n) = p
      <3>1. Nth(n) \in S /\ Cardinality(UpTo(Nth(n))) = n
        BY <2>1, <2>5
      <3>2. Before(l, Nth(n)) + 1 = Before(l, p) + 1
        BY <1>3, <2>1, <2>5, <3>1
      <3> HIDE DEF Nth
      <3>3. Before(l, Nth(n)) = Before(l, p)
        BY <1>2, <3>2
      <3>4. QED
        BY <1>4, <2>1, <3>1, <3>3
    <2> HIDE DEF Nth
    <2>7. W[n] = [value |-> p, length |-> WordLen(l, p)]
      BY <2>4, <2>6
    <2>8. t = [value |-> p, length |-> WordLen(l, p)]
      BY <2>1 DEF Tok, p
    <2>9. QED
      BY <2>4, <2>7, <2>8
  <1>6. \E T : W \in Seq(T)
    <2> HIDE DEF Nth
    <2> DEFINE T == {W[n] : n \in 1..C}
    <2>1. \A n \in 1..C : W[n] \in T
      OBVIOUS
    <2>2. W = [n \in 1..C |-> W[n]]
      OBVIOUS
    <2> HIDE DEF W, T, C
    <2>3. W \in [1..C -> T]
      BY <2>1, <2>2
    <2>4. \A X, n, f : n \in Nat /\ f \in [1..n -> X] => f \in Seq(X)
      OBVIOUS
    <2>5. QED
      BY <1>2, <2>3, <2>4
  <1>7. Len(W) = C
    BY <1>2
  <1> HIDE DEF W, C
  <1>8. QED
    BY <1>1, <1>5, <1>6, <1>7 DEF C, S

-----------------------------------------------------------------------------
(* The loop of tokenize_command, unfolded *)

\* strlen counts up to the first '\0'.
LEMMA StrLenIs ==
    ASSUME NEW s \in Seq(Char), NEW v \in 1..Len(s), NEW z \in v..Len(s), s[z] = Nul,
           \A p \in v..z - 1 : s[p] # Nul
    PROVE  StrLen(s, v) = z - v
  <1> DEFINE S == {p \in v..Len(s) : s[p] = Nul}
  <1>1. Len(s) \in Nat
    OBVIOUS
  <1>2. z \in S /\ \A p \in S : z <= p
    <2>1. SUFFICES ASSUME NEW p \in S, ~(z <= p) PROVE FALSE
      OBVIOUS
    <2>2. p \in v..z - 1
      BY <1>1, <2>1
    <2>3. QED
      BY <2>2
  <1>3. z \in Int /\ \A p \in S : p \in Int
    BY <1>1
  <1>4. StrLen(s, v) = (IF S # {} THEN Min(S) ELSE 0) - v
    BY DEF StrLen, SelectInSubSeq
  <1> HIDE DEF S
  <1>5. Min(S) = z
    <2>1. Min(S) = CHOOSE x \in S : \A y \in S : x <= y
      BY DEF Min
    <2>2. \A x \in S : (\A y \in S : x <= y) => x = z
      BY <1>2, <1>3
    <2>3. QED
      BY <1>2, <2>1, <2>2
  <1>6. QED
    BY <1>2, <1>4, <1>5

\* The state of the scan where it begins, and what it leaves.
Begin(s, v) == [s |-> v, e |-> v, tokens |-> <<>>, str |-> s, stop |-> FALSE]
LastToken(x) == IF x.s # x.e THEN <<[value |-> x.s, length |-> x.e - x.s]>> ELSE <<>>
Finish(x) == [str |-> x.str, tokens |-> x.tokens \o LastToken(x) \o <<[value |-> Rest(x.str, x.e), length |-> 0]>>]

\* h[n] is the state after n of L iterations.
ScanRun(h, s, v, M, L) ==
    /\ h[0] = Begin(s, v)
    /\ \A n \in 1..L : h[n] = Scan(h[n - 1], M)
    /\ TokenizeCommand(s, v, M) = Finish(h[L])

\* The recursive function of TokenizeCommand, as the states h[0] to h[L] of the loop.
LEMMA ScanUnfold ==
    ASSUME NEW s, NEW v, NEW M, NEW L \in Nat, StrLen(s, v) = L
    PROVE  \E h : ScanRun(h, s, v, M, L)
  <1> DEFINE F(f, n) == [k \in 0..n |-> IF k = 0 THEN Begin(s, v) ELSE Scan(f[k - 1], M)]
             S == {n \in Nat : \E h : h = F(h, n)}
  <1>1. 0 \in S
    <2> DEFINE h == [k \in 0..0 |-> Begin(s, v)]
    <2>1. h = F(h, 0)
      BY DEF Scan
    <2>2. QED
      BY <2>1
  <1>2. ASSUME NEW n \in Nat, n \in S PROVE n + 1 \in S
    <2>1. PICK h : h = F(h, n)
      BY <1>2
    <2> DEFINE g == [k \in 0..n + 1 |-> IF k <= n THEN h[k] ELSE Scan(h[n], M)]
    <2>2. \A k \in 0..n : g[k] = h[k]
      OBVIOUS
    <2>3. g[n + 1] = Scan(h[n], M)
      OBVIOUS
    <2>4. \A k \in 0..n : h[k] = IF k = 0 THEN Begin(s, v) ELSE Scan(h[k - 1], M)
      BY <2>1
    <2>5. g = [k \in 0..n + 1 |-> g[k]]
      OBVIOUS
    <2>6. \A k \in 0..n + 1 : g[k] = IF k = 0 THEN Begin(s, v) ELSE Scan(g[k - 1], M)
      <3> HIDE DEF g
      <3>1. SUFFICES ASSUME NEW k \in 0..n + 1 PROVE g[k] = IF k = 0 THEN Begin(s, v) ELSE Scan(g[k - 1], M)
        OBVIOUS
      <3>2. CASE k = 0
        BY <2>2, <2>4, <3>2
      <3>3. CASE k # 0 /\ k <= n
        <4>1. k \in 0..n /\ k - 1 \in 0..n
          BY <3>3
        <4>2. g[k] = h[k] /\ g[k - 1] = h[k - 1]
          BY <2>2, <4>1
        <4>3. h[k] = Scan(h[k - 1], M)
          BY <2>4, <3>3, <4>1
        <4>4. QED
          BY <3>3, <4>2, <4>3
      <3>4. CASE ~(k <= n)
        <4>1. k = n + 1 /\ k - 1 = n /\ n \in 0..n
          BY <3>4
        <4>2. g[n] = h[n]
          BY <2>2, <4>1
        <4>3. QED
          BY <2>3, <4>1, <4>2
      <3>5. QED
        BY <3>2, <3>3, <3>4
    <2> HIDE DEF g
    <2>7. g = F(g, n + 1)
      BY <2>5, <2>6
    <2> HIDE DEF F
    <2>8. n + 1 \in Nat
      OBVIOUS
    <2>9. QED
      BY <2>7, <2>8
  <1>3. L \in S
    <2> HIDE DEF S
    <2>1. QED
      BY <1>1, <1>2, SetInduction
  <1> DEFINE h == CHOOSE f : f = F(f, L)
  <1>4. h = F(h, L)
    <2> HIDE DEF F
    <2>1. QED
      BY <1>3
  <1>5. TokenizeCommand(s, v, M) = Finish(h[L])
    BY DEF TokenizeCommand, Finish, Begin, LastToken
  <1> HIDE DEF h
  <1>6. \A n \in 0..L : h[n] = IF n = 0 THEN Begin(s, v) ELSE Scan(h[n - 1], M)
    BY <1>4
  <1>7. h[0] = Begin(s, v)
    BY <1>6
  <1>8. \A n \in 1..L : h[n] = Scan(h[n - 1], M)
    BY <1>6
  <1>9. QED
    BY <1>5, <1>7, <1>8 DEF ScanRun

ScanState == [s : Nat, e : Nat, tokens : Seq(Tok), str : Seq(Char), stop : BOOLEAN]

ScanIs(x, s, e, ts, z, b) ==
    x \in ScanState /\ x.s = s /\ x.e = e /\ x.tokens = ts /\ x.str = z /\ (x.stop <=> b)

\* One iteration of tokenize_command's loop, case by case.
LEMMA ScanLetter ==
    ASSUME NEW x \in ScanState, NEW M, ~x.stop, x.str[x.e] # Space
    PROVE  ScanIs(Scan(x, M), x.s, x.e + 1, x.tokens, x.str, FALSE)
  <1>1. Scan(x, M) = [x EXCEPT !.e = x.e + 1]
    BY DEF Scan, ScanState
  <1> DEFINE y == [x EXCEPT !.e = x.e + 1]
  <1>2. y \in ScanState /\ y.s = x.s /\ y.e = x.e + 1 /\ y.tokens = x.tokens /\ y.str = x.str /\ y.stop = x.stop
    BY DEF ScanState
  <1> HIDE DEF y
  <1>3. QED
    BY <1>1, <1>2 DEF ScanIs, y

\* A space behind a space is passed.
LEMMA ScanBlank ==
    ASSUME NEW x \in ScanState, NEW M, ~x.stop, x.str[x.e] = Space, x.s = x.e
    PROVE  ScanIs(Scan(x, M), x.e + 1, x.e + 1, x.tokens, x.str, FALSE)
  <1> DEFINE r == [s |-> x.e + 1, e |-> x.e + 1, tokens |-> x.tokens, str |-> x.str, stop |-> FALSE]
  <1>1. Scan(x, M) = r
    BY DEF Scan
  <1>2. r \in ScanState /\ r.s = x.e + 1 /\ r.e = x.e + 1 /\ r.tokens = x.tokens /\ r.str = x.str /\ ~r.stop
    BY DEF ScanState
  <1> HIDE DEF r
  <1>3. QED
    BY <1>1, <1>2 DEF ScanIs

\* A space behind a word ends it: it becomes a token, and the space a '\0'.
LEMMA ScanCut ==
    ASSUME NEW x \in ScanState, NEW M \in Nat, ~x.stop, x.str[x.e] = Space, x.s < x.e, x.e \in DOMAIN x.str
    PROVE  ScanIs(Scan(x, M), x.e + 1, x.e + 1, Append(x.tokens, [value |-> x.s, length |-> x.e - x.s]),
                  [x.str EXCEPT ![x.e] = Nul], Len(x.tokens) + 1 = M - 1)
  <1> DEFINE w == [value |-> x.s, length |-> x.e - x.s]
             ts == Append(x.tokens, w)
             z == [x.str EXCEPT ![x.e] = Nul]
             b == Enough(ts, M)
             r == [s |-> x.e + 1, e |-> x.e + 1, tokens |-> ts, str |-> z, stop |-> b]
  <1>1. x.s \in Nat /\ x.e \in Nat /\ x.tokens \in Seq(Tok) /\ x.str \in Seq(Char) /\ x.s # x.e
    BY DEF ScanState
  <1>2. w \in Tok
    <2>1. x.e - x.s \in Nat
      BY <1>1
    <2>2. QED
      BY <1>1, <2>1 DEF Tok
  <1> HIDE DEF w
  <1>3. ts \in Seq(Tok) /\ Len(ts) = Len(x.tokens) + 1
    BY <1>1, <1>2
  <1>4. z \in Seq(Char)
    <2>1. x.e \in 1..Len(x.str)
      BY <1>1
    <2>2. Nul \in Char
      BY DEF Char
    <2>3. QED
      BY <1>1, <2>1, <2>2, ExceptSeq
  <1>5. Scan(x, M) = r
    BY <1>1 DEF Scan, w
  <1>6. b = (Len(x.tokens) + 1 = M - 1)
    BY <1>3 DEF Enough
  <1>7. b \in BOOLEAN
    BY DEF Enough
  <1> DEFINE c == (Len(x.tokens) + 1 = M - 1)
  <1> HIDE DEF b, ts, z, c
  <1>8. r \in ScanState /\ r.s = x.e + 1 /\ r.e = x.e + 1 /\ r.tokens = ts /\ r.str = z /\ r.stop = b
    BY <1>1, <1>3, <1>4, <1>7 DEF ScanState
  <1> HIDE DEF r
  <1>9. ScanIs(r, x.e + 1, x.e + 1, ts, z, b)
    BY <1>8 DEF ScanIs
  <1>10. ScanIs(r, x.e + 1, x.e + 1, ts, z, c)
    BY <1>6, <1>9 DEF c
  <1>11. QED
    BY <1>5, <1>10 DEF ts, z, c, w

\* After n iterations from v on, where m words of l come before.
Scanned(x, l, v, n) ==
    /\ x \in ScanState
    /\ CutOf(x.str, l)
    /\ v <= x.s /\ x.s <= x.e /\ x.e <= v + n
    /\ (~x.stop) => x.e = v + n
    /\ \A p \in x.s..x.e - 1 : IsLetter(l, p)
    /\ ~IsLetter(l, x.s - 1)
    /\ \A p \in x.e..Len(l) : x.str[p] = l[p]
    /\ Before(l, x.s) = Before(l, v) + Len(x.tokens)
    /\ \A j \in 1..Len(x.tokens) : CutWord(x.str, l, x.tokens[j], Before(l, v) + j)
    /\ IF x.stop THEN Len(x.tokens) = MaxTokens - 1 /\ x.s = x.e /\ v < x.e /\ l[x.e - 1] = Space
                 ELSE Len(x.tokens) < MaxTokens - 1

\* Overwriting one more space.
LEMMA CutMore ==
    ASSUME NEW l, CString(l), NEW s, CutOf(s, l), NEW e \in DOMAIN l, l[e] = Space
    PROVE  /\ CutOf([s EXCEPT ![e] = Nul], l)
           /\ \A p \in DOMAIN l : [s EXCEPT ![e] = Nul][p] = IF p = e THEN Nul ELSE s[p]
           /\ \A t, n : CutWord(s, l, t, n) => CutWord([s EXCEPT ![e] = Nul], l, t, n)
  <1> DEFINE z == [s EXCEPT ![e] = Nul]
  <1>1. Len(l) \in Nat /\ DOMAIN l = 1..Len(l) /\ s \in Seq(Char) /\ Len(s) = Len(l) /\ DOMAIN s = 1..Len(s)
    BY StartsFinite DEF CutOf
  <1>2. Nul \in Char /\ e \in 1..Len(s)
    BY <1>1 DEF Char
  <1>3. z \in Seq(Char) /\ Len(z) = Len(s)
    BY <1>1, <1>2, ExceptSeq
  <1>4. \A p \in DOMAIN l : z[p] = IF p = e THEN Nul ELSE s[p]
    BY <1>1
  <1> HIDE DEF z
  <1>5. CutOf(z, l)
    BY <1>1, <1>3, <1>4 DEF CutOf
  <1>6. \A t, n : CutWord(s, l, t, n) => CutWord(z, l, t, n)
    BY <1>4 DEF CutWord
  <1>7. QED
    BY <1>4, <1>5, <1>6 DEF z

\* The scan may begin anywhere but inside a word.
LEMMA ScannedBegin ==
    ASSUME NEW l, CString(l), NEW s, CutOf(s, l), NEW v \in DOMAIN l, ~IsLetter(l, v - 1),
           \A p \in v..Len(l) : s[p] = l[p]
    PROVE  Scanned(Begin(s, v), l, v, 0)
  <1> DEFINE x == Begin(s, v)
  <1>1. Len(l) \in Nat /\ DOMAIN l = 1..Len(l) /\ Before(l, v) \in Nat
    BY StartsFinite
  <1>2. MaxTokens \in Nat /\ MaxTokens > 1
    BY CommandsAssumption
  <1>3. s \in Seq(Char)
    BY DEF CutOf
  <1>4. x \in ScanState /\ x.s = v /\ x.e = v /\ x.tokens = <<>> /\ x.str = s /\ ~x.stop
    BY <1>1, <1>3 DEF Begin, ScanState
  <1> HIDE DEF x
  <1>5. x.s..x.e - 1 = {} /\ 1..Len(x.tokens) = {} /\ Len(x.tokens) = 0
    BY <1>1, <1>4
  <1>6. QED
    BY <1>1, <1>2, <1>4, <1>5 DEF Scanned, x

\* Every iteration of the loop keeps what is known of the tokens found so far.
LEMMA ScannedStep ==
    ASSUME NEW l, CString(l), NEW v \in DOMAIN l, NEW n \in Nat, v + n < Len(l),
           NEW x, Scanned(x, l, v, n)
    PROVE  Scanned(Scan(x, MaxTokens), l, v, n + 1)
  <1> DEFINE y == Scan(x, MaxTokens)
  <1>1. Len(l) \in Nat /\ DOMAIN l = 1..Len(l) /\ \A p : Before(l, p) \in Nat
    BY StartsFinite
  <1>2. MaxTokens \in Nat /\ MaxTokens > 1
    BY CommandsAssumption
  <1>3. x \in ScanState /\ x.s \in Nat /\ x.e \in Nat /\ x.tokens \in Seq(Tok) /\ x.str \in Seq(Char) /\ x.stop \in BOOLEAN /\ Len(x.tokens) \in Nat
    BY DEF Scanned, ScanState
  <1>4. CASE x.stop
    <2>1. y = x
      BY <1>4 DEF Scan
    <2>2. x.e <= v + (n + 1)
      BY <1>1, <1>3 DEF Scanned
    <2> HIDE DEF y
    <2>3. QED
      BY <1>4, <2>1, <2>2 DEF Scanned, y
  <1>5. CASE ~x.stop
    <2>1. x.e = v + n /\ x.e \in DOMAIN l /\ x.e < Len(l) /\ v <= x.s /\ x.s <= x.e /\ Len(x.tokens) < MaxTokens - 1 /\ x.e + 1 = v + (n + 1)
      BY <1>1, <1>5 DEF Scanned
    <2>2. x.str[x.e] = l[x.e] /\ l[x.e] # Nul /\ \A p \in x.e + 1..Len(l) : x.str[p] = l[p]
      BY <1>1, <2>1, <1>3, SMTT(30) DEF Scanned, CString
    <2>3. Before(l, x.s) = Before(l, v) + Len(x.tokens)
      BY DEF Scanned
    <2>4. CASE l[x.e] # Space
      <3>1. ScanIs(y, x.s, x.e + 1, x.tokens, x.str, FALSE)
        BY <1>3, <1>5, <2>2, <2>4, ScanLetter
      <3> HIDE DEF y
      <3>2. y \in ScanState /\ y.s = x.s /\ y.e = x.e + 1 /\ y.tokens = x.tokens /\ y.str = x.str /\ ~y.stop
        BY <3>1 DEF ScanIs
      <3>3. IsLetter(l, x.e)
        BY <2>1, <2>2, <2>4 DEF IsLetter
      <3>4. \A p \in x.s..y.e - 1 : IsLetter(l, p)
        <4>1. SUFFICES ASSUME NEW p \in x.s..y.e - 1 PROVE IsLetter(l, p)
          OBVIOUS
        <4>2. p = x.e \/ p \in x.s..x.e - 1
          BY <1>3, <3>2
        <4>3. QED
          BY <3>3, <4>2 DEF Scanned
      <3>5. x.s <= y.e /\ y.e <= v + (n + 1)
        BY <1>3, <2>1, <3>2
      <3>6. QED
        BY <2>1, <2>2, <3>2, <3>4, <3>5 DEF Scanned, y
    <2>5. CASE l[x.e] = Space
      <3>1. ~IsLetter(l, x.e) /\ x.e \notin Starts(l) /\ (x.e + 1) - 1 = x.e
        BY <1>3, <2>5 DEF IsLetter, Starts
      <3>2. Before(l, x.e + 1) = Before(l, x.e)
        BY <1>3, <3>1, BeforeStep
      <3>3. (x.e + 1)..(x.e + 1) - 1 = {}
        BY <1>3
      <3>4. CASE x.s = x.e
        <4>1. ScanIs(y, x.e + 1, x.e + 1, x.tokens, x.str, FALSE)
          BY <1>3, <1>5, <2>2, <2>5, <3>4, ScanBlank
        <4> HIDE DEF y
        <4>2. y \in ScanState /\ y.s = x.e + 1 /\ y.e = x.e + 1 /\ y.tokens = x.tokens /\ y.str = x.str /\ ~y.stop
          BY <4>1 DEF ScanIs
        <4>3. v <= y.s /\ y.s <= y.e /\ y.e <= v + (n + 1)
          BY <1>3, <2>1, <4>2
        <4>4. y.s..y.e - 1 = {} /\ y.s - 1 = x.e
          BY <3>1, <3>3, <4>2
        <4>5. Before(l, y.s) = Before(l, v) + Len(y.tokens)
          BY <2>3, <3>2, <3>4, <4>2
        <4>6. QED
          BY <2>1, <2>2, <3>1, <4>2, <4>3, <4>4, <4>5 DEF Scanned, y
      <3>5. CASE x.s < x.e
        <4> DEFINE w == [value |-> x.s, length |-> x.e - x.s]
                   ts == Append(x.tokens, w)
                   z == [x.str EXCEPT ![x.e] = Nul]
        <4>0. CutOf(x.str, l) /\ x.e \in DOMAIN x.str
          BY <1>1, <1>3, <2>1, SMTT(40) DEF Scanned, CutOf
        <4>1. ScanIs(y, x.e + 1, x.e + 1, ts, z, Len(x.tokens) + 1 = MaxTokens - 1)
          BY <1>2, <1>3, <1>5, <2>2, <2>5, <3>5, <4>0, ScanCut
        <4>2. /\ CutOf(z, l)
              /\ \A p \in DOMAIN l : z[p] = IF p = x.e THEN Nul ELSE x.str[p]
              /\ \A t, k : CutWord(x.str, l, t, k) => CutWord(z, l, t, k)
          BY <2>1, <2>5, <4>0, CutMore
        <4>3. /\ x.s \in Starts(l) /\ WordLen(l, x.s) = x.e - x.s
              /\ Before(l, x.e + 1) = Before(l, x.s) + 1
          <5>1. 1 <= x.s /\ x.e <= Len(l)
            BY <1>1, <1>3, <2>1
          <5>2. (\A p \in x.s..x.e - 1 : IsLetter(l, p)) /\ ~IsLetter(l, x.s - 1)
            BY DEF Scanned
          <5>3. QED
            BY <1>3, <3>1, <3>5, <5>1, <5>2, RunIsWord
        <4>4. w \in Tok /\ w.value = x.s /\ w.length = x.e - x.s /\ w.length > 0 /\ w.value + w.length = x.e
          <5>1. x.e - x.s \in Nat /\ x.e - x.s > 0 /\ x.s + (x.e - x.s) = x.e
            BY <1>3, <3>5
          <5>2. QED
            BY <1>3, <5>1 DEF Tok
        <4> HIDE DEF w
        <4>5. CutWord(z, l, w, Before(l, v) + (Len(x.tokens) + 1))
          <5>1. Before(l, x.s) = (Before(l, v) + (Len(x.tokens) + 1)) - 1
            <6>1. \A a, b, c \in Nat : a = b + c => a = (b + (c + 1)) - 1
              OBVIOUS
            <6>2. Before(l, x.s) \in Nat /\ Before(l, v) \in Nat /\ Len(x.tokens) \in Nat
              BY <1>1, <1>3, Zenon
            <6>3. QED
              BY <2>3, <6>1, <6>2, Zenon
          <5>2. IsWord(l, w, Before(l, v) + (Len(x.tokens) + 1))
            BY <4>3, <4>4, <5>1 DEF IsWord
          <5>3. z[x.e] = Nul
            BY <2>1, <4>2
          <5>4. \A p \in x.s..x.e - 1 : IsLetter(l, p)
            BY DEF Scanned
          <5> HIDE DEF z
          <5>5. \A p \in w.value..w.value + w.length - 1 : IsLetter(l, p)
            <6>1. w.value..w.value + w.length - 1 = x.s..x.e - 1
              <7>1. \A a, b, c \in Nat : a + b = c => a + b - 1 = c - 1
                OBVIOUS
              <7>2. w.value \in Nat /\ w.length \in Nat
                BY <4>4 DEF Tok
              <7>3. w.value + w.length - 1 = x.e - 1
                BY <1>3, <4>4, <7>1, <7>2
              <7>4. QED
                BY <4>4, <7>3, Zenon
            <6>2. QED
              BY <5>4, <6>1, Zenon
          <5>6. w.value + w.length \in DOMAIN l /\ z[w.value + w.length] = Nul
            BY <2>1, <4>4, <5>3
          <5>7. QED
            BY <4>4, <5>2, <5>5, <5>6 DEF CutWord
        <4>6. ts \in Seq(Tok) /\ Len(ts) = Len(x.tokens) + 1 /\ ts[Len(x.tokens) + 1] = w
              /\ \A j \in 1..Len(x.tokens) : ts[j] = x.tokens[j]
          BY <1>3, <4>4
        <4> HIDE DEF y, ts, z
        <4>7. y \in ScanState /\ y.s = x.e + 1 /\ y.e = x.e + 1 /\ y.tokens = ts /\ y.str = z /\ (y.stop <=> Len(x.tokens) + 1 = MaxTokens - 1)
          BY <4>1 DEF ScanIs
        <4>8. \A j \in 1..Len(ts) : CutWord(z, l, ts[j], Before(l, v) + j)
          <5>1. SUFFICES ASSUME NEW j \in 1..Len(ts) PROVE CutWord(z, l, ts[j], Before(l, v) + j)
            OBVIOUS
          <5>2. j = Len(x.tokens) + 1 \/ j \in 1..Len(x.tokens)
            BY <1>3, <4>6
          <5>3. CASE j = Len(x.tokens) + 1
            BY <4>5, <4>6, <5>3
          <5>4. CASE j \in 1..Len(x.tokens)
            BY <4>2, <4>6, <5>4 DEF Scanned
          <5>5. QED
            BY <5>2, <5>3, <5>4
        <4>9. \A p \in y.e..Len(l) : z[p] = l[p]
          <5>1. \A p \in x.e + 1..Len(l) : p \in DOMAIN l /\ p # x.e
            BY <1>1, <1>3, <2>1
          <5>2. QED
            BY <2>2, <4>2, <4>7, <5>1
        <4>10. v <= y.s /\ y.s <= y.e /\ y.e <= v + (n + 1) /\ y.e = v + (n + 1) /\ v < y.e
          BY <1>1, <1>3, <2>1, <4>7
        <4>11. y.s..y.e - 1 = {} /\ y.s - 1 = x.e /\ y.e - 1 = x.e
          BY <3>1, <3>3, <4>7
        <4>12. Before(l, y.s) = Before(l, v) + Len(y.tokens)
          <5>1. Before(l, v) \in Nat /\ Len(x.tokens) \in Nat
            BY <1>1, <1>3
          <5>2. QED
            BY <2>3, <4>3, <4>6, <4>7, <5>1, SMTT(30)
        <4>13. IF y.stop THEN Len(y.tokens) = MaxTokens - 1 /\ y.s = y.e /\ v < y.e /\ l[y.e - 1] = Space
                         ELSE Len(y.tokens) < MaxTokens - 1
          <5>1. CASE y.stop
            BY <2>5, <4>6, <4>7, <4>10, <4>11, <5>1
          <5>2. CASE ~y.stop
            <6>1. Len(x.tokens) + 1 # MaxTokens - 1
              BY <4>7, <5>2
            <6>2. QED
              <7>1. Len(x.tokens) + 1 < MaxTokens - 1
                BY <1>2, <1>3, <2>1, <6>1, SMTT(30)
              <7>2. QED
                BY <4>6, <4>7, <5>2, <7>1
          <5>3. QED
            BY <5>1, <5>2
        <4>14. QED
          BY <3>1, <4>2, <4>7, <4>8, <4>9, <4>10, <4>11, <4>12, <4>13 DEF Scanned, y
      <3>6. QED
        BY <1>3, <2>1, <3>4, <3>5
    <2>6. QED
      BY <2>4, <2>5
  <1>6. QED
    BY <1>3, <1>4, <1>5

\* u is s and behind it b, or a and b.
OneMore(u, T, s, b) ==
    u \in Seq(T) /\ Len(u) = Len(s) + 1 /\ Last(u) = b /\ \A j \in 1..Len(s) : u[j] = s[j]
TwoMore(u, T, s, a, b) ==
    /\ u \in Seq(T) /\ Len(u) = Len(s) + 2 /\ Last(u) = b /\ u[Len(s) + 1] = a
    /\ \A j \in 1..Len(s) : u[j] = s[j]

\* One element more, behind an empty sequence or not.
LEMMA AppendOne ==
    ASSUME NEW T, NEW s \in Seq(T), NEW b \in T
    PROVE  OneMore(s \o <<>> \o <<b>>, T, s, b) /\ OneMore(s \o <<b>>, T, s, b)
  <1> DEFINE u == s \o <<b>>
  <1>1. s \o <<>> = s /\ s \o <<b>> = Append(s, b)
    OBVIOUS
  <1>2. u = Append(s, b) /\ s \o <<>> \o <<b>> = u
    BY <1>1
  <1> HIDE DEF u
  <1>3. u \in Seq(T) /\ Len(u) = Len(s) + 1 /\ u[Len(s) + 1] = b
    BY <1>2
  <1>4. \A j \in 1..Len(s) : u[j] = s[j]
    BY <1>2
  <1>5. QED
    <2>1. OneMore(u, T, s, b)
      BY <1>3, <1>4 DEF Last, OneMore
    <2>2. QED
      BY <1>2, <2>1, Zenon DEF u

\* Two elements more.
LEMMA AppendTwo ==
    ASSUME NEW T, NEW s \in Seq(T), NEW a \in T, NEW b \in T
    PROVE  TwoMore(s \o <<a>> \o <<b>>, T, s, a, b)
  <1> DEFINE w == s \o <<a>>
  <1>1. w = Append(s, a)
    OBVIOUS
  <1>2. w \in Seq(T) /\ Len(w) = Len(s) + 1 /\ w[Len(s) + 1] = a /\ \A j \in 1..Len(s) : w[j] = s[j]
    BY <1>1
  <1> HIDE DEF w
  <1> DEFINE u == w \o <<b>>
  <1>3. OneMore(u, T, w, b)
    BY <1>2, AppendOne, Zenon
  <1> HIDE DEF u
  <1>4. /\ u \in Seq(T) /\ Len(u) = Len(w) + 1 /\ Last(u) = b
        /\ \A j \in 1..Len(w) : u[j] = w[j]
    BY <1>3 DEF OneMore
  <1>5. Len(u) = Len(s) + 2 /\ Len(s) + 1 \in 1..Len(w) /\ \A j \in 1..Len(s) : j \in 1..Len(w)
    BY <1>2, <1>4
  <1>6. TwoMore(u, T, s, a, b)
    BY <1>2, <1>4, <1>5 DEF TwoMore
  <1>7. QED
    BY <1>6 DEF u, w

\* From a place outside a word on, tokenize_command cuts the words that follow, in
\* order, and leaves the place where the rest begins, or Null if there is none.
LEMMA TokenizeLine ==
    ASSUME NEW l, CString(l), NEW s, CutOf(s, l), NEW v \in DOMAIN l, ~IsLetter(l, v - 1),
           \A p \in v..Len(l) : s[p] = l[p]
    PROVE  LET t == TokenizeCommand(s, v, MaxTokens)
           IN  /\ Cut(t.str, l, t.tokens, 1, Before(l, v) + 1)
               /\ Complete(l, t.tokens, 1, Before(l, v) + 1)
  <1> DEFINE L == Len(l) - v
             m == Before(l, v)
             t == TokenizeCommand(s, v, MaxTokens)
  <1>1. Len(l) \in Nat /\ DOMAIN l = 1..Len(l) /\ m \in Nat /\ L \in Nat /\ v + L = Len(l)
    <2>1. Len(l) \in Nat /\ DOMAIN l = 1..Len(l) /\ m \in Nat
      BY StartsFinite, Zenon
    <2>2. v \in 1..Len(l)
      BY <2>1
    <2>3. QED
      BY <2>1, <2>2
  <1>2. MaxTokens \in Nat /\ MaxTokens > 1
    BY CommandsAssumption
  <1>3. StrLen(s, v) = L
    <2>1. s \in Seq(Char) /\ Len(s) = Len(l) /\ v \in 1..Len(s)
      BY <1>1 DEF CutOf
    <2>2. Len(l) \in v..Len(s) /\ s[Len(l)] = Nul
      BY <1>1, <2>1 DEF CString
    <2>3. \A p \in v..Len(l) - 1 : s[p] # Nul
      BY <1>1 DEF CString
    <2>4. QED
      BY <2>1, <2>2, <2>3, StrLenIs
  <1> HIDE DEF L
  <1>4. PICK h : ScanRun(h, s, v, MaxTokens, L)
    BY <1>1, <1>3, ScanUnfold
  <1>5. Scanned(h[L], l, v, L)
    <2> DEFINE S == {n \in Nat : n <= L => Scanned(h[n], l, v, n)}
    <2>1. 0 \in S
      BY <1>4, ScannedBegin DEF ScanRun
    <2>2. ASSUME NEW n \in Nat, n \in S PROVE n + 1 \in S
      <3>1. SUFFICES ASSUME n + 1 <= L PROVE Scanned(h[n + 1], l, v, n + 1)
        OBVIOUS
      <3>2. n <= L /\ n + 1 \in 1..L /\ (n + 1) - 1 = n /\ v + n < Len(l)
        BY <1>1, <3>1
      <3>3. Scanned(h[n], l, v, n) /\ h[n + 1] = Scan(h[n], MaxTokens)
        BY <1>4, <2>2, <3>2 DEF ScanRun
      <3>4. QED
        BY <3>2, <3>3, ScannedStep
    <2>3. L \in S
      <3> HIDE DEF S
      <3>1. QED
        BY <1>1, <2>1, <2>2, SetInduction
    <2>4. QED
      BY <1>1, <2>3
  <1> DEFINE x == h[L]
             rest == [value |-> Rest(x.str, x.e), length |-> 0]
             ts == x.tokens \o LastToken(x) \o <<rest>>
  <1>a. t = Finish(x)
    BY <1>4 DEF ScanRun
  <1> HIDE DEF x, t
  <1>6. t.str = x.str /\ t.tokens = ts
    BY <1>a DEF Finish
  <1>7. Scanned(x, l, v, L)
    BY <1>5 DEF x
  <1>8. x.s \in Nat /\ x.e \in Nat /\ x.tokens \in Seq(Tok) /\ x.str \in Seq(Char) /\ x.stop \in BOOLEAN /\ Len(x.tokens) \in Nat
    BY <1>7 DEF Scanned, ScanState
  <1>9. v <= x.s /\ x.s <= x.e /\ x.e <= Len(l) /\ x.e \in DOMAIN l /\ CutOf(x.str, l)
        /\ x.str[x.e] = l[x.e] /\ Before(l, x.s) = m + Len(x.tokens)
    BY <1>1, <1>7, <1>8 DEF Scanned
  <1>10. (rest.value = Null => x.e = Len(l)) /\ (x.e = Len(l) => rest.value = Null)
         /\ (rest.value # Null => rest.value = x.e) /\ rest.length = 0 /\ rest \in Tok
    BY <1>1, <1>8, <1>9 DEF Rest, Null, CString, Tok
  <1>11. rest.value # Null => Uncut(x.str, l, x.e, m + Len(x.tokens)) /\ x.s = x.e
    <2>1. SUFFICES ASSUME rest.value # Null PROVE Uncut(x.str, l, x.e, m + Len(x.tokens)) /\ x.s = x.e
      OBVIOUS
    <2>2. x.e # Len(l)
      BY <1>10, <2>1
    <2>3. x.stop
      BY <1>1, <1>7, <2>2 DEF Scanned
    <2>4. x.s = x.e /\ v < x.e /\ l[x.e - 1] = Space /\ \A p \in x.e..Len(l) : x.str[p] = l[p]
      BY <1>7, <2>3 DEF Scanned
    <2>5. x.e \in 2..Len(l) - 1
      BY <1>1, <1>8, <1>9, <2>2, <2>4
    <2>6. QED
      BY <1>9, <2>4, <2>5 DEF Uncut
  <1> HIDE DEF rest
  <1>12. CASE x.s = x.e
    <2>1. LastToken(x) = <<>>
      BY <1>12 DEF LastToken
    <2>2. ts = x.tokens \o <<>> \o <<rest>>
      BY <2>1
    <2>3. ts \in Seq(Tok) /\ Len(ts) = Len(x.tokens) + 1 /\ Last(ts) = rest
          /\ \A j \in 1..Len(ts) - 1 : ts[j] = x.tokens[j] /\ j \in 1..Len(x.tokens)
      <3> HIDE DEF ts
      <3>1. ts \in Seq(Tok) /\ Len(ts) = Len(x.tokens) + 1 /\ Last(ts) = rest
            /\ \A j \in 1..Len(x.tokens) : ts[j] = x.tokens[j]
        <4>1. OneMore(ts, Tok, x.tokens, rest)
          BY <1>8, <1>10, <2>2, AppendOne, Zenon
        <4>2. QED
          BY <4>1 DEF OneMore
      <3>2. QED
        BY <1>8, <3>1
    <2>4. Len(x.tokens) + 1 <= MaxTokens
      BY <1>2, <1>7, <1>8 DEF Scanned
    <2> HIDE DEF ts, m
    <2>5. \A j \in 1..Len(ts) - 1 : CutWord(x.str, l, ts[j], (m + 1) + (j - 1))
      <3>1. SUFFICES ASSUME NEW j \in 1..Len(ts) - 1 PROVE CutWord(x.str, l, ts[j], (m + 1) + (j - 1))
        OBVIOUS
      <3>2. CutWord(x.str, l, x.tokens[j], m + j)
        BY <1>7, <2>3 DEF Scanned, m
      <3>3. (m + 1) + (j - 1) = m + j
        BY <1>1
      <3>4. QED
        BY <2>3, <3>2, <3>3
    <2>6. ((m + 1) - 1) + (Len(ts) - 1) = m + Len(x.tokens) /\ 1 \in 1..Len(ts)
      BY <1>1, <1>8, <2>3
    <2>7. Cut(x.str, l, ts, 1, m + 1)
      <3>1. Last(ts).value # Null => Uncut(x.str, l, Last(ts).value, ((m + 1) - 1) + (Len(ts) - 1))
        BY <1>10, <1>11, <2>3, <2>6
      <3>2. Len(ts) <= MaxTokens /\ Last(ts).length = 0
        BY <1>10, <2>3, <2>4
      <3>3. QED
        BY <1>9, <2>3, <2>5, <2>6, <3>1, <3>2 DEF Cut
    <2>8. Complete(l, ts, 1, m + 1)
      <3>1. SUFFICES ASSUME rest.value = Null PROVE Cardinality(Starts(l)) = m + Len(x.tokens)
        BY <2>3, <2>6 DEF Complete
      <3>2. x.s = Len(l)
        BY <1>10, <1>12, <3>1
      <3>3. QED
        BY <1>9, <3>2, BeforeEnds
    <2>9. QED
      BY <1>6, <2>7, <2>8 DEF m, t
  <1>13. CASE x.s # x.e
    <2> DEFINE w == [value |-> x.s, length |-> x.e - x.s]
    <2>1. x.s < x.e /\ rest.value = Null /\ x.e = Len(l) /\ ~x.stop
      <3>1. x.s < x.e /\ ~x.stop
        BY <1>7, <1>8, <1>9, <1>13 DEF Scanned
      <3>2. x.e = Len(l)
        BY <1>1, <1>7, <3>1 DEF Scanned
      <3>3. QED
        BY <1>10, <3>1, <3>2
    <2>2. w \in Tok /\ w.value = x.s /\ w.length = x.e - x.s /\ w.length > 0 /\ w.value + w.length = x.e /\ w.value + w.length - 1 = x.e - 1
      <3>1. x.e - x.s \in Nat /\ x.e - x.s > 0 /\ x.s + (x.e - x.s) = x.e /\ x.s + (x.e - x.s) - 1 = x.e - 1
        BY <1>8, <2>1
      <3>2. QED
        BY <1>8, <3>1 DEF Tok
    <2>3. LastToken(x) = <<w>>
      BY <1>13 DEF LastToken
    <2> HIDE DEF w
    <2>4. ts = x.tokens \o <<w>> \o <<rest>>
      BY <2>3
    <2>5. ts \in Seq(Tok) /\ Len(ts) = Len(x.tokens) + 2 /\ Last(ts) = rest /\ ts[Len(x.tokens) + 1] = w
          /\ \A j \in 1..Len(x.tokens) : ts[j] = x.tokens[j]
      <3> HIDE DEF ts
      <3>1. x.tokens \in Seq(Tok) /\ w \in Tok /\ rest \in Tok
        BY <1>8, <1>10, <2>2
      <3>2. QED
        <4>1. TwoMore(ts, Tok, x.tokens, w, rest)
          BY <2>4, <3>1, AppendTwo, Zenon
        <4>2. QED
          BY <4>1 DEF TwoMore
    <2>6. Len(x.tokens) + 2 <= MaxTokens
      BY <1>2, <1>7, <1>8, <2>1 DEF Scanned
    <2>7. /\ x.s \in Starts(l) /\ WordLen(l, x.s) = x.e - x.s
          /\ Before(l, x.e) = Before(l, x.s) + 1
      <3>1. 1 <= x.s
        BY <1>1, <1>8, <1>9
      <3>2. (\A p \in x.s..x.e - 1 : IsLetter(l, p)) /\ ~IsLetter(l, x.s - 1)
        BY <1>7 DEF Scanned
      <3>3. ~IsLetter(l, x.e)
        BY <1>1, <1>9, <2>1 DEF IsLetter, CString
      <3>4. QED
        BY <1>8, <1>9, <2>1, <3>1, <3>2, <3>3, RunIsWord
    <2> HIDE DEF ts, m
    <2>8. CutWord(x.str, l, w, m + (Len(x.tokens) + 1))
      <3>1. Before(l, x.s) = (m + (Len(x.tokens) + 1)) - 1
        BY <1>1, <1>8, <1>9
      <3>2. IsWord(l, w, m + (Len(x.tokens) + 1))
        BY <2>2, <2>7, <3>1 DEF IsWord
      <3>3. x.str[x.e] = Nul
        BY <1>1, <1>9, <2>1 DEF CString
      <3>4. \A p \in x.s..x.e - 1 : IsLetter(l, p)
        BY <1>7 DEF Scanned
      <3>5. \A p \in w.value..w.value + w.length - 1 : IsLetter(l, p)
        BY <2>2, <3>4, Zenon
      <3>6. w.value + w.length \in DOMAIN l /\ x.str[w.value + w.length] = Nul
        BY <1>9, <2>2, <3>3, Zenon
      <3>7. QED
        BY <2>2, <3>2, <3>5, <3>6 DEF CutWord
    <2>9. \A j \in 1..Len(ts) - 1 : CutWord(x.str, l, ts[j], (m + 1) + (j - 1))
      <3>1. SUFFICES ASSUME NEW j \in 1..Len(ts) - 1 PROVE CutWord(x.str, l, ts[j], (m + 1) + (j - 1))
        OBVIOUS
      <3>2. (m + 1) + (j - 1) = m + j /\ (j = Len(x.tokens) + 1 \/ j \in 1..Len(x.tokens))
        BY <1>1, <1>8, <2>5
      <3>3. CASE j = Len(x.tokens) + 1
        BY <2>5, <2>8, <3>2, <3>3
      <3>4. CASE j \in 1..Len(x.tokens)
        <4>1. CutWord(x.str, l, x.tokens[j], m + j)
          BY <1>7, <3>4 DEF Scanned, m
        <4>2. QED
          BY <2>5, <3>2, <3>4, <4>1
      <3>5. QED
        BY <3>2, <3>3, <3>4
    <2>10. ((m + 1) - 1) + (Len(ts) - 1) = (m + Len(x.tokens)) + 1 /\ 1 \in 1..Len(ts)
      BY <1>1, <1>8, <2>5
    <2>11. Cut(x.str, l, ts, 1, m + 1)
      <3>1. Len(ts) <= MaxTokens /\ Last(ts).length = 0 /\ Last(ts).value = Null
        BY <1>10, <2>1, <2>5, <2>6
      <3>2. QED
        BY <1>9, <2>5, <2>9, <2>10, <3>1 DEF Cut
    <2>12. Complete(l, ts, 1, m + 1)
      <3>1. Cardinality(Starts(l)) = (m + Len(x.tokens)) + 1
        BY <1>9, <2>1, <2>7, BeforeEnds
      <3>2. QED
        BY <2>10, <3>1 DEF Complete
    <2>13. QED
      BY <1>6, <2>11, <2>12 DEF m, t
  <1>14. QED
    BY <1>12, <1>13

\* Cut again, a word that is a string of its own is that word.
LEMMA TokenizeWord ==
    ASSUME NEW l, CString(l), NEW s, CutOf(s, l), NEW w, NEW n, CutWord(s, l, w, n)
    PROVE  TokenizeCommand(s, w.value, MaxTokens) =
               [str |-> s, tokens |-> <<>> \o <<w>> \o <<[value |-> Null, length |-> 0]>>]
  <1> DEFINE v == w.value
             L == w.length
  <1>1. Len(l) \in Nat /\ DOMAIN l = 1..Len(l) /\ s \in Seq(Char) /\ Len(s) = Len(l)
    BY StartsFinite DEF CutOf
  <1>2. w \in Tok /\ v \in Nat /\ L \in Nat /\ L > 0 /\ v \in DOMAIN l /\ v + L \in DOMAIN l /\ s[v + L] = Nul
    BY DEF CutWord, IsWord, Tok, Starts
  <1>3. \A p \in v..v + L - 1 : IsLetter(l, p)
    BY DEF CutWord
  <1>4. w = [value |-> v, length |-> L]
    BY <1>2 DEF Tok
  <1> HIDE DEF v, L
  <1>5. \A p \in v..(v + L) - 1 : s[p] \notin {Space, Nul}
    <2>1. SUFFICES ASSUME NEW p \in v..(v + L) - 1 PROVE s[p] \notin {Space, Nul}
      OBVIOUS
    <2>2. p \in v..v + L - 1
      BY <1>2
    <2>3. IsLetter(l, p)
      BY <1>3, <2>2
    <2>4. QED
      BY <2>3 DEF IsLetter, CutOf
  <1>6. StrLen(s, v) = L
    <2>1. v \in 1..Len(s) /\ v + L \in v..Len(s) /\ (v + L) - v = L
      BY <1>1, <1>2
    <2>2. \A p \in v..(v + L) - 1 : s[p] # Nul
      BY <1>5
    <2>3. StrLen(s, v) = (v + L) - v
      BY <1>1, <1>2, <2>1, <2>2, StrLenIs
    <2>4. QED
      BY <2>1, <2>3
  <1>7. PICK h : ScanRun(h, s, v, MaxTokens, L)
    BY <1>2, <1>6, ScanUnfold
  <1>8. ScanIs(h[L], v, v + L, <<>>, s, FALSE)
    <2> DEFINE S == {k \in Nat : k <= L => ScanIs(h[k], v, v + k, <<>>, s, FALSE)}
    <2>1. 0 \in S
      <3>1. ScanIs(Begin(s, v), v, v + 0, <<>>, s, FALSE)
        BY <1>1, <1>2 DEF ScanIs, Begin, ScanState
      <3>2. QED
        BY <1>7, <3>1 DEF ScanRun
    <2>2. ASSUME NEW k \in Nat, k \in S PROVE k + 1 \in S
      <3>0. k + 1 \in Nat
        OBVIOUS
      <3>1. SUFFICES ASSUME k + 1 <= L PROVE ScanIs(h[k + 1], v, v + (k + 1), <<>>, s, FALSE)
        BY <3>0, Zenon
      <3>2. k <= L /\ k + 1 \in 1..L /\ (k + 1) - 1 = k /\ v + k \in v..(v + L) - 1 /\ (v + k) + 1 = v + (k + 1)
        BY <1>2, <3>1
      <3>3. ScanIs(h[k], v, v + k, <<>>, s, FALSE) /\ h[k + 1] = Scan(h[k], MaxTokens)
        BY <1>7, <2>2, <3>2 DEF ScanRun
      <3> DEFINE x == h[k]
      <3>4. x \in ScanState /\ x.s = v /\ x.e = v + k /\ x.tokens = <<>> /\ x.str = s /\ ~x.stop
        BY <3>3 DEF ScanIs
      <3>5. x.str[x.e] # Space
        BY <1>5, <3>2, <3>4
      <3> HIDE DEF x
      <3>6. ScanIs(Scan(x, MaxTokens), x.s, x.e + 1, x.tokens, x.str, FALSE)
        BY <3>4, <3>5, ScanLetter
      <3>7. ScanIs(Scan(x, MaxTokens), v, v + (k + 1), <<>>, s, FALSE)
        BY <3>2, <3>4, <3>6
      <3>8. QED
        BY <3>3, <3>7 DEF x
    <2>3. L \in S
      <3> HIDE DEF S
      <3>1. QED
        BY <1>2, <2>1, <2>2, SetInduction
    <2>4. L <= L
      BY <1>2
    <2>5. QED
      BY <2>3, <2>4, Zenon
  <1> DEFINE x == h[L]
  <1>9. x.s = v /\ x.e = v + L /\ x.tokens = <<>> /\ x.str = s
    BY <1>8 DEF ScanIs
  <1>10. TokenizeCommand(s, v, MaxTokens) = Finish(x)
    BY <1>7 DEF ScanRun
  <1> HIDE DEF x
  <1>11. LastToken(x) = <<w>>
    <2>1. v # v + L /\ (v + L) - v = L
      BY <1>2
    <2>2. QED
      BY <1>4, <1>9, <2>1 DEF LastToken
  <1>12. Rest(x.str, x.e) = Null
    BY <1>2, <1>9 DEF Rest
  <1>13. Finish(x) = [str |-> s, tokens |-> <<>> \o <<w>> \o <<[value |-> Null, length |-> 0]>>]
    BY <1>9, <1>11, <1>12 DEF Finish
  <1>14. QED
    BY <1>10, <1>13 DEF v

-----------------------------------------------------------------------------
(* The fragments of a reply *)

\* One value more is three fragments more.
LEMMA CopiesGrow ==
    /\ Copies(0) = <<>>
    /\ \A n \in Nat : Copies(n + 1) = Copies(n) \o Fragments
  <1> DEFINE R(n) == [k \in 1..n |-> Fragments]
  <1>1. \A n \in Nat : Len(R(n)) = n /\ \A k \in 1..n : R(n)[k] = Fragments
    OBVIOUS
  <1>2. Copies(0) = <<>>
    <2>1. R(0) = <<>>
      OBVIOUS
    <2>2. Len(<<>>) = 0
      OBVIOUS
    <2>3. FlattenSeq(<<>>) = <<>>
      BY <2>2 DEF FlattenSeq
    <2>4. QED
      BY <2>1, <2>3 DEF Copies
  <1>3. ASSUME NEW n \in Nat, n > 0
        PROVE  \E h : h[1] = Fragments /\ (\A k \in 2..n : h[k] = h[k - 1] \o Fragments) /\ Copies(n) = h[n]
    <2>1. PICK h : FlattenRun(h, R(n), n) /\ FlattenSeq(R(n)) = h[n]
      <3> HIDE DEF R
      <3>1. Len(R(n)) = n
        BY <1>1
      <3>2. QED
        BY <1>3, <3>1, FlattenUnfold
    <2>2. Copies(n) = h[n]
      BY <2>1 DEF Copies
    <2>3. \A k \in 1..n : R(n)[k] = Fragments
      BY <1>1
    <2> HIDE DEF R
    <2>4. h[1] = Fragments
      <3>1. 1 \in 1..n
        BY <1>3
      <3>2. QED
        BY <2>1, <2>3, <3>1 DEF FlattenRun
    <2>5. \A k \in 2..n : h[k] = h[k - 1] \o Fragments
      <3>1. SUFFICES ASSUME NEW k \in 2..n PROVE h[k] = h[k - 1] \o Fragments
        OBVIOUS
      <3>2. k \in 1..n /\ k # 1
        OBVIOUS
      <3>3. QED
        BY <2>1, <2>3, <3>2 DEF FlattenRun
    <2>6. QED
      BY <2>2, <2>4, <2>5
  <1>4. Copies(1) = Fragments
    <2>1. PICK h : h[1] = Fragments /\ Copies(1) = h[1]
      BY <1>3
    <2>2. QED
      BY <2>1
  <1>5. ASSUME NEW n \in Nat, n > 0 PROVE Copies(n + 1) = Copies(n) \o Fragments
    <2>1. PICK f : f[1] = Fragments /\ (\A k \in 2..n : f[k] = f[k - 1] \o Fragments) /\ Copies(n) = f[n]
      BY <1>3, <1>5
    <2>2. PICK g : g[1] = Fragments /\ (\A k \in 2..n + 1 : g[k] = g[k - 1] \o Fragments) /\ Copies(n + 1) = g[n + 1]
      <3>1. n + 1 \in Nat /\ n + 1 > 0
        OBVIOUS
      <3>2. QED
        BY <1>3, <3>1
    <2> DEFINE S == {k \in Nat : k + 1 <= n => f[k + 1] = g[k + 1]}
    <2>3. 0 \in S
      BY <2>1, <2>2
    <2>4. ASSUME NEW k \in Nat, k \in S PROVE k + 1 \in S
      <3>1. SUFFICES ASSUME (k + 1) + 1 <= n PROVE f[(k + 1) + 1] = g[(k + 1) + 1]
        OBVIOUS
      <3>2. (k + 1) + 1 \in 2..n /\ (k + 1) + 1 \in 2..n + 1 /\ ((k + 1) + 1) - 1 = k + 1 /\ k + 1 <= n
        BY <3>1
      <3>3. f[(k + 1) + 1] = f[k + 1] \o Fragments
        BY <2>1, <3>2
      <3>4. g[(k + 1) + 1] = g[k + 1] \o Fragments
        BY <2>2, <3>2
      <3>5. f[k + 1] = g[k + 1]
        BY <2>4, <3>2
      <3>6. QED
        BY <3>3, <3>4, <3>5
    <2>5. n - 1 \in S /\ (n - 1) + 1 = n
      <3>1. n - 1 \in Nat /\ (n - 1) + 1 = n
        BY <1>5
      <3> HIDE DEF S
      <3>2. QED
        BY <2>3, <2>4, <3>1, SetInduction
    <2>6. f[n] = g[n]
      BY <2>5
    <2>7. n + 1 \in 2..n + 1 /\ (n + 1) - 1 = n
      BY <1>5
    <2>8. g[n + 1] = g[n] \o Fragments
      BY <2>2, <2>7
    <2>9. QED
      BY <2>1, <2>2, <2>6, <2>8
  <1>6. <<>> \o Fragments = Fragments
    BY DEF Fragments
  <1>7. ASSUME NEW n \in Nat PROVE Copies(n + 1) = Copies(n) \o Fragments
    <2>1. CASE n = 0
      <3>1. n + 1 = 1
        BY <2>1
      <3>2. QED
        BY <1>2, <1>4, <1>6, <2>1, <3>1
    <2>2. CASE n > 0
      BY <1>5, <2>2
    <2>3. QED
      BY <2>1, <2>2
  <1>8. QED
    BY <1>2, <1>7

\* n values are 3n fragments.
LEMMA CopiesLen ==
    \A n \in Nat : Copies(n) \in Seq(Piece) /\ Len(Copies(n)) = 3 * n
  <1> DEFINE S == {n \in Nat : Copies(n) \in Seq(Piece) /\ Len(Copies(n)) = 3 * n}
  <1>1. 0 \in S
    <2>1. <<>> \in Seq(Piece) /\ Len(<<>>) = 3 * 0
      OBVIOUS
    <2>2. QED
      BY <2>1, CopiesGrow
  <1>2. ASSUME NEW n \in Nat, n \in S PROVE n + 1 \in S
    <2>1. Fragments \in Seq(Piece) /\ Len(Fragments) = 3
      BY DEF Fragments, Piece
    <2>2. Copies(n + 1) = Copies(n) \o Fragments
      BY CopiesGrow
    <2>3. \A a, b \in Seq(Piece) : a \o b \in Seq(Piece) /\ Len(a \o b) = Len(a) + Len(b)
      OBVIOUS
    <2>4. Copies(n + 1) \in Seq(Piece) /\ Len(Copies(n + 1)) = 3 * n + 3
      BY <1>2, <2>1, <2>2, <2>3
    <2>5. 3 * n + 3 = 3 * (n + 1) /\ n + 1 \in Nat
      OBVIOUS
    <2>6. QED
      BY <2>4, <2>5
  <1>3. Nat \subseteq S
    <2> HIDE DEF S
    <2>1. QED
      BY <1>1, <1>2, SetInduction
  <1>4. QED
    BY <1>3

-----------------------------------------------------------------------------
(* The tokens ahead *)

\* The current token: a word of the line, or where its rest begins.
LEMMA CutNow ==
    ASSUME NEW s, NEW l, CString(l), NEW ts, NEW k, NEW n \in Nat, Cut(s, l, ts, k, n)
    PROVE  /\ ts[k] \in Tok /\ k \in Nat /\ k \in 1..Len(ts) /\ Len(ts) \in Nat /\ CutOf(s, l)
           /\ k = Len(ts) => /\ ts[k].length = 0
                             /\ ts[k].value # Null => Uncut(s, l, ts[k].value, n - 1)
                             /\ Complete(l, ts, k, n) /\ ts[k].value = Null => Cardinality(Starts(l)) = n - 1
           /\ k # Len(ts) => ts[k].length # 0 /\ CutWord(s, l, ts[k], n) /\ ts[k].value # Null
  <1>1. ts \in Seq(Tok) /\ k \in 1..Len(ts) /\ Len(ts) \in Nat /\ Len(ts) <= MaxTokens /\ CutOf(s, l)
    BY DEF Cut
  <1>2. ts[k] \in Tok /\ k \in Nat
    BY <1>1
  <1>3. CASE k = Len(ts)
    <2>1. Last(ts) = ts[k] /\ (n - 1) + (Len(ts) - k) = n - 1
      BY <1>1, <1>3 DEF Last
    <2>2. ts[k].length = 0 /\ (ts[k].value # Null => Uncut(s, l, ts[k].value, n - 1))
      BY <2>1 DEF Cut
    <2>3. QED
      BY <1>1, <1>2, <1>3, <2>1, <2>2 DEF Complete
  <1>4. CASE k # Len(ts)
    <2>1. k \in k..Len(ts) - 1 /\ n + (k - k) = n
      BY <1>1, <1>4
    <2>2. CutWord(s, l, ts[k], n + (k - k))
      BY <2>1 DEF Cut
    <2>3. CutWord(s, l, ts[k], n)
      BY <2>1, <2>2
    <2>4. ts[k].value # Null /\ ts[k].length # 0
      <3>1. Starts(l) \subseteq 1..Len(l)
        BY StartsFinite
      <3>2. ts[k].value \in Starts(l) /\ ts[k].length > 0
        BY <2>3 DEF CutWord, IsWord
      <3>3. QED
        BY <3>1, <3>2 DEF Null
    <2>5. QED
      BY <1>1, <1>2, <1>4, <2>3, <2>4
  <1>5. QED
    BY <1>3, <1>4

\* The current token is where the rest of the line begins.
LEMMA CutEnd ==
    ASSUME NEW s, NEW l, CString(l), NEW ts, NEW k, NEW n \in Nat, Cut(s, l, ts, k, n),
           ts[k].length = 0 \/ ts[k].value = Null
    PROVE  /\ k = Len(ts) /\ ts[k].length = 0
           /\ ts[k].value # Null => Uncut(s, l, ts[k].value, n - 1)
           /\ Complete(l, ts, k, n) /\ ts[k].value = Null => Cardinality(Starts(l)) = n - 1
  <1>1. k = Len(ts)
    BY CutNow, Zenon
  <1>2. QED
    BY <1>1, CutNow, Zenon

\* The current token is a word of the line.
LEMMA CutNext ==
    ASSUME NEW s, NEW l, CString(l), NEW ts, NEW k, NEW n \in Nat, Cut(s, l, ts, k, n), ts[k].length # 0
    PROVE  /\ CutWord(s, l, ts[k], n) /\ ts[k].value # Null
           /\ Cut(s, l, ts, k + 1, n + 1)
           /\ Complete(l, ts, k, n) => Complete(l, ts, k + 1, n + 1)
  <1>1. ts \in Seq(Tok) /\ k \in 1..Len(ts) /\ Len(ts) \in Nat /\ Len(ts) <= MaxTokens /\ CutOf(s, l)
    BY DEF Cut
  <1>2. k # Len(ts)
    BY CutNow, Zenon
  <1>3. CutWord(s, l, ts[k], n) /\ ts[k].value # Null
    <2>1. CutWord(s, l, ts[k], n)
      BY <1>2, CutNow, Zenon
    <2>2. Starts(l) \subseteq 1..Len(l)
      BY StartsFinite
    <2>3. QED
      BY <2>1, <2>2 DEF Null, CutWord, IsWord
  <1>4. (n - 1) + (Len(ts) - k) = ((n + 1) - 1) + (Len(ts) - (k + 1)) /\ k + 1 \in 1..Len(ts)
      BY <1>1, <1>2
  <1>5. \A j \in k + 1..Len(ts) - 1 : CutWord(s, l, ts[j], (n + 1) + (j - (k + 1)))
    <2>1. SUFFICES ASSUME NEW j \in k + 1..Len(ts) - 1 PROVE CutWord(s, l, ts[j], (n + 1) + (j - (k + 1)))
      OBVIOUS
    <2>2. j \in k..Len(ts) - 1 /\ (n + 1) + (j - (k + 1)) = n + (j - k)
      BY <1>1
    <2>3. CutWord(s, l, ts[j], n + (j - k))
      BY <2>2 DEF Cut
    <2>4. QED
      BY <2>2, <2>3
  <1>6. Cut(s, l, ts, k + 1, n + 1)
    <2>1. Last(ts).length = 0 /\ (Last(ts).value # Null => Uncut(s, l, Last(ts).value, ((n + 1) - 1) + (Len(ts) - (k + 1))))
      BY <1>4 DEF Cut
    <2>2. QED
      BY <1>1, <1>4, <1>5, <2>1 DEF Cut
  <1>7. Complete(l, ts, k, n) => Complete(l, ts, k + 1, n + 1)
      BY <1>4 DEF Complete
  <1>8. QED
    BY <1>3, <1>6, <1>7

\* The lines of CommandsAssumption are C strings.
LEMMA LinesAre ==
    ASSUME NEW l \in Lines PROVE CString(l)
  <1>1. l \in Seq(STRING) /\ l # <<>> /\ \A p \in DOMAIN l : l[p] = Nul <=> p = Len(l)
    BY CommandsAssumption
  <1>2. l \in Seq(Char)
    <2>1. STRING \subseteq Char
      BY DEF Char
    <2>2. Len(l) \in Nat /\ l \in [1..Len(l) -> STRING]
      BY <1>1
    <2>3. l \in [1..Len(l) -> Char]
      BY <2>1, <2>2
    <2>4. QED
      BY <2>2, <2>3
  <1>3. QED
    BY <1>1, <1>2 DEF CString

\* A handler starts with a line cut once, or with a token for a length.
LEMMA IInvInit == Init => IInv
  <1> SUFFICES ASSUME Init PROVE IInv
    OBVIOUS
  <1>1. Counters
    <2>1. full \in BOOLEAN
      BY Zenon DEF Init
    <2>2. QED
      BY <2>1, CommandsAssumption DEF Init, Counters
  <1>2. CASE InitGet
    <2> DEFINE t == TokenizeCommand(line, 1, MaxTokens)
    <2>1. line \in Lines /\ CString(line)
      BY <1>2, LinesAre DEF InitGet
    <2>2. Len(t.tokens) >= 3 /\ str = t.str /\ tokens = t.tokens /\ key_token = 2 /\ pc = "keys" /\ handler = "get"
      BY <1>2 DEF InitGet
    <2> HIDE DEF t
    <2>3. Cut(t.str, line, t.tokens, 1, 1) /\ Complete(line, t.tokens, 1, 1)
      <3>1. Len(line) \in Nat /\ DOMAIN line = 1..Len(line) /\ line \in Seq(Char) /\ line # <<>>
        BY <2>1 DEF CString
      <3>2. 1 \in DOMAIN line /\ CutOf(line, line) /\ \A p \in 1..Len(line) : line[p] = line[p]
        BY <3>1 DEF CutOf
      <3>3. ~IsLetter(line, 1 - 1)
        BY <3>1 DEF IsLetter
      <3>4. Before(line, 1) + 1 = 1
        BY <2>1, BeforeEnds
      <3>5. Cut(t.str, line, t.tokens, 1, Before(line, 1) + 1) /\ Complete(line, t.tokens, 1, Before(line, 1) + 1)
        BY <2>1, <3>2, <3>3, TokenizeLine, Zenon DEF t
      <3>6. QED
        BY <3>4, <3>5
    <2>4. tokens \in Seq(Tok) /\ Len(tokens) <= MaxTokens /\ key_token \in DOMAIN tokens
      BY <2>2, <2>3 DEF Cut
    <2>5. Cut(str, line, tokens, 1, 1) /\ Complete(line, tokens, 1, 1)
      BY <2>2, <2>3
    <2>6. tokens[1].length # 0
      <3>1. 1 # Len(tokens) /\ 1 \in Nat
        <4>1. Len(tokens) >= 3
          BY <2>2
        <4>2. Len(tokens) \in Nat
          BY <2>4
        <4>3. 1 \in Nat /\ \A x \in Nat : x >= 3 => 1 # x
          OBVIOUS
        <4>4. QED
          BY <4>1, <4>2, <4>3, Zenon
      <3>2. QED
        BY <2>1, <2>5, <3>1, CutNow, ZenonT(40)
    <2>7. Cut(str, line, tokens, 1 + 1, 1 + 1) /\ Complete(line, tokens, 1 + 1, 1 + 1)
      BY <2>1, <2>5, <2>6, CutNext
    <2>8. visited = <<>> /\ i = 0 /\ out = <<>> /\ sbytes = 0
      BY DEF Init
    <2>9. Len(visited) + 2 = 1 + 1 /\ Len(visited) = 0 /\ visited \in Seq(Tok) /\ out \in Seq(Piece)
      BY <2>8
    <2>10. GetLine
      <3>1. CutWord(str, line, tokens[1], 1)
        BY <2>1, <2>5, <2>6, CutNext
      <3>2. Starts(line) # {}
        BY <3>1 DEF CutWord, IsWord
      <3>3. QED
        BY <2>1, <2>2, <2>4, <2>8, <3>2 DEF GetLine
    <2>11. GetVisited
      BY <2>8, <2>9 DEF GetVisited
    <2>12. GetAhead /\ GetComplete
      <3>1. key_token = 1 + 1
        BY <2>2
      <3>2. QED
        BY <2>7, <2>9, <3>1 DEF GetAhead, GetComplete
    <2>13. GetOut
      BY <2>8, <2>9, CopiesGrow DEF GetOut
    <2>14. GetPc /\ GetDone
      BY <2>2 DEF GetPc, GetDone
    <2>15. QED
      BY <1>1, <2>10, <2>11, <2>12, <2>13, <2>14 DEF IInv, InGet
  <1>3. CASE InitLength
    BY <1>1, <1>3 DEF Init, InitLength, IInv, InLength
  <1>4. QED
    BY <1>2, <1>3 DEF Init

-----------------------------------------------------------------------------
(* The steps of process_get_command *)

\* What is known of the current token while a key is looked for.
LEMMA AtKey ==
    ASSUME InGet, pc # "done"
    PROVE  /\ CString(line) /\ visited \in Seq(Tok) /\ Len(visited) \in Nat /\ Len(visited) + 2 \in Nat
           /\ Cut(str, line, tokens, key_token, Len(visited) + 2)
           /\ tokens \in Seq(Tok) /\ key_token \in 1..Len(tokens) /\ tokens[key_token] \in Tok
  <1>1. CString(line) /\ visited \in Seq(Tok) /\ tokens \in Seq(Tok) /\ key_token \in DOMAIN tokens
        /\ Cut(str, line, tokens, key_token, Len(visited) + 2)
    BY DEF InGet, GetLine, GetVisited, GetAhead
  <1>2. Len(visited) \in Nat /\ key_token \in 1..Len(tokens) /\ tokens[key_token] \in Tok
    BY <1>1
  <1>3. Len(visited) + 2 \in Nat
    BY <1>2
  <1>4. QED
    BY <1>1, <1>2, <1>3

\* A key that is too long is answered with an error, and ends the command.
LEMMA KeyTooLongStep ==
    ASSUME Counters, InGet, KeyTooLong
    PROVE  Counters' /\ InGet'
  <1>1. /\ pc' = "done" /\ out' = <<"CLIENT_ERROR">> /\ handler' = handler /\ line' = line /\ str' = str
        /\ tokens' = tokens /\ sbytes' = sbytes /\ key_token' = key_token /\ i' = i /\ isize' = isize
        /\ ileft' = ileft /\ full' = full /\ failed' = failed /\ visited' = visited
    BY DEF KeyTooLong
  <1>2. Counters'
    BY <1>1 DEF Counters
  <1>3. GetLine' /\ GetVisited'
    BY <1>1 DEF InGet, GetLine, GetVisited
  <1>4. out' \in Seq(Piece) /\ Last(out') # "END"
    BY <1>1 DEF Piece, Last
  <1>5. GetAhead' /\ GetComplete' /\ GetOut' /\ GetPc' /\ GetDone'
    BY <1>1, <1>4 DEF GetAhead, GetComplete, GetOut, GetPc, GetDone
  <1>6. QED
    BY <1>2, <1>3, <1>5 DEF InGet

\* A key that is answered is the next word of the line.
LEMMA HitStep ==
    ASSUME Counters, InGet, Hit
    PROVE  Counters' /\ InGet'
  <1> DEFINE w == tokens[key_token]
  <1>1. /\ pc = "keys" /\ pc' = "keys" /\ handler' = handler /\ line' = line /\ str' = str
        /\ tokens' = tokens /\ sbytes' = sbytes /\ key_token' = key_token + 1 /\ i' = i + 1
        /\ ileft' = ileft /\ full' = FALSE /\ failed' = failed /\ visited' = Append(visited, w) /\ out' = out \o Fragments
        /\ isize' = Expanded /\ w.length \in 1..KeyMax
    BY DEF Hit, Key
  <1>2. /\ CString(line) /\ visited \in Seq(Tok) /\ Len(visited) \in Nat /\ Len(visited) + 2 \in Nat
        /\ Cut(str, line, tokens, key_token, Len(visited) + 2)
        /\ tokens \in Seq(Tok) /\ key_token \in 1..Len(tokens) /\ w \in Tok
    BY <1>1, AtKey
  <1>3. w.length # 0
    BY <1>1, CommandsAssumption
  <1>4. Counters'
    <2>1. full' \in BOOLEAN
      BY <1>1, Zenon
    <2>2. QED
      BY <1>1, <2>1 DEF Counters, Expanded
  <1>5. /\ CutWord(str, line, w, Len(visited) + 2)
        /\ Cut(str, line, tokens, key_token + 1, (Len(visited) + 2) + 1)
        /\ Complete(line, tokens, key_token, Len(visited) + 2) => Complete(line, tokens, key_token + 1, (Len(visited) + 2) + 1)
    BY <1>2, <1>3, CutNext
  <1> HIDE DEF w
  <1>6. visited' \in Seq(Tok) /\ Len(visited') = Len(visited) + 1 /\ Len(visited') + 2 = (Len(visited) + 2) + 1
        /\ visited'[Len(visited) + 1] = w /\ \A n \in 1..Len(visited) : visited'[n] = visited[n]
    BY <1>1, <1>2
  <1>7. GetVisited'
    <2>1. SUFFICES ASSUME NEW n \in 1..Len(visited') PROVE IsWord(line, visited'[n], n + 1)
      BY <1>1, <1>6 DEF GetVisited, InGet
    <2>2. n = Len(visited) + 1 \/ n \in 1..Len(visited)
      BY <1>2, <1>6
    <2>3. CASE n = Len(visited) + 1
      <3>1. n + 1 = Len(visited) + 2
        BY <1>2, <2>3
      <3>2. QED
        BY <1>5, <1>6, <2>3, <3>1 DEF CutWord
    <2>4. CASE n \in 1..Len(visited)
      BY <1>6, <2>4 DEF InGet, GetVisited
    <2>5. QED
      BY <2>2, <2>3, <2>4
  <1>8. GetLine'
    <2>1. key_token + 1 \in DOMAIN tokens
      BY <1>5 DEF Cut
    <2>2. QED
      BY <1>1, <2>1 DEF InGet, GetLine
  <1>9. GetAhead'
    <2>1. Cut(str, line, tokens, key_token + 1, Len(visited') + 2)
      BY <1>5, <1>6
    <2>2. QED
      BY <1>1, <2>1 DEF GetAhead
  <1>10. GetComplete'
    <2>1. SUFFICES ASSUME NoFailure PROVE Complete(line, tokens, key_token + 1, Len(visited') + 2)
      BY <1>1 DEF GetComplete, NoFailure
    <2>2. Complete(line, tokens, key_token, Len(visited) + 2)
      BY <1>1, <2>1 DEF InGet, GetComplete
    <2>3. QED
      BY <1>5, <1>6, <2>2
  <1>11. GetOut'
    <2>1. Fragments \in Seq(Piece) /\ out \in Seq(Piece)
      BY DEF Fragments, Piece, InGet, GetOut
    <2>2. out' \in Seq(Piece)
      BY <1>1, <2>1
    <2>3. SUFFICES ASSUME "iov" \notin failed PROVE out' = Copies(i + 1)
      BY <1>1, <2>2 DEF GetOut, Copies
    <2>4. out = Copies(i) /\ i \in Nat
      BY <1>1, <2>3 DEF InGet, GetOut, Counters
    <2>5. QED
      BY <1>1, <2>4, CopiesGrow
  <1>12. GetPc' /\ GetDone'
    BY <1>1 DEF GetPc, GetDone
  <1>13. QED
    BY <1>4, <1>7, <1>8, <1>9, <1>10, <1>11, <1>12 DEF InGet

\* What a realloc that fails leaves of the reply.
LEMMA OutOfMemoryStep ==
    ASSUME Counters, InGet, OutOfMemory
    PROVE  Counters' /\ InGet'
  <1>1. /\ pc = "keys" /\ pc' = "refill" /\ handler' = handler /\ line' = line /\ str' = str
        /\ tokens' = tokens /\ sbytes' = sbytes /\ key_token' = key_token /\ i' = i
        /\ ileft' = ileft /\ visited' = visited
    BY DEF OutOfMemory
  <1>2. GetLine' /\ GetVisited' /\ GetAhead'
    BY <1>1 DEF InGet, GetLine, GetVisited, GetAhead
  <1>3. GetDone'
    BY <1>1 DEF GetDone
  <1>4. out \in Seq(Piece) /\ failed \subseteq Faults /\ full \in BOOLEAN
    BY DEF Counters, InGet, GetOut
  <1>5. ASSUME NEW f \in Faults, failed' = failed \cup {f} PROVE GetComplete' /\ GetPc' /\ failed' \subseteq Faults
    <2>1. failed' # {} /\ failed' \subseteq Faults
      BY <1>4, <1>5
    <2>2. QED
      BY <1>1, <2>1 DEF GetComplete, GetPc, NoFailure
  <1>6. CASE "items" \in Faults /\ failed' = failed \cup {"items"} /\ isize' = isize /\ out' = out /\ full' = full
    <2>1. GetComplete' /\ GetPc' /\ failed' \subseteq Faults
      BY <1>5, <1>6
    <2>2. Counters'
      BY <1>1, <1>6, <2>1 DEF Counters
    <2>3. GetOut'
      BY <1>1, <1>6 DEF InGet, GetOut, Copies
    <2>4. QED
      BY <1>2, <1>3, <2>1, <2>2, <2>3 DEF InGet
  <1>7. CASE /\ "iov" \in Faults /\ failed' = failed \cup {"iov"} /\ full' = TRUE /\ isize' = Expanded
             /\ \E n \in 0..2 : (full => n = 0) /\ out' = out \o SubSeq(Fragments, 1, n)
    <2>1. GetComplete' /\ GetPc' /\ failed' \subseteq Faults
      BY <1>5, <1>7
    <2>2. Counters'
      BY <1>1, <1>7, <2>1 DEF Counters, Expanded
    <2>3. GetOut'
      <3>1. PICK n \in 0..2 : out' = out \o SubSeq(Fragments, 1, n)
        BY <1>7
      <3>2. Fragments \in Seq(Piece)
        BY DEF Fragments, Piece
      <3>3. SubSeq(Fragments, 1, n) \in Seq(Piece)
        <4>1. Len(Fragments) = 3
          BY DEF Fragments
        <4>2. QED
          BY <3>2, <4>1
      <3>4. out' \in Seq(Piece)
        BY <1>4, <3>1, <3>3
      <3>5. QED
        BY <1>7, <3>4 DEF GetOut
    <2>4. QED
      BY <1>2, <1>3, <2>1, <2>2, <2>3 DEF InGet
  <1>8. QED
    BY <1>6, <1>7 DEF OutOfMemory

\* The loop over the tokens ends at the first one of length 0.
LEMMA KeysDoneStep ==
    ASSUME Counters, InGet, KeysDone
    PROVE  Counters' /\ InGet'
  <1>1. /\ pc = "keys" /\ pc' = "refill" /\ handler' = handler /\ line' = line /\ str' = str
        /\ tokens' = tokens /\ sbytes' = sbytes /\ key_token' = key_token /\ i' = i /\ isize' = isize /\ out' = out
        /\ ileft' = ileft /\ full' = full /\ failed' = failed /\ visited' = visited /\ tokens[key_token].length = 0
    BY DEF KeysDone, Key
  <1>2. Counters'
    BY <1>1 DEF Counters
  <1>3. GetLine' /\ GetVisited' /\ GetAhead' /\ GetComplete'
    BY <1>1 DEF InGet, GetLine, GetVisited, GetAhead, GetComplete, NoFailure
  <1>4. GetOut'
    BY <1>1 DEF InGet, GetOut, Copies
  <1>5. GetPc' /\ GetDone'
    BY <1>1 DEF GetPc, GetDone
  <1>6. QED
    BY <1>2, <1>3, <1>4, <1>5 DEF InGet

\* Cut again, the tokens ahead are the same words of the line, or after a failure
\* only the one that failed.
LEMMA Recut ==
    ASSUME Counters, InGet, pc = "refill", tokens[key_token].value # Null,
           NEW t, t = TokenizeCommand(str, tokens[key_token].value, MaxTokens)
    PROVE  /\ Cut(t.str, line, t.tokens, 1, Len(visited) + 2)
           /\ NoFailure => Complete(line, t.tokens, 1, Len(visited) + 2)
  <1> DEFINE w == tokens[key_token]
             n == Len(visited) + 2
  <1>1. /\ CString(line) /\ visited \in Seq(Tok) /\ Len(visited) \in Nat /\ n \in Nat
        /\ Cut(str, line, tokens, key_token, n)
        /\ tokens \in Seq(Tok) /\ key_token \in 1..Len(tokens) /\ w \in Tok
    BY AtKey
  <1>2. CutOf(str, line) /\ Len(line) \in Nat /\ DOMAIN line = 1..Len(line)
    BY <1>1, StartsFinite DEF Cut
  <1>a. w.value # Null /\ t = TokenizeCommand(str, w.value, MaxTokens)
    OBVIOUS
  <1>b. NoFailure => w.length = 0
    BY DEF InGet, GetPc
  <1> HIDE DEF w, n
  <1>3. CASE w.length = 0
    <2>1. Uncut(str, line, w.value, n - 1)
      BY <1>1, <1>a, <1>3, CutEnd DEF w
    <2> DEFINE v == w.value
    <2>2. v \in 2..Len(line) - 1 /\ line[v - 1] = Space /\ Before(line, v) = n - 1
          /\ \A p \in v..Len(line) : str[p] = line[p]
      BY <2>1 DEF Uncut
    <2> HIDE DEF v
    <2>3. v \in DOMAIN line
      BY <1>2, <2>2
    <2>4. ~IsLetter(line, v - 1)
      BY <2>2 DEF IsLetter
    <2>5. t = TokenizeCommand(str, v, MaxTokens)
      BY <1>a DEF v
    <2>6. Cut(t.str, line, t.tokens, 1, Before(line, v) + 1) /\ Complete(line, t.tokens, 1, Before(line, v) + 1)
      BY <1>1, <1>2, <2>2, <2>3, <2>4, <2>5, TokenizeLine, Zenon
    <2>7. Before(line, v) + 1 = n
      BY <1>1, <2>2
    <2>8. QED
      BY <2>6, <2>7 DEF n
  <1>4. CASE w.length # 0
    <2> DEFINE end == [value |-> Null, length |-> 0]
               ts == <<>> \o <<w>> \o <<end>>
    <2>1. CutWord(str, line, w, n)
      BY <1>1, <1>4, CutNext DEF w
    <2>2. t = [str |-> str, tokens |-> ts]
      BY <1>1, <1>2, <1>a, <2>1, TokenizeWord
    <2>3. end \in Tok /\ end.length = 0 /\ end.value = Null /\ <<>> \in Seq(Tok) /\ Len(<<>>) = 0
      BY DEF Tok, Null
    <2> HIDE DEF end
    <2>4. TwoMore(ts, Tok, <<>>, w, end)
      BY <1>1, <2>3, AppendTwo, Zenon
    <2>5. t.str = str /\ t.tokens = ts
      BY <2>2
    <2> HIDE DEF ts
    <2>6. ts \in Seq(Tok) /\ Len(ts) = 2 /\ Last(ts) = end /\ ts[1] = w
      <3>1. Len(ts) = Len(<<>>) + 2 /\ ts[Len(<<>>) + 1] = w /\ ts \in Seq(Tok) /\ Last(ts) = end
        BY <2>4 DEF TwoMore
      <3>2. QED
        BY <2>3, <3>1
    <2>7. \A j \in 1..Len(ts) - 1 : CutWord(str, line, ts[j], n + (j - 1))
      <3>1. SUFFICES ASSUME NEW j \in 1..Len(ts) - 1 PROVE CutWord(str, line, ts[j], n + (j - 1))
        OBVIOUS
      <3>2. j = 1 /\ n + (j - 1) = n
        BY <1>1, <2>6
      <3>3. QED
        BY <2>1, <2>6, <3>2
    <2>8. 1 \in 1..Len(ts) /\ Len(ts) <= MaxTokens
      BY <2>6, CommandsAssumption
    <2>9. Cut(str, line, ts, 1, n)
      BY <1>2, <2>3, <2>6, <2>7, <2>8 DEF Cut
    <2>10. ~NoFailure
      BY <1>4, <1>b
    <2>11. QED
      BY <2>5, <2>9, <2>10 DEF n
  <1>5. QED
    BY <1>3, <1>4

\* The line is cut again only where its rest begins.
LEMMA RefillStep ==
    ASSUME Counters, InGet, Refill
    PROVE  Counters' /\ InGet'
  <1>1. /\ pc = "refill" /\ pc' \in {"keys", "end"} /\ handler' = handler /\ line' = line
        /\ sbytes' = sbytes /\ i' = i /\ isize' = isize /\ out' = out
        /\ ileft' = ileft /\ full' = full /\ failed' = failed /\ visited' = visited
        /\ (pc' = "end" => tokens'[key_token'].value = Null)
    BY DEF Refill
  <1>2. Counters'
    BY <1>1 DEF Counters
  <1>3. GetVisited' /\ GetDone'
    BY <1>1 DEF InGet, GetVisited, GetDone
  <1>4. GetOut'
    BY <1>1 DEF InGet, GetOut, Copies
  <1>5. GetPc'
    BY <1>1 DEF GetPc
  <1>6. CASE tokens[key_token].value = Null
    <2>1. str' = str /\ tokens' = tokens /\ key_token' = key_token
      BY <1>6 DEF Refill, Key
    <2>2. GetLine' /\ GetAhead' /\ GetComplete'
      BY <1>1, <2>1 DEF InGet, GetLine, GetAhead, GetComplete, NoFailure
    <2>3. QED
      BY <1>2, <1>3, <1>4, <1>5, <2>2 DEF InGet
  <1>7. CASE tokens[key_token].value # Null
    <2> DEFINE t == TokenizeCommand(str, tokens[key_token].value, MaxTokens)
    <2>1. str' = t.str /\ tokens' = t.tokens /\ key_token' = 1
      BY <1>7 DEF Refill, Key, Remaining
    <2>2. Cut(t.str, line, t.tokens, 1, Len(visited) + 2) /\ (NoFailure => Complete(line, t.tokens, 1, Len(visited) + 2))
      BY <1>1, <1>7, Recut
    <2> HIDE DEF t
    <2>3. t.tokens \in Seq(Tok) /\ 1 \in DOMAIN t.tokens /\ Len(t.tokens) <= MaxTokens
      BY <2>2 DEF Cut
    <2>4. GetLine'
      BY <1>1, <2>1, <2>3 DEF InGet, GetLine
    <2>5. GetAhead'
      BY <1>1, <2>1, <2>2 DEF GetAhead
    <2>6. GetComplete'
      BY <1>1, <2>1, <2>2 DEF GetComplete, NoFailure
    <2>7. QED
      BY <1>2, <1>3, <1>4, <1>5, <2>4, <2>5, <2>6 DEF InGet
  <1>8. QED
    BY <1>6, <1>7

\* END is sent only when nothing is left of the line.
LEMMA EndStep ==
    ASSUME Counters, InGet, End
    PROVE  Counters' /\ InGet'
  <1>1. /\ pc = "end" /\ pc' = "done" /\ handler' = handler /\ line' = line /\ str' = str
        /\ tokens' = tokens /\ sbytes' = sbytes /\ key_token' = key_token /\ i' = i /\ isize' = isize
        /\ ileft' = i /\ full' = full /\ visited' = visited
    BY DEF End, ItemsRetained
  <1>2. GetLine' /\ GetVisited' /\ GetAhead' /\ GetComplete' /\ GetPc'
    BY <1>1 DEF InGet, GetLine, GetVisited, GetAhead, GetComplete, GetPc
  <1>3. out \in Seq(Piece) /\ failed \subseteq Faults /\ i \in Nat
    BY DEF Counters, InGet, GetOut
  <1>4. tokens[key_token].value = Null
    BY <1>1 DEF InGet, GetPc
  <1>5. CASE "iov" \in Faults /\ out' = <<"SERVER_ERROR">> /\ failed' = failed \cup {"iov"}
    <2>1. failed' \subseteq Faults
      BY <1>3, <1>5
    <2>2. Counters'
      BY <1>1, <1>3, <2>1 DEF Counters
    <2>3. out' \in Seq(Piece) /\ Last(out') # "END"
      BY <1>5 DEF Piece, Last
    <2>4. GetOut' /\ GetDone'
      BY <1>1, <2>3 DEF GetOut, GetDone
    <2>5. QED
      BY <1>2, <2>2, <2>4 DEF InGet
  <1>6. CASE out' = Append(out, "END") /\ failed' = failed
    <2>1. Counters'
      BY <1>1, <1>3, <1>6 DEF Counters
    <2>2. "END" \in Piece
      BY DEF Piece
    <2>3. out' \in Seq(Piece) /\ out' = out \o <<"END">>
      BY <1>3, <1>6, <2>2
    <2>4. GetOut'
      BY <1>1, <2>3 DEF GetOut
    <2>5. "iov" \notin failed => out' = Copies(i) \o <<"END">>
      BY <1>1, <2>3 DEF InGet, GetOut
    <2>6. NoFailure => Cardinality(Starts(line)) = Len(visited) + 1
      <3>1. SUFFICES ASSUME NoFailure PROVE Cardinality(Starts(line)) = Len(visited) + 1
        OBVIOUS
      <3>2. /\ CString(line) /\ Len(visited) \in Nat /\ Len(visited) + 2 \in Nat
            /\ Cut(str, line, tokens, key_token, Len(visited) + 2)
        BY <1>1, AtKey
      <3>3. Complete(line, tokens, key_token, Len(visited) + 2)
        BY <1>1, <3>1 DEF InGet, GetComplete
      <3>4. Cardinality(Starts(line)) = (Len(visited) + 2) - 1
        BY <1>4, <3>2, <3>3, CutEnd
      <3>5. QED
        BY <3>2, <3>4
    <2>7. GetDone'
      BY <1>1, <1>6, <2>5, <2>6 DEF GetDone, NoFailure, Copies
    <2>8. QED
      BY <1>2, <2>1, <2>4, <2>7 DEF InGet
  <1>7. QED
    BY <1>4, <1>5, <1>6 DEF End, Key

\* Every step keeps the inductive invariant.
LEMMA IInvNext == IInv /\ [Next]_vars => IInv'
  <1> SUFFICES ASSUME IInv, [Next]_vars PROVE IInv'
    OBVIOUS
  <1>1. CASE ProcessGet
    <2>1. InGet
      BY <1>1 DEF IInv, InLength, ProcessGet, KeyTooLong, Hit, OutOfMemory, KeysDone, Refill, End
    <2>2. Counters' /\ InGet'
      BY <1>1, <2>1, KeyTooLongStep, HitStep, OutOfMemoryStep, KeysDoneStep, RefillStep, EndStep, Zenon DEF ProcessGet, IInv
    <2>3. QED
      BY <2>2 DEF IInv
  <1>2. CASE ProcessUpdate \/ ProcessHit
    <2>1. pc = "parse" /\ handler' = handler /\ line' = line /\ tokens' = tokens /\ key_token' = key_token
          /\ i' = i /\ isize' = isize /\ ileft' = ileft /\ full' = full /\ failed' = failed /\ visited' = visited
          /\ pc' \in {"rejected", "swallow"}
      <3>1. pc' \in {"rejected", "swallow"}
        BY <1>2 DEF ProcessUpdate, ProcessHit, Reject, Swallow
      <3>2. QED
        BY <1>2, <3>1 DEF ProcessUpdate, ProcessHit, reply
    <2>2. InLength
      BY <2>1 DEF IInv, InGet, GetLine
    <2>3. QED
      BY <2>1, <2>2 DEF IInv, InLength, Counters
  <1>3. CASE UNCHANGED vars
    <2>1. /\ handler' = handler /\ line' = line /\ str' = str /\ tokens' = tokens /\ key_token' = key_token /\ pc' = pc
          /\ sbytes' = sbytes /\ i' = i /\ isize' = isize /\ ileft' = ileft /\ out' = out /\ full' = full /\ failed' = failed /\ visited' = visited
      BY <1>3 DEF vars, reply
    <2>2. Counters'
      BY <2>1 DEF Counters, IInv
    <2>3. InLength => InLength'
      BY <2>1 DEF InLength
    <2>4. InGet => InGet'
      BY <2>1 DEF InGet, GetLine, GetVisited, GetAhead, GetComplete, GetOut, GetPc, GetDone, NoFailure, Copies
    <2>5. QED
      BY <2>2, <2>3, <2>4 DEF IInv
  <1>4. QED
    BY <1>1, <1>2, <1>3 DEF Next

\* The inductive invariant holds always.
LEMMA AlwaysIInv == Spec => []IInv
  BY IInvInit, IInvNext, PTL DEF Spec

-----------------------------------------------------------------------------
(* What a get is answered with *)

\* The keys of the line, as the reference has them.
LEMMA KeysAre ==
    ASSUME InGet
    PROVE  /\ \E T : Keys \in Seq(T) /\ Len(Keys) = Cardinality(Starts(line)) - 1
           /\ Len(visited) <= Len(Keys) /\ \A n \in 1..Len(visited) : visited[n] = Keys[n]
  <1> DEFINE W == Words(line)
             C == Cardinality(Starts(line))
  <1>1. CString(line) /\ Starts(line) # {} /\ visited \in Seq(Tok) /\ \A n \in 1..Len(visited) : IsWord(line, visited[n], n + 1)
    BY DEF InGet, GetLine, GetVisited
  <1>2. PICK T : W \in Seq(T)
    BY <1>1, WordsAt
  <1>3. Len(W) = C /\ \A n \in Nat, t \in Tok : IsWord(line, t, n) => n \in 1..Len(W) /\ W[n] = t
    BY <1>1, WordsAt
  <1>4. IsFiniteSet(Starts(line)) /\ C \in Nat
    BY <1>1, StartsFinite
  <1>5. C # 0
    BY <1>1, <1>4, FS_EmptySet
  <1> HIDE DEF W, C
  <1>6. W # <<>> /\ Len(W) \in Nat /\ Len(W) > 0
    BY <1>2, <1>3, <1>4, <1>5
  <1>7. Keys = Tail(W)
    BY DEF Keys, W
  <1>8. Keys \in Seq(T) /\ Len(Keys) = C - 1 /\ \A n \in 1..Len(W) - 1 : Keys[n] = W[n + 1]
    BY <1>2, <1>3, <1>6, <1>7
  <1>9. ASSUME NEW n \in 1..Len(visited) PROVE n + 1 \in 1..Len(W) /\ visited[n] = W[n + 1]
    <2>1. n + 1 \in Nat /\ visited[n] \in Tok
      BY <1>1
    <2>2. QED
      BY <1>1, <1>3, <2>1
  <1>10. Len(visited) \in Nat /\ Len(visited) <= Len(Keys)
    <2>1. Len(visited) \in Nat
      BY <1>1
    <2>2. CASE Len(visited) = 0
      BY <1>3, <1>4, <1>5, <1>8, <2>2
    <2>3. CASE Len(visited) # 0
      <3>1. Len(visited) \in 1..Len(visited)
        BY <2>1, <2>3
      <3>2. Len(visited) + 1 \in 1..Len(W)
        BY <1>9, <3>1
      <3>3. QED
        BY <1>3, <1>4, <1>8, <2>1, <3>2
    <2>4. QED
      BY <2>1, <2>2, <2>3
  <1>11. \A n \in 1..Len(visited) : visited[n] = Keys[n]
    <2>1. SUFFICES ASSUME NEW n \in 1..Len(visited) PROVE visited[n] = Keys[n]
      OBVIOUS
    <2>2. n \in 1..Len(W) - 1
      BY <1>6, <1>9
    <2>3. QED
      BY <1>8, <1>9, <2>2
  <1>12. QED
    BY <1>8, <1>10, <1>11 DEF C

\* The keys of a get (process_get_command) are visited in the order of the line, each
\* once, for every line, every limit on tokens and any number of failed reallocs.
THEOREM InOrder == Spec => []KeysInOrder
  <1>1. IInv => KeysInOrder
    <2>1. SUFFICES ASSUME IInv, handler = "get" PROVE IsPrefix(visited, Keys)
      BY DEF KeysInOrder
    <2>2. InGet
      BY <2>1 DEF IInv, InLength
    <2>3. PICK T : Keys \in Seq(T)
      BY <2>2, KeysAre
    <2>4. visited \in Seq(Tok) /\ Len(visited) \in Nat
      BY <2>2 DEF InGet, GetVisited
    <2>5. Len(visited) <= Len(Keys) /\ \A n \in 1..Len(visited) : visited[n] = Keys[n]
      BY <2>2, KeysAre
    <2> HIDE DEF Keys
    <2>6. SubSeq(visited, 1, Len(visited)) = SubSeq(Keys, 1, Len(visited))
      BY <2>3, <2>4, <2>5
    <2>7. QED
      BY <2>5, <2>6 DEF IsPrefix
  <1>2. QED
    BY <1>1, AlwaysIInv, PTL

\* What is known when END was sent.
LEMMA AnsweredGet ==
    ASSUME IInv, Answered
    PROVE  /\ InGet /\ ileft = i /\ i \in Nat /\ i = Len(visited) /\ visited \in Seq(Tok)
           /\ "iov" \notin failed => out = Copies(i) \o <<"END">>
           /\ NoFailure => Cardinality(Starts(line)) = Len(visited) + 1
  <1>1. InGet
    BY DEF IInv, InLength, Answered
  <1>2. QED
    BY <1>1 DEF IInv, InGet, GetDone, GetVisited, Counters, Answered

\* Without a failed realloc no key of a get is left out, however often tokenize_command
\* has to cut the line, and every item is released after the reply.
THEOREM Served == Spec => []AllServed
  <1>1. IInv => AllServed
    <2>1. SUFFICES ASSUME IInv, Answered, failed = {}
                   PROVE  visited = Keys /\ ileft = Len(Keys) /\ Len(out) = 3 * Len(Keys) + 1
      BY DEF AllServed
    <2>2. NoFailure /\ "iov" \notin failed
      BY <2>1 DEF IInv, Counters, NoFailure
    <2>3. /\ InGet /\ ileft = i /\ i \in Nat /\ i = Len(visited) /\ visited \in Seq(Tok)
          /\ out = Copies(i) \o <<"END">> /\ Cardinality(Starts(line)) = Len(visited) + 1
      BY <2>1, <2>2, AnsweredGet
    <2>4. PICK T : Keys \in Seq(T) /\ Len(Keys) = Cardinality(Starts(line)) - 1
      BY <2>3, KeysAre
    <2>5. \A n \in 1..Len(visited) : visited[n] = Keys[n]
      BY <2>3, KeysAre
    <2> HIDE DEF Keys
    <2>6. Len(Keys) = Len(visited)
      BY <2>3, <2>4
    <2>7. visited = Keys
      BY <2>3, <2>4, <2>5, <2>6
    <2>8. Len(out) = 3 * Len(Keys) + 1
      <3>1. Copies(i) \in Seq(Piece) /\ Len(Copies(i)) = 3 * i /\ <<"END">> \in Seq(Piece) /\ Len(<<"END">>) = 1
        BY <2>3, CopiesLen DEF Piece
      <3>2. \A a, b \in Seq(Piece) : Len(a \o b) = Len(a) + Len(b)
        OBVIOUS
      <3>3. Len(out) = 3 * i + 1
        BY <2>3, <3>1, <3>2
      <3>4. QED
        BY <2>3, <2>6, <3>3
    <2>9. QED
      BY <2>3, <2>6, <2>7, <2>8
  <1>2. QED
    BY <1>1, AlwaysIInv, PTL

\* A reply that ends in END is whole values, one for each item retained in c->ilist,
\* unless conn_add_iov failed.
THEOREM WellFormed == Spec => []WellFormedReply
  <1>1. IInv => WellFormedReply
    <2>1. SUFFICES ASSUME IInv, Answered, "iov" \notin failed PROVE out = Copies(ileft) \o <<"END">>
      BY DEF WellFormedReply, Copies
    <2>2. QED
      BY <2>1, AnsweredGet
  <1>2. QED
    BY <1>1, AlwaysIInv, PTL

-----------------------------------------------------------------------------
(* Powers, and numbers in an int *)

\* Powers, unfolded.
PowerRun(h, b, n) == h[0] = 1 /\ \A k \in 1..n : h[k] = b * h[k - 1]

\* The recursive function of Power, unfolded.
LEMMA PowerUnfold ==
    ASSUME NEW b, NEW L \in Nat
    PROVE  \E h : PowerRun(h, b, L) /\ Power(b, L) = h[L]
  <1> DEFINE F(f, n) == [k \in 0..n |-> IF k = 0 THEN 1 ELSE b * f[k - 1]]
             S == {n \in Nat : \E h : h = F(h, n)}
  <1>1. 0 \in S
    <2> DEFINE h == [k \in 0..0 |-> 1]
    <2>1. h = F(h, 0)
      OBVIOUS
    <2>2. QED
      BY <2>1
  <1>2. ASSUME NEW n \in Nat, n \in S PROVE n + 1 \in S
    <2>1. PICK h : h = F(h, n)
      BY <1>2
    <2> DEFINE g == [k \in 0..n + 1 |-> IF k <= n THEN h[k] ELSE b * h[n]]
    <2>2. \A k \in 0..n : g[k] = h[k]
      OBVIOUS
    <2>3. g[n + 1] = b * h[n]
      OBVIOUS
    <2>4. \A k \in 0..n : h[k] = IF k = 0 THEN 1 ELSE b * h[k - 1]
      BY <2>1
    <2>5. g = [k \in 0..n + 1 |-> g[k]]
      OBVIOUS
    <2>6. \A k \in 0..n + 1 : g[k] = IF k = 0 THEN 1 ELSE b * g[k - 1]
      <3> HIDE DEF g
      <3>1. SUFFICES ASSUME NEW k \in 0..n + 1 PROVE g[k] = IF k = 0 THEN 1 ELSE b * g[k - 1]
        OBVIOUS
      <3>2. CASE k = 0
        BY <2>2, <2>4, <3>2
      <3>3. CASE k # 0 /\ k <= n
        <4>1. k \in 0..n /\ k - 1 \in 0..n
          BY <3>3
        <4>2. QED
          BY <2>2, <2>4, <3>3, <4>1
      <3>4. CASE ~(k <= n)
        <4>1. k = n + 1 /\ k - 1 = n /\ n \in 0..n /\ k # 0
          BY <3>4
        <4>2. QED
          BY <2>2, <2>3, <4>1
      <3>5. QED
        BY <3>2, <3>3, <3>4
    <2> HIDE DEF g
    <2>7. g = F(g, n + 1)
      BY <2>5, <2>6
    <2> HIDE DEF F
    <2>8. n + 1 \in Nat
      OBVIOUS
    <2>9. QED
      BY <2>7, <2>8
  <1>3. L \in S
    <2> HIDE DEF S
    <2>1. QED
      BY <1>1, <1>2, SetInduction
  <1> DEFINE h == CHOOSE f : f = F(f, L)
  <1>4. h = F(h, L)
    <2> HIDE DEF F
    <2>1. QED
      BY <1>3
  <1>5. Power(b, L) = h[L]
    BY DEF Power
  <1> HIDE DEF h
  <1>6. \A n \in 0..L : h[n] = IF n = 0 THEN 1 ELSE b * h[n - 1]
    BY <1>4
  <1>7. PowerRun(h, b, L)
    BY <1>6 DEF PowerRun
  <1>8. QED
    BY <1>5, <1>7

\* Two runs agree, and are numbers.
LEMMA PowerRuns ==
    ASSUME NEW b \in Nat, b > 0, NEW L \in Nat, NEW M \in Nat, L <= M, NEW f, PowerRun(f, b, L), NEW g, PowerRun(g, b, M)
    PROVE  f[L] = g[L] /\ g[L] \in Nat /\ g[L] > 0
  <1> DEFINE S == {k \in Nat : k <= L => f[k] = g[k] /\ g[k] \in Nat /\ g[k] > 0}
  <1>1. 0 \in S
    BY DEF PowerRun
  <1>2. ASSUME NEW k \in Nat, k \in S PROVE k + 1 \in S
    <2>1. SUFFICES ASSUME k + 1 <= L PROVE f[k + 1] = g[k + 1] /\ g[k + 1] \in Nat /\ g[k + 1] > 0
      OBVIOUS
    <2>2. k <= L /\ k + 1 \in 1..L /\ k + 1 \in 1..M /\ (k + 1) - 1 = k
      BY <2>1
    <2>3. f[k + 1] = b * f[k] /\ g[k + 1] = b * g[k]
      BY <2>2 DEF PowerRun
    <2>4. f[k] = g[k] /\ g[k] \in Nat /\ g[k] > 0
      BY <1>2, <2>2
    <2>5. \A x, y \in Nat : x > 0 /\ y > 0 => x * y \in Nat /\ x * y > 0
      OBVIOUS
    <2>6. b * g[k] \in Nat /\ b * g[k] > 0
      BY <2>4, <2>5
    <2>7. QED
      BY <2>3, <2>4, <2>6
  <1>3. L \in S
    <2> HIDE DEF S
    <2>1. QED
      BY <1>1, <1>2, SetInduction
  <1>4. QED
    BY <1>3

\* b^0 = 1 and b^(n + 1) = b * b^n.
LEMMA PowerStep ==
    ASSUME NEW b \in Nat, b > 0, NEW n \in Nat
    PROVE  Power(b, 0) = 1 /\ Power(b, n) \in Nat /\ Power(b, n) > 0 /\ Power(b, n + 1) = b * Power(b, n)
  <1>1. Power(b, 0) = 1
    <2>1. PICK h : PowerRun(h, b, 0) /\ Power(b, 0) = h[0]
      BY PowerUnfold
    <2>2. QED
      BY <2>1 DEF PowerRun
  <1>2. PICK f : PowerRun(f, b, n) /\ Power(b, n) = f[n]
    BY PowerUnfold
  <1>3. n + 1 \in Nat /\ n <= n + 1 /\ n + 1 \in 1..n + 1 /\ (n + 1) - 1 = n
    OBVIOUS
  <1>4. PICK g : PowerRun(g, b, n + 1) /\ Power(b, n + 1) = g[n + 1]
    BY <1>3, PowerUnfold
  <1>5. f[n] = g[n] /\ g[n] \in Nat /\ g[n] > 0
    BY <1>2, <1>3, <1>4, PowerRuns
  <1>6. g[n + 1] = b * g[n]
    BY <1>3, <1>4 DEF PowerRun
  <1>7. QED
    BY <1>1, <1>2, <1>4, <1>5, <1>6

\* The ranges of int and long, one inside the other.
LEMMA HalfIs ==
    /\ Half(IntBits) \in Nat /\ Half(IntBits) > 0
    /\ \A n \in Int : Fits(n, IntBits) => Fits(n, LongBits)
  <1>1. IntBits \in Nat /\ IntBits # 0 /\ LongBits \in Nat /\ LongBits >= IntBits
    BY ValueLengthAssumption
  <1> DEFINE N == IntBits - 1
             d == LongBits - IntBits
  <1>2. N \in Nat /\ d \in Nat /\ N + d = LongBits - 1
    BY <1>1
  <1> HIDE DEF N, d
  <1> DEFINE S == {k \in Nat : Power(2, N) <= Power(2, N + k)}
  <1>3. Power(2, N) \in Nat /\ Power(2, N) > 0
    <2>1. \A n \in Nat : Power(2, n) \in Nat /\ Power(2, n) > 0
      BY PowerStep
    <2>2. QED
      BY <1>2, <2>1
  <1>4. 0 \in S
    <2>1. N + 0 = N
      BY <1>2
    <2>2. QED
      BY <1>3, <2>1
  <1>5. ASSUME NEW k \in Nat, k \in S PROVE k + 1 \in S
    <2>1. N + k \in Nat /\ N + (k + 1) = (N + k) + 1
      BY <1>2
    <2>2. Power(2, N + k) \in Nat /\ Power(2, (N + k) + 1) = 2 * Power(2, N + k)
      BY <2>1, PowerStep
    <2>3. Power(2, N) <= Power(2, N + k)
      BY <1>5
    <2>4. \A x, y \in Nat : x <= y => x <= 2 * y
      OBVIOUS
    <2>5. Power(2, N) <= Power(2, N + (k + 1))
      BY <1>3, <2>1, <2>2, <2>3, <2>4
    <2>6. QED
      BY <2>5
  <1>6. d \in S
    <2> HIDE DEF S
    <2>1. QED
      BY <1>2, <1>4, <1>5, SetInduction
  <1>7. Half(IntBits) = Power(2, N) /\ Half(LongBits) = Power(2, N + d)
    BY <1>2 DEF Half, N
  <1>8. Power(2, N + d) \in Nat
    <2>1. N + d \in Nat
      BY <1>2
    <2>2. QED
      BY <2>1, PowerStep
  <1>9. Half(IntBits) <= Half(LongBits) /\ Half(IntBits) \in Nat /\ Half(LongBits) \in Nat /\ Half(IntBits) > 0
    BY <1>3, <1>6, <1>7, <1>8
  <1> HIDE DEF S
  <1>10. QED
    BY <1>9 DEF Fits

\* A remainder differs from the number by a multiple of the divisor.
LEMMA RemainderIs ==
    ASSUME NEW M \in Nat, M > 0
    PROVE  \A a \in Int : \E k \in Int : a % M = a + M * k
  <1>1. SUFFICES ASSUME NEW a \in Int PROVE \E k \in Int : a % M = a + M * k
    OBVIOUS
  <1>2. a = M * (a \div M) + (a % M) /\ a \div M \in Int
    OBVIOUS
  <1>3. a % M = a + M * (-(a \div M))
    BY <1>2
  <1>4. QED
    BY <1>2, <1>3

\* A number that differs from another by multiples of the divisor is congruent to it.
LEMMA CongruentIs ==
    ASSUME NEW m \in Int, NEW n \in Int, NEW j \in Int, NEW k \in Int,
           NEW M \in Nat, M > 0, m = (n + M * j) + M * k
    PROVE  (m - n) % M = 0
  <1>1. M * j + M * k = M * (j + k) /\ M * j \in Int /\ M * k \in Int
    OBVIOUS
  <1>2. m - n = M * j + M * k
    <2> DEFINE x == M * j
               y == M * k
    <2>1. x \in Int /\ y \in Int /\ m = (n + x) + y
      BY <1>1
    <2> HIDE DEF x, y
    <2>2. m - n = x + y
      BY <2>1
    <2>3. QED
      BY <2>2 DEF x, y
  <1>3. j + k \in Int
    OBVIOUS
  <1>4. \A q \in Int : (M * q) % M = 0
    OBVIOUS
  <1>5. QED
    BY <1>1, <1>2, <1>3, <1>4

\* Storing a number in an int gives one that fits, and that number if it fits.
LEMMA WrapIs ==
    ASSUME NEW n \in Int
    PROVE  /\ Wrap(n, IntBits) \in Int /\ Fits(Wrap(n, IntBits), IntBits)
           /\ Fits(n, IntBits) => Wrap(n, IntBits) = n
           /\ \E k \in Int : Wrap(n, IntBits) = n + (2 * Half(IntBits)) * k
  <1> DEFINE H == Half(IntBits)
  <1>1. H \in Nat /\ H > 0
    BY HalfIs
  <1> HIDE DEF H
  <1> DEFINE m == (n + H) % (2 * H)
  <1>2. m \in 0..(2 * H) - 1
    BY <1>1
  <1>3. n >= -H /\ n < H => m = n + H
    BY <1>1
  <1>4. Wrap(n, IntBits) = m - H
    BY DEF Wrap, H
  <1> DEFINE M == 2 * H
  <1>a. PICK k \in Int : m = (n + H) + M * k
    <2>1. M \in Nat /\ M > 0 /\ n + H \in Int
      BY <1>1
    <2>2. \A a \in Int : \E k \in Int : a % M = a + M * k
      BY <2>1, RemainderIs
    <2>3. QED
      BY <2>1, <2>2
  <1>b. m - H = n + M * k
    <2> DEFINE x == M * k
    <2>1. x \in Int
      BY <1>1
    <2> HIDE DEF x, m
    <2>2. m = (n + H) + x
      BY <1>a DEF x
    <2>3. QED
      BY <1>1, <2>1, <2>2 DEF x
  <1> HIDE DEF M
  <1> HIDE DEF m
  <1>5. m - H \in Int /\ m - H >= -H /\ m - H < H
    BY <1>1, <1>2
  <1>6. n >= -H /\ n < H => m - H = n
    BY <1>1, <1>3
  <1>7. Wrap(n, IntBits) = n + (2 * Half(IntBits)) * k
    BY <1>4, <1>b DEF M, H
  <1>8. QED
    BY <1>4, <1>5, <1>6, <1>7 DEF Fits, H

-----------------------------------------------------------------------------
(* The loop over the digits *)

\* The loop over the digits, unfolded.
SumRun(h, b, d, n) == h[0] = 0 /\ \A k \in 1..n : h[k] = b * h[k - 1] + d[k]

\* The recursive function of Accumulated, unfolded.
LEMMA AccumulatedUnfold ==
    ASSUME NEW b, NEW d, NEW L \in Nat, Len(d) = L
    PROVE  \E h : SumRun(h, b, d, L) /\ Accumulated(b, d) = h[L]
  <1> DEFINE F(f, n) == [k \in 0..n |-> IF k = 0 THEN 0 ELSE b * f[k - 1] + d[k]]
             S == {n \in Nat : \E h : h = F(h, n)}
  <1>1. 0 \in S
    <2> DEFINE h == [k \in 0..0 |-> 0]
    <2>1. h = F(h, 0)
      OBVIOUS
    <2>2. QED
      BY <2>1
  <1>2. ASSUME NEW n \in Nat, n \in S PROVE n + 1 \in S
    <2>1. PICK h : h = F(h, n)
      BY <1>2
    <2> DEFINE g == [k \in 0..n + 1 |-> IF k <= n THEN h[k] ELSE b * h[n] + d[n + 1]]
    <2>2. \A k \in 0..n : g[k] = h[k]
      OBVIOUS
    <2>3. g[n + 1] = b * h[n] + d[n + 1]
      OBVIOUS
    <2>4. \A k \in 0..n : h[k] = IF k = 0 THEN 0 ELSE b * h[k - 1] + d[k]
      BY <2>1
    <2>5. g = [k \in 0..n + 1 |-> g[k]]
      OBVIOUS
    <2>6. \A k \in 0..n + 1 : g[k] = IF k = 0 THEN 0 ELSE b * g[k - 1] + d[k]
      <3> HIDE DEF g
      <3>1. SUFFICES ASSUME NEW k \in 0..n + 1 PROVE g[k] = IF k = 0 THEN 0 ELSE b * g[k - 1] + d[k]
        OBVIOUS
      <3>2. CASE k = 0
        BY <2>2, <2>4, <3>2
      <3>3. CASE k # 0 /\ k <= n
        <4>1. k \in 0..n /\ k - 1 \in 0..n
          BY <3>3
        <4>2. QED
          BY <2>2, <2>4, <3>3, <4>1
      <3>4. CASE ~(k <= n)
        <4>1. k = n + 1 /\ k - 1 = n /\ n \in 0..n /\ k # 0
          BY <3>4
        <4>2. QED
          BY <2>2, <2>3, <4>1
      <3>5. QED
        BY <3>2, <3>3, <3>4
    <2> HIDE DEF g
    <2>7. g = F(g, n + 1)
      BY <2>5, <2>6
    <2> HIDE DEF F
    <2>8. n + 1 \in Nat
      OBVIOUS
    <2>9. QED
      BY <2>7, <2>8
  <1>3. L \in S
    <2> HIDE DEF S
    <2>1. QED
      BY <1>1, <1>2, SetInduction
  <1> DEFINE h == CHOOSE f : f = F(f, L)
  <1>4. h = F(h, L)
    <2> HIDE DEF F
    <2>1. QED
      BY <1>3
  <1>5. Accumulated(b, d) = h[L]
    BY DEF Accumulated
  <1> HIDE DEF h
  <1>6. \A n \in 0..L : h[n] = IF n = 0 THEN 0 ELSE b * h[n - 1] + d[n]
    BY <1>4
  <1>7. SumRun(h, b, d, L)
    BY <1>6 DEF SumRun
  <1>8. QED
    BY <1>5, <1>7

\* It accumulates integers, and natural numbers from natural numbers.
LEMMA AccumulatedInt ==
    ASSUME NEW b \in Nat, NEW N, N \in {Nat, Int}, NEW d \in Seq(N), NEW h, SumRun(h, b, d, Len(d))
    PROVE  \A k \in 0..Len(d) : h[k] \in N
  <1> DEFINE S == {k \in Nat : k <= Len(d) => h[k] \in N}
  <1>0. Len(d) \in Nat
    OBVIOUS
  <1>1. 0 \in S
    BY DEF SumRun
  <1>2. ASSUME NEW k \in Nat, k \in S PROVE k + 1 \in S
    <2>1. SUFFICES ASSUME k + 1 <= Len(d) PROVE h[k + 1] \in N
      OBVIOUS
    <2>2. k <= Len(d) /\ k + 1 \in 1..Len(d) /\ (k + 1) - 1 = k
      BY <1>0, <2>1
    <2>3. h[k + 1] = b * h[k] + d[k + 1] /\ d[k + 1] \in N /\ h[k] \in N
      BY <1>2, <2>2 DEF SumRun
    <2>4. (\A x, y, z \in Nat : x * y + z \in Nat) /\ (\A x \in Nat : \A y, z \in Int : x * y + z \in Int)
      OBVIOUS
    <2>5. QED
      BY <2>3, <2>4
  <1>3. Nat \subseteq S
    <2> HIDE DEF S
    <2>1. QED
      BY <1>1, <1>2, SetInduction
  <1>4. QED
    BY <1>0, <1>3

\* A sum changes by what one of its terms does.
LEMMA SumChange ==
    ASSUME NEW a \in Seq(Int), NEW c \in Seq(Int), Len(a) = Len(c), NEW x \in 1..Len(a),
           \A k \in 1..Len(a) : k # x => a[k] = c[k], c[x] = 0
    PROVE  Accumulated(1, a) = a[x] + Accumulated(1, c)
  <1> DEFINE L == Len(a)
  <1>1. L \in Nat /\ x \in Nat /\ a[x] \in Int
    OBVIOUS
  <1> HIDE DEF L
  <1>2. PICK f : SumRun(f, 1, a, L) /\ Accumulated(1, a) = f[L]
    BY <1>1, AccumulatedUnfold, SMTT(30) DEF L
  <1>3. PICK g : SumRun(g, 1, c, L) /\ Accumulated(1, c) = g[L]
    BY <1>1, AccumulatedUnfold, SMTT(30) DEF L
  <1>4. \A k \in 0..L : g[k] \in Int
    <2>1. 1 \in Nat /\ Int \in {Nat, Int}
      OBVIOUS
    <2>2. QED
      BY <1>3, <2>1, AccumulatedInt DEF L
  <1> DEFINE S == {k \in Nat : k <= L => f[k] = g[k] + (IF x <= k THEN a[x] ELSE 0)}
  <1>5. 0 \in S
    BY <1>1, <1>2, <1>3 DEF SumRun
  <1>6. ASSUME NEW k \in Nat, k \in S PROVE k + 1 \in S
    <2>1. SUFFICES ASSUME k + 1 <= L PROVE f[k + 1] = g[k + 1] + (IF x <= k + 1 THEN a[x] ELSE 0)
      OBVIOUS
    <2>2. k <= L /\ k + 1 \in 1..L /\ (k + 1) - 1 = k /\ k \in 0..L
      BY <1>1, <2>1
    <2>3. f[k + 1] = 1 * f[k] + a[k + 1] /\ g[k + 1] = 1 * g[k] + c[k + 1]
      BY <1>2, <1>3, <2>2 DEF SumRun
    <2>4. f[k] = g[k] + (IF x <= k THEN a[x] ELSE 0) /\ g[k] \in Int
      BY <1>4, <1>6, <2>2
    <2>5. a[k + 1] \in Int /\ c[k + 1] \in Int
      BY <2>2 DEF L
    <2>6. CASE x = k + 1
      <3>1. c[k + 1] = 0 /\ a[x] = a[k + 1]
        BY <2>6
      <3>2. ~(x <= k) /\ x <= k + 1
        BY <1>1, <2>6
      <3>3. f[k] = g[k]
        BY <2>4, <3>2
      <3>4. QED
        BY <2>3, <2>4, <2>5, <3>1, <3>2, <3>3
    <2>7. CASE x # k + 1
      <3>1. a[k + 1] = c[k + 1]
        BY <2>2, <2>7 DEF L
      <3>2. x <= k <=> x <= k + 1
        BY <1>1, <2>7
      <3>3. \A p, q, r, z \in Int : p = q + z => 1 * p + r = (1 * q + r) + z
        OBVIOUS
      <3>4. QED
        BY <1>1, <2>3, <2>4, <2>5, <3>1, <3>2, <3>3
    <2>8. QED
      BY <2>6, <2>7
  <1>7. L \in S
    <2> HIDE DEF S
    <2>1. QED
      BY <1>1, <1>5, <1>6, SetInduction
  <1>8. x <= L /\ L \in 0..L
    BY <1>1 DEF L
  <1>9. f[L] = g[L] + a[x]
    BY <1>1, <1>7, <1>8
  <1>10. QED
    BY <1>1, <1>2, <1>3, <1>4, <1>8, <1>9

\* Nothing but zeros sums to zero.
LEMMA SumZero ==
    ASSUME NEW c \in Seq(Int), \A k \in 1..Len(c) : c[k] = 0
    PROVE  Accumulated(1, c) = 0
  <1> DEFINE L == Len(c)
  <1>1. L \in Nat
    OBVIOUS
  <1> HIDE DEF L
  <1>2. PICK g : SumRun(g, 1, c, L) /\ Accumulated(1, c) = g[L]
    BY <1>1, AccumulatedUnfold DEF L
  <1> DEFINE S == {k \in Nat : k <= L => g[k] = 0}
  <1>3. 0 \in S
    BY <1>2 DEF SumRun
  <1>4. ASSUME NEW k \in Nat, k \in S PROVE k + 1 \in S
    <2>1. SUFFICES ASSUME k + 1 <= L PROVE g[k + 1] = 0
      OBVIOUS
    <2>2. k <= L /\ k + 1 \in 1..L /\ (k + 1) - 1 = k
      BY <1>1, <2>1
    <2>3. g[k + 1] = 1 * g[k] + c[k + 1] /\ g[k] = 0 /\ c[k + 1] = 0
      BY <1>2, <1>4, <2>2 DEF SumRun, L
    <2>4. QED
      BY <2>3
  <1>5. L \in S
    <2> HIDE DEF S
    <2>1. QED
      BY <1>1, <1>3, <1>4, SetInduction
  <1>6. QED
    BY <1>1, <1>2, <1>5

-----------------------------------------------------------------------------
(* The number a numeral stands for *)

\* SumFunction takes the terms in any order; the sum is that from left to right.
LEMMA SumFunctionIs ==
    ASSUME NEW f \in Seq(Int)
    PROVE  SumFunction(f) = Accumulated(1, f)
  <1> DEFINE D == DOMAIN f
             L == Len(f)
             Part(s) == [k \in 1..L |-> IF k \in s THEN f[k] ELSE 0]
             c(s) == CHOOSE x \in s : TRUE
             F(h) == [s \in SUBSET D |-> IF s = {} THEN 0 ELSE f[c(s)] + h[s \ {c(s)}]]
             q == [s \in SUBSET D |-> Accumulated(1, Part(s))]
  <1>1. L \in Nat /\ D = 1..L /\ IsFiniteSet(D) /\ \A k \in D : f[k] \in Int
    <2>1. L \in Nat /\ D = 1..L /\ \A k \in D : f[k] \in Int
      OBVIOUS
    <2>2. QED
      BY <2>1, FS_Interval
  <1>2. \A s : Part(s) \in Seq(Int) /\ Len(Part(s)) = L /\ \A k \in 1..L : Part(s)[k] = IF k \in s THEN f[k] ELSE 0
    BY <1>1
  <1>3. Part(D) = f
    BY <1>1
  <1>4. \A s \in SUBSET D : s # {} => c(s) \in s
    OBVIOUS
  <1> HIDE DEF c, L
  <1>5. \A s \in SUBSET D : q[s] = IF s = {} THEN 0 ELSE f[c(s)] + q[s \ {c(s)}]
    <2>1. SUFFICES ASSUME NEW s \in SUBSET D PROVE q[s] = IF s = {} THEN 0 ELSE f[c(s)] + q[s \ {c(s)}]
      OBVIOUS
    <2>2. q[s] = Accumulated(1, Part(s))
      OBVIOUS
    <2>3. CASE s = {}
      <3>1. \A k \in 1..Len(Part(s)) : Part(s)[k] = 0
        BY <1>2, <2>3
      <3> HIDE DEF Part
      <3>2. Accumulated(1, Part(s)) = 0
        BY <1>2, <3>1, SumZero
      <3>3. QED
        BY <2>2, <2>3, <3>2
    <2>4. CASE s # {}
      <3> DEFINE x == c(s)
                 r == s \ {x}
      <3>1. x \in s /\ x \in 1..L /\ r \in SUBSET D
        BY <1>1, <1>4, <2>4
      <3>2. q[r] = Accumulated(1, Part(r))
        BY <3>1
      <3> HIDE DEF Part, q, x
      <3>3. Part(s)[x] = f[x] /\ Part(r)[x] = 0
        BY <1>2, <3>1
      <3>4. \A k \in 1..L : k # x => Part(s)[k] = Part(r)[k]
        BY <1>2, <3>1
      <3> HIDE DEF r
      <3>5. Accumulated(1, Part(s)) = Part(s)[x] + Accumulated(1, Part(r))
        <4> DEFINE u == Part(s)
                   w == Part(r)
        <4>1. u \in Seq(Int) /\ w \in Seq(Int) /\ Len(u) = Len(w) /\ Len(u) = L
          BY <1>2
        <4>2. w[x] = 0 /\ x \in 1..Len(u) /\ \A k \in 1..Len(u) : k # x => u[k] = w[k]
          BY <3>1, <3>3, <3>4, <4>1
        <4> HIDE DEF u, w
        <4>3. Accumulated(1, u) = u[x] + Accumulated(1, w)
          BY <4>1, <4>2, SumChange
        <4>4. QED
          BY <4>3 DEF u, w
      <3>6. q[s] = f[x] + q[r]
        BY <2>2, <3>2, <3>3, <3>5
      <3>7. QED
        BY <2>4, <3>6 DEF x, r
    <2>5. QED
      BY <2>3, <2>4
  <1>6. q = F(q)
    <2>1. q = [s \in SUBSET D |-> q[s]]
      OBVIOUS
    <2> HIDE DEF q, D
    <2>2. QED
      BY <1>5, <2>1
  <1> DEFINE h == CHOOSE g : g = F(g)
  <1>7. h = F(h)
    <2> HIDE DEF F, q
    <2>1. QED
      BY <1>6
  <1>8. SumFunction(f) = h[D]
    BY DEF SumFunction, SumFunctionOnSet, FoldFunctionOnSet, MapThenFoldSet, c
  <1> HIDE DEF h, q, Part
  <1>9. \A s \in SUBSET D : h[s] = IF s = {} THEN 0 ELSE f[c(s)] + h[s \ {c(s)}]
    BY <1>7
  <1> HIDE DEF D, F
  <1> DEFINE S == {n \in Nat : \A s \in SUBSET D : Cardinality(s) = n => h[s] = q[s]}
  <1>10. 0 \in S
    <2>1. SUFFICES ASSUME NEW s \in SUBSET D, Cardinality(s) = 0 PROVE h[s] = q[s]
      OBVIOUS
    <2>2. s = {}
      BY <1>1, <2>1, FS_Subset, FS_EmptySet
    <2>3. QED
      BY <1>5, <1>9, <2>2
  <1>11. ASSUME NEW n \in Nat, n \in S PROVE n + 1 \in S
    <2>1. SUFFICES ASSUME NEW s \in SUBSET D, Cardinality(s) = n + 1 PROVE h[s] = q[s]
      OBVIOUS
    <2>2. IsFiniteSet(s)
      BY <1>1, FS_Subset
    <2>3. s # {}
      <3>1. n + 1 # 0
        OBVIOUS
      <3>2. QED
        BY <2>1, <2>2, <3>1, FS_EmptySet
    <2> DEFINE r == s \ {c(s)}
    <2>4. c(s) \in s /\ r \in SUBSET D
      BY <1>4, <2>3
    <2>5. Cardinality(r) = n
      <3>1. Cardinality(r) = Cardinality(s) - 1
        BY <2>2, <2>4, FS_RemoveElement
      <3>2. QED
        BY <2>1, <3>1
    <2> HIDE DEF r
    <2>6. h[r] = q[r]
      BY <1>11, <2>4, <2>5
    <2>7. h[s] = f[c(s)] + h[r] /\ q[s] = f[c(s)] + q[r]
      BY <1>5, <1>9, <2>3 DEF r
    <2>8. QED
      BY <2>6, <2>7
  <1>12. Nat \subseteq S
    <2> HIDE DEF S
    <2>1. QED
      BY <1>10, <1>11, SetInduction
  <1>13. h[D] = q[D]
    <2>1. Cardinality(D) \in Nat /\ D \in SUBSET D
      BY <1>1, FS_CardinalityType
    <2>2. QED
      BY <1>12, <2>1
  <1>14. q[D] = Accumulated(1, f)
    <2>1. D \in SUBSET D
      OBVIOUS
    <2>2. q[D] = Accumulated(1, Part(D))
      BY <2>1 DEF q
    <2>3. QED
      BY <1>3, <2>2
  <1>15. QED
    BY <1>8, <1>13, <1>14

\* Place by place or digit by digit, a numeral stands for the same number.
LEMMA PlacesAre ==
    ASSUME NEW u \in Seq(Nat)
    PROVE  /\ Accumulated(10, u) \in Nat
           /\ SumFunction([k \in DOMAIN u |-> u[k] * Power(10, Len(u) - k)]) = Accumulated(10, u)
  <1> DEFINE L == Len(u)
             f == [k \in DOMAIN u |-> u[k] * Power(10, Len(u) - k)]
  <1>1. L \in Nat /\ DOMAIN u = 1..L /\ \A k \in 1..L : u[k] \in Nat
    OBVIOUS
  <1>2. \A n \in Nat : Power(10, n) \in Nat /\ Power(10, n + 1) = 10 * Power(10, n) /\ Power(10, 0) = 1
    <2>1. 10 \in Nat /\ 10 > 0
      OBVIOUS
    <2>2. QED
      BY <2>1, PowerStep, Zenon
  <1> HIDE DEF L
  <1>3. \A k \in 1..L : f[k] = u[k] * Power(10, L - k) /\ Power(10, L - k) \in Nat /\ f[k] \in Int
    <2>1. SUFFICES ASSUME NEW k \in 1..L PROVE f[k] = u[k] * Power(10, L - k) /\ Power(10, L - k) \in Nat /\ f[k] \in Int
      OBVIOUS
    <2>2. L - k \in Nat
      BY <1>1
    <2>3. Power(10, L - k) \in Nat
      BY <1>2, <2>2
    <2>4. f[k] = u[k] * Power(10, L - k)
      BY <1>1 DEF L
    <2>5. \A x, y \in Nat : x * y \in Int
      OBVIOUS
    <2> HIDE DEF f
    <2>6. QED
      BY <1>1, <2>3, <2>4, <2>5
  <1>4. f \in Seq(Int) /\ Len(f) = L
    <2>1. f = [k \in 1..L |-> f[k]]
      BY <1>1
    <2> HIDE DEF f
    <2>2. f \in [1..L -> Int]
      BY <1>3, <2>1
    <2>3. QED
      BY <1>1, <2>2
  <1> HIDE DEF f
  <1>5. SumFunction(f) = Accumulated(1, f)
    BY <1>4, SumFunctionIs
  <1>6. PICK g : SumRun(g, 1, f, L) /\ Accumulated(1, f) = g[L]
    BY <1>1, <1>4, AccumulatedUnfold
  <1>7. PICK h : SumRun(h, 10, u, L) /\ Accumulated(10, u) = h[L]
    BY <1>1, AccumulatedUnfold DEF L
  <1>8. \A k \in 0..L : h[k] \in Nat
    <2>1. 10 \in Nat /\ Nat \in {Nat, Int}
      OBVIOUS
    <2>2. QED
      BY <1>7, <2>1, AccumulatedInt DEF L
  <1> DEFINE S == {k \in Nat : k <= L => g[k] = h[k] * Power(10, L - k)}
  <1>9. 0 \in S
    <2>1. g[0] = 0 /\ h[0] = 0 /\ L - 0 \in Nat
      BY <1>1, <1>6, <1>7 DEF SumRun
    <2>2. Power(10, L - 0) \in Nat
      BY <1>2, <2>1
    <2>3. g[0] = h[0] * Power(10, L - 0)
      BY <2>1, <2>2
    <2>4. QED
      BY <2>3
  <1>10. ASSUME NEW k \in Nat, k \in S PROVE k + 1 \in S
    <2>1. SUFFICES ASSUME k + 1 <= L PROVE g[k + 1] = h[k + 1] * Power(10, L - (k + 1))
      OBVIOUS
    <2>2. k <= L /\ k + 1 \in 1..L /\ (k + 1) - 1 = k /\ k \in 0..L /\ L - (k + 1) \in Nat /\ L - k = (L - (k + 1)) + 1
      BY <1>1, <2>1
    <2> DEFINE P == Power(10, L - (k + 1))
    <2>3. P \in Nat /\ Power(10, L - k) = 10 * P
      BY <1>2, <2>2
    <2> HIDE DEF P
    <2>4. g[k + 1] = 1 * g[k] + f[k + 1] /\ h[k + 1] = 10 * h[k] + u[k + 1]
      BY <1>6, <1>7, <2>2 DEF SumRun
    <2>5. g[k] = h[k] * (10 * P) /\ h[k] \in Nat
      BY <1>8, <1>10, <2>2, <2>3
    <2>6. f[k + 1] = u[k + 1] * P /\ u[k + 1] \in Nat
      BY <1>1, <1>3, <2>2 DEF P
    <2>7. \A x, y, z \in Nat : 1 * (x * (10 * z)) + y * z = (10 * x + y) * z
      OBVIOUS
    <2>8. g[k + 1] = h[k + 1] * P
      BY <2>3, <2>4, <2>5, <2>6, <2>7
    <2>9. QED
      BY <2>8 DEF P
  <1>11. L \in S
    <2> HIDE DEF S
    <2>1. QED
      BY <1>1, <1>9, <1>10, SetInduction
  <1>12. g[L] = h[L] * Power(10, L - L) /\ L - L = 0 /\ L \in 0..L
    BY <1>1, <1>11
  <1>13. g[L] = h[L] /\ h[L] \in Nat
    <2>1. h[L] \in Nat
      BY <1>8, <1>12
    <2>2. Power(10, L - L) = 1
      <3>1. 0 \in Nat
        OBVIOUS
      <3>2. QED
        BY <1>2, <1>12, <3>1, Zenon
    <2>3. \A x \in Nat : x * 1 = x
      OBVIOUS
    <2>4. QED
      BY <1>12, <2>1, <2>2, <2>3
  <1>14. QED
    BY <1>5, <1>6, <1>7, <1>13 DEF f

-----------------------------------------------------------------------------
(* strtol *)

\* How far a search from p on goes: to the first of I, or behind N.
FirstIn(I) == IF I # {} THEN Min(I) ELSE 0
Reach(I, N, p) == (IF FirstIn(I) = 0 THEN N + 1 ELSE FirstIn(I)) - p
Reaches(I, N, p, d) ==
    /\ d \in Nat /\ p + d <= N + 1
    /\ \A q \in p..(p + d) - 1 : q \notin I
    /\ p + d <= N => p + d \in I

\* A search that stops at the first of I finds the first of I.
LEMMA ReachIs ==
    ASSUME NEW N \in Nat, NEW p \in 1..N + 1, NEW I \in SUBSET (p..N)
    PROVE  Reaches(I, N, p, Reach(I, N, p))
  <1> DEFINE d == Reach(I, N, p)
  <1>1. CASE I = {}
    <2>1. d = (N + 1) - p
      BY <1>1 DEF Reach, FirstIn
    <2> HIDE DEF d
    <2>2. Reaches(I, N, p, d)
      BY <1>1, <2>1 DEF Reaches
    <2>3. QED
      BY <2>2 DEF d
  <1>2. CASE I # {}
    <2>1. PICK m \in I : \A y \in I : ~(y < m)
      <3>1. I \subseteq Nat
        OBVIOUS
      <3>2. QED
        BY <1>2, <3>1, LeastNat
    <2>2. \A y \in I : y \in Int /\ y >= p /\ y <= N /\ y # 0
      OBVIOUS
    <2>3. m \in I /\ \A y \in I : m <= y
      BY <2>1, <2>2
    <2>4. Min(I) = m
      <3>1. Min(I) = CHOOSE x \in I : \A y \in I : x <= y
        BY DEF Min
      <3>2. \A x \in I : (\A y \in I : x <= y) => x = m
        BY <2>2, <2>3
      <3>3. QED
        BY <2>3, <3>1, <3>2
    <2>5. d = m - p
      BY <1>2, <2>2, <2>3, <2>4 DEF Reach, FirstIn
    <2> HIDE DEF d
    <2>6. Reaches(I, N, p, d)
      BY <2>2, <2>3, <2>5 DEF Reaches
    <2>7. QED
      BY <2>6 DEF d
  <1>3. QED
    BY <1>1, <1>2

\* What strtol finds: b characters of white space, g signs and d digits.
Parsed(s, b, g, d) ==
    /\ b \in Nat /\ b <= Len(s) /\ \A q \in 1..b : s[q] = Tab
    /\ b < Len(s) => s[b + 1] # Tab
    /\ g = IF b < Len(s) /\ s[b + 1] \in {Plus, Minus} THEN 1 ELSE 0
    /\ d \in Nat /\ (b + g + 1) + d <= Len(s) + 1
    /\ \A q \in b + g + 1..((b + g + 1) + d) - 1 : s[q] \in Digit
    /\ (b + g + 1) + d <= Len(s) => s[(b + g + 1) + d] \notin Digit
    /\ Strtol(s).endptr = IF d = 0 THEN 1 ELSE (b + g + 1) + d
    /\ LET n == Accumulated(10, SubSeq(s, b + g + 1, b + g + 1 + d - 1))
       IN  Strtol(s).value = IF g = 1 /\ s[b + g + 1 - 1] = Minus THEN -n ELSE n

\* strtol reads white space, at most one sign and as many digits as there are.
LEMMA StrtolParses ==
    ASSUME NEW s \in Seq(0..13)
    PROVE  \E b, g, d : Parsed(s, b, g, d)
  <1> DEFINE N == Len(s)
             b == RunLength(s, 1, LAMBDA c : c = Tab)
             g == IF b < Len(s) /\ s[b + 1] \in {Plus, Minus} THEN 1 ELSE 0
             p == b + g + 1
             d == RunLength(s, p, LAMBDA c : c \in Digit)
             n == Accumulated(10, SubSeq(s, p, p + d - 1))
             I == {k \in 1..N : ~(s[k] = Tab)}
             J == {k \in p..N : ~(s[k] \in Digit)}
  <1>1. Strtol(s) = [value |-> IF g = 1 /\ s[p - 1] = Minus THEN -n ELSE n,
                     endptr |-> IF d = 0 THEN 1 ELSE p + d]
    BY DEF Strtol
  <1>2. N \in Nat /\ 1 \in 1..N + 1 /\ I \in SUBSET (1..N)
    OBVIOUS
  <1>3. b = Reach(I, N, 1)
    BY DEF RunLength, SelectInSubSeq, Reach, FirstIn
  <1>4. d = Reach(J, N, p)
    BY DEF RunLength, SelectInSubSeq, Reach, FirstIn
  <1> HIDE DEF b, d
  <1>5. b \in Nat /\ 1 + b <= N + 1 /\ (\A q \in 1..(1 + b) - 1 : q \notin I) /\ (1 + b <= N => 1 + b \in I)
    <2> HIDE DEF I, N
    <2>1. Reaches(I, N, 1, b)
      BY <1>2, <1>3, ReachIs, Zenon
    <2>2. QED
      BY <2>1 DEF Reaches
  <1>6. b <= N /\ (\A q \in 1..b : s[q] = Tab) /\ (b < N => s[b + 1] # Tab)
    BY <1>2, <1>5
  <1>7. p \in 1..N + 1 /\ J \in SUBSET (p..N)
    BY <1>2, <1>6, <1>5
  <1> HIDE DEF p, g
  <1>8. d \in Nat /\ p + d <= N + 1 /\ (\A q \in p..(p + d) - 1 : q \notin J) /\ (p + d <= N => p + d \in J)
    <2> HIDE DEF J, N
    <2>1. Reaches(J, N, p, d)
      BY <1>2, <1>4, <1>7, ReachIs, Zenon
    <2>2. QED
      BY <2>1 DEF Reaches
  <1>9. (\A q \in p..(p + d) - 1 : s[q] \in Digit) /\ (p + d <= N => s[p + d] \notin Digit)
    BY <1>2, <1>7, <1>8
  <1>10. Strtol(s).endptr = (IF d = 0 THEN 1 ELSE p + d) /\ Strtol(s).value = (IF g = 1 /\ s[p - 1] = Minus THEN -n ELSE n)
    BY <1>1
  <1>11. g = IF b < Len(s) /\ s[b + 1] \in {Plus, Minus} THEN 1 ELSE 0
    BY DEF g
  <1> HIDE DEF n
  <1>12. Parsed(s, b, g, d)
    BY <1>5, <1>6, <1>8, <1>9, <1>10, <1>11 DEF Parsed, p, n
  <1>13. QED
    BY <1>12

\* The digits are a sequence of digits, and strtol returns an integer.
LEMMA StrtolInt ==
    ASSUME NEW s \in Seq(0..13), NEW b, NEW g, NEW d, Parsed(s, b, g, d)
    PROVE  /\ SubSeq(s, b + g + 1, b + g + 1 + d - 1) \in Seq(Nat)
           /\ Accumulated(10, SubSeq(s, b + g + 1, b + g + 1 + d - 1)) \in Nat
           /\ Strtol(s).value \in Int
  <1> DEFINE u == SubSeq(s, b + g + 1, b + g + 1 + d - 1)
  <1>1. Len(s) \in Nat /\ b \in Nat /\ g \in {0, 1} /\ d \in Nat /\ (b + g + 1) + d <= Len(s) + 1
    BY DEF Parsed
  <1>2. b + g + 1 \in Nat /\ b + g + 1 >= 1 /\ b + g + 1 + d - 1 \in Int /\ b + g + 1 + d - 1 <= Len(s) /\ (d > 0 => b + g + 1 + d - 1 >= 1)
    BY <1>1
  <1>3. s \in Seq(Nat)
    OBVIOUS
  <1>4. u \in Seq(Nat)
    <2> DEFINE m == b + g + 1
               k == b + g + 1 + d - 1
    <2> HIDE DEF m, k
    <2>1. m \in Nat /\ m >= 1 /\ k \in Int /\ k <= Len(s)
      BY <1>2 DEF m, k
    <2>2. SubSeq(s, m, k) \in Seq(Nat)
      BY <1>1, <1>3, <2>1
    <2>3. QED
      BY <2>2 DEF m, k
  <1> HIDE DEF u
  <1>5. Accumulated(10, u) \in Nat
    BY <1>4, PlacesAre
  <1>6. Strtol(s).value = Accumulated(10, u) \/ Strtol(s).value = -Accumulated(10, u)
    BY DEF Parsed, u
  <1>7. QED
    BY <1>4, <1>5, <1>6 DEF u

\* The reference: an optional sign, then digits.
LEMMA NumeralIs ==
    ASSUME NEW s \in Seq(0..13), s # <<>>
    PROVE  LET g == IF s[1] \in {Plus, Minus} THEN 1 ELSE 0
           IN  /\ Unsigned(s) \in Seq(0..13) /\ Len(Unsigned(s)) = Len(s) - g
               /\ \A k \in 1..Len(s) - g : Unsigned(s)[k] = s[k + g]
               /\ IsNumeral(s) <=> Len(s) > g /\ \A q \in g + 1..Len(s) : s[q] \in Digit
  <1> DEFINE g == IF s[1] \in {Plus, Minus} THEN 1 ELSE 0
             u == Unsigned(s)
             N == Len(s)
  <1>1. N \in Nat /\ N >= 1 /\ g \in {0, 1} /\ Head(s) = s[1]
    OBVIOUS
  <1>2. u \in Seq(0..13) /\ Len(u) = N - g /\ \A k \in 1..N - g : u[k] = s[k + g]
    <2>1. CASE s[1] \in {Plus, Minus}
      <3>1. u = Tail(s) /\ g = 1
        BY <1>1, <2>1 DEF Unsigned
      <3> HIDE DEF u, g
      <3>2. QED
        BY <1>1, <3>1
    <2>2. CASE s[1] \notin {Plus, Minus}
      <3>1. u = s /\ g = 0
        BY <1>1, <2>2 DEF Unsigned
      <3> HIDE DEF u, g
      <3>2. \A k \in 1..N : k + 0 = k
        OBVIOUS
      <3>3. QED
        BY <1>1, <3>1, <3>2
    <2>3. QED
      BY <2>1, <2>2
  <1> HIDE DEF g, u, N
  <1>3. IsNumeral(s) <=> u # <<>> /\ \A k \in DOMAIN u : u[k] \in Digit
    BY DEF IsNumeral, ToSet, u
  <1>4. u # <<>> <=> N > g
    BY <1>1, <1>2
  <1>5. (\A k \in DOMAIN u : u[k] \in Digit) <=> \A q \in g + 1..N : s[q] \in Digit
    <2>1. DOMAIN u = 1..N - g
      BY <1>1, <1>2
    <2>2. ASSUME \A k \in DOMAIN u : u[k] \in Digit, NEW q \in g + 1..N PROVE s[q] \in Digit
      <3>1. q - g \in 1..N - g /\ (q - g) + g = q
        BY <1>1
      <3>2. QED
        BY <1>2, <2>1, <2>2, <3>1
    <2>3. ASSUME \A q \in g + 1..N : s[q] \in Digit, NEW k \in DOMAIN u PROVE u[k] \in Digit
      <3>1. k \in 1..N - g /\ k + g \in g + 1..N
        BY <1>1, <2>1
      <3>2. QED
        BY <1>2, <2>3, <3>1
    <2>4. QED
      BY <2>2, <2>3
  <1>6. QED
    BY <1>2, <1>3, <1>4, <1>5 DEF g, u, N

\* What a numeral stands for, from the digits behind its sign.
LEMMA DeclaredIs ==
    ASSUME NEW u \in Seq(0..13), u # <<>>
    PROVE  LET n == Accumulated(10, Unsigned(u))
           IN  n \in Nat /\ Declared(u) = IF u[1] = Minus THEN -n ELSE n
  <1> DEFINE v == Unsigned(u)
  <1>1. v \in Seq(0..13) /\ Head(u) = u[1]
    BY NumeralIs
  <1>2. v \in Seq(Nat)
    <2> HIDE DEF v
    <2>1. QED
      BY <1>1
  <1>3. Accumulated(10, v) \in Nat /\ Accumulated(10, v) = SumFunction([k \in DOMAIN v |-> v[k] * Power(10, Len(v) - k)])
    <2> HIDE DEF v
    <2>1. QED
      BY <1>2, PlacesAre
  <1>4. QED
    BY <1>1, <1>3 DEF Declared

\* The characters of s from b + 1 to e.
LEMMA WindowIs ==
    ASSUME NEW s \in Seq(0..13), NEW b \in Nat, NEW e \in Nat, b < e, e <= Len(s)
    PROVE  LET u == SubSeq(s, b + 1, e)
           IN  /\ u \in Seq(0..13) /\ Len(u) = e - b /\ u # <<>>
               /\ \A k \in 1..e - b : u[k] = s[b + k]
  <1> DEFINE m == b + 1
             u == SubSeq(s, m, e)
  <1>1. m \in 1..Len(s) /\ e \in Nat /\ e <= Len(s) /\ m <= e /\ e - m + 1 = e - b /\ Len(s) \in Nat
    OBVIOUS
  <1>2. \A k \in 1..e - b : m + k - 1 = b + k
    OBVIOUS
  <1> HIDE DEF m
  <1>3. u \in Seq(0..13) /\ Len(u) = e - m + 1 /\ \A k \in 1..e - m + 1 : u[k] = s[m + k - 1]
    <2>1. u \in Seq(0..13) /\ Len(u) = e - m + 1
      BY <1>1
    <2>2. \A k \in 1..e - m + 1 : u[k] = s[m + k - 1]
      BY <1>1
    <2>3. QED
      BY <2>1, <2>2
  <1> HIDE DEF u
  <1>4. u # <<>>
    BY <1>1, <1>3
  <1>5. QED
    BY <1>1, <1>2, <1>3, <1>4 DEF u, m

\* What strtol finds, when it finds digits, is a numeral that stands for its value.
LEMMA ParsedDeclares ==
    ASSUME NEW s \in Seq(0..13), NEW b, NEW g, NEW d, Parsed(s, b, g, d), d # 0
    PROVE  LET u == SubSeq(s, b + 1, b + g + d)
           IN  IsNumeral(u) /\ Declared(u) = Strtol(s).value
  <1> DEFINE e == b + g + d
             u == SubSeq(s, b + 1, e)
             h == IF u[1] \in {Plus, Minus} THEN 1 ELSE 0
             v == Unsigned(u)
             w == SubSeq(s, b + g + 1, b + g + 1 + d - 1)
  <1>1. /\ Len(s) \in Nat /\ b \in Nat /\ g \in {0, 1} /\ d \in Nat /\ d > 0
        /\ (b + g + 1) + d <= Len(s) + 1
        /\ \A q \in b + g + 1..((b + g + 1) + d) - 1 : s[q] \in Digit
        /\ g = IF b < Len(s) /\ s[b + 1] \in {Plus, Minus} THEN 1 ELSE 0
    BY DEF Parsed
  <1>2. e \in Nat /\ b < e /\ e <= Len(s) /\ e - b = g + d /\ b < Len(s)
    BY <1>1
  <1>3. u \in Seq(0..13) /\ Len(u) = e - b /\ u # <<>> /\ \A k \in 1..e - b : u[k] = s[b + k]
    <2> HIDE DEF e
    <2>1. QED
      BY <1>1, <1>2, WindowIs
  <1>4. u[1] = s[b + 1]
    <2>1. 1 \in 1..e - b
      BY <1>1
    <2> HIDE DEF u, e
    <2>2. QED
      BY <1>3, <2>1
  <1>5. h = g
    <2> HIDE DEF u
    <2>1. QED
      BY <1>1, <1>2, <1>4
  <1>6. /\ v \in Seq(0..13) /\ Len(v) = Len(u) - h
        /\ \A k \in 1..Len(u) - h : v[k] = u[k + h]
        /\ IsNumeral(u) <=> Len(u) > h /\ \A q \in h + 1..Len(u) : u[q] \in Digit
    <2>1. u \in Seq(0..13) /\ u # <<>>
      BY <1>3
    <2> HIDE DEF u
    <2>2. QED
      BY <2>1, NumeralIs
  <1> HIDE DEF u, v, e, h
  <1>7. IsNumeral(u)
    <2>1. Len(u) > h
      BY <1>1, <1>2, <1>3, <1>5
    <2>2. ASSUME NEW q \in h + 1..Len(u) PROVE u[q] \in Digit
      <3>1. q \in 1..e - b /\ b + q \in b + g + 1..((b + g + 1) + d) - 1
        BY <1>1, <1>2, <1>3, <1>5
      <3>2. QED
        BY <1>1, <1>3, <3>1
    <2>3. QED
      BY <1>6, <2>1, <2>2
  <1>8. Len(v) = d /\ \A k \in 1..d : v[k] = s[(b + g) + k]
    <2>1. Len(v) = d /\ Len(u) - h = d
      BY <1>1, <1>2, <1>3, <1>5, <1>6
    <2>2. ASSUME NEW k \in 1..d PROVE v[k] = s[(b + g) + k]
      <3>1. v[k] = u[k + h]
        BY <1>6, <2>1
      <3>2. k + h \in 1..e - b /\ b + (k + h) = (b + g) + k
        BY <1>1, <1>2, <1>5
      <3>3. QED
        BY <1>3, <3>1, <3>2
    <2>3. QED
      BY <2>1, <2>2
  <1>9. w \in Seq(0..13) /\ Len(w) = d /\ \A k \in 1..d : w[k] = s[(b + g) + k]
    <2> DEFINE m == b + g
               f == b + g + 1 + d - 1
    <2>1. m \in Nat /\ f \in Nat /\ m < f /\ f <= Len(s) /\ f - m = d /\ m + 1 = b + g + 1
      BY <1>1
    <2> HIDE DEF m, f
    <2>2. LET x == SubSeq(s, m + 1, f)
          IN  x \in Seq(0..13) /\ Len(x) = d /\ \A k \in 1..d : x[k] = s[m + k]
      BY <2>1, WindowIs
    <2>3. QED
      BY <2>1, <2>2 DEF m, f
  <1> HIDE DEF w
  <1>10. v = w
    <2>1. v \in Seq(0..13) /\ w \in Seq(0..13) /\ Len(v) = Len(w) /\ \A k \in 1..Len(v) : v[k] = w[k]
      BY <1>1, <1>6, <1>8, <1>9
    <2>2. QED
      BY <2>1
  <1> DEFINE n == Accumulated(10, v)
  <1>11. n \in Nat /\ Declared(u) = IF u[1] = Minus THEN -n ELSE n
    BY <1>3, DeclaredIs DEF v
  <1>12. Strtol(s).value = IF g = 1 /\ s[b + g + 1 - 1] = Minus THEN -n ELSE n
    BY <1>10 DEF Parsed, w
  <1> HIDE DEF n
  <1>13. g = 1 /\ s[b + g + 1 - 1] = Minus <=> u[1] = Minus
    <2>1. CASE g = 1
      <3>1. b + g + 1 - 1 = b + 1
        BY <1>1, <2>1
      <3>2. QED
        BY <1>4, <2>1, <3>1
    <2>2. CASE g = 0
      <3>1. u[1] \notin {Plus, Minus}
        BY <1>5, <2>2 DEF h
      <3>2. QED
        BY <2>2, <3>1
    <2>3. QED
      BY <1>1, <2>1, <2>2
  <1>14. QED
    BY <1>7, <1>11, <1>12, <1>13 DEF u, e

\* The reference reads what strtol reads, and nothing else.
LEMMA ReadsIs ==
    ASSUME NEW s \in Seq(0..13), NEW b, NEW g, NEW d, Parsed(s, b, g, d),
           NEW x \in 0..Len(s), NEW e \in 0..Len(s), Reads(s, x, e)
    PROVE  /\ x = b /\ e = b + g + d /\ d # 0
           /\ (b + g + 1) + d > Len(s) \/ s[(b + g + 1) + d] = Tab
  <1> DEFINE u == SubSeq(s, x + 1, e)
             h == IF u[1] \in {Plus, Minus} THEN 1 ELSE 0
  <1>1. /\ Len(s) \in Nat /\ b \in Nat /\ g \in {0, 1} /\ d \in Nat /\ b <= Len(s)
        /\ (b + g + 1) + d <= Len(s) + 1
        /\ \A q \in 1..b : s[q] = Tab
        /\ b < Len(s) => s[b + 1] # Tab
        /\ \A q \in b + g + 1..((b + g + 1) + d) - 1 : s[q] \in Digit
        /\ (b + g + 1) + d <= Len(s) => s[(b + g + 1) + d] \notin Digit
        /\ g = IF b < Len(s) /\ s[b + 1] \in {Plus, Minus} THEN 1 ELSE 0
    BY DEF Parsed
  <1>2. /\ x \in Nat /\ e \in Nat /\ x < e /\ e <= Len(s) /\ IsNumeral(u)
        /\ \A q \in 1..x : s[q] = Tab
        /\ e = Len(s) \/ s[e + 1] = Tab
    BY <1>1 DEF Reads
  <1>3. u \in Seq(0..13) /\ Len(u) = e - x /\ u # <<>> /\ \A k \in 1..e - x : u[k] = s[x + k]
    BY <1>2, WindowIs
  <1>4. Len(u) > h /\ \A q \in h + 1..Len(u) : u[q] \in Digit
    <2>1. u \in Seq(0..13) /\ u # <<>> /\ IsNumeral(u)
      BY <1>2, <1>3
    <2> HIDE DEF u
    <2>2. QED
      BY <2>1, NumeralIs
  <1> HIDE DEF u
  <1>5. h \in {0, 1} /\ u[1] = s[x + 1]
    <2>1. 1 \in 1..e - x
      BY <1>2
    <2>2. QED
      BY <1>3, <2>1
  <1>6. s[x + 1] # Tab
    <2>1. CASE h = 1
      BY <1>5, <2>1 DEF Tab, Plus, Minus
    <2>2. CASE h = 0
      <3>1. 1 \in h + 1..Len(u)
        BY <1>2, <1>3, <2>2
      <3>2. u[1] \in Digit
        BY <1>4, <3>1
      <3>3. QED
        BY <1>5, <3>2 DEF Digit, Tab
    <2>3. QED
      BY <1>5, <2>1, <2>2
  <1>7. x = b
    <2>1. ~(x < b)
      <3>1. x < b => x + 1 \in 1..b
        BY <1>1, <1>2
      <3>2. QED
        BY <1>1, <1>6, <3>1
    <2>2. ~(b < x)
      <3>1. b < x => b + 1 \in 1..x /\ b < Len(s)
        BY <1>1, <1>2
      <3>2. QED
        BY <1>1, <1>2, <3>1
    <2>3. QED
      BY <1>1, <1>2, <2>1, <2>2
  <1>8. g = h
    BY <1>1, <1>2, <1>5, <1>7
  <1> HIDE DEF h
  <1>9. \A q \in b + g + 1..e : s[q] \in Digit
    <2>1. SUFFICES ASSUME NEW q \in b + g + 1..e PROVE s[q] \in Digit
      OBVIOUS
    <2>2. q - b \in h + 1..Len(u) /\ q - b \in 1..e - x /\ x + (q - b) = q
      BY <1>1, <1>2, <1>3, <1>7, <1>8
    <2>3. QED
      BY <1>3, <1>4, <2>2
  <1>10. b + g + 1 <= e
    BY <1>1, <1>2, <1>3, <1>4, <1>7, <1>8
  <1>11. Tab \notin Digit
    BY DEF Tab, Digit
  <1>12. ~(b + g + d < e)
    <2>1. b + g + d < e => (b + g + 1) + d \in b + g + 1..e /\ (b + g + 1) + d <= Len(s)
      BY <1>1, <1>2
    <2>2. QED
      BY <1>1, <1>9, <2>1
  <1>13. ~(e < b + g + d)
    <2>1. e < b + g + d => e + 1 \in b + g + 1..((b + g + 1) + d) - 1 /\ e # Len(s)
      BY <1>1, <1>2, <1>10
    <2>2. QED
      BY <1>1, <1>2, <1>11, <2>1
  <1>14. e = b + g + d
    BY <1>1, <1>2, <1>12, <1>13
  <1>15. d # 0 /\ (b + g + 1) + d = e + 1
    BY <1>1, <1>2, <1>10, <1>14
  <1>16. (b + g + 1) + d > Len(s) \/ s[(b + g + 1) + d] = Tab
    <2>1. CASE e = Len(s)
      BY <1>1, <1>15, <2>1
    <2>2. CASE s[e + 1] = Tab
      BY <1>15, <2>2
    <2>3. QED
      BY <1>2, <2>1, <2>2
  <1>17. QED
    BY <1>7, <1>14, <1>15, <1>16

\* What strtol leaves is nothing, or starts with white space.
Whole(s, r) == r.endptr # 1 /\ (r.endptr > Len(s) \/ s[r.endptr] = Tab)

\* safe_strtol reads exactly the tokens that the reference reads, and reads the same.
LEMMA ReadingIs ==
    ASSUME NEW s \in Seq(0..13)
    PROVE  /\ Strtol(s).value \in Int
           /\ Whole(s, Strtol(s)) => Strtol(s).value \in Readings(s)
           /\ \A n \in Readings(s) : Whole(s, Strtol(s)) /\ n = Strtol(s).value
  <1>1. PICK b, g, d : Parsed(s, b, g, d)
    BY StrtolParses
  <1>2. Strtol(s).value \in Int
    BY <1>1, StrtolInt
  <1> DEFINE e == b + g + d
             v == Strtol(s).value
  <1>3. /\ Len(s) \in Nat /\ b \in Nat /\ g \in {0, 1} /\ d \in Nat /\ b <= Len(s)
        /\ (b + g + 1) + d <= Len(s) + 1
        /\ \A q \in 1..b : s[q] = Tab
        /\ Strtol(s).endptr = IF d = 0 THEN 1 ELSE (b + g + 1) + d
    BY <1>1 DEF Parsed
  <1>4. d # 0 => IsNumeral(SubSeq(s, b + 1, e)) /\ Declared(SubSeq(s, b + 1, e)) = v
    BY <1>1, ParsedDeclares
  <1>5. e \in Nat /\ e <= Len(s) /\ (b + g + 1) + d = e + 1 /\ (d # 0 => b < e /\ e + 1 # 1)
    BY <1>3
  <1> HIDE DEF e, v
  <1>6. ASSUME Whole(s, Strtol(s)) PROVE v \in Readings(s)
    <2>1. d # 0 /\ Strtol(s).endptr = e + 1
      BY <1>3, <1>5, <1>6 DEF Whole
    <2>2. e = Len(s) \/ s[e + 1] = Tab
      <3>1. e + 1 > Len(s) \/ s[e + 1] = Tab
        BY <1>6, <2>1 DEF Whole
      <3>2. QED
        BY <1>3, <1>5, <3>1
    <2>3. Reads(s, b, e)
      BY <1>3, <1>4, <1>5, <2>1, <2>2 DEF Reads
    <2>4. <<b, e>> \in (0..Len(s)) \X (0..Len(s))
      BY <1>3, <1>5
    <2>5. <<b, e>> \in {p \in (0..Len(s)) \X (0..Len(s)) : Reads(s, p[1], p[2])}
      BY <2>3, <2>4
    <2>6. v = Declared(SubSeq(s, <<b, e>>[1] + 1, <<b, e>>[2]))
      BY <1>4, <2>1
    <2>7. QED
      BY <2>5, <2>6 DEF Readings
  <1>7. ASSUME NEW n \in Readings(s) PROVE Whole(s, Strtol(s)) /\ n = v
    <2>1. PICK q \in (0..Len(s)) \X (0..Len(s)) : Reads(s, q[1], q[2]) /\ n = Declared(SubSeq(s, q[1] + 1, q[2]))
      BY <1>7 DEF Readings
    <2>2. q[1] \in 0..Len(s) /\ q[2] \in 0..Len(s)
      BY <2>1
    <2>3. /\ q[1] = b /\ q[2] = e /\ d # 0
          /\ (b + g + 1) + d > Len(s) \/ s[(b + g + 1) + d] = Tab
      BY <1>1, <2>1, <2>2, ReadsIs DEF e
    <2>4. n = v
      BY <1>4, <2>1, <2>3
    <2>5. Strtol(s).endptr = (b + g + 1) + d /\ (b + g + 1) + d # 1
      BY <1>3, <1>5, <2>3
    <2>6. QED
      BY <2>3, <2>4, <2>5 DEF Whole
  <1>8. QED
    BY <1>2, <1>6, <1>7 DEF v

-----------------------------------------------------------------------------
(* The length of a data block *)

\* What is swallowed for the length n.
Exact(sum, n, who) ==
    /\ Congruent(sum, n + Terminator(who))
    /\ n \in 0..Longest(who) => sum = n + Terminator(who)

\* What both handlers read from the token with the length.
LEMMA LengthRead ==
    ASSUME NEW s \in Lengths, NEW who
    PROVE  LET r == Strtol(s)
               vlen == Narrow(r.value)
               sum == Wrap(vlen + Terminator(who), IntBits)
           IN  /\ vlen \in Int /\ Fits(sum, IntBits)
               /\ Accepts(s, r) => r.value \in Readings(s) /\ Fits(r.value, LongBits) /\ Exact(sum, r.value, who)
               /\ \A n \in Readings(s) : n = r.value /\ (Fits(n, LongBits) => Accepts(s, r))
  <1> DEFINE r == Strtol(s)
             v == r.value
             vlen == Wrap(v, IntBits)
             T == Terminator(who)
             sum == Wrap(vlen + T, IntBits)
             H == Half(IntBits)
  <1>1. s \in Seq(0..13)
    BY CommandsAssumption
  <1>2. /\ v \in Int
        /\ Whole(s, r) => v \in Readings(s)
        /\ \A n \in Readings(s) : Whole(s, r) /\ n = v
    BY <1>1, ReadingIs
  <1>3. T \in {2, 7}
    BY DEF Terminator
  <1>4. H \in Nat /\ H > 0
    BY HalfIs
  <1>5. \A n : Fits(n, IntBits) <=> n >= -H /\ n < H
    BY DEF Fits
  <1>6. Narrow(r.value) = vlen
    BY DEF Narrow
  <1>7. Accepts(s, r) <=> Fits(v, LongBits) /\ Whole(s, r)
    BY DEF Accepts, Whole
  <1> HIDE DEF r, T
  <1> DEFINE M == 2 * H
  <1>8. /\ vlen \in Int /\ Fits(vlen, IntBits) /\ (Fits(v, IntBits) => vlen = v)
        /\ \E k \in Int : vlen = v + M * k
    BY <1>2, WrapIs
  <1> HIDE DEF v, vlen
  <1>9. /\ sum \in Int /\ Fits(sum, IntBits) /\ (Fits(vlen + T, IntBits) => sum = vlen + T)
        /\ \E k \in Int : sum = (vlen + T) + M * k
    <2>1. vlen + T \in Int
      BY <1>3, <1>8
    <2>2. QED
      BY <2>1, WrapIs
  <1> HIDE DEF sum, H
  <1>10. Congruent(sum, v + T)
    <2>1. PICK j \in Int : vlen = v + M * j
      BY <1>8
    <2>2. PICK k \in Int : sum = (vlen + T) + M * k
      BY <1>9
    <2>3. M \in Nat /\ M > 0 /\ v + T \in Int
      BY <1>2, <1>3, <1>4
    <2> HIDE DEF M
    <2>4. sum = ((v + T) + M * j) + M * k
      <3> DEFINE x == M * j
      <3>1. x \in Int /\ vlen = v + x
        BY <2>1, <2>3
      <3> HIDE DEF x
      <3>2. vlen + T = (v + T) + x
        BY <1>2, <1>3, <3>1
      <3>3. QED
        BY <2>2, <3>2 DEF x
    <2>5. (sum - (v + T)) % M = 0
      BY <1>9, <2>3, <2>4, CongruentIs
    <2>6. QED
      BY <2>5 DEF Congruent, M, H
  <1>11. ASSUME v \in 0..Longest(who) PROVE sum = v + T
    <2>1. Longest(who) = H - 1 - T
      BY DEF Longest, H, T
    <2>2. v >= 0 /\ v <= H - 1 - T
      BY <1>3, <1>4, <1>11, <2>1
    <2>3. v >= -H /\ v < H /\ v + T >= -H /\ v + T < H
      BY <1>2, <1>3, <1>4, <2>2
    <2>4. vlen = v
      BY <1>5, <1>8, <2>3
    <2>5. QED
      BY <1>5, <1>9, <2>3, <2>4
  <1>12. Exact(sum, v, who)
    BY <1>10, <1>11 DEF Exact, T
  <1>13. Wrap(Narrow(r.value) + T, IntBits) = sum
    BY <1>6 DEF sum
  <1>14. QED
    BY <1>2, <1>6, <1>7, <1>8, <1>9, <1>12, <1>13 DEF r, T, v

\* c->sbytes is an int, and once a length is read it is the one declared.
LengthInv == Fits(sbytes, IntBits) /\ LengthExact

\* Nothing is declared before a handler has run.
LEMMA LengthInit == Init => LengthInv
  <1> SUFFICES ASSUME Init PROVE LengthInv
    OBVIOUS
  <1>1. sbytes = 0 /\ pc \in {"keys", "parse"}
    BY DEF Init, InitGet, InitLength
  <1>2. Fits(0, IntBits)
    <2>1. Half(IntBits) \in Nat /\ Half(IntBits) > 0
      BY HalfIs
    <2>2. QED
      BY <2>1 DEF Fits
  <1>3. QED
    BY <1>1, <1>2 DEF LengthInv, LengthExact

\* The handlers of a set and of a hit keep it.
LEMMA LengthNext == IInv /\ LengthInv /\ [Next]_vars => LengthInv'
  <1> SUFFICES ASSUME IInv, LengthInv, [Next]_vars PROVE LengthInv'
    OBVIOUS
  <1> DEFINE r == Strtol(line)
             vlen == Narrow(r.value)
             T == Terminator(handler)
             sum == Wrap(vlen + T, IntBits)
  <1>1. CASE ProcessGet
    <2>1. sbytes' = sbytes
      BY <1>1 DEF ProcessGet, KeyTooLong, Hit, OutOfMemory, KeysDone, Refill, End
    <2>2. pc' \in {"done", "keys", "refill", "end"}
      BY <1>1 DEF ProcessGet, KeyTooLong, Hit, OutOfMemory, KeysDone, Refill, End
    <2>3. QED
      BY <2>1, <2>2 DEF LengthInv, LengthExact
  <1>2. CASE ProcessUpdate \/ ProcessHit
    <2>1. pc = "parse" /\ handler \in {"update", "hit"} /\ line' = line /\ handler' = handler
      BY <1>2 DEF ProcessUpdate, ProcessHit
    <2>2. line \in Lengths
      BY <2>1 DEF IInv, InGet, GetLine, InLength
    <2>3. /\ vlen \in Int /\ Fits(sum, IntBits)
          /\ Accepts(line, r) => r.value \in Readings(line) /\ Fits(r.value, LongBits) /\ Exact(sum, r.value, handler)
          /\ \A n \in Readings(line) : n = r.value /\ (Fits(n, LongBits) => Accepts(line, r))
      BY <2>2, LengthRead
    <2>4. \/ pc' = "swallow" /\ sbytes' = sum /\ Accepts(line, r) /\ (handler = "update" => vlen >= 0)
          \/ pc' = "rejected" /\ sbytes' = sbytes /\ (handler = "update" => ~(Accepts(line, r) /\ vlen >= 0))
             /\ (handler = "hit" => ~Accepts(line, r))
      <3>1. CASE ProcessUpdate
        <4>1. handler = "update" /\ T = Terminator("update")
          BY <3>1 DEF ProcessUpdate
        <4> HIDE DEF T
        <4>2. IF Accepts(line, r) /\ vlen >= 0 THEN Swallow(vlen + T) ELSE Reject
          BY <3>1, <4>1 DEF ProcessUpdate
        <4> HIDE DEF r, vlen
        <4>3. QED
          BY <4>1, <4>2 DEF Swallow, Reject
      <3>2. CASE ProcessHit
        <4>1. handler = "hit" /\ T = Terminator("hit")
          BY <3>2 DEF ProcessHit
        <4> HIDE DEF T
        <4>2. IF Accepts(line, r) THEN Swallow(vlen + T) ELSE Reject
          BY <3>2, <4>1 DEF ProcessHit
        <4> HIDE DEF r, vlen
        <4>3. QED
          BY <4>1, <4>2 DEF Swallow, Reject
      <3>3. QED
        BY <1>2, <3>1, <3>2
    <2>5. Narrow(r.value) = vlen
      OBVIOUS
    <2> HIDE DEF r, vlen, sum, T
    <2>6. Fits(sbytes', IntBits)
      BY <2>3, <2>4 DEF LengthInv
    <2>7. ASSUME pc' = "swallow"
          PROVE  \E n \in Readings(line) : Fits(n, LongBits) /\ Exact(sbytes', n, handler)
      BY <2>3, <2>4, <2>7
    <2>8. ASSUME pc' = "rejected", NEW n \in Readings(line), Fits(n, LongBits)
          PROVE  handler = "update" /\ Narrow(n) < 0
      <3>1. n = r.value /\ Accepts(line, r)
        BY <2>3, <2>8
      <3>2. handler = "update" /\ ~(vlen >= 0)
        BY <2>1, <2>4, <2>8, <3>1
      <3>3. vlen < 0
        BY <2>3, <3>2
      <3>4. QED
        BY <2>5, <3>1, <3>2, <3>3
    <2>9. LengthExact'
      <3>1. ASSUME pc' = "swallow"
            PROVE  \E n \in Readings(line) :
                     /\ Fits(n, LongBits)
                     /\ Congruent(sbytes', n + Terminator(handler))
                     /\ n \in 0..Longest(handler) => sbytes' = n + Terminator(handler)
        BY <2>7, <3>1, Zenon DEF Exact
      <3>2. QED
        BY <2>1, <2>8, <3>1, Zenon DEF LengthExact
    <2>10. QED
      BY <2>6, <2>9 DEF LengthInv
  <1>3. CASE UNCHANGED vars
    <2>1. sbytes' = sbytes /\ pc' = pc /\ line' = line /\ handler' = handler
      BY <1>3 DEF vars
    <2>2. QED
      BY <2>1 DEF LengthInv, LengthExact
  <1>4. QED
    BY <1>1, <1>2, <1>3 DEF Next

\* It holds always.
LEMMA AlwaysLengthInv == Spec => []LengthInv
  <1>1. QED
    BY AlwaysIInv, LengthInit, LengthNext, PTL DEF Spec

\* safe_strtol and the two handlers that use it (process_update_command,
\* process_hit_response) read a length from exactly the tokens that start with a numeral that
\* fits a long, up to white space; a set refuses those that are negative in an int; and what
\* is swallowed is the length declared and its terminator modulo the width of an int, for
\* every width of int and long.
THEOREM LengthsExact == Spec => []LengthExact
  <1>1. LengthInv => LengthExact
    BY DEF LengthInv
  <1>2. QED
    BY <1>1, AlwaysLengthInv, PTL

\* The arrays are never overrun: at most isize items in c->ilist and MAX_TOKENS tokens; and
\* c->sbytes is an int.
THEOREM TypeCorrect == Spec => []TypeOK
  <1>1. IInv /\ LengthInv => TypeOK
    <2> SUFFICES ASSUME IInv, LengthInv PROVE TypeOK
      OBVIOUS
    <2>1. Fits(sbytes, IntBits)
      BY DEF LengthInv
    <2>2. i \in 0..isize /\ ileft \in 0..i /\ full \in BOOLEAN /\ failed \subseteq Faults
      BY DEF IInv, Counters
    <2>3. CASE InGet
      <3>1. tokens \in Seq(Tok) /\ key_token \in DOMAIN tokens /\ Len(tokens) <= MaxTokens /\ handler = "get"
            /\ pc \in {"keys", "refill", "end", "done"} /\ visited \in Seq(Tok)
        BY <2>3 DEF InGet, GetLine, GetVisited
      <3>2. Len(tokens) \in 1..MaxTokens
        BY <3>1, CommandsAssumption
      <3>3. QED
        BY <2>1, <2>2, <3>1, <3>2 DEF TypeOK, Tok
    <2>4. CASE InLength
      <3>1. Len(tokens) = 1 /\ key_token \in DOMAIN tokens /\ visited \in Seq(Tok)
        BY <2>4 DEF InLength
      <3>2. Len(tokens) \in 1..MaxTokens
        BY <3>1, CommandsAssumption
      <3>3. handler \in {"update", "hit"} /\ pc \in {"parse", "rejected", "swallow"}
        BY <2>4 DEF InLength
      <3>4. QED
        BY <2>1, <2>2, <3>1, <3>2, <3>3 DEF TypeOK, Tok
    <2>5. QED
      BY <2>3, <2>4 DEF IInv
  <1>2. QED
    BY <1>1, AlwaysIInv, AlwaysLengthInv, PTL
=============================================================================
