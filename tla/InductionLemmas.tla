----------------------------- MODULE InductionLemmas -----------------------------
(***************************************************************************)
(* Induction over the naturals, stated with a set in place of a predicate  *)
(* so that every use of it is first-order, and by it what the recursive    *)
(* FlattenSeq of the community modules computes.                           *)
(***************************************************************************)
EXTENDS Integers, Sequences, SequencesExt, SequenceTheorems, WellFoundedInduction, TLAPS

\* A set of natural numbers that is not empty has a least element.
LEMMA LeastNat ==
    ASSUME NEW T, T \subseteq Nat, T # {}
    PROVE  \E x \in T : \A y \in T : ~(y < x)
  <1> DEFINE R == OpToRel(<, Nat)
  <1>1. IsWellFoundedOn(R, Nat)
    BY NatLessThanWellFounded, Zenon
  <1>2. \A x, y \in Nat : <<y, x>> \in R <=> y < x
    BY DEF OpToRel
  <1> HIDE DEF R
  <1>3. PICK x \in T : \A y \in T : ~(<<y, x>> \in R)
    BY <1>1, WFMin
  <1>4. \A y \in T : ~(y < x)
    BY <1>2, <1>3
  <1>5. QED
    BY <1>4

\* Induction: a set that holds 0 and n + 1 with every n holds every natural number.
LEMMA SetInduction ==
    ASSUME NEW S, 0 \in S, \A n \in Nat : n \in S => n + 1 \in S
    PROVE  Nat \subseteq S
  <1> DEFINE T == Nat \ S
  <1>1. SUFFICES ASSUME T # {} PROVE FALSE
    OBVIOUS
  <1>2. PICK x \in T : \A y \in T : ~(y < x)
    BY <1>1, LeastNat
  <1>3. x \in Nat /\ x # 0 /\ x \notin S
    BY <1>2
  <1>4. x - 1 \in Nat /\ x - 1 < x /\ (x - 1) + 1 = x
    BY <1>3
  <1>5. x - 1 \in S
    BY <1>2, <1>4
  <1>6. QED
    BY <1>3, <1>4, <1>5

-----------------------------------------------------------------------------
(* FlattenSeq *)

\* FlattenSeq, as a run over the first n sequences.
FlattenRun(h, s, n) == \A k \in 1..n : h[k] = IF k = 1 THEN s[k] ELSE h[k - 1] \o s[k]

\* The recursive function of FlattenSeq, unfolded.
LEMMA FlattenUnfold ==
    ASSUME NEW s, NEW L \in Nat, L > 0, Len(s) = L
    PROVE  \E h : FlattenRun(h, s, L) /\ FlattenSeq(s) = h[L]
  <1> DEFINE F(f, n) == [k \in 1..n |-> IF k = 1 THEN s[k] ELSE f[k - 1] \o s[k]]
             S == {n \in Nat : \E h : h = F(h, n)}
  <1>1. 0 \in S
    <2> DEFINE h == [k \in 1..0 |-> s[k]]
    <2>1. h = F(h, 0)
      OBVIOUS
    <2>2. QED
      BY <2>1
  <1>2. ASSUME NEW n \in Nat, n \in S PROVE n + 1 \in S
    <2>1. PICK h : h = F(h, n)
      BY <1>2
    <2> DEFINE new == IF n = 0 THEN s[1] ELSE h[n] \o s[n + 1]
               g == [k \in 1..n + 1 |-> IF k <= n THEN h[k] ELSE new]
    <2>2. \A k \in 1..n : g[k] = h[k]
      OBVIOUS
    <2>3. g[n + 1] = new
      OBVIOUS
    <2>4. \A k \in 1..n : h[k] = IF k = 1 THEN s[k] ELSE h[k - 1] \o s[k]
      BY <2>1
    <2>5. g = [k \in 1..n + 1 |-> g[k]]
      OBVIOUS
    <2>6. \A k \in 1..n + 1 : g[k] = IF k = 1 THEN s[k] ELSE g[k - 1] \o s[k]
      <3> HIDE DEF g
      <3>1. SUFFICES ASSUME NEW k \in 1..n + 1 PROVE g[k] = IF k = 1 THEN s[k] ELSE g[k - 1] \o s[k]
        OBVIOUS
      <3>2. CASE k <= n /\ k = 1
        BY <2>2, <2>4, <3>2
      <3>3. CASE k <= n /\ k # 1
        <4>1. k \in 1..n /\ k - 1 \in 1..n
          BY <3>3
        <4>2. g[k] = h[k] /\ g[k - 1] = h[k - 1]
          BY <2>2, <4>1
        <4>3. h[k] = h[k - 1] \o s[k]
          BY <2>4, <3>3, <4>1
        <4>4. QED
          BY <3>3, <4>2, <4>3
      <3>4. CASE ~(k <= n) /\ n = 0
        <4>1. k = 1 /\ k = n + 1
          BY <3>4
        <4>2. QED
          BY <2>3, <3>4, <4>1
      <3>5. CASE ~(k <= n) /\ n # 0
        <4>1. k = n + 1 /\ k - 1 = n /\ n \in 1..n /\ k # 1
          BY <3>5
        <4>2. g[n] = h[n] /\ new = h[n] \o s[n + 1]
          BY <2>2, <3>5, <4>1
        <4>3. QED
          BY <2>3, <4>1, <4>2
      <3>6. QED
        BY <3>2, <3>3, <3>4, <3>5
    <2> HIDE DEF g
    <2>7. g = F(g, n + 1)
      BY <2>5, <2>6
    <2> HIDE DEF F
    <2>8. n + 1 \in Nat
      OBVIOUS
    <2>9. QED
      BY <2>7, <2>8
  <1>3. L \in S
    <2> HIDE DEF S
    <2>1. QED
      BY <1>1, <1>2, SetInduction
  <1> DEFINE h == CHOOSE f : f = F(f, L)
  <1>4. h = F(h, L)
    <2> HIDE DEF F
    <2>1. QED
      BY <1>3
  <1>5. FlattenSeq(s) = h[L]
    BY DEF FlattenSeq
  <1> HIDE DEF h
  <1>6. FlattenRun(h, s, L)
    BY <1>4 DEF FlattenRun
  <1>7. QED
    BY <1>5, <1>6

\* The first L of two sequences of sequences agree.
Agree(s, u, T, L) == \A k \in 1..L : s[k] \in Seq(T) /\ u[k] = s[k]

\* Two runs over sequences that agree on the first L agree there, and are sequences.
LEMMA FlattenRuns ==
    ASSUME NEW T, NEW L \in Nat, NEW s, NEW u, Agree(s, u, T, L),
           NEW h, FlattenRun(h, s, L), NEW g, FlattenRun(g, u, L)
    PROVE  Agree(h, g, T, L)
  <1> DEFINE P(k) == h[k] \in Seq(T) /\ g[k] = h[k]
             S == {n \in Nat : n + 1 \in 1..L => P(n + 1)}
  <1>1. 0 \in S
    <2>1. ASSUME 1 \in 1..L PROVE P(1)
      BY <2>1 DEF FlattenRun, Agree
    <2>2. QED
      BY <2>1
  <1>2. ASSUME NEW n \in Nat, n \in S PROVE n + 1 \in S
    <2>1. ASSUME n + 2 \in 1..L PROVE P(n + 2)
      <3>1. n + 1 \in 1..L /\ n + 2 # 1 /\ (n + 2) - 1 = n + 1
        BY <2>1
      <3>2. P(n + 1)
        BY <1>2, <3>1
      <3>3. h[n + 2] = h[n + 1] \o s[n + 2] /\ g[n + 2] = g[n + 1] \o u[n + 2]
        BY <2>1, <3>1 DEF FlattenRun
      <3>4. s[n + 2] \in Seq(T) /\ u[n + 2] = s[n + 2]
        BY <2>1 DEF Agree
      <3>5. QED
        BY <3>2, <3>3, <3>4, ConcatProperties
    <2>2. n + 1 \in Nat /\ (n + 1) + 1 = n + 2
      OBVIOUS
    <2> HIDE DEF P
    <2>3. QED
      BY <2>1, <2>2
  <1>3. Nat \subseteq S
    <2> HIDE DEF S
    <2>1. QED
      BY <1>1, <1>2, SetInduction
  <1>4. \A k \in 1..L : k - 1 \in Nat /\ (k - 1) + 1 = k
    OBVIOUS
  <1> HIDE DEF P
  <1>5. \A k \in 1..L : P(k)
    <2>1. SUFFICES ASSUME NEW k \in 1..L PROVE P(k)
      OBVIOUS
    <2>2. k - 1 \in S
      BY <1>3, <1>4
    <2>3. (k - 1) + 1 = k
      BY <1>4
    <2>4. QED
      BY <2>2, <2>3
  <1>6. QED
    BY <1>5 DEF P, Agree

\* Nothing, flattened.
LEMMA FlattenEmpty == FlattenSeq(<<>>) = <<>>
  <1>1. Len(<<>>) = 0
    OBVIOUS
  <1>2. QED
    BY <1>1 DEF FlattenSeq

\* FlattenSeq yields a sequence, and with one sequence more that one behind it.
LEMMA FlattenGrow ==
    ASSUME NEW T, NEW s \in Seq(Seq(T)), NEW x \in Seq(T)
    PROVE  /\ FlattenSeq(s) \in Seq(T)
           /\ FlattenSeq(Append(s, x)) = FlattenSeq(s) \o x
  <1> DEFINE L == Len(s)
             u == Append(s, x)
  <1>1. L \in Nat /\ Len(u) = L + 1 /\ u[L + 1] = x /\ \A k \in 1..L : u[k] = s[k] /\ s[k] \in Seq(T)
    BY AppendProperties
  <1>2. FlattenSeq(<<>>) = <<>>
    BY FlattenEmpty
  <1>3. s = <<>> <=> L = 0
    OBVIOUS
  <1> HIDE DEF L, u
  <1>4. PICK g : FlattenRun(g, u, L + 1) /\ FlattenSeq(u) = g[L + 1]
    <2>1. L + 1 \in Nat /\ L + 1 > 0
      BY <1>1
    <2>2. QED
      BY <1>1, <2>1, FlattenUnfold
  <1>5. CASE L = 0
    <2>1. s = <<>> /\ FlattenSeq(s) = <<>>
      BY <1>2, <1>3, <1>5
    <2>2. FlattenSeq(u) = u[1]
      BY <1>4, <1>5 DEF FlattenRun
    <2>3. u[1] = x
      BY <1>1, <1>5
    <2>4. <<>> \o x = x
      BY ConcatEmptySeq
    <2>5. <<>> \in Seq(T)
      OBVIOUS
    <2>6. QED
      BY <1>2, <2>1, <2>2, <2>3, <2>4, <2>5 DEF u
  <1>6. CASE L # 0
    <2>1. L > 0 /\ Len(s) = L
      BY <1>1, <1>6 DEF L
    <2>2. PICK h : FlattenRun(h, s, L) /\ FlattenSeq(s) = h[L]
      BY <1>1, <2>1, FlattenUnfold
    <2>3. FlattenRun(g, u, L)
      BY <1>1, <1>4 DEF FlattenRun
    <2>4. \A k \in 1..L : h[k] \in Seq(T) /\ g[k] = h[k]
      <3>1. Agree(s, u, T, L)
        BY <1>1 DEF Agree
      <3>2. Agree(h, g, T, L)
        BY <1>1, <2>2, <2>3, <3>1, FlattenRuns, Zenon
      <3>3. QED
        BY <3>2 DEF Agree
    <2>5. g[L + 1] = g[L] \o u[L + 1]
      <3>1. L + 1 \in 1..L + 1 /\ L + 1 # 1 /\ (L + 1) - 1 = L
        BY <1>1, <2>1
      <3>2. QED
        BY <1>4, <3>1 DEF FlattenRun
    <2>6. L \in 1..L
      BY <1>1, <2>1
    <2>7. QED
      BY <1>1, <1>2, <1>4, <2>2, <2>4, <2>5, <2>6 DEF u
  <1>7. QED
    BY <1>5, <1>6
==================================================================================
