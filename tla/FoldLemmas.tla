----------------------------- MODULE FoldLemmas -----------------------------
(***************************************************************************)
(* Folds over sequences, for the proofs about the operators that are       *)
(* folds: a fold is a function defined recursively on the sets of          *)
(* positions; that there is such a function, and what it computes, is      *)
(* proved by induction, which is the principle of the least number here.   *)
(***************************************************************************)
EXTENDS Integers, SequencesExt, SequenceTheorems, WellFoundedInduction, TLAPS

Less == {ss \in Nat \X Nat : ss[1] < ss[2]}

\* Induction on the natural numbers: a set of them has a least one.
LEMMA Least ==
  ASSUME NEW T \in SUBSET Nat, T # {}
  PROVE  \E n \in T : \A m \in T : n <= m
<1>1. IsWellFoundedOn(Less, Nat)
  BY NatLessThanWellFounded DEF OpToRel, Less
<1>2. PICK n \in T : \A m \in T : <<m, n>> \notin Less
  BY <1>1, WFMin
<1>3. \A m \in T : n \in Nat /\ m \in Nat /\ ~(m < n)
  BY <1>2 DEF Less
<1> QED
  BY <1>3

\* Induction up to a bound.
LEMMA UpTo ==
  ASSUME NEW N \in Nat, NEW T \in SUBSET (0..N), 0 \in T,
         \A k \in 1..N : k - 1 \in T => k \in T
  PROVE  T = 0..N
<1> DEFINE U == (0..N) \ T
<1> SUFFICES ASSUME U # {} PROVE FALSE
  OBVIOUS
<1>1. PICK n \in U : \A m \in U : n <= m
  <2>1. U \in SUBSET Nat
    OBVIOUS
  <2> HIDE DEF U
  <2> QED BY <2>1, Least
<1>2. n \in 1..N /\ n - 1 \in 0..N /\ n - 1 \notin U
  BY <1>1
<1> QED
  BY <1>1, <1>2

\* The greatest number of a set of them up to n.
LEMMA Greatest ==
  ASSUME NEW n \in Nat, NEW s \in SUBSET (1..n), s # {}
  PROVE  /\ Max(s) \in s
         /\ n \in s => Max(s) = n
         /\ s = 1..n => s \ {Max(s)} = 1..(n - 1)
<1> DEFINE T == {n - i : i \in s}
<1>1. T \in SUBSET Nat /\ T # {}
  <2>1. \A i \in s : n - i \in Nat
    OBVIOUS
  <2> QED BY <2>1
<1>2. PICK m \in T : \A k \in T : m <= k
  BY <1>1, Least
<1>3. PICK x \in s : m = n - x
  OBVIOUS
<1>4. \A y \in s : n - y \in T /\ m <= n - y
  BY <1>2
<1>5. \A y \in s : x >= y
  BY <1>3, <1>4
<1>6. Max(s) \in s /\ \A y \in s : Max(s) >= y
  BY <1>5 DEF Max
<1>7. n \in s => Max(s) = n
  <2>1. Max(s) \in 1..n
    BY <1>6
  <2> QED BY <1>6, <2>1
<1>8. s = 1..n => s \ {Max(s)} = 1..(n - 1)
  <2>1. s = 1..n => n \in s
    OBVIOUS
  <2> HIDE DEF T
  <2> QED BY <1>7, <2>1
<1> QED
  BY <1>6, <1>7, <1>8

\* A fold from the left, as SequencesExt defines it, is a function on the sets
\* of positions; it exists.
Folded(S, g, a, q, n, f) ==
  /\ f \in [SUBSET (1..n) -> S]
  /\ \A s \in SUBSET (1..n) : f[s] = IF s = {} THEN a ELSE g[<<f[s \ {Max(s)}], q[Max(s)]>>]

LEMMA FoldExists ==
  ASSUME NEW S, NEW M, NEW g \in [S \X M -> S], NEW a \in S, NEW q \in Seq(M)
  PROVE  \E f : Folded(S, g, a, q, Len(q), f)
<1> DEFINE Good(n) == \E f : Folded(S, g, a, q, n, f)
           T == {n \in 0..Len(q) : ~Good(n)}
<1>1. Good(0)
  <2> DEFINE f == [s \in SUBSET (1..0) |-> a]
  <2>1. SUBSET (1..0) = {{}}
    OBVIOUS
  <2>2. Folded(S, g, a, q, 0, f)
    BY <2>1 DEF Folded
  <2> QED BY <2>2
<1>2. ASSUME NEW n \in 0..Len(q), n + 1 <= Len(q), Good(n) PROVE Good(n + 1)
  <2>1. PICK f : Folded(S, g, a, q, n, f)
    BY <1>2
  <2> DEFINE h == [s \in SUBSET (1..(n + 1)) |->
                     IF n + 1 \in s THEN g[<<f[s \ {n + 1}], q[n + 1]>>] ELSE f[s]]
  <2>2. n \in Nat /\ n + 1 \in Nat /\ n + 1 \in 1..Len(q) /\ q[n + 1] \in M
    BY <1>2
  <2>3. ASSUME NEW s \in SUBSET (1..(n + 1)) PROVE s \ {n + 1} \in SUBSET (1..n)
    BY <2>2, <2>3
  <2>4. ASSUME NEW s \in SUBSET (1..(n + 1))
        PROVE  h[s] \in S /\ h[s] = IF s = {} THEN a ELSE g[<<h[s \ {Max(s)}], q[Max(s)]>>]
    <3>1. CASE n + 1 \in s
      <4>1. Max(s) = n + 1
        BY <2>2, <3>1, Greatest
      <4>2. f[s \ {n + 1}] \in S
        BY <2>1, <2>3 DEF Folded
      <4>3. s \ {n + 1} \in SUBSET (1..(n + 1)) /\ n + 1 \notin s \ {n + 1}
        OBVIOUS
      <4>4. h[s \ {n + 1}] = f[s \ {n + 1}]
        BY <4>3
      <4>5. h[s] = g[<<f[s \ {n + 1}], q[n + 1]>>]
        BY <3>1
      <4> HIDE DEF h
      <4> QED BY <2>2, <3>1, <4>1, <4>2, <4>4, <4>5
    <3>2. CASE n + 1 \notin s
      <4>1. s \in SUBSET (1..n)
        BY <2>3, <3>2
      <4>2. h[s] = f[s]
        BY <3>2
      <4>3. f[s] \in S /\ f[s] = IF s = {} THEN a ELSE g[<<f[s \ {Max(s)}], q[Max(s)]>>]
        BY <2>1, <4>1 DEF Folded
      <4>4. h[s \ {Max(s)}] = f[s \ {Max(s)}]
        BY <3>2
      <4> HIDE DEF h
      <4> QED BY <4>2, <4>3, <4>4
    <3> QED BY <3>1, <3>2
  <2>5. h \in [SUBSET (1..(n + 1)) -> S]
    <3>1. h = [s \in SUBSET (1..(n + 1)) |-> h[s]]
      OBVIOUS
    <3> HIDE DEF h
    <3> QED BY <2>4, <3>1
  <2> HIDE DEF h
  <2>6. Folded(S, g, a, q, n + 1, h)
    BY <2>4, <2>5 DEF Folded
  <2> QED BY <2>6
<1> HIDE DEF Good
<1>3. T = {}
  <2> SUFFICES ASSUME T # {} PROVE FALSE
    OBVIOUS
  <2>1. PICK n \in T : \A m \in T : n <= m
    <3>1. T \in SUBSET Nat
      OBVIOUS
    <3> QED BY <3>1, Least
  <2>2. n # 0 /\ n - 1 \in 0..Len(q) /\ n - 1 \notin T
    BY <1>1, <2>1
  <2>3. (n - 1) + 1 = n /\ (n - 1) + 1 <= Len(q)
    BY <2>1
  <2> QED BY <1>2, <2>1, <2>2, <2>3
<1>4. Good(Len(q))
  BY <1>3
<1> QED
  BY <1>4 DEF Good

\* The positions up to k, and the last of them.
LEMMA Prefix ==
  ASSUME NEW n \in Nat, NEW k \in 1..n
  PROVE  /\ 1..k \in SUBSET (1..n) /\ 1..k # {}
         /\ Max(1..k) = k /\ (1..k) \ {Max(1..k)} = 1..(k - 1)
<1>1. k \in Nat /\ 1..k \in SUBSET (1..k) /\ 1..k \in SUBSET (1..n) /\ k \in 1..k
  OBVIOUS
<1> QED
  BY <1>1, Greatest

\* What a fold goes through: it follows g as long as its values are in S, so they
\* are.
Follows(S, g, a, q, it) ==
  /\ it[{}] = a
  /\ \A s \in SUBSET (1..Len(q)) :
       s # {} /\ it[s \ {Max(s)}] \in S => it[s] = g[<<it[s \ {Max(s)}], q[Max(s)]>>]

Walk(S, g, a, q, h, end) ==
  /\ h \in [0..Len(q) -> S] /\ h[0] = a /\ h[Len(q)] = end
  /\ \A k \in 1..Len(q) : h[k] = g[<<h[k - 1], q[k]>>]

LEMMA FoldSteps ==
  ASSUME NEW S, NEW M, NEW g \in [S \X M -> S], NEW a \in S, NEW q \in Seq(M), NEW it,
         Follows(S, g, a, q, it)
  PROVE  \E h : Walk(S, g, a, q, h, it[1..Len(q)])
<1> DEFINE N == Len(q)
           T == {k \in 0..N : it[1..k] \in S}
<1>1. N \in Nat /\ \A k \in 1..N : q[k] \in M
  OBVIOUS
<1>2. ASSUME NEW k \in 1..N, it[1..(k - 1)] \in S
      PROVE  it[1..k] = g[<<it[1..(k - 1)], q[k]>>] /\ it[1..k] \in S
  <2>1. /\ 1..k \in SUBSET (1..N) /\ 1..k # {}
        /\ Max(1..k) = k /\ (1..k) \ {Max(1..k)} = 1..(k - 1)
    <3> HIDE DEF N
    <3> QED BY <1>1, Prefix
  <2>2. it[1..k] = g[<<it[1..(k - 1)], q[k]>>]
    BY <1>2, <2>1 DEF Follows
  <2> QED BY <1>1, <1>2, <2>2
<1>3. it[1..0] = a
  <2>1. 1..0 = {}
    OBVIOUS
  <2> QED BY <2>1 DEF Follows
<1>4. T = 0..N
  <2>1. T \in SUBSET (0..N) /\ 0 \in T
    BY <1>1, <1>3
  <2>2. ASSUME NEW k \in 1..N, k - 1 \in T PROVE k \in T
    <3>1. k \in 0..N /\ it[1..(k - 1)] \in S
      BY <1>1, <2>2
    <3> QED BY <1>2, <3>1
  <2> HIDE DEF T, N
  <2> QED BY <1>1, <2>1, <2>2, UpTo
<1> DEFINE h == [k \in 0..N |-> it[1..k]]
<1>5. \A k \in 0..N : it[1..k] \in S /\ h[k] = it[1..k]
  BY <1>4
<1>6. 0 \in 0..N /\ N \in 0..N /\ \A k \in 1..N : k \in 0..N /\ k - 1 \in 0..N
  BY <1>1
<1>7. h \in [0..N -> S]
  BY <1>5
<1> HIDE DEF h
<1>8. h[0] = a /\ h[N] = it[1..N]
  BY <1>3, <1>5, <1>6
<1>9. ASSUME NEW k \in 1..N PROVE h[k] = g[<<h[k - 1], q[k]>>]
  BY <1>2, <1>5, <1>6
<1>10. Walk(S, g, a, q, h, it[1..N])
  BY <1>7, <1>8, <1>9 DEF Walk
<1> QED
  BY <1>10
=============================================================================
