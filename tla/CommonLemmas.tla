--------------------------- MODULE CommonLemmas ---------------------------
(***************************************************************************)
(* Facts that several proofs need: about counting in finite strict orders  *)
(* (workers sorted by load, documents kept in insertion order), about the  *)
(* first element of a short list, about induction, and about selections    *)
(* from sequences, flattened sequences and sums.                           *)
(***************************************************************************)
EXTENDS Integers, SequencesExt, Selection, SequenceTheorems, WellFoundedInduction,
        FiniteSetTheorems, TLAPS

(***************************************************************************)
(* Counting predecessors in a strict order numbers a finite set 0, 1, ...: *)
(* R[w] is what comes before w.                                            *)
(***************************************************************************)
LEMMA Numbering ==
  ASSUME NEW S, IsFiniteSet(S), NEW R \in [S -> SUBSET S],
         \A w \in S : w \notin R[w],
         \A v, w \in S : v # w => v \in R[w] \/ w \in R[v],
         \A v, w \in S : v \in R[w] => R[v] \subseteq R[w]
  PROVE  /\ \A v, w \in S : Cardinality(R[v]) = Cardinality(R[w]) => v = w
         /\ \A n \in 0..(Cardinality(S) - 1) : \E w \in S : Cardinality(R[w]) = n
<1>1. \A w \in S : IsFiniteSet(R[w]) /\ Cardinality(R[w]) \in 0..(Cardinality(S) - 1)
  <2>. TAKE w \in S
  <2>1. R[w] \in SUBSET S /\ R[w] # S
    OBVIOUS
  <2>2. /\ IsFiniteSet(R[w])
        /\ Cardinality(R[w]) <= Cardinality(S)
        /\ Cardinality(S) = Cardinality(R[w]) => S = R[w]
    BY <2>1, FS_Subset
  <2>3. Cardinality(R[w]) \in Nat /\ Cardinality(S) \in Nat
    BY <2>2, FS_CardinalityType
  <2>. QED  BY <2>1, <2>2, <2>3
<1>2. \A v, w \in S : v \in R[w] => Cardinality(R[v]) < Cardinality(R[w])
  <2>. SUFFICES ASSUME NEW v \in S, NEW w \in S, v \in R[w]
                PROVE  Cardinality(R[v]) < Cardinality(R[w])
    OBVIOUS
  <2>1. R[v] \in SUBSET R[w] /\ R[w] # R[v]
    OBVIOUS
  <2>2. /\ Cardinality(R[v]) <= Cardinality(R[w])
        /\ Cardinality(R[w]) = Cardinality(R[v]) => R[w] = R[v]
    BY <2>1, <1>1, FS_Subset
  <2>. QED  BY <2>1, <2>2, <1>1
<1>3. ASSUME NEW v \in S, NEW w \in S, Cardinality(R[v]) = Cardinality(R[w])
      PROVE  v = w
  <2>1. ~(v \in R[w]) /\ ~(w \in R[v])
    BY <1>1, <1>2, <1>3
  <2>. QED  BY <2>1
<1>4. ASSUME NEW n \in 0..(Cardinality(S) - 1), \A w \in S : Cardinality(R[w]) # n
      PROVE  FALSE
  <2>. DEFINE T == (0..(Cardinality(S) - 1)) \ {n}
              f == [w \in S |-> Cardinality(R[w])]
  <2>1. Cardinality(S) \in Nat
    BY FS_CardinalityType
  <2>2. IsFiniteSet(0..(Cardinality(S) - 1)) /\ Cardinality(0..(Cardinality(S) - 1)) = Cardinality(S)
    BY <2>1, FS_Interval
  <2>3. IsFiniteSet(T) /\ Cardinality(T) = Cardinality(S) - 1
    BY <2>2, FS_RemoveElement
  <2>4. f \in [S -> T]
    BY <1>1, <1>4
  <2>. HIDE DEF T, f
  <2>5. PICK v, w \in S : v # w /\ f[v] = f[w]
    <3>1. Cardinality(T) < Cardinality(S)
      BY <2>1, <2>3
    <3>. QED  BY <3>1, <2>3, <2>4, FS_PigeonHole
  <2>6. Cardinality(R[v]) = Cardinality(R[w])
    BY <2>5 DEF f
  <2>. QED  BY <2>5, <2>6, <1>3
<1>. QED  BY <1>3, <1>4

\* No more than n elements of such an order have fewer than n before them.
LEMMA FirstFew ==
  ASSUME NEW S, IsFiniteSet(S), NEW R \in [S -> SUBSET S],
         \A w \in S : w \notin R[w],
         \A v, w \in S : v # w => v \in R[w] \/ w \in R[v],
         \A v, w \in S : v \in R[w] => R[v] \subseteq R[w],
         NEW n \in Nat
  PROVE  Cardinality({w \in S : Cardinality(R[w]) < n}) <= n
<1>. DEFINE T == {w \in S : Cardinality(R[w]) < n}
            f == [w \in T |-> Cardinality(R[w])]
<1>1. \A v, w \in S : Cardinality(R[v]) = Cardinality(R[w]) => v = w
  BY Numbering
<1>2. IsFiniteSet(T) /\ Cardinality(T) \in Nat
  <2>1. T \in SUBSET S
    OBVIOUS
  <2>. QED  BY <2>1, FS_Subset, FS_CardinalityType
<1>3. \A w \in S : Cardinality(R[w]) \in Nat
  <2>1. \A w \in S : R[w] \in SUBSET S
    OBVIOUS
  <2>. QED  BY <2>1, FS_Subset, FS_CardinalityType
<1>4. f \in [T -> 0..(n - 1)]
  BY <1>3
<1>5. IsFiniteSet(0..(n - 1)) /\ Cardinality(0..(n - 1)) = n
  BY FS_Interval
<1>6. \A v, w \in T : v # w => f[v] # f[w]
  BY <1>1
<1>. HIDE DEF T, f
<1>7. ~(n < Cardinality(T))
  <2>. SUFFICES ASSUME n < Cardinality(T) PROVE FALSE
    OBVIOUS
  <2>1. PICK v, w \in T : v # w /\ f[v] = f[w]
    BY <1>2, <1>4, <1>5, FS_PigeonHole
  <2>. QED  BY <1>6, <2>1
<1>8. Cardinality(T) <= n
  BY <1>2, <1>7
<1>. QED  BY <1>8 DEF T

\* A set of the numbers from 1 to 8 that is not empty has a first element.
LEMMA FirstExists ==
  ASSUME NEW S \in SUBSET (1..8), S # {}
  PROVE  \E i \in S : \A j \in S : i <= j
<1>1. CASE \E i \in S : i <= 2
  <2>1. CASE 1 \in S
    BY <2>1
  <2>2. CASE 1 \notin S
    BY <1>1, <2>2
  <2>. QED  BY <2>1, <2>2
<1>2. CASE (\A i \in S : i > 2) /\ \E i \in S : i <= 4
  <2>1. CASE 3 \in S
    BY <1>2, <2>1
  <2>2. CASE 3 \notin S
    BY <1>2, <2>2
  <2>. QED  BY <2>1, <2>2
<1>3. CASE (\A i \in S : i > 4) /\ \E i \in S : i <= 6
  <2>1. CASE 5 \in S
    BY <1>3, <2>1
  <2>2. CASE 5 \notin S
    BY <1>3, <2>2
  <2>. QED  BY <2>1, <2>2
<1>4. CASE \A i \in S : i > 6
  <2>1. CASE 7 \in S
    BY <1>4, <2>1
  <2>2. CASE 7 \notin S
    <3>1. \A i \in S : i = 8
      BY <1>4, <2>2
    <3>2. \E i \in S : i = 8
      BY <3>1
    <3>. QED  BY <3>1, <3>2
  <2>. QED  BY <2>1, <2>2
<1>. QED  BY <1>1, <1>2, <1>3, <1>4
--------------------------------------------------------------------------
\* A set of naturals that is not empty has a least element.
LEMMA LeastExists ==
  ASSUME NEW T \in SUBSET Nat, T # {}
  PROVE  \E m \in T : \A n \in T : m <= n
<1>1. PICK x \in T : \A y \in T : ~ (<<y, x>> \in OpToRel(<, Nat))
  BY WFMin, NatLessThanWellFounded
<1>2. \A y \in T : y < x => <<y, x>> \in OpToRel(<, Nat)
  BY DEF OpToRel
<1>3. \A y \in T : ~(y < x)
  BY <1>1, <1>2
<1>. QED BY <1>3

\* Induction: a set of naturals with 0 and with every successor has them all.
LEMMA Induction ==
  ASSUME NEW T, 0 \in T, \A n \in Nat : n \in T => n + 1 \in T
  PROVE  Nat \subseteq T
<1>. SUFFICES ASSUME NEW k \in Nat, k \notin T PROVE FALSE
  OBVIOUS
<1>. DEFINE U == {n \in Nat : n \notin T}
<1>1. PICK m \in U : \A n \in U : m <= n
  BY LeastExists
<1>2. m # 0 /\ m - 1 \in Nat
  BY <1>1
<1>3. m - 1 \in T
  BY <1>1, <1>2
<1>. QED  BY <1>1, <1>2, <1>3

LEMMA BoundedInduction ==
  ASSUME NEW N \in Nat, NEW T, 0 \in T, \A n \in 0..(N - 1) : n \in T => n + 1 \in T
  PROVE  \A n \in 0..N : n \in T
<1>. DEFINE U == {n \in Nat : n <= N => n \in T}
<1>1. 0 \in U
  OBVIOUS
<1>2. \A n \in Nat : n \in U => n + 1 \in U
  OBVIOUS
<1>. HIDE DEF U
<1>3. Nat \subseteq U
  BY <1>1, <1>2, Induction
<1>. QED  BY <1>3 DEF U

\* A sequence of values that begins with base and goes on by step[<<n, v>>].
IsStep(N, V, step) == \A n \in 1..N : \A v \in V : step[<<n, v>>] \in V
Unfolds(N, V, base, step, f) ==
  f \in [0..N -> V] /\ f[0] = base /\ \A n \in 1..N : f[n] = step[<<n, f[n - 1]>>]

\* A function on 0..N defined by its value at 0 and by a step exists.
LEMMA RecursionExists ==
  ASSUME NEW N \in Nat, NEW V, NEW base \in V, NEW step, IsStep(N, V, step)
  PROVE  \E f : Unfolds(N, V, base, step, f)
<1>. USE DEF IsStep, Unfolds
<1>. DEFINE Upto(f, k) == /\ f \in [0..k -> V] /\ f[0] = base
                          /\ \A n \in 1..k : f[n] = step[<<n, f[n - 1]>>]
            T == {k \in Nat : k <= N => \E f : Upto(f, k)}
<1>1. 0 \in T
  <2>1. Upto([n \in 0..0 |-> base], 0)
    OBVIOUS
  <2>. QED BY <2>1
<1>2. ASSUME NEW k \in Nat, k \in T PROVE k + 1 \in T
  <2>. SUFFICES ASSUME k + 1 <= N PROVE \E f : Upto(f, k + 1)
    OBVIOUS
  <2>1. PICK f : Upto(f, k)
    BY <1>2
  <2>. DEFINE g == [n \in 0..(k + 1) |-> IF n = k + 1 THEN step[<<k + 1, f[k]>>] ELSE f[n]]
  <2>2. step[<<k + 1, f[k]>>] \in V
    BY <2>1
  <2>3. g \in [0..(k + 1) -> V] /\ g[0] = base
    BY <2>1, <2>2
  <2>4. \A n \in 1..(k + 1) : g[n] = step[<<n, g[n - 1]>>]
    <3>. TAKE n \in 1..(k + 1)
    <3>1. CASE n = k + 1
      <4>1. k \in 0..(k + 1) /\ k + 1 \in 0..(k + 1) /\ k # k + 1 /\ (k + 1) - 1 = k
        OBVIOUS
      <4>2. g[k + 1] = step[<<k + 1, f[k]>>]
        BY <4>1
      <4>3. g[k] = f[k]
        BY <4>1
      <4>. HIDE DEF g
      <4>. QED BY <3>1, <4>1, <4>2, <4>3
    <3>2. CASE n # k + 1
      <4>1. n \in 1..k /\ n \in 0..(k+1) /\ n - 1 \in 0..(k+1) /\ n-1 # k+1
        BY <3>2
      <4>2. n \in 0..(k + 1) /\ n - 1 \in 0..(k + 1) /\ n - 1 # k + 1
        BY <3>2
      <4>3. g[n] = f[n]
        BY <3>2, <4>2
      <4>4. g[n - 1] = f[n - 1]
        BY <4>2
      <4>5. f[n] = step[<<n, f[n - 1]>>]
        BY <2>1, <4>1
      <4>. HIDE DEF g
      <4>. QED BY <4>3, <4>4, <4>5
    <3>. QED BY <3>1, <3>2
  <2>. QED BY <2>3, <2>4
<1>. HIDE DEF T
<1>3. N \in T
  BY <1>1, <1>2, Induction
<1>4. PICK f : Upto(f, N)
  BY <1>3 DEF T
<1>. QED BY <1>4

\* What Pick computes, step by step.
PickRun(s, I, X, f) ==
  /\ f \in [0..Len(s) -> Seq(X)]
  /\ f[0] = <<>>
  /\ \A n \in 1..Len(s) : f[n] = IF n \in I THEN Append(f[n - 1], s[n]) ELSE f[n - 1]
  /\ Pick(s, I) = f[Len(s)]

LEMMA PickSteps ==
  ASSUME NEW X, NEW s \in Seq(X), NEW I
  PROVE  \E f : PickRun(s, I, X, f)
<1>. DEFINE N == Len(s)
            step == [p \in (1..N) \X Seq(X) |-> IF p[1] \in I THEN Append(p[2], s[p[1]]) ELSE p[2]]
            F == CHOOSE f : f = [n \in 0..N |-> IF n = 0 THEN <<>>
                                 ELSE IF n \in I THEN Append(f[n - 1], s[n]) ELSE f[n - 1]]
<1>1. N \in Nat
  BY LenProperties
<1>2. <<>> \in Seq(X)
  OBVIOUS
<1>3. \A n \in 1..N : s[n] \in X
  BY ElementOfSeq
<1>4. step \in [(1..N) \X Seq(X) -> Seq(X)]
  <2>. SUFFICES ASSUME NEW n \in 1..N, NEW q \in Seq(X)
                PROVE  (IF n \in I THEN Append(q, s[n]) ELSE q) \in Seq(X)
    OBVIOUS
  <2>1. Append(q, s[n]) \in Seq(X)
    BY <1>3, AppendProperties
  <2>. QED BY <2>1
<1>5. \A n \in 1..N, q \in Seq(X) : step[<<n, q>>] = IF n \in I THEN Append(q, s[n]) ELSE q
  OBVIOUS
<1>. HIDE DEF N, step
<1>6. PICK f \in [0..N -> Seq(X)] :
           f[0] = <<>> /\ \A n \in 1..N : f[n] = step[<<n, f[n - 1]>>]
  <2>. DEFINE V == Seq(X)
              none == <<>>
  <2>1. none \in V /\ IsStep(N, V, step)
    BY <1>2, <1>4 DEF IsStep
  <2>2. \E f : Unfolds(N, V, none, step, f)
    <3>. HIDE DEF V, none
    <3>. QED BY <1>1, <2>1, RecursionExists
  <2>. QED BY <2>2 DEF Unfolds
<1>7. f = [n \in 0..N |-> IF n = 0 THEN <<>>
                                 ELSE IF n \in I THEN Append(f[n - 1], s[n]) ELSE f[n - 1]]
  <2>2. \A n \in 0..N : n # 0 => n \in 1..N /\ f[n - 1] \in Seq(X)
    BY <1>1
  <2>1. \A n \in 0..N : f[n] = IF n = 0 THEN <<>> ELSE step[<<n, f[n - 1]>>]
    BY <1>6, <2>2
  <2>3. \A n \in 0..N : f[n] = IF n = 0 THEN <<>>
                                 ELSE IF n \in I THEN Append(f[n - 1], s[n]) ELSE f[n - 1]
    BY <2>1, <2>2, <1>5
  <2>. QED BY <2>3
<1>8. F = [n \in 0..N |-> IF n = 0 THEN <<>>
                                 ELSE IF n \in I THEN Append(F[n - 1], s[n]) ELSE F[n - 1]]
  BY <1>7
<1>9. Pick(s, I) = F[N]
  BY DEF Pick, N
<1>. HIDE DEF F
<1>. DEFINE T == {n \in Nat : n <= N => F[n] \in Seq(X)}
<1>10. 0 \in T
  BY <1>1, <1>2, <1>8
<1>11. ASSUME NEW n \in Nat, n \in T PROVE n + 1 \in T
  <2>. SUFFICES ASSUME n + 1 <= N PROVE F[n + 1] \in Seq(X)
    OBVIOUS
  <2>1. n + 1 \in 0..N /\ n + 1 # 0 /\ (n + 1) - 1 = n /\ n + 1 \in 1..N
    BY <1>1
  <2>2. F[n] \in Seq(X)
    BY <1>11, <1>1
  <2>3. Append(F[n], s[n + 1]) \in Seq(X)
    BY <2>1, <2>2, <1>3, AppendProperties
  <2>4. F[n + 1] = IF n + 1 \in I THEN Append(F[n], s[n + 1]) ELSE F[n]
    BY <1>8, <2>1
  <2>. QED BY <2>2, <2>3, <2>4
<1>12. \A n \in 0..N : F[n] \in Seq(X)
  <2>. HIDE DEF T
  <2>1. Nat \subseteq T
    BY <1>10, <1>11, Induction
  <2>. QED BY <2>1, <1>1 DEF T
<1>13. F \in [0..N -> Seq(X)]
  BY <1>8, <1>12
<1>14. F[0] = <<>>
  BY <1>8, <1>1
<1>15. \A n \in 1..N : F[n] = IF n \in I THEN Append(F[n - 1], s[n]) ELSE F[n - 1]
  <2>. SUFFICES ASSUME NEW n \in 1..N
                PROVE  F[n] = IF n \in I THEN Append(F[n - 1], s[n]) ELSE F[n - 1]
    OBVIOUS
  <2>1. n \in 0..N /\ n # 0
    BY <1>1
  <2>. QED BY <1>8, <2>1
<1>. QED BY <1>9, <1>13, <1>14, <1>15 DEF N, PickRun

\* What passes everywhere is the list itself.
LEMMA PickAll ==
  ASSUME NEW X, NEW s \in Seq(X), NEW I, DOMAIN s \subseteq I
  PROVE  Pick(s, I) = s
<1>. DEFINE N == Len(s)
<1>0. PICK f : PickRun(s, I, X, f)
  BY PickSteps
<1>1. /\ f \in [0..N -> Seq(X)]
      /\ f[0] = <<>>
      /\ \A n \in 1..N : f[n] = IF n \in I THEN Append(f[n - 1], s[n]) ELSE f[n - 1]
      /\ Pick(s, I) = f[N]
  BY <1>0 DEF PickRun
<1>2. N \in Nat /\ DOMAIN s = 1..N
  BY LenProperties
<1>3. \A n \in 1..N : s[n] \in X
  BY ElementOfSeq
<1>. DEFINE T == {n \in 0..N : Len(f[n]) = n /\ \A i \in 1..n : f[n][i] = s[i]}
<1>. HIDE DEF N
<1>4. 0 \in T
  BY <1>1, <1>2
<1>5. ASSUME NEW n \in 0..(N - 1), n \in T PROVE n + 1 \in T
  <2>0. n + 1 \in 0..N
    BY <1>2
  <2>. SUFFICES Len(f[n + 1]) = n + 1 /\ \A i \in 1..(n + 1) : f[n + 1][i] = s[i]
    BY <2>0
  <2>1. n + 1 \in 1..N /\ n \in 0..N /\ (n + 1) - 1 = n
    BY <1>2
  <2>2. f[n] \in Seq(X) /\ Len(f[n]) = n /\ \A i \in 1..n : f[n][i] = s[i]
    BY <2>1, <1>1, <1>2, <1>5
  <2>3. f[n + 1] = Append(f[n], s[n + 1]) /\ s[n + 1] \in X
    BY <2>1, <1>1, <1>2, <1>3
  <2>4. Len(f[n + 1]) = n + 1
    BY <2>2, <2>3, AppendProperties
  <2>5. ASSUME NEW i \in 1..(n + 1) PROVE f[n + 1][i] = s[i]
    <3>1. CASE i = n + 1
      BY <3>1, <2>2, <2>3, AppendProperties
    <3>2. CASE i # n + 1
      <4>1. i \in 1..n
        BY <3>2
      <4>. QED BY <4>1, <2>2, <2>3, AppendProperties
    <3>. QED BY <3>1, <3>2
  <2>. QED BY <2>4, <2>5
<1>6. Len(f[N]) = N /\ \A i \in 1..N : f[N][i] = s[i]
  <2>. HIDE DEF T
  <2>1. N \in T
    BY <1>2, <1>4, <1>5, BoundedInduction
  <2>. QED BY <2>1 DEF T
<1>7. f[N] \in Seq(X) /\ Len(s) = N
  BY <1>1, <1>2 DEF N
<1>8. f[N] = s
  BY <1>6, <1>7, SeqEqual
<1>. QED BY <1>1, <1>8

\* Everything but the first passes: the rest of the list.
LEMMA PickRest ==
  ASSUME NEW X, NEW a \in X, NEW t \in Seq(X), NEW I, 1 \notin I, 2..(Len(t) + 1) \subseteq I
  PROVE  Pick(<<a>> \o t, I) = t
<1>. DEFINE s == <<a>> \o t
            N == Len(s)
<1>1. s \in Seq(X) /\ N = Len(t) + 1 /\ Len(t) \in Nat
  BY LenProperties
<1>2. \A i \in 2..N : s[i] = t[i - 1] /\ s[i] \in X /\ i \in I
  BY <1>1, ElementOfSeq
<1>. HIDE DEF s
<1>3. PICK f : PickRun(s, I, X, f)
  BY <1>1, PickSteps
<1>4. /\ f \in [0..N -> Seq(X)]
      /\ f[0] = <<>>
      /\ \A n \in 1..N : f[n] = IF n \in I THEN Append(f[n - 1], s[n]) ELSE f[n - 1]
      /\ Pick(s, I) = f[N]
  BY <1>3 DEF PickRun
<1>. DEFINE T == {n \in 0..N : n > 0 => Len(f[n]) = n - 1 /\ \A i \in 1..(n - 1) : f[n][i] = t[i]}
<1>. HIDE DEF N
<1>5. N \in Nat /\ N >= 1
  BY <1>1
<1>6. 0 \in T
  BY <1>5
<1>7. ASSUME NEW n \in 0..(N - 1), n \in T PROVE n + 1 \in T
  <2>1. n + 1 \in 1..N /\ n \in 0..N /\ (n + 1) - 1 = n
    BY <1>5
  <2>2. CASE n = 0
    <3>1. f[1] = <<>>
      BY <1>4, <2>1, <2>2
    <3>. QED BY <2>1, <2>2, <3>1
  <2>3. CASE n > 0
    <3>1. n + 1 \in 2..N
      BY <2>1, <2>3
    <3>2. f[n] \in Seq(X) /\ Len(f[n]) = n - 1 /\ \A i \in 1..(n - 1) : f[n][i] = t[i]
      BY <1>4, <1>7, <2>1, <2>3
    <3>3. f[n + 1] = Append(f[n], t[n]) /\ t[n] \in X
      BY <1>2, <1>4, <2>1, <3>1
    <3>4. Len(f[n + 1]) = n
      BY <2>3, <3>2, <3>3, AppendProperties
    <3>5. ASSUME NEW i \in 1..n PROVE f[n + 1][i] = t[i]
      <4>1. CASE i = n
        BY <3>2, <3>3, <4>1, AppendProperties
      <4>2. CASE i # n
        <5>1. i \in 1..(n - 1)
          BY <4>2
        <5>. QED BY <3>2, <3>3, <5>1, AppendProperties
      <4>. QED BY <4>1, <4>2
    <3>. QED BY <2>1, <3>4, <3>5
  <2>. QED BY <2>2, <2>3
<1>8. Len(f[N]) = N - 1 /\ \A i \in 1..(N - 1) : f[N][i] = t[i]
  <2>. HIDE DEF T
  <2>0. \A n \in 0..N : n \in T
    BY <1>5, <1>6, <1>7, BoundedInduction
  <2>1. N \in T
    BY <1>5, <2>0
  <2>. QED BY <1>5, <2>1 DEF T
<1>9. f[N] \in Seq(X) /\ Len(t) = N - 1
  BY <1>1, <1>4, <1>5
<1>10. f[N] = t
  BY <1>8, <1>9, SeqEqual
<1>. QED BY <1>4, <1>10 DEF s

\* The elements of a selection are those at the positions in I, in the order
\* of the list.
Picks(s, I, t, at) ==
  /\ at \in [1..Len(t) -> I \cap DOMAIN s]
  /\ \A k \in 1..Len(t) : t[k] = s[at[k]]
  /\ \A j, k \in 1..Len(t) : j < k => at[j] < at[k]
  /\ \A i \in I \cap DOMAIN s : \E k \in 1..Len(t) : at[k] = i

LEMMA PickIs ==
  ASSUME NEW X, NEW s \in Seq(X), NEW I
  PROVE  /\ Pick(s, I) \in Seq(X)
         /\ \E at : Picks(s, I, Pick(s, I), at)
<1>. DEFINE N == Len(s)
<1>0. PICK f : PickRun(s, I, X, f)
  BY PickSteps
<1>1. /\ f \in [0..N -> Seq(X)]
      /\ f[0] = <<>>
      /\ \A n \in 1..N : f[n] = IF n \in I THEN Append(f[n - 1], s[n]) ELSE f[n - 1]
      /\ Pick(s, I) = f[N]
  BY <1>0 DEF PickRun
<1>2. N \in Nat /\ DOMAIN s = 1..N
  BY LenProperties
<1>3. \A n \in 1..N : s[n] \in X
  BY ElementOfSeq
<1>. HIDE DEF N
<1>. DEFINE T == {n \in 0..N : \E at : Picks(s, I \cap (1..n), f[n], at)}
<1>4. 0 \in T
  <2>1. Len(f[0]) = 0
    BY <1>1, EmptySeq
  <2>2. Picks(s, I \cap (1..0), f[0], [k \in 1..0 |-> 0])
    BY <2>1 DEF Picks
  <2>. QED BY <2>2, <1>2
<1>5. ASSUME NEW n \in 0..(N - 1), n \in T PROVE n + 1 \in T
  <2>0. n + 1 \in 0..N
    BY <1>2
  <2>. SUFFICES \E at : Picks(s, I \cap (1..(n + 1)), f[n + 1], at)
    BY <2>0
  <2>1. n + 1 \in 1..N /\ n \in 0..N /\ (n + 1) - 1 = n
    BY <1>2
  <2>2. PICK at : Picks(s, I \cap (1..n), f[n], at)
    BY <1>5
  <2>10. (1..n) \cap DOMAIN s = 1..n /\ (1..(n + 1)) \cap DOMAIN s = 1..(n + 1)
    BY <1>2, <2>1
  <2>3. f[n] \in Seq(X) /\ Len(f[n]) \in Nat /\ s[n + 1] \in X
    BY <2>1, <1>1, <1>3, LenProperties
  <2>4. CASE n + 1 \notin I
    <3>1. f[n + 1] = f[n]
      BY <2>1, <2>4, <1>1
    <3>2. I \cap (1..(n + 1)) = I \cap (1..n)
      BY <2>4
    <3>. QED BY <2>2, <3>1, <3>2
  <2>5. CASE n + 1 \in I
    <3>. DEFINE m == Len(f[n])
                to == [k \in 1..(m + 1) |-> IF k = m + 1 THEN n + 1 ELSE at[k]]
    <3>1. f[n + 1] = Append(f[n], s[n + 1])
      BY <2>1, <2>5, <1>1
    <3>2. Len(f[n + 1]) = m + 1 /\ \A k \in 1..m : f[n + 1][k] = f[n][k]
      BY <3>1, <2>3, AppendProperties
    <3>3. f[n + 1][m + 1] = s[n + 1]
      BY <3>1, <2>3, AppendProperties
    <3>4. m \in Nat
      BY <2>3
    <3>5. /\ at \in [1..m -> I \cap (1..n)]
          /\ \A k \in 1..m : f[n][k] = s[at[k]]
          /\ \A j, k \in 1..m : j < k => at[j] < at[k]
          /\ \A i \in I \cap (1..n) : \E k \in 1..m : at[k] = i
      BY <2>2, <2>10 DEF Picks
    <3>. HIDE DEF m
    <3>6. to[m + 1] = n + 1 /\ \A k \in 1..m : to[k] = at[k]
      BY <3>4
    <3>7. to \in [1..(m + 1) -> I \cap (1..(n + 1))]
      <4>1. \A k \in 1..m : at[k] \in I \cap (1..(n + 1))
        BY <3>5
      <4>. QED BY <4>1, <2>5, <3>4
    <3>. HIDE DEF to
    <3>8. \A k \in 1..(m + 1) : k = m + 1 \/ k \in 1..m
      BY <3>4
    <3>9. \A k \in 1..(m + 1) : f[n + 1][k] = s[to[k]]
      BY <3>2, <3>3, <3>5, <3>6, <3>8
    <3>10. \A j, k \in 1..(m + 1) : j < k => to[j] < to[k]
      <4>. SUFFICES ASSUME NEW j \in 1..(m + 1), NEW k \in 1..(m + 1), j < k PROVE to[j] < to[k]
        OBVIOUS
      <4>1. j \in 1..m
        BY <3>4
      <4>2. CASE k = m + 1
        BY <4>1, <4>2, <3>5, <3>6
      <4>3. CASE k \in 1..m
        BY <4>1, <4>3, <3>5, <3>6
      <4>. QED BY <4>2, <4>3, <3>8
    <3>11. \A i \in I \cap (1..(n + 1)) : \E k \in 1..(m + 1) : to[k] = i
      <4>. SUFFICES ASSUME NEW i \in I \cap (1..(n + 1)) PROVE \E k \in 1..(m + 1) : to[k] = i
        OBVIOUS
      <4>1. CASE i = n + 1
        BY <4>1, <3>6, <3>4
      <4>2. CASE i # n + 1
        <5>1. i \in I \cap (1..n)
          BY <4>2
        <5>2. PICK k \in 1..m : at[k] = i
          BY <5>1, <3>5
        <5>. QED BY <5>2, <3>6, <3>4
      <4>. QED BY <4>1, <4>2
    <3>12. Picks(s, I \cap (1..(n + 1)), f[n + 1], to)
      BY <3>2, <3>7, <3>9, <3>10, <3>11, <2>10 DEF Picks
    <3>. QED BY <3>12
  <2>. QED BY <2>4, <2>5
<1>6. PICK at : Picks(s, I \cap (1..N), f[N], at)
  <2>. HIDE DEF T
  <2>1. N \in T
    BY <1>2, <1>4, <1>5, BoundedInduction
  <2>. QED BY <2>1 DEF T
<1>7. Picks(s, I, Pick(s, I), at)
  BY <1>1, <1>2, <1>6 DEF Picks
<1>8. Pick(s, I) \in Seq(X)
  BY <1>1, <1>2
<1>. QED BY <1>7, <1>8

\* A numbering of a set from 1 to n counts it.
LEMMA Counting ==
  ASSUME NEW S, NEW n \in Nat, NEW at \in [1..n -> S],
         \A j, k \in 1..n : j # k => at[j] # at[k],
         \A i \in S : \E k \in 1..n : at[k] = i
  PROVE  IsFiniteSet(S) /\ Cardinality(S) = n
<1>1. at \in Bijection(1..n, S)
  BY DEF Bijection, Injection, Surjection, IsInjective
<1>2. Cardinality(S) = n
  BY <1>1, FS_CountingElements DEF ExistsBijection
<1>3. IsFiniteSet(S)
  BY <1>1, FS_NatBijection DEF ExistsBijection
<1>. QED BY <1>2, <1>3

\* So a selection is as long as there are such positions.
LEMMA PickLen ==
  ASSUME NEW X, NEW s \in Seq(X), NEW I
  PROVE  /\ IsFiniteSet(I \cap DOMAIN s)
         /\ Len(Pick(s, I)) = Cardinality(I \cap DOMAIN s)
<1>. DEFINE L == Len(Pick(s, I))
            J == I \cap DOMAIN s
<1>1. PICK at : Picks(s, I, Pick(s, I), at)
  BY PickIs
<1>2. L \in Nat
  BY PickIs, LenProperties
<1>3. J \subseteq Nat
  BY LenProperties
<1>4. at \in [1..L -> J] /\ \A j, k \in 1..L : j # k => at[j] # at[k]
  BY <1>1, <1>2, <1>3 DEF Picks
<1>5. \A i \in J : \E k \in 1..L : at[k] = i
  BY <1>1 DEF Picks
<1>. HIDE DEF L, J
<1>6. IsFiniteSet(J) /\ Cardinality(J) = L
  BY <1>2, <1>4, <1>5, Counting
<1>. QED BY <1>6 DEF L, J

\* What FlattenSeq computes, step by step.
FlattenRun(ss, X, f) ==
  /\ f \in [0..Len(ss) -> Seq(X)]
  /\ f[0] = <<>>
  /\ \A n \in 1..Len(ss) : f[n] = f[n - 1] \o ss[n]
  /\ FlattenSeq(ss) = f[Len(ss)]

LEMMA FlattenSteps ==
  ASSUME NEW X, NEW ss \in Seq(Seq(X))
  PROVE  \E f : FlattenRun(ss, X, f)
<1>. DEFINE N == Len(ss)
            V == Seq(X)
            none == <<>>
            step == [p \in (1..N) \X V |-> p[2] \o ss[p[1]]]
            F == CHOOSE f : f = [n \in 1..N |-> IF n = 1 THEN ss[n] ELSE f[n - 1] \o ss[n]]
            f0 == [n \in 0..N |-> IF n = 0 THEN <<>> ELSE F[n]]
<1>1. N \in Nat /\ none \in V /\ DOMAIN ss = 1..N
  BY LenProperties
<1>2. \A n \in 1..N : ss[n] \in V
  BY ElementOfSeq
<1>3. IsStep(N, V, step)
  <2>. SUFFICES ASSUME NEW n \in 1..N, NEW q \in V PROVE step[<<n, q>>] \in V
    BY DEF IsStep
  <2>1. q \o ss[n] \in V
    BY <1>2, ConcatProperties
  <2>2. step[<<n, q>>] = q \o ss[n]
    OBVIOUS
  <2>. QED BY <2>1, <2>2
<1>4. \A n \in 1..N, q \in V : step[<<n, q>>] = q \o ss[n]
  OBVIOUS
<1>. HIDE DEF N, step
<1>5. PICK f : Unfolds(N, V, none, step, f)
  <2>. HIDE DEF V, none
  <2>. QED BY <1>1, <1>3, RecursionExists
<1>6. /\ f \in [0..N -> V] /\ f[0] = <<>>
      /\ \A n \in 1..N : f[n] = f[n - 1] \o ss[n]
  <2>1. \A n \in 1..N : n - 1 \in 0..N
    BY <1>1
  <2>. QED BY <1>5, <1>4, <2>1 DEF Unfolds
<1>7. \E g : g = [n \in 1..N |-> IF n = 1 THEN ss[n] ELSE g[n - 1] \o ss[n]]
  <2>. DEFINE g == [n \in 1..N |-> f[n]]
  <2>1. ASSUME NEW n \in 1..N PROVE g[n] = IF n = 1 THEN ss[n] ELSE g[n - 1] \o ss[n]
    <3>1. CASE n = 1
      <4>1. <<>> \o ss[n] = ss[n]
        BY <1>2, ConcatEmptySeq
      <4>2. f[n] = f[n - 1] \o ss[n]
        BY <1>6
      <4>4. n - 1 = 0
        BY <3>1
      <4>3. f[n] = ss[n]
        BY <4>1, <4>2, <4>4, <1>6
      <4>. QED BY <3>1, <4>3
    <3>2. CASE n # 1
      <4>1. n - 1 \in 1..N
        BY <3>2, <1>1
      <4>. QED BY <4>1, <3>2, <1>6
    <3>. QED BY <3>1, <3>2
  <2>2. g = [n \in 1..N |-> IF n = 1 THEN ss[n] ELSE g[n - 1] \o ss[n]]
    BY <2>1
  <2>. HIDE DEF g
  <2>. QED BY <2>2
<1>8. F = [n \in 1..N |-> IF n = 1 THEN ss[n] ELSE F[n - 1] \o ss[n]]
  BY <1>7
<1>9. FlattenSeq(ss) = IF N = 0 THEN ss ELSE F[N]
  BY DEF FlattenSeq, N
<1>. HIDE DEF F
<1>10. \A n \in 1..N : f0[n] = f0[n - 1] \o ss[n]
  <2>. SUFFICES ASSUME NEW n \in 1..N PROVE f0[n] = f0[n - 1] \o ss[n]
    OBVIOUS
  <2>1. n \in 0..N /\ n - 1 \in 0..N /\ n # 0 /\ 1 \in 0..N
    BY <1>1
  <2>2. CASE n = 1
    <3>1. <<>> \o ss[n] = ss[n]
      BY <1>2, ConcatEmptySeq
    <3>2. F[n] = ss[n]
      BY <1>8, <2>2
    <3>3. f0[n] = ss[n] /\ f0[n - 1] = <<>>
      BY <3>2, <2>1, <2>2
    <3>. HIDE DEF f0
    <3>. QED BY <3>1, <3>3
  <2>3. CASE n # 1
    <3>1. F[n] = F[n - 1] \o ss[n]
      BY <1>8, <2>3
    <3>2. n - 1 # 0
      BY <2>3
    <3>. QED BY <3>1, <3>2, <2>1
  <2>. QED BY <2>2, <2>3
<1>11. f0[0] = <<>> /\ DOMAIN f0 = 0..N /\ f0 = [n \in 0..N |-> f0[n]]
  BY <1>1
<1>12. FlattenSeq(ss) = f0[N]
  <2>1. CASE N = 0
    <3>1. ss = <<>>
      BY <2>1, EmptySeq DEF N
    <3>. QED BY <2>1, <3>1, <1>9
  <2>2. CASE N # 0
    BY <2>2, <1>1, <1>9
  <2>. QED BY <2>1, <2>2
<1>. HIDE DEF f0
<1>13. \A n \in 0..N : f0[n] \in V
  <2>. DEFINE T == {n \in 0..N : f0[n] \in V}
  <2>1. 0 \in T
    BY <1>1, <1>11
  <2>2. ASSUME NEW n \in 0..(N - 1), n \in T PROVE n + 1 \in T
    <3>1. n + 1 \in 1..N /\ n + 1 \in 0..N /\ (n + 1) - 1 = n
      BY <1>1
    <3>2. f0[n] \o ss[n + 1] \in V
      BY <2>2, <3>1, <1>2, ConcatProperties
    <3>. QED BY <3>1, <3>2, <1>10
  <2>. HIDE DEF T
  <2>3. \A n \in 0..N : n \in T
    BY <1>1, <2>1, <2>2, BoundedInduction
  <2>. QED BY <2>3 DEF T
<1>14. f0 \in [0..N -> V]
  BY <1>11, <1>13
<1>15. FlattenRun(ss, X, f0)
  BY <1>10, <1>11, <1>12, <1>14 DEF FlattenRun, N
<1>. QED BY <1>15

\* The places of the elements of the first n of some lists, and their order.
PlacesIn(ss, n)  == {p \in (1..n) \X Nat : p[2] \in 1..Len(ss[p[1]])}
Before(p, q)   == p[1] < q[1] \/ (p[1] = q[1] /\ p[2] < q[2])
Flattens(ss, n, t, at) ==
  /\ at \in [1..Len(t) -> PlacesIn(ss, n)]
  /\ \A k \in 1..Len(t) : t[k] = ss[at[k][1]][at[k][2]]
  /\ \A j, k \in 1..Len(t) : j < k => Before(at[j], at[k])
  /\ \A p \in PlacesIn(ss, n) : \E k \in 1..Len(t) : at[k] = p

\* The elements of a flattened list are those of the lists, in their order.
LEMMA FlattenIs ==
  ASSUME NEW X, NEW ss \in Seq(Seq(X))
  PROVE  /\ FlattenSeq(ss) \in Seq(X)
         /\ \E at : Flattens(ss, Len(ss), FlattenSeq(ss), at)
<1>. DEFINE N == Len(ss)
<1>0. PICK f : FlattenRun(ss, X, f)
  BY FlattenSteps
<1>1. /\ f \in [0..N -> Seq(X)]
      /\ f[0] = <<>>
      /\ \A n \in 1..N : f[n] = f[n - 1] \o ss[n]
      /\ FlattenSeq(ss) = f[N]
  BY <1>0 DEF FlattenRun
<1>2. N \in Nat /\ DOMAIN ss = 1..N
  BY LenProperties
<1>3. \A n \in 1..N : ss[n] \in Seq(X)
  BY ElementOfSeq
<1>. HIDE DEF N
<1>. DEFINE T == {n \in 0..N : \E at : Flattens(ss, n, f[n], at)}
<1>4. 0 \in T
  <2>1. Len(f[0]) = 0
    BY <1>1, EmptySeq
  <2>2. PlacesIn(ss, 0) = {}
    BY DEF PlacesIn
  <2>3. Flattens(ss, 0, f[0], [k \in 1..0 |-> 0])
    BY <2>1, <2>2 DEF Flattens
  <2>. QED BY <2>3, <1>2
<1>5. ASSUME NEW n \in 0..(N - 1), n \in T PROVE n + 1 \in T
  <2>0. n + 1 \in 0..N /\ n + 1 \in 1..N /\ n \in 0..N /\ (n + 1) - 1 = n
    BY <1>2
  <2>. SUFFICES \E at : Flattens(ss, n + 1, f[n + 1], at)
    BY <2>0
  <2>1. PICK at : Flattens(ss, n, f[n], at)
    BY <1>5
  <2>. DEFINE m == Len(f[n])
              l == Len(ss[n + 1])
              P == PlacesIn(ss, n)
              Q == PlacesIn(ss, n + 1)
              to == [k \in 1..(m + l) |-> IF k <= m THEN at[k] ELSE <<n + 1, k - m>>]
  <2>2. f[n] \in Seq(X) /\ ss[n + 1] \in Seq(X) /\ m \in Nat /\ l \in Nat
    BY <2>0, <1>1, <1>3, LenProperties
  <2>3. f[n + 1] = f[n] \o ss[n + 1]
    BY <2>0, <1>1
  <2>4. /\ Len(f[n + 1]) = m + l
        /\ \A k \in 1..(m + l) : f[n + 1][k] = IF k <= m THEN f[n][k] ELSE ss[n + 1][k - m]
    <3>. DEFINE p == f[n]
                q == ss[n + 1]
    <3>1. p \in Seq(X) /\ q \in Seq(X)
      BY <2>2
    <3>. HIDE DEF p, q
    <3>2. /\ Len(p \o q) = Len(p) + Len(q)
          /\ \A k \in 1..Len(p) + Len(q) : (p \o q)[k] = IF k <= Len(p) THEN p[k] ELSE q[k - Len(p)]
      BY <3>1, ConcatProperties
    <3>. QED BY <3>2, <2>3 DEF p, q
  <2>5. \A p \in P : \E k \in 1..m : at[k] = p
    BY <2>1 DEF Flattens
  <2>15. \A k \in 1..m : at[k] \in P
    BY <2>1 DEF Flattens
  <2>16. \A k \in 1..m : f[n][k] = ss[at[k][1]][at[k][2]]
    BY <2>1 DEF Flattens
  <2>17. \A j, k \in 1..m : j < k => Before(at[j], at[k])
    BY <2>1 DEF Flattens
  <2>6. /\ \A p \in P : p \in Q /\ p[1] \in 1..n
        /\ \A j \in 1..l : <<n + 1, j>> \in Q
        /\ \A p \in Q : p \in P \/ (p[1] = n + 1 /\ p[2] \in 1..l /\ p = <<n + 1, p[2]>>)
    BY <2>0 DEF PlacesIn
  <2>. HIDE DEF m, l, P, Q
  <2>7. \A k \in 1..(m + l) : k \in 1..m \/ (k - m \in 1..l /\ ~(k <= m))
    BY <2>2
  <2>8. /\ \A k \in 1..m : to[k] = at[k]
        /\ \A k \in 1..(m + l) : ~(k <= m) => to[k] = <<n + 1, k - m>>
    BY <2>2
  <2>14. to = [k \in 1..(m + l) |-> to[k]]
    OBVIOUS
  <2>. HIDE DEF to
  <2>9. to \in [1..(m + l) -> Q]
    <3>1. \A k \in 1..(m + l) : to[k] \in Q
      <4>. SUFFICES ASSUME NEW k \in 1..(m + l) PROVE to[k] \in Q
        OBVIOUS
      <4>1. CASE k \in 1..m
        BY <4>1, <2>15, <2>6, <2>8
      <4>2. CASE ~(k <= m) /\ k - m \in 1..l
        BY <4>2, <2>6, <2>8
      <4>. QED BY <4>1, <4>2, <2>7
    <3>. QED BY <3>1, <2>14
  <2>10. \A k \in 1..(m + l) : f[n + 1][k] = ss[to[k][1]][to[k][2]]
    <3>. SUFFICES ASSUME NEW k \in 1..(m + l) PROVE f[n + 1][k] = ss[to[k][1]][to[k][2]]
      OBVIOUS
    <3>1. CASE k \in 1..m
      <4>1. k <= m /\ f[n + 1][k] = f[n][k]
        BY <3>1, <2>2, <2>4
      <4>. QED BY <3>1, <4>1, <2>16, <2>8
    <3>2. CASE ~(k <= m)
      BY <3>2, <2>2, <2>4, <2>8
    <3>. QED BY <3>1, <3>2, <2>2, <2>7
  <2>11. ASSUME NEW j \in 1..(m + l), NEW k \in 1..(m + l), j < k PROVE Before(to[j], to[k])
    <3>1. CASE k \in 1..m
      <4>1. j \in 1..m
        BY <3>1, <2>11, <2>2
      <4>. QED BY <3>1, <4>1, <2>11, <2>17, <2>8
    <3>2. CASE ~(k <= m) /\ j \in 1..m
      BY <3>2, <2>2, <2>15, <2>6, <2>8 DEF Before
    <3>3. CASE ~(k <= m) /\ ~(j <= m)
      BY <3>3, <2>2, <2>11, <2>8 DEF Before
    <3>. QED BY <3>1, <3>2, <3>3, <2>2, <2>7
  <2>12. ASSUME NEW p \in Q PROVE \E k \in 1..(m + l) : to[k] = p
    <3>1. CASE p \in P
      <4>1. PICK k \in 1..m : at[k] = p
        BY <3>1, <2>5
      <4>2. k \in 1..(m + l)
        BY <2>2
      <4>. QED BY <4>1, <4>2, <2>8
    <3>2. CASE p[2] \in 1..l /\ p = <<n + 1, p[2]>>
      <4>1. m + p[2] \in 1..(m + l) /\ ~(m + p[2] <= m) /\ (m + p[2]) - m = p[2]
        BY <3>2, <2>2
      <4>. QED BY <4>1, <3>2, <2>8
    <3>. QED BY <3>1, <3>2, <2>6
  <2>13. Flattens(ss, n + 1, f[n + 1], to)
    BY <2>4, <2>9, <2>10, <2>11, <2>12 DEF Flattens, Q
  <2>. QED BY <2>13
<1>6. PICK at : Flattens(ss, N, f[N], at)
  <2>. HIDE DEF T
  <2>1. \A n \in 0..N : n \in T
    BY <1>2, <1>4, <1>5, BoundedInduction
  <2>2. N \in T
    BY <2>1, <1>2
  <2>. QED BY <2>2 DEF T
<1>7. FlattenSeq(ss) \in Seq(X)
  BY <1>1, <1>2
<1>. QED BY <1>1, <1>6, <1>7 DEF N

\* A flattened list is as long as there are places in the lists.
LEMMA FlattenLen ==
  ASSUME NEW X, NEW ss \in Seq(Seq(X))
  PROVE  /\ IsFiniteSet(PlacesIn(ss, Len(ss)))
         /\ Len(FlattenSeq(ss)) = Cardinality(PlacesIn(ss, Len(ss)))
<1>. DEFINE L == Len(FlattenSeq(ss))
            P == PlacesIn(ss, Len(ss))
<1>1. PICK at : Flattens(ss, Len(ss), FlattenSeq(ss), at)
  BY FlattenIs
<1>2. L \in Nat
  BY FlattenIs, LenProperties
<1>3. at \in [1..L -> P] /\ \A i \in P : \E k \in 1..L : at[k] = i
  BY <1>1 DEF Flattens
<1>4. \A j, k \in 1..L : j < k => Before(at[j], at[k])
  BY <1>1 DEF Flattens
<1>5. \A k \in 1..L : at[k] \in P /\ ~Before(at[k], at[k])
  <2>1. \A p \in P : p[1] \in Nat /\ p[2] \in Nat
    BY LenProperties DEF PlacesIn
  <2>. QED BY <1>3, <2>1 DEF Before
<1>. HIDE DEF L, P
<1>6. \A j, k \in 1..L : j # k => at[j] # at[k]
  <2>. SUFFICES ASSUME NEW j \in 1..L, NEW k \in 1..L, j # k, at[j] = at[k] PROVE FALSE
    OBVIOUS
  <2>1. CASE j < k
    BY <2>1, <1>4, <1>5
  <2>2. CASE k < j
    BY <2>2, <1>4, <1>5
  <2>. QED BY <2>1, <2>2, <1>2
<1>7. IsFiniteSet(P) /\ Cardinality(P) = L
  BY <1>2, <1>3, <1>6, Counting
<1>. QED BY <1>7 DEF L, P

\* Lists of the same lengths are flattened alike.
SameLens(ss, tt) == Len(ss) = Len(tt) /\ \A i \in 1..Len(ss) : Len(ss[i]) = Len(tt[i])
SamePlaces(ss, tt) ==
  /\ Len(FlattenSeq(ss)) = Len(FlattenSeq(tt))
  /\ \A k \in 1..Len(FlattenSeq(ss)) : \E i \in 1..Len(ss) : \E j \in 1..Len(ss[i]) :
       FlattenSeq(ss)[k] = ss[i][j] /\ FlattenSeq(tt)[k] = tt[i][j]
LEMMA FlattenAlike ==
  ASSUME NEW X, NEW Y, NEW ss \in Seq(Seq(X)), NEW tt \in Seq(Seq(Y)), SameLens(ss, tt)
  PROVE  SamePlaces(ss, tt)
<1>. DEFINE N == Len(ss)
            Alike(s, t) == /\ Len(s) = Len(t)
                           /\ \A k \in 1..Len(s) : \E i \in 1..N : \E j \in 1..Len(ss[i]) :
                                s[k] = ss[i][j] /\ t[k] = tt[i][j]
<1>1. PICK f : FlattenRun(ss, X, f)
  BY FlattenSteps
<1>2. PICK g : FlattenRun(tt, Y, g)
  BY FlattenSteps
<1>0. Len(tt) = N
  BY DEF SameLens
<1>3. /\ f \in [0..N -> Seq(X)] /\ f[0] = <<>>
      /\ \A n \in 1..N : f[n] = f[n - 1] \o ss[n]
      /\ FlattenSeq(ss) = f[N]
  BY <1>1 DEF FlattenRun
<1>4. /\ g \in [0..N -> Seq(Y)] /\ g[0] = <<>>
      /\ \A n \in 1..N : g[n] = g[n - 1] \o tt[n]
      /\ FlattenSeq(tt) = g[N]
  BY <1>0, <1>2 DEF FlattenRun
<1>5. N \in Nat /\ Len(tt) = N
  BY LenProperties DEF SameLens
<1>6. \A n \in 1..N : ss[n] \in Seq(X) /\ tt[n] \in Seq(Y) /\ Len(ss[n]) \in Nat /\ Len(ss[n]) = Len(tt[n])
  BY <1>5, ElementOfSeq, LenProperties DEF SameLens
<1>. HIDE DEF N
<1>. DEFINE T == {n \in 0..N : Alike(f[n], g[n])}
<1>7. 0 \in T
  <2>1. Len(f[0]) = 0 /\ Len(g[0]) = 0
    BY <1>3, <1>4, EmptySeq
  <2>2. Alike(f[0], g[0])
    BY <2>1
  <2>. HIDE DEF Alike
  <2>. QED BY <1>5, <2>2
<1>8. ASSUME NEW n \in 0..(N - 1), n \in T PROVE n + 1 \in T
  <2>1. n + 1 \in 0..N /\ n + 1 \in 1..N /\ n \in 0..N /\ (n + 1) - 1 = n
    BY <1>5
  <2>. SUFFICES Alike(f[n + 1], g[n + 1])
    BY <2>1
  <2>. DEFINE a == f[n]
              b == g[n]
              c == ss[n + 1]
              d == tt[n + 1]
  <2>2. a \in Seq(X) /\ b \in Seq(Y) /\ c \in Seq(X) /\ d \in Seq(Y) /\ Len(c) \in Nat /\ Len(d) = Len(c)
    BY <2>1, <1>3, <1>4, <1>6
  <2>3. f[n + 1] = a \o c /\ g[n + 1] = b \o d
    BY <2>1, <1>3, <1>4
  <2>4. Alike(a, b)
    BY <1>8
  <2>5. \A j \in 1..Len(c) : \E i \in 1..N : \E l \in 1..Len(ss[i]) : c[j] = ss[i][l] /\ d[j] = tt[i][l]
    BY <2>1
  <2>. HIDE DEF a, b, c, d
  <2>6. /\ Len(a \o c) = Len(a) + Len(c)
        /\ \A k \in 1..Len(a) + Len(c) : (a \o c)[k] = IF k <= Len(a) THEN a[k] ELSE c[k - Len(a)]
    BY <2>2, ConcatProperties
  <2>7. /\ Len(b \o d) = Len(b) + Len(d)
        /\ \A k \in 1..Len(b) + Len(d) : (b \o d)[k] = IF k <= Len(b) THEN b[k] ELSE d[k - Len(b)]
    BY <2>2, ConcatProperties
  <2>8. Len(a) \in Nat /\ Len(b) = Len(a) /\ Len(d) = Len(c) /\ Len(c) \in Nat
    BY <2>2, <2>4, LenProperties
  <2>9. ASSUME NEW k \in 1..(Len(a) + Len(c))
        PROVE  \E i \in 1..N : \E l \in 1..Len(ss[i]) : (a \o c)[k] = ss[i][l] /\ (b \o d)[k] = tt[i][l]
    <3>1. CASE k <= Len(a)
      <4>1. k \in 1..Len(a) /\ (a \o c)[k] = a[k] /\ (b \o d)[k] = b[k]
        BY <3>1, <2>6, <2>7, <2>8
      <4>. QED BY <4>1, <2>4
    <3>2. CASE ~(k <= Len(a))
      <4>1. k - Len(a) \in 1..Len(c) /\ (a \o c)[k] = c[k - Len(a)] /\ (b \o d)[k] = d[k - Len(a)]
        BY <3>2, <2>6, <2>7, <2>8
      <4>. QED BY <4>1, <2>5
    <3>. QED BY <3>1, <3>2
  <2>. QED BY <2>3, <2>6, <2>7, <2>8, <2>9
<1>9. Alike(f[N], g[N])
  <2>. HIDE DEF T
  <2>1. \A n \in 0..N : n \in T
    BY <1>5, <1>7, <1>8, BoundedInduction
  <2>2. N \in T
    BY <2>1, <1>5
  <2>. QED BY <2>2 DEF T
<1>. QED BY <1>3, <1>4, <1>9 DEF N, SamePlaces

\* What SumOf computes, step by step.
SumRun(s, f) ==
  /\ f \in [0..Len(s) -> Nat]
  /\ f[0] = 0
  /\ \A n \in 1..Len(s) : f[n] = f[n - 1] + s[n]
  /\ SumOf(s) = f[Len(s)]

LEMMA SumSteps ==
  ASSUME NEW s \in Seq(Nat)
  PROVE  \E f : SumRun(s, f)
<1>. DEFINE N == Len(s)
            step == [p \in (1..N) \X Nat |-> p[2] + s[p[1]]]
            F == CHOOSE f : f = [n \in 0..N |-> IF n = 0 THEN 0 ELSE f[n - 1] + s[n]]
<1>1. N \in Nat
  BY LenProperties
<1>2. \A n \in 1..N : s[n] \in Nat
  BY ElementOfSeq
<1>3. IsStep(N, Nat, step)
  BY <1>2 DEF IsStep
<1>4. \A n \in 1..N, q \in Nat : step[<<n, q>>] = q + s[n]
  OBVIOUS
<1>. HIDE DEF N, step
<1>5. PICK f : Unfolds(N, Nat, 0, step, f)
  BY <1>1, <1>3, RecursionExists
<1>6. f \in [0..N -> Nat] /\ f[0] = 0 /\ \A n \in 1..N : f[n] = f[n - 1] + s[n]
  <2>1. \A n \in 1..N : n - 1 \in 0..N
    BY <1>1
  <2>. QED BY <1>5, <1>4, <2>1 DEF Unfolds
<1>7. f = [n \in 0..N |-> IF n = 0 THEN 0 ELSE f[n - 1] + s[n]]
  <2>1. \A n \in 0..N : f[n] = IF n = 0 THEN 0 ELSE f[n - 1] + s[n]
    <3>1. \A n \in 0..N : n = 0 \/ (n # 0 /\ n \in 1..N)
      BY <1>1
    <3>. QED BY <3>1, <1>6
  <2>. QED BY <1>6, <2>1
<1>8. F = [n \in 0..N |-> IF n = 0 THEN 0 ELSE F[n - 1] + s[n]]
  BY <1>7
<1>9. SumOf(s) = F[N]
  BY DEF SumOf, N
<1>. HIDE DEF F
<1>10. DOMAIN F = 0..N /\ F[0] = 0
  BY <1>8, <1>1
<1>11. \A n \in 1..N : F[n] = F[n - 1] + s[n]
  <2>1. \A n \in 1..N : n \in 0..N /\ n # 0
    BY <1>1
  <2>2. \A n \in 0..N : F[n] = IF n = 0 THEN 0 ELSE F[n - 1] + s[n]
    BY <1>8
  <2>. QED BY <2>1, <2>2
<1>12. \A n \in 0..N : F[n] \in Nat
  <2>. DEFINE T == {n \in 0..N : F[n] \in Nat}
  <2>1. 0 \in T
    BY <1>1, <1>10
  <2>2. ASSUME NEW n \in 0..(N - 1), n \in T PROVE n + 1 \in T
    <3>1. n + 1 \in 1..N /\ n + 1 \in 0..N /\ (n + 1) - 1 = n
      BY <1>1
    <3>. QED BY <2>2, <3>1, <1>2, <1>11
  <2>. HIDE DEF T
  <2>3. \A n \in 0..N : n \in T
    BY <1>1, <2>1, <2>2, BoundedInduction
  <2>. QED BY <2>3 DEF T
<1>13. F = [n \in 0..N |-> F[n]]
  BY <1>8
<1>14. F \in [0..N -> Nat]
  BY <1>12, <1>13
<1>. QED BY <1>9, <1>10, <1>11, <1>14 DEF SumRun, N

LEMMA SumType ==
  ASSUME NEW s \in Seq(Nat)
  PROVE  SumOf(s) \in Nat
<1>1. PICK f : SumRun(s, f)
  BY SumSteps
<1>2. Len(s) \in Nat
  BY LenProperties
<1>3. Len(s) \in 0..Len(s)
  BY <1>2
<1>. QED BY <1>1, <1>3 DEF SumRun

\* What is no larger anywhere has no larger a sum.
LEMMA SumAtMost ==
  ASSUME NEW s \in Seq(Nat), NEW t \in Seq(Nat), Len(s) = Len(t),
         \A i \in 1..Len(s) : s[i] <= t[i]
  PROVE  SumOf(s) <= SumOf(t)
<1>. DEFINE N == Len(s)
<1>1. PICK f : SumRun(s, f)
  BY SumSteps
<1>2. PICK g : SumRun(t, g)
  BY SumSteps
<1>3. N \in Nat /\ \A n \in 1..N : s[n] \in Nat /\ t[n] \in Nat /\ s[n] <= t[n]
  BY LenProperties, ElementOfSeq
<1>4. /\ f \in [0..N -> Nat] /\ f[0] = 0 /\ SumOf(s) = f[N]
      /\ \A n \in 1..N : f[n] = f[n - 1] + s[n]
  BY <1>1 DEF SumRun
<1>5. /\ g \in [0..N -> Nat] /\ g[0] = 0 /\ SumOf(t) = g[N]
      /\ \A n \in 1..N : g[n] = g[n - 1] + t[n]
  BY <1>2 DEF SumRun
<1>. HIDE DEF N
<1>. DEFINE T == {n \in 0..N : f[n] <= g[n]}
<1>6. 0 \in T
  BY <1>3, <1>4, <1>5
<1>7. ASSUME NEW n \in 0..(N - 1), n \in T PROVE n + 1 \in T
  <2>1. n + 1 \in 1..N /\ n + 1 \in 0..N /\ n \in 0..N /\ (n + 1) - 1 = n
    BY <1>3
  <2>2. f[n] \in Nat /\ g[n] \in Nat /\ f[n] <= g[n]
    BY <2>1, <1>4, <1>5, <1>7
  <2>3. f[n + 1] = f[n] + s[n + 1] /\ g[n + 1] = g[n] + t[n + 1]
    BY <2>1, <1>4, <1>5
  <2>4. s[n + 1] \in Nat /\ t[n + 1] \in Nat /\ s[n + 1] <= t[n + 1]
    BY <2>1, <1>3
  <2>5. f[n + 1] <= g[n + 1]
    BY <2>2, <2>3, <2>4
  <2>. QED BY <2>1, <2>5
<1>. HIDE DEF T
<1>8. \A n \in 0..N : n \in T
  BY <1>3, <1>6, <1>7, BoundedInduction
<1>9. N \in T
  BY <1>8, <1>3
<1>. QED BY <1>9, <1>4, <1>5 DEF T

\* The parts of a finite set add up to it.
PartedBy(A, s, part) ==
  /\ part \in [A -> 1..Len(s)]
  /\ \A i \in 1..Len(s) : s[i] = Cardinality({a \in A : part[a] = i})

LEMMA SumPartition ==
  ASSUME NEW A, IsFiniteSet(A), NEW s \in Seq(Nat), NEW part, PartedBy(A, s, part)
  PROVE  SumOf(s) = Cardinality(A)
<1>. DEFINE N == Len(s)
            Upto(n) == {a \in A : part[a] \in 1..n}
            Of(n)   == {a \in A : part[a] = n}
<1>1. PICK f : SumRun(s, f)
  BY SumSteps
<1>2. /\ f \in [0..N -> Nat] /\ f[0] = 0 /\ SumOf(s) = f[N]
      /\ \A n \in 1..N : f[n] = f[n - 1] + s[n]
  BY <1>1 DEF SumRun
<1>3. N \in Nat /\ \A n \in 1..N : s[n] = Cardinality(Of(n))
  BY LenProperties DEF PartedBy
<1>4. part \in [A -> 1..N]
  BY DEF PartedBy
<1>. HIDE DEF N
<1>. DEFINE T == {n \in 0..N : f[n] = Cardinality(Upto(n))}
<1>5. 0 \in T
  <2>1. Upto(0) = {}
    BY <1>3, <1>4
  <2>2. f[0] = Cardinality(Upto(0))
    BY <2>1, <1>2, FS_EmptySet
  <2>. HIDE DEF Upto
  <2>. QED BY <2>2, <1>3
<1>6. ASSUME NEW n \in 0..(N - 1), n \in T PROVE n + 1 \in T
  <2>1. n + 1 \in 1..N /\ n + 1 \in 0..N /\ n \in 0..N /\ (n + 1) - 1 = n
    BY <1>3
  <2>. DEFINE P == Upto(n)
              Q == Of(n + 1)
  <2>2. P \in SUBSET A /\ Q \in SUBSET A
    OBVIOUS
  <2>3. Upto(n + 1) = P \cup Q /\ P \cap Q = {}
    BY <2>1
  <2>4. f[n] = Cardinality(P) /\ f[n + 1] = f[n] + Cardinality(Q)
    BY <2>1, <1>2, <1>3, <1>6
  <2>. HIDE DEF P, Q
  <2>5. IsFiniteSet(P) /\ IsFiniteSet(Q)
    BY <2>2, FS_Subset
  <2>6. Cardinality(P \cup Q) = Cardinality(P) + Cardinality(Q)
    <3>1. Cardinality(P \cup Q) = Cardinality(P) + Cardinality(Q) - Cardinality(P \cap Q)
      BY <2>5, FS_Union
    <3>2. Cardinality(P \cap Q) = 0
      BY <2>3, FS_EmptySet
    <3>3. Cardinality(P) \in Nat /\ Cardinality(Q) \in Nat
      BY <2>5, FS_CardinalityType
    <3>. QED BY <3>1, <3>2, <3>3
  <2>7. f[n + 1] = Cardinality(Upto(n + 1))
    BY <2>3, <2>4, <2>6
  <2>. QED BY <2>1, <2>7
<1>. HIDE DEF T
<1>7. \A n \in 0..N : n \in T
  BY <1>3, <1>5, <1>6, BoundedInduction
<1>8. N \in T
  BY <1>7, <1>3
<1>9. Upto(N) = A
  BY <1>4
<1>. QED BY <1>8, <1>9, <1>2 DEF T

\* Two disjoint parts of a finite set are counted by their sum.
LEMMA CountApart ==
  ASSUME NEW A, IsFiniteSet(A), NEW B \in SUBSET A
  PROVE  /\ Cardinality(B) \in Nat /\ Cardinality(A \ B) \in Nat
         /\ Cardinality(B) + Cardinality(A \ B) = Cardinality(A)
<1>1. IsFiniteSet(B) /\ IsFiniteSet(A \ B)
  BY FS_Subset
<1>2. Cardinality(B) \in Nat /\ Cardinality(A \ B) \in Nat
  BY <1>1, FS_CardinalityType
<1>3. Cardinality(B \cup (A \ B)) = Cardinality(B) + Cardinality(A \ B) - Cardinality(B \cap (A \ B))
  BY <1>1, FS_Union
<1>4. B \cup (A \ B) = A /\ B \cap (A \ B) = {}
  OBVIOUS
<1>5. Cardinality(B \cap (A \ B)) = 0
  BY <1>4, FS_EmptySet
<1>. QED BY <1>2, <1>3, <1>4, <1>5

\* A flattened list is as long as its parts together.
LEMMA FlattenSum ==
  ASSUME NEW X, NEW ss \in Seq(Seq(X))
  PROVE  SumOf([i \in DOMAIN ss |-> Len(ss[i])]) = Len(FlattenSeq(ss))
<1>. DEFINE A == PlacesIn(ss, Len(ss))
            s == [i \in 1..Len(ss) |-> Len(ss[i])]
            part == [p \in A |-> p[1]]
<1>1. Len(ss) \in Nat /\ DOMAIN ss = 1..Len(ss) /\ \A i \in 1..Len(ss) : Len(ss[i]) \in Nat
  BY LenProperties, ElementOfSeq
<1>2. s \in Seq(Nat) /\ Len(s) = Len(ss)
  BY <1>1
<1>3. IsFiniteSet(A) /\ Len(FlattenSeq(ss)) = Cardinality(A)
  BY FlattenLen
<1>4. part \in [A -> 1..Len(ss)]
  BY DEF PlacesIn
<1>5. ASSUME NEW i \in 1..Len(ss)
      PROVE  s[i] = Cardinality({p \in A : part[p] = i})
  <2>. DEFINE S  == {p \in A : part[p] = i}
              n  == Len(ss[i])
              at == [j \in 1..n |-> <<i, j>>]
  <2>1. n \in Nat
    BY <1>1
  <2>2. at \in [1..n -> S]
    BY <2>1 DEF PlacesIn
  <2>3. \A j, k \in 1..n : j # k => at[j] # at[k]
    OBVIOUS
  <2>4. \A p \in S : \E k \in 1..n : at[k] = p
    BY DEF PlacesIn
  <2>. HIDE DEF S, at, n
  <2>5. Cardinality(S) = n
    BY <2>1, <2>2, <2>3, <2>4, Counting
  <2>. QED BY <2>5 DEF S, n
<1>7. PartedBy(A, s, part)
  BY <1>2, <1>4, <1>5 DEF PartedBy
<1>. HIDE DEF A, s, part
<1>6. SumOf(s) = Cardinality(A)
  BY <1>2, <1>3, <1>7, SumPartition
<1>. QED BY <1>1, <1>3, <1>6 DEF s

\* Some of the lists flattened are as long as there are places in those.
LEMMA FlattenPart ==
  ASSUME NEW X, NEW ss \in Seq(Seq(X)), NEW tt \in Seq(Seq(X)), NEW I, NEW at, Picks(ss, I, tt, at)
  PROVE  /\ IsFiniteSet({p \in PlacesIn(ss, Len(ss)) : p[1] \in I})
         /\ Len(FlattenSeq(tt)) = Cardinality({p \in PlacesIn(ss, Len(ss)) : p[1] \in I})
<1>. DEFINE A == PlacesIn(tt, Len(tt))
            B == {p \in PlacesIn(ss, Len(ss)) : p[1] \in I}
            f == [q \in A |-> <<at[q[1]], q[2]>>]
<1>1. Len(ss) \in Nat /\ DOMAIN ss = 1..Len(ss) /\ Len(tt) \in Nat
  BY LenProperties
<1>2. \A k \in 1..Len(tt) : at[k] \in 1..Len(ss) /\ at[k] \in I /\ tt[k] = ss[at[k]]
  BY <1>1 DEF Picks
<1>3. \A j, k \in 1..Len(tt) : at[j] = at[k] => j = k
  <2>. SUFFICES ASSUME NEW j \in 1..Len(tt), NEW k \in 1..Len(tt), at[j] = at[k], j # k PROVE FALSE
    OBVIOUS
  <2>1. \A m, n \in 1..Len(tt) : m < n => at[m] < at[n]
    BY DEF Picks
  <2>2. at[j] \in Nat
    BY <1>2
  <2>3. CASE j < k
    BY <2>1, <2>2, <2>3
  <2>4. CASE k < j
    BY <2>1, <2>2, <2>4
  <2>. QED BY <2>3, <2>4, <1>1
<1>4. \A i \in I \cap 1..Len(ss) : \E k \in 1..Len(tt) : at[k] = i
  BY <1>1 DEF Picks
<1>5. ASSUME NEW q \in A
      PROVE  q = <<q[1], q[2]>> /\ q[1] \in 1..Len(tt) /\ <<at[q[1]], q[2]>> \in B
  <2>1. q = <<q[1], q[2]>> /\ q[1] \in 1..Len(tt) /\ q[2] \in Nat /\ q[2] \in 1..Len(tt[q[1]])
    BY DEF PlacesIn
  <2>2. at[q[1]] \in 1..Len(ss) /\ at[q[1]] \in I /\ tt[q[1]] = ss[at[q[1]]]
    BY <1>2, <2>1
  <2>. QED BY <2>1, <2>2 DEF PlacesIn
<1>6. ASSUME NEW p \in B
      PROVE  \E q \in A : <<at[q[1]], q[2]>> = p
  <2>1. p = <<p[1], p[2]>> /\ p[1] \in I \cap 1..Len(ss) /\ p[2] \in Nat /\ p[2] \in 1..Len(ss[p[1]])
    BY DEF PlacesIn
  <2>2. PICK k \in 1..Len(tt) : at[k] = p[1]
    BY <1>4, <2>1
  <2>3. <<k, p[2]>> \in A
    BY <1>2, <2>1, <2>2 DEF PlacesIn
  <2>. DEFINE q == <<k, p[2]>>
  <2>4. q[1] = k /\ q[2] = p[2]
    OBVIOUS
  <2>. HIDE DEF q
  <2>. QED BY <2>1, <2>2, <2>3, <2>4 DEF q
<1>. HIDE DEF A, B
<1>7. \A q \in A : f[q] \in B /\ f[q][1] = at[q[1]] /\ f[q][2] = q[2] /\ f[q] = <<at[q[1]], q[2]>>
  BY <1>5
<1>8. \A p, q \in A : f[p] = f[q] => p = q
  <2>. SUFFICES ASSUME NEW p \in A, NEW q \in A, f[p] = f[q] PROVE p = q
    OBVIOUS
  <2>1. at[p[1]] = at[q[1]] /\ p[2] = q[2]
    BY <1>7
  <2>2. p[1] = q[1]
    BY <1>3, <1>5, <2>1
  <2>3. p = <<p[1], p[2]>> /\ q = <<q[1], q[2]>>
    BY <1>5
  <2>. QED BY <2>1, <2>2, <2>3
<1>9. f \in [A -> B] /\ \A p \in B : \E q \in A : f[q] = p
  BY <1>6, <1>7
<1>. HIDE DEF f
<1>10. f \in Bijection(A, B)
  BY <1>8, <1>9 DEF Bijection, Injection, IsInjective, Surjection
<1>11. ExistsBijection(A, B)
  BY <1>10 DEF ExistsBijection
<1>12. IsFiniteSet(A) /\ Len(FlattenSeq(tt)) = Cardinality(A)
  BY FlattenLen DEF A
<1>13. IsFiniteSet(B) /\ Cardinality(B) = Cardinality(A)
  BY <1>11, <1>12, FS_Bijection
<1>. QED BY <1>12, <1>13 DEF B
===========================================================================
