----------------------------- MODULE Induction -----------------------------
(***************************************************************************)
(* Induction and recursion over the natural numbers, stated with sets and  *)
(* functions instead of operators: to prove P(n) for all n, take the set   *)
(* of the numbers for which it holds.                                      *)
(***************************************************************************)
EXTENDS Integers, FiniteSetTheorems, TLAPS

\* A set of natural numbers has a least one.  The sets 1 .. n are ordered by
\* inclusion as the numbers are by size, and inclusion is well-founded.
LEMMA LeastNatural ==
  ASSUME NEW T, T \subseteq Nat, T # {}
  PROVE  \E n \in T : \A m \in T : n <= m
<1> DEFINE D == {1 .. n : n \in T}
<1>1. D \subseteq FiniteSubsetsOf(Nat)
  BY FS_Interval DEF FiniteSubsetsOf
<1>2. D # {}
  OBVIOUS
<1>3. PICK x \in D : \A y \in D : ~(<<y, x>> \in StrictSubsetOrdering(Nat))
  <2> HIDE DEF D
  <2> QED
    BY <1>1, <1>2, FS_StrictSubsetOrderingWellFounded, WFMin
<1>4. PICK n \in T : x = 1 .. n
  OBVIOUS
<1>5. ASSUME NEW m \in T, m < n PROVE FALSE
  <2>1. 1 .. m \subseteq 1 .. n /\ 1 .. m # 1 .. n
    <3>1. n \in 1 .. n /\ n \notin 1 .. m
      BY <1>5
    <3> QED BY <3>1, <1>5
  <2>2. <<1 .. m, 1 .. n>> \in (SUBSET Nat) \X (SUBSET Nat)
    OBVIOUS
  <2>3. <<1 .. m, 1 .. n>> \in StrictSubsetOrdering(Nat)
    BY <2>1, <2>2 DEF StrictSubsetOrdering
  <2> QED BY <1>3, <1>4, <2>3
<1> QED BY <1>5

\* Induction.
LEMMA SetInduction ==
  ASSUME NEW P, 0 \in P, \A n \in Nat : n \in P => n + 1 \in P
  PROVE  Nat \subseteq P
<1> DEFINE T == {n \in Nat : n \notin P}
<1>1. CASE T = {}
  BY <1>1
<1>2. CASE T # {}
  <2>1. PICK n \in T : \A m \in T : n <= m
    BY <1>2, LeastNatural
  <2>2. n # 0 /\ n - 1 \in Nat /\ n - 1 \notin T
    BY <2>1
  <2>3. n - 1 \in P /\ (n - 1) + 1 = n
    BY <2>2
  <2> QED BY <2>2, <2>3
<1> QED BY <1>1, <1>2

\* The greatest of a finite set of numbers.
LEMMA GreatestInteger ==
  ASSUME NEW T, T \subseteq Int, T # {}, NEW b \in Int, \A n \in T : n <= b
  PROVE  \E n \in T : \A m \in T : m <= n
<1> DEFINE U == {b - n : n \in T}
<1>1. U \subseteq Nat /\ U # {}
  <2>1. \A n \in T : b - n \in Nat
    OBVIOUS
  <2> QED BY <2>1
<1>2. PICK u \in U : \A v \in U : u <= v
  <2> HIDE DEF U
  <2> QED BY <1>1, LeastNatural
<1>3. PICK n \in T : u = b - n
  OBVIOUS
<1>4. ASSUME NEW m \in T PROVE m <= n
  <2>1. u <= b - m
    BY <1>2
  <2> QED BY <2>1, <1>3
<1> QED BY <1>4

\* Recursion: there is a function of the naturals with a given first value
\* in which each value follows from the one before.
Steps(S) == [Nat -> [S -> S]]

Iterates(f, S, base, step) ==
  /\ f \in [Nat -> S]
  /\ f[0] = base
  /\ \A n \in Nat : f[n + 1] = step[n + 1][f[n]]

LEMMA RecursionDefines ==
  ASSUME NEW S, NEW base \in S, NEW step \in Steps(S)
  PROVE  \E f : Iterates(f, S, base, step)
<1> USE DEF Steps
<1> DEFINE Fits(g, n) == /\ g \in [0 .. n -> S]
                         /\ g[0] = base
                         /\ \A i \in 1 .. n : g[i] = step[i][g[i - 1]]
           P == {n \in Nat : \E g : Fits(g, n)}
           Q == {i \in Nat : \A n, m \in Nat : \A g, h :
                   Fits(g, n) /\ Fits(h, m) /\ i <= n /\ i <= m => g[i] = h[i]}
<1>1. Nat \subseteq P
  <2>1. 0 \in P
    <3>1. Fits([i \in 0 .. 0 |-> base], 0)
      OBVIOUS
    <3> QED BY <3>1
  <2>2. ASSUME NEW n \in Nat, n \in P PROVE n + 1 \in P
    <3>1. PICK g : Fits(g, n)
      BY <2>2
    <3> DEFINE h == [i \in 0 .. n + 1 |-> IF i = n + 1 THEN step[n + 1][g[n]] ELSE g[i]]
    <3>2. g[n] \in S
      BY <3>1
    <3>3. h \in [0 .. n + 1 -> S]
      <4>1. step[n + 1][g[n]] \in S
        BY <3>2
      <4> QED BY <3>1, <4>1
    <3>4. h[0] = base
      BY <3>1
    <3>5. ASSUME NEW i \in 1 .. n + 1 PROVE h[i] = step[i][h[i - 1]]
      <4>1. CASE i = n + 1
        <5>1. n \in 0 .. n + 1 /\ n # n + 1 /\ n + 1 \in 0 .. n + 1 /\ (n + 1) - 1 = n
          OBVIOUS
        <5>2. h[n] = g[n] /\ h[n + 1] = step[n + 1][g[n]]
          BY <5>1
        <5> HIDE DEF h
        <5> QED BY <4>1, <5>1, <5>2
      <4>2. CASE i # n + 1
        <5>1. i \in 1 .. n /\ i - 1 \in 0 .. n /\ i - 1 # n + 1 /\ i \in 0 .. n + 1
              /\ i - 1 \in 0 .. n + 1
          BY <4>2
        <5>2. h[i] = g[i] /\ h[i - 1] = g[i - 1]
          BY <5>1, <4>2
        <5> QED BY <5>1, <5>2, <3>1
      <4> QED BY <4>1, <4>2
    <3>6. Fits(h, n + 1)
      <4> HIDE DEF h
      <4> QED BY <3>3, <3>4, <3>5
    <3> HIDE DEF Fits, h
    <3> QED BY <3>6
  <2> HIDE DEF P
  <2> QED BY <2>1, <2>2, SetInduction
<1>2. Nat \subseteq Q
  <2>1. 0 \in Q
    OBVIOUS
  <2>2. ASSUME NEW i \in Nat, i \in Q PROVE i + 1 \in Q
    <3>1. ASSUME NEW n \in Nat, NEW m \in Nat, NEW g, NEW h, Fits(g, n), Fits(h, m),
                 i + 1 <= n, i + 1 <= m
          PROVE  g[i + 1] = h[i + 1]
      <4>1. g[i] = h[i]
        <5> HIDE DEF Fits
        <5>1. i <= n /\ i <= m
          BY <3>1
        <5> QED BY <2>2, <3>1, <5>1
      <4>2. i + 1 \in 1 .. n /\ i + 1 \in 1 .. m /\ (i + 1) - 1 = i
        BY <3>1
      <4> QED BY <3>1, <4>1, <4>2
    <3> HIDE DEF Fits
    <3> QED BY <3>1
  <2> HIDE DEF Q
  <2> QED BY <2>1, <2>2, SetInduction
<1> DEFINE G(n) == CHOOSE g : Fits(g, n)
           f == [n \in Nat |-> G(n)[n]]
<1>3. ASSUME NEW n \in Nat PROVE Fits(G(n), n)
  <2>1. \E g : Fits(g, n)
    <3> HIDE DEF Fits
    <3> QED BY <1>1
  <2> HIDE DEF Fits
  <2> QED BY <2>1
<1>4. ASSUME NEW n \in Nat, NEW m \in Nat, n <= m PROVE G(m)[n] = f[n]
  <2> HIDE DEF Fits, G
  <2> QED BY <1>2, <1>3, <1>4
<1>5. f \in [Nat -> S]
  <2>1. ASSUME NEW n \in Nat PROVE G(n)[n] \in S
    <3> HIDE DEF G
    <3> QED BY <1>3
  <2> HIDE DEF G
  <2> QED BY <2>1
<1>6. ASSUME NEW n \in Nat
      PROVE f[n] = IF n = 0 THEN base ELSE step[n][f[n - 1]]
  <2>1. CASE n = 0
    <3>1. f[0] = G(0)[0] /\ Fits(G(0), 0)
      BY <1>3
    <3> HIDE DEF G, f
    <3> QED BY <3>1, <2>1
  <2>2. CASE n # 0
    <3>1. n - 1 \in Nat /\ n \in 1 .. n /\ n - 1 <= n
      BY <2>2
    <3>2. G(n)[n] = f[n] /\ G(n)[n - 1] = f[n - 1]
      <4> HIDE DEF G, f
      <4> QED BY <3>1, <1>4
    <3>3. G(n)[n] = step[n][G(n)[n - 1]]
      <4> HIDE DEF G
      <4> QED BY <3>1, <1>3
    <3> HIDE DEF G, f
    <3> QED BY <2>2, <3>2, <3>3
  <2> QED BY <2>1, <2>2
<1>7. Iterates(f, S, base, step)
  <2> HIDE DEF f
  <2>1. ASSUME NEW n \in Nat PROVE f[n + 1] = step[n + 1][f[n]]
    BY <1>6
  <2> QED BY <1>5, <1>6, <2>1 DEF Iterates
<1> HIDE DEF f
<1> QED BY <1>7

\* The same for as many values as there are.
StepsTo(L, S) == [1 .. L -> [S -> S]]

IteratesTo(g, L, S, base, step) ==
  /\ g \in [0 .. L -> S]
  /\ g[0] = base
  /\ \A n \in 1 .. L : g[n] = step[n][g[n - 1]]

LEMMA RecursionUpTo ==
  ASSUME NEW S, NEW base \in S, NEW L \in Nat, NEW step \in StepsTo(L, S)
  PROVE  \E g : IteratesTo(g, L, S, base, step)
<1> USE DEF StepsTo
<1> DEFINE all == [n \in Nat |-> IF n \in 1 .. L THEN step[n] ELSE [x \in S |-> x]]
<1>1. all \in Steps(S)
  BY DEF Steps
<1>2. \A n \in 1 .. L : all[n] = step[n]
  OBVIOUS
<1> HIDE DEF all
<1>3. PICK f : Iterates(f, S, base, all)
  BY <1>1, RecursionDefines
<1>4. f \in [Nat -> S] /\ f[0] = base
  BY <1>3 DEF Iterates
<1>5. ASSUME NEW n \in 1 .. L PROVE f[n] = step[n][f[n - 1]]
  <2>1. n - 1 \in Nat /\ (n - 1) + 1 = n
    OBVIOUS
  <2>2. f[(n - 1) + 1] = all[(n - 1) + 1][f[n - 1]]
    BY <1>3, <2>1 DEF Iterates
  <2> QED BY <1>2, <2>1, <2>2
<1> DEFINE g == [n \in 0 .. L |-> f[n]]
<1>6. \A n \in 0 .. L : g[n] = f[n]
  OBVIOUS
<1>7. g \in [0 .. L -> S]
  BY <1>4
<1> HIDE DEF g
<1>8. ASSUME NEW n \in 1 .. L PROVE g[n] = step[n][g[n - 1]]
  <2>1. n \in 0 .. L /\ n - 1 \in 0 .. L
    OBVIOUS
  <2> QED BY <1>5, <1>6, <2>1
<1>9. g[0] = base
  BY <1>4, <1>6
<1> QED BY <1>7, <1>8, <1>9 DEF IteratesTo

\* The same where each value follows from that of some smaller number.
Descents == {d \in [Nat -> Nat] : \A n \in Nat : n # 0 => d[n] < n}

Descends(f, S, base, down, step) ==
  /\ f \in [Nat -> S]
  /\ f[0] = base
  /\ \A n \in Nat : n # 0 => f[n] = step[n][f[down[n]]]

LEMMA DescentDefines ==
  ASSUME NEW S, NEW base \in S, NEW down \in Descents, NEW step \in Steps(S)
  PROVE  \E f : Descends(f, S, base, down, step)
<1> DEFINE Next(F) == [n \in Nat |-> IF n = 0 THEN base ELSE step[n][F[down[n]]]]
           T == [Nat -> S]
           start == [n \in Nat |-> base]
           next == [k \in Nat |-> [F \in T |-> Next(F)]]
<1>1. \A n \in Nat : down[n] \in Nat /\ (n # 0 => down[n] < n)
  BY DEF Descents
<1>2. \A n \in Nat : step[n] \in [S -> S]
  BY DEF Steps
<1>3. \A F \in T : Next(F) \in T
  BY <1>1, <1>2
<1>4. start \in T
  OBVIOUS
<1>5. next \in Steps(T) /\ \A k \in Nat, F \in T : next[k][F] = Next(F)
  <2> HIDE DEF T, Next
  <2> QED BY <1>3 DEF Steps
<1>6. PICK A : Iterates(A, T, start, next)
  <2> HIDE DEF next, start, T
  <2> QED BY <1>4, <1>5, RecursionDefines
<1>7. A \in [Nat -> T] /\ A[0] = start /\ \A k \in Nat : A[k + 1] = Next(A[k])
  <2>1. A \in [Nat -> T] /\ A[0] = start /\ \A k \in Nat : A[k + 1] = next[k + 1][A[k]]
    <3> HIDE DEF next, start, T
    <3> QED BY <1>6 DEF Iterates
  <2>2. ASSUME NEW k \in Nat PROVE A[k + 1] = Next(A[k])
    <3>1. k + 1 \in Nat /\ A[k] \in T
      <4> HIDE DEF T, next
      <4> QED BY <2>1
    <3> HIDE DEF next, T, Next
    <3> QED BY <1>5, <2>1, <3>1
  <2> HIDE DEF next, Next, T
  <2> QED BY <2>1, <2>2
<1>8. \A k \in Nat : A[k] \in T
  <2> HIDE DEF T
  <2> QED BY <1>7
<1>9. \A k, n \in Nat : A[k][n] \in S
  BY <1>8
<1>10. \A k \in Nat : A[k][0] = base
  <2>1. ASSUME NEW k \in Nat, k # 0 PROVE A[k][0] = base
    <3>1. k - 1 \in Nat /\ (k - 1) + 1 = k
      BY <2>1
    <3>2. A[k] = Next(A[k - 1])
      <4> HIDE DEF Next
      <4> QED BY <1>7, <3>1
    <3> QED BY <3>2
  <2> QED BY <1>7, <2>1
<1>11. ASSUME NEW k \in Nat, NEW n \in Nat, n # 0
       PROVE  A[k + 1][n] = step[n][A[k][down[n]]]
  <2>1. A[k + 1] = Next(A[k])
    <3> HIDE DEF Next
    <3> QED BY <1>7
  <2> QED BY <2>1, <1>11
<1> HIDE DEF Next, T, start, next
<1> DEFINE P == {k \in Nat : \A n \in Nat : n <= k => A[k + 1][n] = A[k][n]}
<1>12. Nat \subseteq P
  <2>1. 0 \in P
    BY <1>10
  <2>2. ASSUME NEW k \in Nat, k \in P PROVE k + 1 \in P
    <3>1. ASSUME NEW n \in Nat, n <= k + 1, n # 0 PROVE A[(k + 1) + 1][n] = A[k + 1][n]
      <4>1. down[n] \in Nat /\ down[n] <= k
        BY <1>1, <3>1
      <4>2. A[k + 1][down[n]] = A[k][down[n]]
        BY <2>2, <4>1
      <4>3. k + 1 \in Nat
        OBVIOUS
      <4>4. A[(k + 1) + 1][n] = step[n][A[k + 1][down[n]]]
        BY <1>11, <3>1, <4>3
      <4>5. A[k + 1][n] = step[n][A[k][down[n]]]
        BY <1>11, <3>1
      <4> QED BY <4>2, <4>4, <4>5
    <3>2. ASSUME NEW n \in Nat, n <= k + 1 PROVE A[(k + 1) + 1][n] = A[k + 1][n]
      BY <1>10, <3>1, <3>2
    <3> QED BY <3>2
  <2> HIDE DEF P
  <2> QED BY <2>1, <2>2, SetInduction
<1>13. ASSUME NEW n \in Nat, NEW m \in Nat, n <= m PROVE A[m][n] = A[n][n]
  <2> DEFINE Q == {i \in Nat : A[n + i][n] = A[n][n]}
  <2>1. 0 \in Q
    OBVIOUS
  <2>2. ASSUME NEW i \in Nat, i \in Q PROVE i + 1 \in Q
    <3>1. n + i \in Nat /\ n <= n + i /\ n + (i + 1) = (n + i) + 1
      OBVIOUS
    <3>2. A[(n + i) + 1][n] = A[n + i][n]
      BY <1>12, <3>1
    <3> QED BY <2>2, <3>1, <3>2
  <2>3. Nat \subseteq Q
    <3> HIDE DEF Q
    <3> QED BY <2>1, <2>2, SetInduction
  <2>4. m - n \in Nat /\ n + (m - n) = m
    BY <1>13
  <2> QED BY <2>3, <2>4
<1> DEFINE f == [n \in Nat |-> A[n][n]]
<1>14. f \in [Nat -> S] /\ \A n \in Nat : f[n] = A[n][n]
  BY <1>9
<1> HIDE DEF f
<1>15. ASSUME NEW n \in Nat, n # 0 PROVE f[n] = step[n][f[down[n]]]
  <2>1. n - 1 \in Nat /\ (n - 1) + 1 = n /\ down[n] \in Nat /\ down[n] <= n - 1
    BY <1>1, <1>15
  <2>2. A[(n - 1) + 1][n] = step[n][A[n - 1][down[n]]]
    BY <1>11, <1>15, <2>1
  <2>3. A[n - 1][down[n]] = A[down[n]][down[n]]
    BY <1>13, <2>1
  <2> QED BY <1>14, <2>1, <2>2, <2>3
<1>16. Descends(f, S, base, down, step)
  BY <1>10, <1>14, <1>15 DEF Descends
<1> QED BY <1>16

\* Induction from the end.
LEMMA DownTo ==
  ASSUME NEW L \in Nat, NEW P,
         \A x \in 0 .. L : (\A y \in x + 1 .. L : y \in P) => x \in P
  PROVE  0 .. L \subseteq P
<1> DEFINE T == {n \in Nat : n <= L /\ L - n \notin P}
<1>1. CASE T = {}
  <2>1. ASSUME NEW x \in 0 .. L PROVE x \in P
    <3>1. L - x \in Nat /\ L - x <= L /\ L - (L - x) = x
      OBVIOUS
    <3> QED BY <1>1, <3>1
  <2> QED BY <2>1
<1>2. CASE T # {}
  <2>1. PICK n \in T : \A m \in T : n <= m
    BY <1>2, LeastNatural
  <2>2. n \in Nat /\ n <= L /\ L - n \notin P /\ L - n \in 0 .. L
    BY <2>1
  <2>3. ASSUME NEW y \in L - n + 1 .. L, y \notin P PROVE FALSE
    <3>1. L - y \in Nat /\ L - y <= L /\ L - (L - y) = y /\ L - y < n
      BY <2>2
    <3>2. L - y \in T
      BY <2>3, <3>1
    <3>3. n <= L - y
      BY <2>1, <3>2
    <3> QED BY <2>2, <3>1, <3>3
  <2> QED BY <2>2, <2>3
<1> QED BY <1>1, <1>2

\* Recursion from the end: if what next makes of a table at a place depends on
\* later places only, some table is what next makes of it.
Causal(L, T, next) ==
  \A F, G \in T : \A x \in 0 .. L :
    (\A y \in x + 1 .. L : F[y] = G[y]) => next[F][x] = next[G][x]

LEMMA CourseOfValues ==
  ASSUME NEW L \in Nat, NEW V, NEW T, T \subseteq [0 .. L -> V], T # {},
         NEW next \in [T -> T], Causal(L, T, next)
  PROVE  \E f \in T : next[f] = f
<1>1. PICK start \in T : TRUE
  OBVIOUS
<1> DEFINE step == [k \in Nat |-> next]
<1>2. step \in Steps(T) /\ \A k \in Nat : step[k] = next
  BY DEF Steps
<1> HIDE DEF step
<1>3. PICK A : Iterates(A, T, start, step)
  BY <1>1, <1>2, RecursionDefines
<1>4. A \in [Nat -> T] /\ \A k \in Nat : A[k + 1] = next[A[k]]
  <2>1. A \in [Nat -> T] /\ \A k \in Nat : A[k + 1] = step[k + 1][A[k]]
    BY <1>3 DEF Iterates
  <2>2. \A k \in Nat : k + 1 \in Nat
    OBVIOUS
  <2> QED BY <1>2, <2>1, <2>2
<1> DEFINE P == {x \in 0 .. L : \A k \in Nat : k > L - x => A[k + 1][x] = A[k][x]}
<1>5. ASSUME NEW x \in 0 .. L, \A y \in x + 1 .. L : y \in P
      PROVE  x \in P
  <2>1. ASSUME NEW k \in Nat, k > L - x PROVE A[k + 1][x] = A[k][x]
    <3>1. k - 1 \in Nat /\ (k - 1) + 1 = k
      BY <2>1
    <3>2. ASSUME NEW y \in x + 1 .. L PROVE A[k][y] = A[k - 1][y]
      <4>1. k - 1 > L - y
        BY <2>1
      <4>2. A[(k - 1) + 1][y] = A[k - 1][y]
        BY <1>5, <3>1, <4>1
      <4> QED BY <3>1, <4>2
    <3>3. A[k] \in T /\ A[k - 1] \in T
      BY <1>4, <3>1
    <3>4. next[A[k]][x] = next[A[k - 1]][x]
      BY <3>2, <3>3 DEF Causal
    <3>5. A[k + 1] = next[A[k]]
      BY <1>4
    <3>6. A[(k - 1) + 1] = next[A[k - 1]]
      BY <1>4, <3>1
    <3> QED BY <3>1, <3>4, <3>5, <3>6
  <2> QED BY <2>1
<1>6. 0 .. L \subseteq P
  <2> HIDE DEF P
  <2> QED BY <1>5, DownTo
<1> DEFINE f == A[L + 1]
<1>7. f \in T /\ next[f] = A[(L + 1) + 1] /\ A[(L + 1) + 1] \in T
  BY <1>4
<1>8. ASSUME NEW x \in 0 .. L PROVE next[f][x] = f[x]
  <2>1. L + 1 \in Nat /\ L + 1 > L - x
    OBVIOUS
  <2>2. A[(L + 1) + 1][x] = A[L + 1][x]
    BY <1>6, <2>1
  <2> QED BY <1>7, <2>2
<1>9. next[f] = f
  <2>1. next[f] \in [0 .. L -> V] /\ f \in [0 .. L -> V]
    BY <1>7
  <2> HIDE DEF f
  <2> QED BY <1>8, <2>1
<1> QED BY <1>7, <1>9
=============================================================================
