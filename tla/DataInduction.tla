---------------------------- MODULE DataInduction ----------------------------
(***************************************************************************)
(* Induction and recursion over data, for the proofs about folds and sums. *)
(* The principles are stated with sets and functions in place of operator  *)
(* parameters, so that the provers can apply them: a predicate is the set  *)
(* of the numbers that satisfy it, a recursive step is a function.         *)
(***************************************************************************)
EXTENDS Integers, FiniteSets, FiniteSetsExt, FiniteSetTheorems, NaturalsInduction,
        WellFoundedInduction, TLAPS

\* A non-empty set of natural numbers has a least element.
LEMMA LeastElement ==
    ASSUME NEW T, T \subseteq Nat, T # {}
    PROVE  \E x \in T : \A y \in T : x <= y
<1> DEFINE R == OpToRel(<, Nat)
<1>1. \A y, x \in Nat : y < x => <<y, x>> \in R
  BY DEF OpToRel
<1>2. IsWellFoundedOn(R, Nat)
  BY NatLessThanWellFounded
<1> HIDE DEF R
<1>3. PICK x \in T : \A y \in T : ~(<<y, x>> \in R)
  BY <1>2, WFMin
<1>4. \A y \in T : ~(y < x) /\ y \in Nat /\ x \in Nat
  BY <1>1, <1>3
<1> QED
  BY <1>4

\* Induction on the numbers up to n.
LEMMA UpTo ==
    ASSUME NEW n \in Nat, NEW T, 0 \in T, \A k \in 1..n : k - 1 \in T => k \in T
    PROVE  \A k \in 0..n : k \in T
<1> DEFINE Bad == {k \in 0..n : k \notin T}
<1> SUFFICES ASSUME Bad # {} PROVE FALSE
  OBVIOUS
<1>1. PICK k \in Bad : \A j \in Bad : k <= j
  <2>1. Bad \subseteq Nat
    OBVIOUS
  <2> HIDE DEF Bad
  <2> QED BY <2>1, LeastElement
<1>2. k \in 1..n /\ k - 1 \notin Bad /\ k - 1 \in 0..n
  BY <1>1
<1> QED
  BY <1>1, <1>2

\* D is a step for each index in I that stays in V; f takes such steps from b on.
StaysIn(D, I, V) == \A k \in I : \A v \in V : D[<<k, v>>] \in V
Iterates(f, n, b, D) == f[0] = b /\ \A k \in 1..n : f[k] = D[<<k, f[k - 1]>>]

\* Recursion up to n: a sequence of values in which each follows from the last.
LEMMA BoundedRecursion ==
    ASSUME NEW n \in Nat, NEW V, NEW b \in V, NEW D, StaysIn(D, 1..n, V)
    PROVE  \E f \in [0..n -> V] : Iterates(f, n, b, D)
<1> USE DEF StaysIn, Iterates
<1> DEFINE Solves(f, m) == f[0] = b /\ \A k \in 1..m : f[k] = D[<<k, f[k - 1]>>]
           T == {m \in 0..n : \E f \in [0..m -> V] : Solves(f, m)}
<1>1. 0 \in T
  <2> DEFINE z == [k \in 0..0 |-> b]
  <2>1. z \in [0..0 -> V] /\ Solves(z, 0)
    OBVIOUS
  <2> HIDE DEF z, Solves
  <2> QED BY <2>1
<1>2. ASSUME NEW m \in 1..n, m - 1 \in T PROVE m \in T
  <2>1. PICK f \in [0..(m - 1) -> V] : Solves(f, m - 1)
    BY <1>2
  <2> DEFINE g == [k \in 0..m |-> IF k = m THEN D[<<m, f[m - 1]>>] ELSE f[k]]
  <2>2. f[m - 1] \in V /\ D[<<m, f[m - 1]>>] \in V
    <3>1. f[m - 1] \in V
      BY <2>1
    <3> QED BY <3>1
  <2>3. g \in [0..m -> V]
    BY <2>1, <2>2
  <2>4. ASSUME NEW k \in 1..m PROVE g[k] = D[<<k, g[k - 1]>>]
    <3>1. CASE k = m
      <4>1. g[m] = D[<<m, f[m - 1]>>] /\ g[m - 1] = f[m - 1]
        OBVIOUS
      <4> HIDE DEF g
      <4> QED BY <3>1, <4>1
    <3>2. CASE k # m
      <4>1. k \in 1..(m - 1) /\ g[k] = f[k] /\ g[k - 1] = f[k - 1]
        BY <3>2
      <4> QED BY <4>1, <2>1
    <3> QED BY <3>1, <3>2
  <2>5. g[0] = b
    BY <2>1
  <2> HIDE DEF g
  <2>6. Solves(g, m)
    BY <2>4, <2>5
  <2> HIDE DEF Solves
  <2> QED BY <2>3, <2>6
<1> HIDE DEF T, Solves
<1>3. n \in T
  BY <1>1, <1>2, UpTo
<1> QED
  BY <1>3 DEF T, Solves

-----------------------------------------------------------------------------
(* Folds over finite sets.                                                 *)

\* ch takes an element out of every non-empty subset of S.
Picks(ch, S) == \A s \in SUBSET S : s # {} => ch[s] \in s

\* h folds D over the subsets of S, in the order of ch.
Folds(h, S, b, D, ch) ==
    \A s \in SUBSET S : h[s] = IF s = {} THEN b ELSE D[<<ch[s], h[s \ {ch[s]}]>>]

\* Taking out the element that ch picks makes a subset smaller by one.
LEMMA PickShrinks ==
    ASSUME NEW S, IsFiniteSet(S), NEW ch, Picks(ch, S), NEW s \in SUBSET S
    PROVE  /\ IsFiniteSet(s) /\ Cardinality(s) \in Nat /\ Cardinality(s) <= Cardinality(S)
           /\ s # {} => /\ ch[s] \in s /\ s \ {ch[s]} \in SUBSET S
                        /\ Cardinality(s) # 0
                        /\ Cardinality(s \ {ch[s]}) = Cardinality(s) - 1
  BY FS_Subset, FS_CardinalityType, FS_RemoveElement, FS_EmptySet DEF Picks

\* Induction over the subsets of a finite set.
LEMMA SubsetInduction ==
    ASSUME NEW S, IsFiniteSet(S), NEW ch, Picks(ch, S),
           NEW T, {} \in T, \A s \in SUBSET S : s # {} /\ s \ {ch[s]} \in T => s \in T
    PROVE  \A s \in SUBSET S : s \in T
<1> DEFINE n == Cardinality(S)
           Sizes == {k \in 0..n : \A s \in SUBSET S : Cardinality(s) <= k => s \in T}
<1>1. n \in Nat
  BY FS_CardinalityType
<1>2. 0 \in Sizes
  <2>1. ASSUME NEW s \in SUBSET S
        PROVE  Cardinality(s) \in Nat /\ (s # {} => Cardinality(s) # 0)
    BY PickShrinks
  <2>2. ASSUME NEW s \in SUBSET S, Cardinality(s) <= 0 PROVE s \in T
    <3>1. Cardinality(s) \in Nat /\ (s # {} => Cardinality(s) # 0)
      BY <2>1
    <3>2. s = {}
      BY <2>2, <3>1
    <3> QED BY <3>2
  <2> QED BY <1>1, <2>2
<1>3. ASSUME NEW k \in 1..n, k - 1 \in Sizes PROVE k \in Sizes
  <2> SUFFICES ASSUME NEW s \in SUBSET S, Cardinality(s) <= k, s # {} PROVE s \in T
    OBVIOUS
  <2>1. s \ {ch[s]} \in SUBSET S /\ Cardinality(s \ {ch[s]}) <= k - 1
    BY PickShrinks
  <2> QED BY <1>3, <2>1
<1>4. n \in Sizes
  <2> HIDE DEF Sizes, n
  <2>1. \A k \in 0..n : k \in Sizes
    BY <1>1, <1>2, <1>3, UpTo
  <2> QED BY <1>1, <2>1
<1> QED
  BY <1>4, PickShrinks

\* The function that a fold over the subsets of S iterates exists.
LEMMA FoldExists ==
    ASSUME NEW S, IsFiniteSet(S), NEW W, NEW b \in W, NEW D, StaysIn(D, S, W),
           NEW ch, Picks(ch, S)
    PROVE  \E h \in [SUBSET S -> W] : Folds(h, S, b, D, ch)
<1> DEFINE n == Cardinality(S)
           V == [SUBSET S -> W]
           Step(F) == [s \in SUBSET S |-> IF s = {} THEN b ELSE D[<<ch[s], F[s \ {ch[s]}]>>]]
           E == [p \in (1..(n + 1)) \X V |-> Step(p[2])]
           start == [s \in SUBSET S |-> b]
<1>1. n \in Nat
  BY FS_CardinalityType
<1>2. ASSUME NEW F \in V PROVE Step(F) \in V
  <2> SUFFICES ASSUME NEW s \in SUBSET S, s # {}
               PROVE  D[<<ch[s], F[s \ {ch[s]}]>>] \in W
    OBVIOUS
  <2>1. ch[s] \in S /\ F[s \ {ch[s]}] \in W
    BY DEF Picks
  <2> QED BY <2>1 DEF StaysIn
<1>3. E \in [(1..(n + 1)) \X V -> V]
  <2> HIDE DEF Step, V
  <2> QED BY <1>2
<1>4. PICK F \in [0..(n + 1) -> V] :
        F[0] = start /\ \A k \in 1..(n + 1) : F[k] = E[<<k, F[k - 1]>>]
  <2>1. start \in V
    OBVIOUS
  <2> DEFINE m == n + 1
  <2> HIDE DEF E, V, n
  <2>2. m \in Nat /\ StaysIn(E, 1..m, V)
    <3>1. m \in Nat /\ E \in [(1..m) \X V -> V]
      BY <1>1, <1>3
    <3> HIDE DEF m
    <3> QED BY <3>1 DEF StaysIn
  <2> HIDE DEF start, Step, m
  <2>3. \E F \in [0..m -> V] : Iterates(F, m, start, E)
    BY <2>1, <2>2, BoundedRecursion
  <2> QED BY <2>3 DEF m, Iterates
<1>5. ASSUME NEW k \in 1..(n + 1) PROVE F[k] = Step(F[k - 1])
  <2> HIDE DEF Step, V, n
  <2>1. k - 1 \in 0..(n + 1)
    BY <1>1
  <2>2. F[k - 1] \in V
    BY <1>4, <2>1
  <2>3. F[k] = E[<<k, F[k - 1]>>]
    BY <1>4
  <2> QED BY <2>2, <2>3
<1> DEFINE Settled(k) == \A s \in SUBSET S : Cardinality(s) <= k => F[k][s] = F[k + 1][s]
           T == {k \in 0..n : Settled(k)}
<1>6. \A s \in SUBSET S : Cardinality(s) \in Nat /\ Cardinality(s) <= n
  BY PickShrinks
<1>7. \A s \in SUBSET S : s # {} =>
        /\ s \ {ch[s]} \in SUBSET S
        /\ Cardinality(s) # 0
        /\ Cardinality(s \ {ch[s]}) = Cardinality(s) - 1
  BY PickShrinks
<1>8. ASSUME NEW k \in 1..(n + 1), NEW s \in SUBSET S
      PROVE  F[k][s] = IF s = {} THEN b ELSE D[<<ch[s], F[k - 1][s \ {ch[s]}]>>]
  <2>1. F[k] = Step(F[k - 1])
    BY <1>5
  <2>2. Step(F[k - 1])[s] = IF s = {} THEN b ELSE D[<<ch[s], F[k - 1][s \ {ch[s]}]>>]
    OBVIOUS
  <2> HIDE DEF Step
  <2> QED BY <2>1, <2>2
<1> HIDE DEF Step, E, n
<1>9. 0 \in T
  <2> SUFFICES ASSUME NEW s \in SUBSET S, Cardinality(s) <= 0
               PROVE  F[0][s] = F[1][s]
    BY <1>1
  <2>1. Cardinality(s) \in Nat /\ (s # {} => Cardinality(s) # 0)
    BY <1>6, <1>7
  <2>2. s = {} /\ 1 \in 1..(n + 1)
    BY <1>1, <2>1
  <2>3. F[1][s] = b
    BY <2>2, <1>8
  <2>4. F[0][s] = b
    BY <1>4
  <2> QED BY <2>3, <2>4
<1>10. ASSUME NEW k \in 1..n, k - 1 \in T PROVE k \in T
  <2> SUFFICES ASSUME NEW s \in SUBSET S, Cardinality(s) <= k
               PROVE  F[k][s] = F[k + 1][s]
    OBVIOUS
  <2>1. k \in 1..(n + 1) /\ k + 1 \in 1..(n + 1) /\ (k + 1) - 1 = k /\ (k - 1) + 1 = k
    BY <1>1
  <2>2. CASE s = {}
    BY <2>1, <2>2, <1>8
  <2>3. CASE s # {}
    <3> DEFINE t == s \ {ch[s]}
    <3>1. t \in SUBSET S /\ Cardinality(t) <= k - 1
      BY <2>3, <1>6, <1>7
    <3>2. F[k - 1][t] = F[k][t]
      BY <3>1, <1>10, <2>1
    <3>3. F[k][s] = D[<<ch[s], F[k - 1][t]>>] /\ F[k + 1][s] = D[<<ch[s], F[k][t]>>]
      <4>1. F[k][s] = D[<<ch[s], F[k - 1][t]>>]
        BY <1>8, <2>1, <2>3
      <4>2. F[k + 1][s] = D[<<ch[s], F[(k + 1) - 1][t]>>]
        BY <1>8, <2>1, <2>3
      <4> QED BY <4>1, <4>2, <2>1
    <3> QED BY <3>2, <3>3
  <2> QED BY <2>2, <2>3
<1>11. \A k \in 0..n : k \in T
  <2> HIDE DEF T
  <2> QED BY <1>1, <1>9, <1>10, UpTo
<1>12. ASSUME NEW s \in SUBSET S
       PROVE  F[n][s] = IF s = {} THEN b ELSE D[<<ch[s], F[n][s \ {ch[s]}]>>]
  <2>0. Cardinality(s) <= n
    BY <1>6
  <2>1. n \in 0..n /\ n + 1 \in 1..(n + 1) /\ (n + 1) - 1 = n
    BY <1>1
  <2>2. F[n][s] = F[n + 1][s]
    BY <2>0, <2>1, <1>11
  <2>3. F[n + 1][s] = IF s = {} THEN b ELSE D[<<ch[s], F[(n + 1) - 1][s \ {ch[s]}]>>]
    BY <2>1, <1>8
  <2> QED BY <2>1, <2>2, <2>3
<1>13. F[n] \in [SUBSET S -> W]
  <2>1. n \in 0..(n + 1)
    BY <1>1
  <2> QED BY <2>1, <1>4
<1> QED
  BY <1>12, <1>13 DEF Folds

-----------------------------------------------------------------------------
(* Sums.                                                                   *)

\* The element that folds of the community modules take out of s.
AnyOf(s) == CHOOSE x \in s : TRUE

\* That element is in s.
LEMMA AnyOfIn == ASSUME NEW s, s # {} PROVE AnyOf(s) \in s
  BY DEF AnyOf

\* h[s] is the sum of f over s, for the subsets s of S.
Sums(h, f, S) ==
    \A s \in SUBSET S : h[s] = IF s = {} THEN 0 ELSE f[AnyOf(s)] + h[s \ {AnyOf(s)}]

\* Induction along the order in which a sum is formed.
LEMMA SumInduction ==
    ASSUME NEW S, IsFiniteSet(S),
           NEW T, {} \in T,
           \A s \in SUBSET S : s # {} /\ s \ {AnyOf(s)} \in T => s \in T
    PROVE  \A s \in SUBSET S : s \in T
<1> DEFINE ch == [s \in SUBSET S |-> AnyOf(s)]
<1>1. Picks(ch, S)
  BY DEF Picks, AnyOf
<1>2. \A s \in SUBSET S : ch[s] = AnyOf(s)
  OBVIOUS
<1> HIDE DEF ch
<1> QED
  BY <1>1, <1>2, SubsetInduction

\* The sum of a function over its finite domain is formed element by element.
LEMMA SumIterates ==
    ASSUME NEW S, IsFiniteSet(S), NEW f \in [S -> Int]
    PROVE  \E h \in [SUBSET S -> Int] : Sums(h, f, S) /\ SumFunction(f) = h[S]
<1> DEFINE ch == [s \in SUBSET S |-> AnyOf(s)]
           D == [p \in S \X Int |-> f[p[1]] + p[2]]
           Solves(h) == h = [s \in SUBSET S |->
                                IF s = {} THEN 0 ELSE f[AnyOf(s)] + h[s \ {AnyOf(s)}]]
           sum == CHOOSE h : Solves(h)
<1>1. Picks(ch, S) /\ StaysIn(D, S, Int)
  BY DEF Picks, AnyOf, StaysIn
<1>2. PICK h \in [SUBSET S -> Int] : Folds(h, S, 0, D, ch)
  <2> DEFINE zero == 0
  <2>1. zero \in Int
    OBVIOUS
  <2> HIDE DEF D, ch, zero
  <2>2. \E h \in [SUBSET S -> Int] : Folds(h, S, zero, D, ch)
    BY <1>1, <2>1, FoldExists
  <2> QED BY <2>2 DEF zero
<1>3. ASSUME NEW s \in SUBSET S, s # {}
      PROVE  h[s] = f[AnyOf(s)] + h[s \ {AnyOf(s)}]
  <2>1. ch[s] = AnyOf(s) /\ AnyOf(s) \in S /\ h[s \ {AnyOf(s)}] \in Int
    BY <1>3, AnyOfIn
  <2>2. D[<<AnyOf(s), h[s \ {AnyOf(s)}]>>] = f[AnyOf(s)] + h[s \ {AnyOf(s)}]
    BY <2>1
  <2> HIDE DEF D, ch
  <2> QED BY <1>2, <1>3, <2>1, <2>2 DEF Folds
<1>4. Solves(h)
  BY <1>2, <1>3 DEF Folds
<1>5. Solves(sum)
  <2> HIDE DEF Solves
  <2> QED BY <1>4
<1>6. Sums(sum, f, S)
  <2> HIDE DEF sum
  <2> QED BY <1>5 DEF Sums
<1>7. SumFunction(f) = sum[S]
  BY DEF SumFunction, SumFunctionOnSet, FoldFunctionOnSet, MapThenFoldSet, AnyOf
<1>8. sum \in [SUBSET S -> Int]
  <2> DEFINE T == {s \in SUBSET S : sum[s] \in Int}
  <2> HIDE DEF sum
  <2>1. {} \in T
    <3>1. {} \in SUBSET S /\ sum[{}] = 0
      BY <1>6 DEF Sums
    <3> QED BY <3>1
  <2>2. ASSUME NEW s \in SUBSET S, s # {}, s \ {AnyOf(s)} \in T PROVE s \in T
    <3>1. sum[s] = f[AnyOf(s)] + sum[s \ {AnyOf(s)}]
      BY <1>6, <2>2 DEF Sums
    <3>2. f[AnyOf(s)] \in Int /\ sum[s \ {AnyOf(s)}] \in Int
      BY <2>2, AnyOfIn
    <3> QED BY <3>1, <3>2
  <2> HIDE DEF T
  <2>3. \A s \in SUBSET S : s \in T
    BY <2>1, <2>2, SumInduction
  <2> QED BY <1>5, <2>3 DEF T
<1> HIDE DEF sum
<1> QED
  BY <1>6, <1>7, <1>8

\* Changing one value changes the sum by as much.
LEMMA SumUpdate ==
    ASSUME NEW S, IsFiniteSet(S), NEW f \in [S -> Int], NEW x \in S, NEW v \in Int
    PROVE  /\ SumFunction(f) \in Int
           /\ SumFunction([f EXCEPT ![x] = v]) = SumFunction(f) + v - f[x]
<1> DEFINE g == [f EXCEPT ![x] = v]
<1>1. g \in [S -> Int] /\ f[x] \in Int /\ g[x] = v /\ \A y \in S : f[y] \in Int /\ (y # x => g[y] = f[y])
  OBVIOUS
<1>2. PICK h \in [SUBSET S -> Int] : Sums(h, f, S) /\ SumFunction(f) = h[S]
  BY SumIterates
<1> HIDE DEF g
<1>3. PICK k \in [SUBSET S -> Int] : Sums(k, g, S) /\ SumFunction(g) = k[S]
  BY <1>1, SumIterates
<1> DEFINE Gain(s) == IF x \in s THEN v - f[x] ELSE 0
           T == {s \in SUBSET S : k[s] = h[s] + Gain(s)}
<1>4. {} \in T
  <2>1. {} \in SUBSET S /\ h[{}] = 0 /\ k[{}] = 0 /\ Gain({}) = 0
    BY <1>2, <1>3 DEF Sums
  <2> QED BY <2>1
<1>5. ASSUME NEW s \in SUBSET S, s # {}, s \ {AnyOf(s)} \in T PROVE s \in T
  <2> DEFINE y == AnyOf(s)
             t == s \ {y}
  <2>1. y \in s /\ y \in S /\ t \in SUBSET S /\ h[t] \in Int /\ k[t] \in Int
    BY <1>5, AnyOfIn
  <2>2. h[s] = f[y] + h[t] /\ k[s] = g[y] + k[t]
    BY <1>2, <1>3, <1>5 DEF Sums
  <2>3. k[t] = h[t] + Gain(t)
    BY <1>5
  <2> HIDE DEF y
  <2>4. CASE y = x
    <3>1. Gain(t) = 0 /\ Gain(s) = v - f[x]
      BY <2>1, <2>4
    <3> HIDE DEF Gain, t
    <3>2. k[s] = h[s] + Gain(s)
      BY <2>1, <2>2, <2>3, <2>4, <3>1, <1>1
    <3> QED BY <3>2
  <2>5. CASE y # x
    <3>1. Gain(t) = Gain(s) /\ Gain(s) \in Int
      BY <1>1, <2>1, <2>5
    <3>2. g[y] = f[y] /\ f[y] \in Int
      BY <1>1, <2>1, <2>5
    <3> HIDE DEF Gain, t
    <3>3. k[s] = h[s] + Gain(s)
      BY <2>1, <2>2, <2>3, <3>1, <3>2
    <3> QED BY <3>3
  <2> QED BY <2>4, <2>5
<1>6. S \in T
  <2> HIDE DEF T
  <2>1. \A s \in SUBSET S : s \in T
    BY <1>4, <1>5, SumInduction
  <2> QED BY <2>1
<1>7. SumFunction(g) = SumFunction(f) + (v - f[x]) /\ SumFunction(f) \in Int
  BY <1>2, <1>3, <1>6
<1> QED
  BY <1>1, <1>7 DEF g

\* A sum of natural numbers is one, and none of its terms exceeds it.
LEMMA SumBounds ==
    ASSUME NEW S, IsFiniteSet(S), NEW f \in [S -> Nat]
    PROVE  SumFunction(f) \in Nat /\ \A x \in S : f[x] <= SumFunction(f)
<1>1. PICK h \in [SUBSET S -> Int] : Sums(h, f, S) /\ SumFunction(f) = h[S]
  <2>1. f \in [S -> Int]
    OBVIOUS
  <2> QED BY <2>1, SumIterates
<1> DEFINE T == {s \in SUBSET S : h[s] \in Nat /\ \A x \in s : f[x] <= h[s]}
<1>2. {} \in T
  <2>1. {} \in SUBSET S /\ h[{}] = 0
    BY <1>1 DEF Sums
  <2> QED BY <2>1
<1>3. ASSUME NEW s \in SUBSET S, s # {}, s \ {AnyOf(s)} \in T PROVE s \in T
  <2> DEFINE y == AnyOf(s)
             t == s \ {y}
  <2>1. y \in s /\ t \in SUBSET S /\ f[y] \in Nat
    BY <1>3, AnyOfIn
  <2>2. h[s] = f[y] + h[t]
    BY <1>1, <1>3 DEF Sums
  <2>3. h[t] \in Nat /\ \A x \in t : f[x] <= h[t]
    BY <1>3
  <2> HIDE DEF y
  <2>4. ASSUME NEW x \in s PROVE f[x] <= h[s]
    <3>1. f[x] \in Nat /\ (x = y \/ x \in t)
      OBVIOUS
    <3> HIDE DEF t
    <3> QED BY <2>1, <2>2, <2>3, <3>1
  <2>5. h[s] \in Nat
    BY <2>1, <2>2, <2>3
  <2> QED BY <2>4, <2>5
<1>4. S \in T
  <2> HIDE DEF T
  <2>1. \A s \in SUBSET S : s \in T
    BY <1>2, <1>3, SumInduction
  <2> QED BY <2>1
<1> QED
  BY <1>1, <1>4

\* A sum of zeros is zero.
LEMMA SumOfZeros ==
    ASSUME NEW S, IsFiniteSet(S)
    PROVE  SumFunction([x \in S |-> 0]) = 0
<1> DEFINE f == [x \in S |-> 0]
<1>1. f \in [S -> Int] /\ \A x \in S : f[x] = 0
  OBVIOUS
<1> HIDE DEF f
<1>2. PICK h \in [SUBSET S -> Int] : Sums(h, f, S) /\ SumFunction(f) = h[S]
  BY <1>1, SumIterates
<1> DEFINE T == {s \in SUBSET S : h[s] = 0}
<1>3. {} \in T
  <2>1. {} \in SUBSET S /\ h[{}] = 0
    BY <1>2 DEF Sums
  <2> QED BY <2>1
<1>4. ASSUME NEW s \in SUBSET S, s # {}, s \ {AnyOf(s)} \in T PROVE s \in T
  <2>1. AnyOf(s) \in S
    BY <1>4, AnyOfIn
  <2> QED BY <1>1, <1>2, <1>4, <2>1 DEF Sums
<1>5. S \in T
  <2> HIDE DEF T
  <2>1. \A s \in SUBSET S : s \in T
    BY <1>3, <1>4, SumInduction
  <2> QED BY <2>1
<1> QED
  BY <1>2, <1>5 DEF f

\* Any element may be taken out of a sum first.
AnyFirst(h, f, S) == \A s \in SUBSET S : \A x \in s : h[s] = f[x] + h[s \ {x}]

\* The order in which a sum is formed does not matter.
LEMMA SumRemove ==
    ASSUME NEW S, IsFiniteSet(S), NEW f \in [S -> Int], NEW h \in [SUBSET S -> Int], Sums(h, f, S)
    PROVE  AnyFirst(h, f, S)
<1> DEFINE n == Cardinality(S)
           Any(s) == \A x \in s : h[s] = f[x] + h[s \ {x}]
           Sizes == {k \in 0..n : \A s \in SUBSET S : Cardinality(s) <= k => Any(s)}
<1>1. n \in Nat
  BY FS_CardinalityType
<1>2. ASSUME NEW s \in SUBSET S
      PROVE  /\ IsFiniteSet(s) /\ Cardinality(s) \in Nat /\ Cardinality(s) <= n
             /\ Cardinality(s) = 0 <=> s = {}
             /\ \A x \in s : s \ {x} \in SUBSET S /\ Cardinality(s \ {x}) = Cardinality(s) - 1
  BY FS_Subset, FS_CardinalityType, FS_RemoveElement, FS_EmptySet
<1>3. 0 \in Sizes
  <2>1. ASSUME NEW s \in SUBSET S, Cardinality(s) <= 0 PROVE s = {}
    BY <1>2, <2>1
  <2> QED BY <1>1, <2>1
<1>4. ASSUME NEW k \in 1..n, k - 1 \in Sizes PROVE k \in Sizes
  <2> SUFFICES ASSUME NEW s \in SUBSET S, Cardinality(s) <= k, NEW x \in s
               PROVE  h[s] = f[x] + h[s \ {x}]
    BY <1>1
  <2> DEFINE y == AnyOf(s)
  <2>1. y \in s
    BY AnyOfIn
  <2>2. h[s] = f[y] + h[s \ {y}]
    BY DEF Sums
  <2> HIDE DEF y
  <2>3. CASE y = x
    BY <2>2, <2>3
  <2>4. CASE y # x
    <3> DEFINE sx == s \ {x}
               sy == s \ {y}
               sxy == s \ {x, y}
    <3>1. /\ sx \in SUBSET S /\ sy \in SUBSET S /\ sxy \in SUBSET S
          /\ y \in sx /\ x \in sy /\ sx \ {y} = sxy /\ sy \ {x} = sxy
      BY <2>1, <2>4
    <3>2. Cardinality(sx) <= k - 1 /\ Cardinality(sy) <= k - 1
      <4>1. /\ Cardinality(s) \in Nat /\ Cardinality(sx) = Cardinality(s) - 1
            /\ Cardinality(sy) = Cardinality(s) - 1
        BY <1>2, <2>1
      <4> QED BY <4>1
    <3> HIDE DEF sx, sy, sxy
    <3>3. h[sx] = f[y] + h[sxy] /\ h[sy] = f[x] + h[sxy]
      BY <1>4, <3>1, <3>2
    <3>4. f[x] \in Int /\ f[y] \in Int /\ h[sxy] \in Int /\ h[s] = f[y] + h[sy]
      BY <2>1, <2>2, <3>1 DEF sy
    <3>5. h[s] = f[x] + h[sx]
      BY <3>3, <3>4
    <3> QED BY <3>5 DEF sx
  <2> QED BY <2>3, <2>4
<1>5. n \in Sizes
  <2> HIDE DEF Sizes, n
  <2>1. \A k \in 0..n : k \in Sizes
    BY <1>1, <1>3, <1>4, UpTo
  <2> QED BY <1>1, <2>1
<1> QED
  BY <1>2, <1>5 DEF AnyFirst

\* Taking an element out of a set takes its value out of the sum over the set;
\* val is any function on the values in question.
LEMMA SumWithout ==
    ASSUME NEW S, IsFiniteSet(S), NEW x \in S, NEW val, \A y \in S : val[y] \in Int
    PROVE  /\ SumFunction([y \in S |-> val[y]]) \in Int
           /\ SumFunction([y \in S \ {x} |-> val[y]]) \in Int
           /\ SumFunction([y \in S |-> val[y]]) = SumFunction([y \in S \ {x} |-> val[y]]) + val[x]
<1> DEFINE R == S \ {x}
           f == [y \in S |-> val[y]]
           g == [y \in R |-> val[y]]
<1>1. f \in [S -> Int] /\ g \in [R -> Int] /\ IsFiniteSet(R) /\ R \in SUBSET S /\ f[x] = val[x]
  BY FS_Subset
<1>2. \A y \in R : f[y] = g[y]
  OBVIOUS
<1> HIDE DEF f, g
<1>3. PICK h \in [SUBSET S -> Int] : Sums(h, f, S) /\ SumFunction(f) = h[S]
  BY <1>1, SumIterates
<1>4. PICK k \in [SUBSET R -> Int] : Sums(k, g, R) /\ SumFunction(g) = k[R]
  <2> HIDE DEF R
  <2> QED BY <1>1, SumIterates
<1>5. h[S] = f[x] + h[R]
  <2>1. AnyFirst(h, f, S)
    BY <1>1, <1>3, SumRemove
  <2>2. S \in SUBSET S
    OBVIOUS
  <2> QED BY <2>1, <2>2 DEF AnyFirst
<1> DEFINE T == {s \in SUBSET R : h[s] = k[s]}
<1>6. {} \in T
  <2>1. {} \in SUBSET S /\ {} \in SUBSET R /\ h[{}] = 0 /\ k[{}] = 0
    BY <1>3, <1>4 DEF Sums
  <2> QED BY <2>1
<1>7. ASSUME NEW s \in SUBSET R, s # {}, s \ {AnyOf(s)} \in T PROVE s \in T
  <2>1. AnyOf(s) \in R /\ s \in SUBSET S
    BY <1>7, AnyOfIn
  <2>2. h[s] = f[AnyOf(s)] + h[s \ {AnyOf(s)}] /\ k[s] = g[AnyOf(s)] + k[s \ {AnyOf(s)}]
    BY <1>3, <1>4, <1>7, <2>1 DEF Sums
  <2>3. h[s] = k[s]
    BY <1>2, <1>7, <2>1, <2>2
  <2> QED BY <2>3
<1>8. R \in T
  <2> HIDE DEF T, R
  <2>1. \A s \in SUBSET R : s \in T
    BY <1>1, <1>6, <1>7, SumInduction
  <2> QED BY <2>1
<1>9. /\ SumFunction(f) = SumFunction(g) + val[x]
      /\ SumFunction(f) \in Int /\ SumFunction(g) \in Int
  <2>1. h[R] = k[R] /\ h[R] \in Int /\ h[S] \in Int /\ val[x] \in Int
    BY <1>1, <1>8
  <2> QED BY <1>1, <1>3, <1>4, <1>5, <2>1
<1> QED
  BY <1>9 DEF f, g

-----------------------------------------------------------------------------
(* Folds over sequences, which take the indices out from the last one on.  *)

\* A non-empty set of numbers up to n has a greatest element, and Max is it.
LEMMA MaxPicks ==
    ASSUME NEW n \in Nat, NEW s \in SUBSET (1..n), s # {}
    PROVE  Max(s) \in s /\ \A y \in s : Max(s) >= y
<1> DEFINE T == {n - i : i \in s}
<1>1. T \subseteq Nat /\ T # {}
  <2>1. \A i \in s : i \in 1..n /\ n - i \in Nat
    OBVIOUS
  <2> QED BY <2>1
<1>2. PICK t \in T : \A u \in T : t <= u
  <2> HIDE DEF T
  <2> QED BY <1>1, LeastElement
<1>3. PICK x \in s : t = n - x
  OBVIOUS
<1>4. \A y \in s : x >= y
  <2> SUFFICES ASSUME NEW y \in s PROVE x >= y
    OBVIOUS
  <2>1. n - y \in T /\ x \in Int /\ y \in Int
    OBVIOUS
  <2>2. n - x <= n - y
    BY <1>2, <1>3, <2>1
  <2> QED BY <2>1, <2>2
<1> QED
  BY <1>4 DEF Max

\* The prefixes of the indices: the greatest one comes off first.
LEMMA MaxOfPrefix ==
    ASSUME NEW n \in Nat, NEW k \in 1..n
    PROVE  /\ 1..k \in SUBSET (1..n) /\ 1..k # {} /\ 1..(k - 1) \in SUBSET (1..n)
           /\ Max(1..k) = k /\ (1..k) \ {Max(1..k)} = 1..(k - 1)
<1>1. 1..k \in SUBSET (1..n) /\ k \in 1..k /\ 1..(k - 1) \in SUBSET (1..n)
  OBVIOUS
<1>2. Max(1..k) \in 1..k /\ Max(1..k) >= k
  BY <1>1, MaxPicks
<1>3. Max(1..k) = k
  BY <1>2
<1>4. (1..k) \ {k} = 1..(k - 1)
  OBVIOUS
<1> QED
  BY <1>1, <1>3, <1>4

\* h folds D over the sets of indices up to n, the greatest index last.
LeftFolds(h, n, b, D) ==
    \A s \in SUBSET (1..n) :
        h[s] = IF s = {} THEN b ELSE D[<<Max(s), h[s \ {Max(s)}]>>]

\* The function that FoldLeft iterates over the indices 1..n exists.
LEMMA LeftFoldExists ==
    ASSUME NEW n \in Nat, NEW W, NEW b \in W, NEW D, StaysIn(D, 1..n, W)
    PROVE  \E h \in [SUBSET (1..n) -> W] : LeftFolds(h, n, b, D)
<1> DEFINE S == 1..n
           ch == [s \in SUBSET S |-> Max(s)]
<1>1. IsFiniteSet(S)
  BY FS_Interval
<1>2. Picks(ch, S)
  BY MaxPicks DEF Picks
<1>3. \A s \in SUBSET S : ch[s] = Max(s)
  OBVIOUS
<1> HIDE DEF ch, S
<1>4. StaysIn(D, S, W)
  BY DEF S
<1>5. \E h \in [SUBSET S -> W] : Folds(h, S, b, D, ch)
  BY <1>1, <1>2, <1>4, FoldExists
<1> QED
  BY <1>3, <1>5 DEF Folds, LeftFolds, S

=============================================================================
