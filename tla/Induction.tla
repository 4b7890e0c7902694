------------------------------- MODULE Induction -------------------------------
(***************************************************************************)
(* Induction over the numbers as a fact about sets: a set that holds 0 and *)
(* the successor of what it holds, holds every number.  With it the values *)
(* of a recursive function are described for all its arguments.            *)
(***************************************************************************)
EXTENDS Integers, FiniteSets, Functions, FiniteSetTheorems, TLAPS

(* The order of the numbers, as the relation that the library is about *)
LEMMA LessThan ==
    ASSUME NEW m \in Nat, NEW n \in Nat, m < n
    PROVE  <<m, n>> \in OpToRel(<, Nat)
  BY DEF OpToRel

(* A number outside of such a set would have a least one like it, which is  *)
(* not 0, and whose predecessor is in the set.                              *)
THEOREM SetInduction ==
    ASSUME NEW S, 0 \in S, \A n \in Nat : n \in S => n + 1 \in S
    PROVE  Nat \subseteq S
  <1> SUFFICES ASSUME NEW z \in Nat, z \notin S PROVE FALSE
    OBVIOUS
  <1> DEFINE R == OpToRel(<, Nat)
             T == {n \in Nat : n \notin S}
  <1>1. IsWellFoundedOn(R, Nat)
    BY NatLessThanWellFounded
  <1>2. T \subseteq Nat /\ T # {}
    OBVIOUS
  <1>3. \A m, n \in Nat : m < n => <<m, n>> \in R
    BY LessThan
  <1> HIDE DEF R, T
  <1>4. PICK x \in T : \A y \in T : <<y, x>> \notin R
    BY <1>1, <1>2, WFMin
  <1> USE DEF T
  <1>5. x \in Nat \ {0}
    OBVIOUS
  <1>6. x - 1 \in Nat /\ x - 1 < x /\ x - 1 + 1 = x
    BY <1>5
  <1>7. x - 1 \in T
    BY <1>5, <1>6
  <1>8. <<x - 1, x>> \in R
    BY <1>3, <1>5, <1>6
  <1> QED
    BY <1>4, <1>7, <1>8

(* g[0 .. n] is what Step makes of v0, one index after the other *)
Computes(g, v0, Step, n) == g[0] = v0 /\ \A i \in 1 .. n : g[i] = Step[<<g[i - 1], i>>]

(* There is such a g *)
LEMMA Recursion ==
    ASSUME NEW V, NEW v0 \in V, NEW Step \in [V \X Nat -> V], NEW n \in Nat
    PROVE  \E g \in [0 .. n -> V] : Computes(g, v0, Step, n)
  <1> DEFINE S == {k \in Nat : \E g \in [0 .. k -> V] : Computes(g, v0, Step, k)}
  <1> USE DEF Computes
  <1>1. 0 \in S
    <2>1. [i \in 0 .. 0 |-> v0] \in [0 .. 0 -> V] /\ Computes([i \in 0 .. 0 |-> v0], v0, Step, 0)
      OBVIOUS
    <2> QED
      BY <2>1
  <1>2. ASSUME NEW k \in Nat, k \in S PROVE k + 1 \in S
    <2>1. PICK g \in [0 .. k -> V] : Computes(g, v0, Step, k)
      BY <1>2
    <2> DEFINE v == Step[<<g[k], k + 1>>]
               h == [i \in 0 .. k + 1 |-> IF i = k + 1 THEN v ELSE g[i]]
    <2>2. v \in V
      OBVIOUS
    <2>3. h \in [0 .. k + 1 -> V]
      BY <2>2
    <2>4. h[0] = v0
      BY <2>1
    <2>5. ASSUME NEW i \in 1 .. k + 1 PROVE h[i] = Step[<<h[i - 1], i>>]
      <3>1. i - 1 \in 0 .. k /\ h[i - 1] = g[i - 1]
        OBVIOUS
      <3>2. CASE i = k + 1
        <4>1. h[i] = v /\ i - 1 = k
          BY <3>2
        <4> QED
          BY <3>1, <3>2, <4>1, Zenon
      <3>3. CASE i \in 1 .. k
        BY <2>1, <3>1, <3>3
      <3> QED
        BY <3>2, <3>3
    <2>6. Computes(h, v0, Step, k + 1)
      BY <2>4, <2>5
    <2> HIDE DEF h, Computes
    <2>7. \E f \in [0 .. k + 1 -> V] : Computes(f, v0, Step, k + 1)
      BY <2>3, <2>6
    <2> QED
      BY <2>7
  <1> HIDE DEF S
  <1>3. Nat \subseteq S
    BY <1>1, <1>2, SetInduction
  <1> QED
    BY <1>3 DEF S

(* ... and there is one on all numbers *)
ComputesAll(g, v0, Step) ==
    g[0] = v0 /\ \A i \in Nat \ {0} : g[i] = Step[<<g[i - 1], i>>]

LEMMA RecursionOnNat ==
    ASSUME NEW V, NEW v0 \in V, NEW Step \in [V \X Nat -> V]
    PROVE  \E g \in [Nat -> V] : ComputesAll(g, v0, Step)
  <1> DEFINE Upto(n) == CHOOSE g : g \in [0 .. n -> V] /\ Computes(g, v0, Step, n)
             G == [n \in Nat |-> Upto(n)[n]]
  <1>1. ASSUME NEW n \in Nat
        PROVE  Upto(n) \in [0 .. n -> V] /\ Computes(Upto(n), v0, Step, n)
    <2>1. \E g : g \in [0 .. n -> V] /\ Computes(g, v0, Step, n)
      BY Recursion
    <2> QED
      BY <2>1
  <1> HIDE DEF Upto
  <1>2. ASSUME NEW m \in Nat
        PROVE  \A n \in Nat : m <= n => Upto(n)[m] = Upto(m)[m]
    <2> DEFINE S == {k \in Nat : k <= m => \A n \in Nat : m <= n => Upto(n)[k] = Upto(m)[k]}
    <2>1. 0 \in S
      BY <1>1 DEF Computes
    <2>2. ASSUME NEW k \in Nat, k \in S PROVE k + 1 \in S
      <3> SUFFICES ASSUME k + 1 <= m, NEW n \in Nat, m <= n
                   PROVE  Upto(n)[k + 1] = Upto(m)[k + 1]
        OBVIOUS
      <3>1. Upto(n)[k] = Upto(m)[k]
        BY <2>2
      <3>2. k + 1 \in 1 .. n /\ k + 1 \in 1 .. m /\ (k + 1) - 1 = k
        OBVIOUS
      <3>3. Upto(n)[k + 1] = Step[<<Upto(n)[k], k + 1>>]
        BY <1>1, <3>2 DEF Computes
      <3>4. Upto(m)[k + 1] = Step[<<Upto(m)[k], k + 1>>]
        BY <1>1, <3>2 DEF Computes
      <3> QED
        BY <3>1, <3>3, <3>4
    <2> HIDE DEF S
    <2>3. m \in S
      BY <2>1, <2>2, SetInduction
    <2> QED
      BY <2>3 DEF S
  <1>3. G \in [Nat -> V]
    BY <1>1
  <1>4. G[0] = v0
    BY <1>1 DEF Computes
  <1>5. ASSUME NEW i \in Nat \ {0} PROVE G[i] = Step[<<G[i - 1], i>>]
    <2>1. i - 1 \in Nat /\ i - 1 <= i /\ i \in 1 .. i
      OBVIOUS
    <2>2. Upto(i)[i] = Step[<<Upto(i)[i - 1], i>>]
      BY <1>1, <2>1 DEF Computes
    <2>3. Upto(i)[i - 1] = Upto(i - 1)[i - 1]
      BY <1>2, <2>1
    <2>4. G[i] = Upto(i)[i] /\ G[i - 1] = Upto(i - 1)[i - 1]
      BY <2>1
    <2> QED
      BY <2>2, <2>3, <2>4
  <1> HIDE DEF G
  <1>6. ComputesAll(G, v0, Step)
    BY <1>4, <1>5 DEF ComputesAll
  <1> QED
    BY <1>3, <1>6

-----------------------------------------------------------------------------
(* Sums over finite sets, as FoldFunction computes them *)

First(s) == CHOOSE x \in s : TRUE
Sums(sum, f, S) ==
    \A s \in SUBSET S : sum[s] = IF s = {} THEN 0 ELSE f[First(s)] + sum[s \ {First(s)}]

(* A set without its first element *)
LEMMA WithoutFirst ==
    ASSUME NEW S, IsFiniteSet(S), NEW s \in SUBSET S, s # {}
    PROVE  /\ First(s) \in s /\ s \ {First(s)} \in SUBSET S
           /\ IsFiniteSet(s) /\ Cardinality(s) \in Nat \ {0}
           /\ Cardinality(s \ {First(s)}) = Cardinality(s) - 1
  <1>1. First(s) \in s
    BY DEF First
  <1>2. IsFiniteSet(s) /\ Cardinality(s) \in Nat /\ Cardinality(s) # 0
    BY FS_Subset, FS_CardinalityType, FS_EmptySet
  <1> QED
    BY <1>1, <1>2, FS_RemoveElement

(* There is a function that sums up every subset *)
LEMMA SumsExist ==
    ASSUME NEW S, IsFiniteSet(S), NEW f \in [S -> Int]
    PROVE  \E sum \in [SUBSET S -> Int] : Sums(sum, f, S)
  <1> DEFINE Upto(sum, n) ==
                \A s \in SUBSET S : Cardinality(s) <= n =>
                    sum[s] = IF s = {} THEN 0 ELSE f[First(s)] + sum[s \ {First(s)}]
             N == {n \in Nat : \E sum \in [SUBSET S -> Int] : Upto(sum, n)}
  <1>0. \A s \in SUBSET S : Cardinality(s) \in Nat
    BY FS_Subset, FS_CardinalityType
  <1>1. 0 \in N
    <2> DEFINE zero == [s \in SUBSET S |-> 0]
    <2>1. zero \in [SUBSET S -> Int]
      OBVIOUS
    <2>2. ASSUME NEW s \in SUBSET S, Cardinality(s) <= 0 PROVE s = {}
      <3> SUFFICES ASSUME s # {} PROVE FALSE
        OBVIOUS
      <3>1. Cardinality(s) \in Nat \ {0}
        BY WithoutFirst
      <3> QED
        BY <2>2, <3>1
    <2>3. Upto(zero, 0)
      BY <2>2
    <2> HIDE DEF Upto, zero
    <2> QED
      BY <2>1, <2>3
  <1>2. ASSUME NEW n \in Nat, n \in N PROVE n + 1 \in N
    <2>1. PICK sum \in [SUBSET S -> Int] : Upto(sum, n)
      BY <1>2
    <2> DEFINE Value(s) == f[First(s)] + sum[s \ {First(s)}]
               more == [s \in SUBSET S |-> IF Cardinality(s) = n + 1 THEN Value(s) ELSE sum[s]]
    <2>2. ASSUME NEW s \in SUBSET S, s # {} PROVE Value(s) \in Int
      <3>1. First(s) \in S /\ s \ {First(s)} \in SUBSET S
        BY <2>2, WithoutFirst
      <3>2. f[First(s)] \in Int /\ sum[s \ {First(s)}] \in Int
        BY <3>1
      <3> QED
        BY <3>2
    <2>3. ASSUME NEW s \in SUBSET S, Cardinality(s) = n + 1 PROVE s # {}
      <3>1. Cardinality({}) = 0 /\ 0 # n + 1
        BY FS_EmptySet
      <3> QED
        BY <2>3, <3>1
    <2>4. more \in [SUBSET S -> Int]
      BY <2>2, <2>3
    <2>5. ASSUME NEW s \in SUBSET S, Cardinality(s) <= n + 1
          PROVE  more[s] = IF s = {} THEN 0 ELSE f[First(s)] + more[s \ {First(s)}]
      <3>1. CASE s = {}
        <4>1. Cardinality(s) = 0 /\ 0 <= n /\ 0 # n + 1
          BY <3>1, FS_EmptySet
        <4>2. more[s] = sum[s]
          BY <4>1
        <4>3. sum[s] = 0
          BY <2>1, <3>1, <4>1
        <4> QED
          BY <3>1, <4>2, <4>3
      <3>2. CASE s # {}
        <4> DEFINE t == s \ {First(s)}
        <4>1. t \in SUBSET S /\ Cardinality(t) = Cardinality(s) - 1 /\ Cardinality(s) \in Nat
          BY <3>2, WithoutFirst
        <4>2. more[t] = sum[t]
          <5>1. Cardinality(t) # n + 1
            BY <2>5, <4>1
          <5> QED
            BY <4>1, <5>1
        <4>3. CASE Cardinality(s) = n + 1
          BY <3>2, <4>2, <4>3
        <4>4. CASE Cardinality(s) <= n
          <5>1. sum[s] = f[First(s)] + sum[t]
            BY <2>1, <3>2, <4>4
          <5>2. Cardinality(s) # n + 1
            BY <4>1, <4>4
          <5>3. more[s] = sum[s]
            BY <5>2
          <5> QED
            BY <3>2, <4>2, <5>1, <5>3
        <4> QED
          BY <2>5, <4>1, <4>3, <4>4
      <3> QED
        BY <3>1, <3>2
    <2>6. Upto(more, n + 1)
      BY <2>5
    <2> HIDE DEF Upto, more
    <2> QED
      BY <2>4, <2>6
  <1> HIDE DEF N
  <1>3. Cardinality(S) \in N
    BY <1>0, <1>1, <1>2, SetInduction
  <1>4. PICK sum \in [SUBSET S -> Int] : Upto(sum, Cardinality(S))
    BY <1>3 DEF N
  <1>5. \A s \in SUBSET S : Cardinality(s) <= Cardinality(S)
    BY FS_Subset
  <1> QED
    BY <1>4, <1>5 DEF Sums

(* FoldFunction with + is such a sum *)
LEMMA FoldSums ==
    ASSUME NEW S, IsFiniteSet(S), NEW f \in [S -> Int]
    PROVE  \E sum : Sums(sum, f, S) /\ FoldFunction(LAMBDA a, b : a + b, 0, f) = sum[S]
  <1> DEFINE Value(g, s) == IF s = {} THEN 0
                            ELSE LET x == CHOOSE x \in s : TRUE IN f[x] + g[s \ {x}]
             Equation(g) == g = [s \in SUBSET S |-> Value(g, s)]
             iter == CHOOSE g : Equation(g)
  <1>1. PICK sum \in [SUBSET S -> Int] : Sums(sum, f, S)
    BY SumsExist
  <1>2. \A g, s : Value(g, s) = IF s = {} THEN 0 ELSE f[First(s)] + g[s \ {First(s)}]
    BY DEF First
  <1>3. FoldFunction(LAMBDA a, b : a + b, 0, f) = iter[S]
    BY DEF FoldFunction, FoldFunctionOnSet, MapThenFoldSet
  <1> HIDE DEF Value
  <1>4. Equation(sum)
    BY <1>1, <1>2 DEF Sums
  <1>5. Equation(iter)
    BY <1>4
  <1> HIDE DEF iter
  <1>6. Sums(iter, f, S)
    BY <1>2, <1>5 DEF Sums
  <1> QED
    BY <1>3, <1>6

LEMMA SumType ==
    ASSUME NEW S, IsFiniteSet(S), NEW f \in [S -> Int], NEW sum, Sums(sum, f, S)
    PROVE  \A s \in SUBSET S : sum[s] \in Int
  <1> DEFINE N == {n \in Nat : \A s \in SUBSET S : Cardinality(s) = n => sum[s] \in Int}
  <1>0. \A s \in SUBSET S : Cardinality(s) \in Nat
    BY FS_Subset, FS_CardinalityType
  <1>1. 0 \in N
    <2>1. ASSUME NEW s \in SUBSET S, Cardinality(s) = 0 PROVE sum[s] \in Int
      <3>1. s = {}
        BY <2>1, FS_Subset, FS_EmptySet
      <3>2. sum[s] = 0
        BY <3>1 DEF Sums
      <3> QED
        BY <3>2
    <2> QED
      BY <2>1
  <1>2. ASSUME NEW n \in Nat, n \in N PROVE n + 1 \in N
    <2>1. ASSUME NEW s \in SUBSET S, Cardinality(s) = n + 1 PROVE sum[s] \in Int
      <3>1. s # {}
        BY <2>1, FS_EmptySet
      <3>2. First(s) \in S /\ s \ {First(s)} \in SUBSET S /\ Cardinality(s \ {First(s)}) = n
        BY <2>1, <3>1, WithoutFirst
      <3>3. sum[s \ {First(s)}] \in Int /\ f[First(s)] \in Int
        BY <1>2, <3>2
      <3>4. sum[s] = f[First(s)] + sum[s \ {First(s)}]
        BY <3>1 DEF Sums
      <3> QED
        BY <3>3, <3>4
    <2> QED
      BY <2>1
  <1> HIDE DEF N
  <1>3. Nat \subseteq N
    BY <1>1, <1>2, SetInduction
  <1> QED
    BY <1>0, <1>3 DEF N

(* A sum lies between the bounds of its terms that are not 0, times their  *)
(* number.                                                                 *)
NotZero(f, s) == {i \in s : f[i] # 0}

LEMMA OneMore ==
    ASSUME NEW c \in Nat, NEW b \in Int
    PROVE  b * (c + 1) = b * c + b
  OBVIOUS

LEMMA SumBounds ==
    ASSUME NEW S, IsFiniteSet(S), NEW f \in [S -> Int], NEW lo \in Int, NEW hi \in Int,
           \A i \in S : f[i] # 0 => lo <= f[i] /\ f[i] <= hi,
           NEW sum, Sums(sum, f, S)
    PROVE  \A s \in SUBSET S :
              /\ lo * Cardinality(NotZero(f, s)) <= sum[s]
              /\ sum[s] <= hi * Cardinality(NotZero(f, s))
  <1> DEFINE C(s) == Cardinality(NotZero(f, s))
             Bounded(s) == lo * C(s) <= sum[s] /\ sum[s] <= hi * C(s)
             N == {n \in Nat : \A s \in SUBSET S : Cardinality(s) = n => Bounded(s)}
  <1>0. \A s \in SUBSET S : Cardinality(s) \in Nat /\ C(s) \in Nat
    <2>1. \A s \in SUBSET S : NotZero(f, s) \in SUBSET S
      BY DEF NotZero
    <2> QED
      BY <2>1, FS_Subset, FS_CardinalityType
  <1>1. 0 \in N
    <2>1. ASSUME NEW s \in SUBSET S, Cardinality(s) = 0 PROVE Bounded(s)
      <3>1. s = {}
        BY <2>1, FS_Subset, FS_EmptySet
      <3>2. sum[s] = 0
        BY <3>1 DEF Sums
      <3>3. C(s) = 0
        BY <3>1, FS_EmptySet DEF NotZero
      <3> QED
        BY <3>2, <3>3
    <2> QED
      BY <2>1
  <1>2. ASSUME NEW n \in Nat, n \in N PROVE n + 1 \in N
    <2>1. ASSUME NEW s \in SUBSET S, Cardinality(s) = n + 1 PROVE Bounded(s)
      <3> DEFINE x == First(s)
                 t == s \ {x}
      <3>1. s # {}
        BY <2>1, FS_EmptySet
      <3>2. x \in s /\ x \in S /\ t \in SUBSET S /\ Cardinality(t) = n
        BY <2>1, <3>1, WithoutFirst
      <3>3. sum[s] = f[x] + sum[t]
        BY <3>1 DEF Sums
      <3>4. Bounded(t) /\ sum[t] \in Int
        BY <1>2, <3>2, SumType
      <3>5. IsFiniteSet(NotZero(f, t)) /\ x \notin NotZero(f, t)
        <4>1. NotZero(f, t) \in SUBSET S /\ x \notin t
          BY <3>2 DEF NotZero
        <4> QED
          BY <4>1, FS_Subset DEF NotZero
      <3> HIDE DEF x, t
      <3>6. CASE f[x] = 0
        <4>1. NotZero(f, s) = NotZero(f, t)
          BY <3>2, <3>6 DEF NotZero, t
        <4>2. sum[s] = sum[t]
          BY <3>3, <3>4, <3>6
        <4> QED
          BY <3>4, <4>1, <4>2
      <3>7. CASE f[x] # 0
        <4>1. NotZero(f, s) = NotZero(f, t) \cup {x}
          BY <3>2, <3>7 DEF NotZero, t
        <4>2. C(s) = C(t) + 1
          BY <3>5, <4>1, FS_AddElement
        <4>3. C(t) \in Nat /\ f[x] \in Int /\ lo <= f[x] /\ f[x] <= hi
          BY <1>0, <3>2, <3>7
        <4>4. lo * C(s) = lo * C(t) + lo /\ hi * C(s) = hi * C(t) + hi
          BY <4>2, <4>3, OneMore
        <4>5. lo * C(t) \in Int /\ hi * C(t) \in Int
          BY <4>3
        <4> HIDE DEF C
        <4> QED
          BY <3>3, <3>4, <4>3, <4>4, <4>5
      <3> QED
        BY <3>6, <3>7
    <2> QED
      BY <2>1
  <1> HIDE DEF N
  <1>3. Nat \subseteq N
    BY <1>1, <1>2, SetInduction
  <1> QED
    BY <1>0, <1>3 DEF N
===============================================================================
