------------------------------ MODULE SetLemmas ------------------------------
(***************************************************************************)
(* Facts that the proofs about several components need: induction over a   *)
(* set instead of a predicate, sums and cardinalities of finite sets, and  *)
(* what joins or leaves a queue.                                           *)
(***************************************************************************)
EXTENDS Integers, Sequences, FiniteSets, Functions,
        FiniteSetTheorems, SequenceTheorems, WellFoundedInduction, TLAPS

-----------------------------------------------------------------------------
(* Induction *)

\* Induction over the natural numbers: a predicate is the set of the numbers that satisfy it.
LEMMA NatSetInduction ==
  ASSUME NEW T, 0 \in T, \A n \in Nat : n \in T => n + 1 \in T
  PROVE  Nat \subseteq T
<1> SUFFICES ASSUME Nat \ T # {} PROVE FALSE
  OBVIOUS
<1>1. \E x \in Nat \ T : \A y \in Nat \ T : ~ (<<y, x>> \in OpToRel(<, Nat))
  BY WFMin, NatLessThanWellFounded, Nat \ T \subseteq Nat
<1>2. PICK x \in Nat \ T : \A y \in Nat \ T : ~ (<<y, x>> \in OpToRel(<, Nat))
  BY <1>1
<1>3. x - 1 \in Nat /\ x - 1 \notin T
  OBVIOUS
<1>4. <<x - 1, x>> \in OpToRel(<, Nat)
  BY <1>3 DEF OpToRel
<1> QED
  BY <1>2, <1>3, <1>4

\* Induction over the subsets of a finite set.
LEMMA SubsetInduction ==
  ASSUME NEW S, IsFiniteSet(S), NEW T, {} \in T,
         \A U \in SUBSET S, x \in S : U \in T /\ x \notin U => U \cup {x} \in T
  PROVE  SUBSET S \subseteq T
<1> DEFINE N == {n \in Nat : \A U \in SUBSET S : Cardinality(U) = n => U \in T}
<1>1. \A U \in SUBSET S : IsFiniteSet(U) /\ Cardinality(U) \in Nat
  BY FS_Subset, FS_CardinalityType
<1>2. 0 \in N
  BY <1>1, FS_EmptySet
<1>3. ASSUME NEW n \in Nat, n \in N PROVE n + 1 \in N
  <2> SUFFICES ASSUME NEW U \in SUBSET S, Cardinality(U) = n + 1 PROVE U \in T
    OBVIOUS
  <2>1. U # {}
    BY FS_EmptySet, SMTT(30)
  <2>2. PICK x \in U : TRUE
    BY <2>1
  <2>3. Cardinality(U \ {x}) = n
    <3>1. IsFiniteSet(U)
      BY <1>1
    <3>2. Cardinality(U \ {x}) = Cardinality(U) - 1
      BY <2>2, <3>1, FS_RemoveElement
    <3> QED
      BY <3>2
  <2>4. U \ {x} \in T
    BY <2>3, <1>3
  <2>5. U = (U \ {x}) \cup {x}
    OBVIOUS
  <2> QED
    BY <2>4, <2>5
<1>4. Nat \subseteq N
  <2> HIDE DEF N
  <2> QED
    BY <1>2, <1>3, NatSetInduction
<1> QED
  BY <1>1, <1>4

-----------------------------------------------------------------------------
(* Sums *)

\* The fold that SumFunctionOnSet is defined by, over the subsets of S.
SumChoice(s) == CHOOSE x \in s : TRUE
SumIter(f, S) ==
  CHOOSE g : g = [s \in SUBSET S |-> IF s = {} THEN 0 ELSE f[SumChoice(s)] + g[s \ {SumChoice(s)}]]

LEMMA SumIsIter == \A f, S : SumFunctionOnSet(f, S) = SumIter(f, S)[S]
  BY DEF SumFunctionOnSet, FoldFunctionOnSet, MapThenFoldSet, SumIter, SumChoice

\* The fold has the value its equation gives it.
LEMMA SumIterEq ==
  ASSUME NEW f, NEW S, IsFiniteSet(S), \A x \in S : f[x] \in Int
  PROVE  /\ SumIter(f, S) \in [SUBSET S -> Int]
         /\ \A s \in SUBSET S :
              SumIter(f, S)[s] = IF s = {} THEN 0
                                 ELSE f[SumChoice(s)] + SumIter(f, S)[s \ {SumChoice(s)}]
<1> DEFINE Val(g, s) == IF s = {} THEN 0 ELSE f[SumChoice(s)] + g[s \ {SumChoice(s)}]
           N == {n \in Nat : \E g \in [SUBSET S -> Int] :
                               \A s \in SUBSET S : Cardinality(s) <= n => g[s] = Val(g, s)}
<1>1. \A s \in SUBSET S : IsFiniteSet(s) /\ Cardinality(s) \in Nat /\ Cardinality(s) <= Cardinality(S)
  BY FS_Subset, FS_CardinalityType
<1>2. \A s \in SUBSET S : s # {} => SumChoice(s) \in s
  BY DEF SumChoice
<1>3. 0 \in N
  <2> DEFINE g == [s \in SUBSET S |-> 0]
  <2>1. g \in [SUBSET S -> Int]
    OBVIOUS
  <2>2. ASSUME NEW s \in SUBSET S, Cardinality(s) <= 0 PROVE g[s] = Val(g, s)
    <3>1. s = {}
      BY <1>1, <2>2, FS_EmptySet
    <3> QED
      BY <3>1
  <2> HIDE DEF g, Val
  <2> QED
    BY <2>1, <2>2
<1>4. ASSUME NEW n \in Nat, n \in N PROVE n + 1 \in N
  <2>1. PICK g \in [SUBSET S -> Int] : \A s \in SUBSET S : Cardinality(s) <= n => g[s] = Val(g, s)
    BY <1>4
  <2> DEFINE h == [s \in SUBSET S |-> Val(g, s)]
  <2>2. h \in [SUBSET S -> Int]
    BY <1>2
  <2>3. ASSUME NEW s \in SUBSET S, Cardinality(s) <= n + 1 PROVE h[s] = Val(h, s)
    <3>1. CASE s = {}
      BY <3>1
    <3>2. CASE s # {}
      <4>1. SumChoice(s) \in s
        BY <1>2, <3>2
      <4> DEFINE t == s \ {SumChoice(s)}
      <4>2. t \in SUBSET S /\ Cardinality(t) = Cardinality(s) - 1
        BY <1>1, <4>1, FS_RemoveElement
      <4>3. Cardinality(t) <= n
        BY <1>1, <2>3, <4>2
      <4>4. g[t] = Val(g, t)
        <5> HIDE DEF Val, t
        <5> QED
          BY <2>1, <4>2, <4>3
      <4>5. h[t] = g[t]
        BY <4>2, <4>4
      <4> QED
        BY <3>2, <4>5
    <3> QED
      BY <3>1, <3>2
  <2> HIDE DEF h, Val
  <2> QED
    BY <2>2, <2>3
<1>5. Cardinality(S) \in N
  <2> HIDE DEF N
  <2> QED
    BY <1>1, <1>3, <1>4, NatSetInduction
<1>6. PICK g \in [SUBSET S -> Int] : \A s \in SUBSET S : g[s] = Val(g, s)
  <2> HIDE DEF Val
  <2> QED
    BY <1>1, <1>5
<1>7. g = [s \in SUBSET S |-> Val(g, s)]
  <2> HIDE DEF Val
  <2> QED
    BY <1>6
<1>8. SumIter(f, S) = [s \in SUBSET S |-> Val(SumIter(f, S), s)]
  BY <1>7 DEF SumIter
<1>9. \A s \in SUBSET S : SumIter(f, S)[s] = Val(SumIter(f, S), s)
  <2> HIDE DEF Val
  <2> QED
    BY <1>8
<1> DEFINE G == SumIter(f, S)
           M == {n \in Nat : \A s \in SUBSET S : Cardinality(s) <= n => G[s] \in Int}
<1>10. 0 \in M
  <2> SUFFICES ASSUME NEW s \in SUBSET S, Cardinality(s) <= 0 PROVE G[s] \in Int
    OBVIOUS
  <2>1. s = {}
    BY <1>1, FS_EmptySet
  <2> QED
    BY <1>9, <2>1
<1>11. ASSUME NEW n \in Nat, n \in M PROVE n + 1 \in M
  <2> SUFFICES ASSUME NEW s \in SUBSET S, Cardinality(s) <= n + 1, s # {} PROVE G[s] \in Int
    BY <1>9
  <2>1. SumChoice(s) \in s
    BY <1>2
  <2> DEFINE t == s \ {SumChoice(s)}
  <2>2. t \in SUBSET S /\ Cardinality(t) = Cardinality(s) - 1
    BY <1>1, <2>1, FS_RemoveElement
  <2>3. Cardinality(t) <= n
    BY <1>1, <2>2
  <2>4. G[t] \in Int
    BY <1>11, <2>2, <2>3
  <2>5. G[s] = f[SumChoice(s)] + G[t]
    BY <1>9
  <2> QED
    BY <2>1, <2>4, <2>5
<1>12. Cardinality(S) \in M
  <2> HIDE DEF M
  <2> QED
    BY <1>1, <1>10, <1>11, NatSetInduction
<1>13. \A s \in SUBSET S : G[s] \in Int
  BY <1>1, <1>12
<1>14. G \in [SUBSET S -> Int]
  <2>1. DOMAIN G = SUBSET S /\ G = [s \in DOMAIN G |-> G[s]]
    <3> HIDE DEF Val
    <3> QED
      BY <1>8
  <2> QED
    BY <1>13, <2>1
<1> QED
  BY <1>9, <1>14

\* Any element can be taken out of the sum first.
LEMMA SumIterAny ==
  ASSUME NEW f, NEW S, IsFiniteSet(S), \A x \in S : f[x] \in Int
  PROVE  \A s \in SUBSET S : \A x \in s :
           SumIter(f, S)[s] = f[x] + SumIter(f, S)[s \ {x}]
<1> DEFINE G == SumIter(f, S)
           N == {n \in Nat : \A s \in SUBSET S : \A x \in s :
                               Cardinality(s) = n => G[s] = f[x] + G[s \ {x}]}
<1>1. \A s \in SUBSET S : IsFiniteSet(s) /\ Cardinality(s) \in Nat
  BY FS_Subset, FS_CardinalityType
<1>2. /\ \A s \in SUBSET S : G[s] \in Int
      /\ \A s \in SUBSET S : s # {} => G[s] = f[SumChoice(s)] + G[s \ {SumChoice(s)}]
  <2>1. G \in [SUBSET S -> Int]
    BY SumIterEq
  <2>2. \A s \in SUBSET S : G[s] = IF s = {} THEN 0 ELSE f[SumChoice(s)] + G[s \ {SumChoice(s)}]
    BY SumIterEq
  <2> HIDE DEF G
  <2> QED
    BY <2>1, <2>2
<1>3. 0 \in N
  BY <1>1, FS_EmptySet
<1>4. ASSUME NEW n \in Nat, n \in N PROVE n + 1 \in N
  <2> SUFFICES ASSUME NEW s \in SUBSET S, NEW x \in s, Cardinality(s) = n + 1
               PROVE  G[s] = f[x] + G[s \ {x}]
    OBVIOUS
  <2> DEFINE c == SumChoice(s)
  <2>1. c \in s
    BY DEF SumChoice
  <2>2. G[s] = f[c] + G[s \ {c}]
    BY <1>2
  <2>3. CASE x = c
    BY <2>2, <2>3
  <2>4. CASE x # c
    <3>1. Cardinality(s \ {c}) = n /\ Cardinality(s \ {x}) = n
      <4>1. Cardinality(s \ {c}) = Cardinality(s) - 1
        BY <1>1, <2>1, FS_RemoveElement
      <4>2. Cardinality(s \ {x}) = Cardinality(s) - 1
        BY <1>1, FS_RemoveElement
      <4> QED
        BY <4>1, <4>2
    <3> HIDE DEF c, G
    <3>2. G[s \ {c}] = f[x] + G[(s \ {c}) \ {x}]
      BY <1>4, <2>4, <3>1
    <3>3. G[s \ {x}] = f[c] + G[(s \ {x}) \ {c}]
      BY <1>4, <2>1, <2>4, <3>1
    <3>4. (s \ {x}) \ {c} = (s \ {c}) \ {x}
      OBVIOUS
    <3>5. f[x] \in Int /\ f[c] \in Int /\ G[(s \ {c}) \ {x}] \in Int
      BY <1>2, <2>1
    <3>6. G[s \ {x}] = f[c] + G[(s \ {c}) \ {x}]
      BY <3>3, <3>4
    <3> QED
      BY <2>2, <3>2, <3>5, <3>6
  <2> QED
    BY <2>3, <2>4
<1>5. Nat \subseteq N
  <2> HIDE DEF N
  <2> QED
    BY <1>3, <1>4, NatSetInduction
<1> QED
  BY <1>1, <1>5

\* The sum does not depend on the set that the fold is defined over.
LEMMA SumIterSame ==
  ASSUME NEW f, NEW S, IsFiniteSet(S), \A x \in S : f[x] \in Int, NEW R \in SUBSET S
  PROVE  SumIter(f, S)[R] = SumIter(f, R)[R]
<1> DEFINE T == {U \in SUBSET R : SumIter(f, S)[U] = SumIter(f, R)[U]}
<1>1. IsFiniteSet(R)
  BY FS_Subset
<1>2. {} \in T
  BY <1>1, SumIterEq
<1>3. ASSUME NEW U \in SUBSET R, NEW x \in R, U \in T, x \notin U PROVE U \cup {x} \in T
  <2>1. (U \cup {x}) \ {x} = U
    BY <1>3
  <2>2. SumIter(f, S)[U \cup {x}] = f[x] + SumIter(f, S)[U]
    BY <2>1, SumIterAny
  <2>3. SumIter(f, R)[U \cup {x}] = f[x] + SumIter(f, R)[U]
    BY <1>1, <2>1, SumIterAny
  <2> QED
    BY <1>3, <2>2, <2>3
<1>4. SUBSET R \subseteq T
  <2> HIDE DEF T
  <2> QED
    BY <1>1, <1>2, <1>3, SubsetInduction
<1> QED
  BY <1>4

\* The sum over no elements, and over one more element.
LEMMA SumEmpty == \A f : SumFunctionOnSet(f, {}) = 0
  BY SumIsIter, SumIterEq, FS_EmptySet

LEMMA SumType ==
  ASSUME NEW f, NEW S, IsFiniteSet(S), \A x \in S : f[x] \in Int
  PROVE  SumFunctionOnSet(f, S) \in Int
<1>1. SumIter(f, S) \in [SUBSET S -> Int]
  BY SumIterEq
<1> QED
  BY <1>1, SumIsIter

LEMMA SumAdd ==
  ASSUME NEW f, NEW S, IsFiniteSet(S), NEW a, a \notin S, \A x \in S \cup {a} : f[x] \in Int
  PROVE  SumFunctionOnSet(f, S \cup {a}) = SumFunctionOnSet(f, S) + f[a]
<1> DEFINE U == S \cup {a}
<1>1. IsFiniteSet(U) /\ U \ {a} = S /\ S \in SUBSET U /\ f[a] \in Int
  BY FS_AddElement
<1>2. SumIter(f, U)[U] = f[a] + SumIter(f, U)[S]
  BY <1>1, SumIterAny
<1>3. SumIter(f, U)[S] = SumIter(f, S)[S]
  BY <1>1, SumIterSame
<1>4. SumIter(f, S)[S] \in Int
  <2>1. SumIter(f, S) \in [SUBSET S -> Int]
    BY SumIterEq
  <2> QED
    BY <2>1
<1> QED
  BY <1>1, <1>2, <1>3, <1>4, SumIsIter

LEMMA SumRemove ==
  ASSUME NEW f, NEW S, IsFiniteSet(S), NEW a \in S, \A x \in S : f[x] \in Int
  PROVE  SumFunctionOnSet(f, S \ {a}) = SumFunctionOnSet(f, S) - f[a]
<1>1. IsFiniteSet(S \ {a}) /\ S = (S \ {a}) \cup {a}
  BY FS_RemoveElement
<1>2. SumFunctionOnSet(f, S) = SumFunctionOnSet(f, S \ {a}) + f[a]
  BY <1>1, SumAdd
<1>3. SumFunctionOnSet(f, S \ {a}) \in Int
  BY <1>1, SumType
<1> QED
  BY <1>2, <1>3

\* A sum of natural numbers is one.
LEMMA SumNat ==
  ASSUME NEW f, NEW S, IsFiniteSet(S), \A x \in S : f[x] \in Nat
  PROVE  SumFunctionOnSet(f, S) \in Nat
<1> DEFINE T == {U \in SUBSET S : SumFunctionOnSet(f, U) \in Nat}
<1>1. {} \in T
  BY SumEmpty
<1>2. ASSUME NEW U \in SUBSET S, NEW x \in S, U \in T, x \notin U PROVE U \cup {x} \in T
  <2>1. IsFiniteSet(U) /\ \A y \in U \cup {x} : f[y] \in Int
    BY FS_Subset
  <2>2. SumFunctionOnSet(f, U \cup {x}) = SumFunctionOnSet(f, U) + f[x]
    BY <1>2, <2>1, SumAdd
  <2> QED
    BY <1>2, <2>2
<1>3. SUBSET S \subseteq T
  <2> HIDE DEF T
  <2> QED
    BY <1>1, <1>2, SubsetInduction
<1> QED
  BY <1>3

\* The indices of a sequence.
LEMMA Indices == \A n \in Nat : IsFiniteSet(1..n) /\ Cardinality(1..n) = n
<1> SUFFICES ASSUME NEW n \in Nat PROVE IsFiniteSet(1..n) /\ Cardinality(1..n) = n
  OBVIOUS
<1>1. Cardinality(1..n) = IF 1 > n THEN 0 ELSE n - 1 + 1
  BY FS_Interval
<1>2. IsFiniteSet(1..n)
  BY FS_Interval
<1> QED
  BY <1>1, <1>2

\* Only the values on the set matter.
LEMMA SumSame ==
  ASSUME NEW f, NEW g, NEW S, IsFiniteSet(S), \A x \in S : f[x] = g[x] /\ f[x] \in Int
  PROVE  SumFunctionOnSet(f, S) = SumFunctionOnSet(g, S)
<1> DEFINE T == {U \in SUBSET S : SumFunctionOnSet(f, U) = SumFunctionOnSet(g, U)}
<1>1. {} \in T
  BY SumEmpty
<1>2. ASSUME NEW U \in SUBSET S, NEW x \in S, U \in T, x \notin U PROVE U \cup {x} \in T
  <2>1. IsFiniteSet(U) /\ \A y \in U \cup {x} : f[y] \in Int /\ g[y] \in Int
    BY FS_Subset
  <2>2. SumFunctionOnSet(f, U \cup {x}) = SumFunctionOnSet(f, U) + f[x]
    BY <1>2, <2>1, SumAdd
  <2>3. SumFunctionOnSet(g, U \cup {x}) = SumFunctionOnSet(g, U) + g[x]
    BY <1>2, <2>1, SumAdd
  <2> QED
    BY <1>2, <2>2, <2>3
<1>3. SUBSET S \subseteq T
  <2> HIDE DEF T
  <2> QED
    BY <1>1, <1>2, SubsetInduction
<1> QED
  BY <1>3

\* The sums of the first k of n numbers.
LEMMA PrefixStep ==
  ASSUME NEW n \in Nat, NEW f, \A i \in 1..n : f[i] \in Nat
  PROVE  /\ SumFunctionOnSet(f, 1..0) = 0
         /\ \A k \in 0..n : SumFunctionOnSet(f, 1..k) \in Nat
         /\ \A k \in 0..n : k < n =>
              SumFunctionOnSet(f, 1..k + 1) = SumFunctionOnSet(f, 1..k) + f[k + 1]
<1>1. SumFunctionOnSet(f, 1..0) = 0
  <2>1. 1..0 = {}
    OBVIOUS
  <2> QED
    BY <2>1, SumEmpty
<1>2. ASSUME NEW k \in 0..n PROVE SumFunctionOnSet(f, 1..k) \in Nat
  <2>1. IsFiniteSet(1..k)
    <3>1. k \in Nat
      OBVIOUS
    <3> QED
      BY <3>1, Indices
  <2>2. \A i \in 1..k : f[i] \in Nat
    OBVIOUS
  <2> QED
    BY <2>1, <2>2, SumNat
<1>3. ASSUME NEW k \in 0..n, k < n
      PROVE  SumFunctionOnSet(f, 1..k + 1) = SumFunctionOnSet(f, 1..k) + f[k + 1]
  <2>1. IsFiniteSet(1..k) /\ k + 1 \notin 1..k /\ (1..k) \cup {k + 1} = 1..k + 1
    BY Indices
  <2>2. \A i \in (1..k) \cup {k + 1} : f[i] \in Int
    BY <1>3
  <2>3. SumFunctionOnSet(f, (1..k) \cup {k + 1}) = SumFunctionOnSet(f, 1..k) + f[k + 1]
    <3>1. PICK S, a : S = 1..k /\ a = k + 1
      OBVIOUS
    <3>2. SumFunctionOnSet(f, S \cup {a}) = SumFunctionOnSet(f, S) + f[a]
      BY <2>1, <2>2, <3>1, SumAdd
    <3> QED
      BY <3>1, <3>2
  <2> QED
    BY <2>1, <2>3
<1> QED
  BY <1>1, <1>2, <1>3

LEMMA PrefixGrows ==
  ASSUME NEW n \in Nat, NEW f, \A i \in 1..n : f[i] \in Nat \ {0}
  PROVE  /\ \A k \in 0..n : k <= SumFunctionOnSet(f, 1..k)
         /\ \A k \in 0..n : k < n => SumFunctionOnSet(f, 1..k) < SumFunctionOnSet(f, 1..n)
<1> DEFINE P(k) == SumFunctionOnSet(f, 1..k)
           T == {d \in Nat : \A k \in 0..n : k + d <= n => P(k) + d <= P(k + d)}
<1>1. P(0) = 0 /\ \A k \in 0..n : P(k) \in Nat
  BY PrefixStep
<1>2. \A k \in 0..n : k < n => P(k + 1) = P(k) + f[k + 1]
  BY PrefixStep
<1> HIDE DEF P
<1>3. 0 \in T
  BY <1>1
<1>4. ASSUME NEW d \in Nat, d \in T PROVE d + 1 \in T
  <2> SUFFICES ASSUME NEW k \in 0..n, k + (d + 1) <= n PROVE P(k) + (d + 1) <= P(k + (d + 1))
    OBVIOUS
  <2>1. k + d \in 0..n /\ k + d < n /\ (k + d) + 1 = k + (d + 1) /\ (k + d) + 1 \in 1..n
    OBVIOUS
  <2>2. P(k) + d <= P(k + d)
    BY <1>4, <2>1
  <2>3. P((k + d) + 1) = P(k + d) + f[(k + d) + 1]
    BY <1>2, <2>1
  <2>4. P(k) \in Nat /\ P(k + d) \in Nat /\ f[(k + d) + 1] >= 1 /\ f[(k + d) + 1] \in Nat
    BY <1>1, <2>1
  <2> QED
    BY <2>1, <2>2, <2>3, <2>4
<1>5. Nat \subseteq T
  <2> HIDE DEF T
  <2> QED
    BY <1>3, <1>4, NatSetInduction
<1>6. ASSUME NEW k \in 0..n PROVE k <= P(k)
  <2>1. P(0) + k <= P(0 + k)
    BY <1>5
  <2> QED
    BY <1>1, <2>1
<1>7. ASSUME NEW k \in 0..n, k < n PROVE P(k) < P(n)
  <2>1. n - k \in Nat /\ k + (n - k) = n /\ n - k >= 1 /\ n \in 0..n
    BY <1>7
  <2>2. P(k) + (n - k) <= P(k + (n - k))
    BY <1>5, <2>1
  <2> QED
    BY <1>1, <2>1, <2>2
<1> QED
  BY <1>6, <1>7 DEF P

-----------------------------------------------------------------------------
(* Cardinalities and queues *)

\* Distinct values are as many as the arguments they belong to.
LEMMA DistinctValues ==
  ASSUME NEW D, IsFiniteSet(D), NEW f, \A x, y \in D : f[x] = f[y] => x = y
  PROVE  /\ IsFiniteSet({f[x] : x \in D})
         /\ Cardinality({f[x] : x \in D}) = Cardinality(D)
<1> DEFINE T == {f[x] : x \in D}
           b == [x \in D |-> f[x]]
<1>1. b \in Bijection(D, T)
  BY DEF Bijection, Injection, Surjection, IsInjective
<1>2. ExistsBijection(D, T)
  BY <1>1 DEF ExistsBijection
<1> QED
  BY <1>2, FS_Bijection

\* The cardinality of a disjoint union.
LEMMA DisjointUnion ==
  ASSUME NEW A, NEW B, IsFiniteSet(A), IsFiniteSet(B), A \cap B = {}
  PROVE  IsFiniteSet(A \cup B) /\ Cardinality(A \cup B) = Cardinality(A) + Cardinality(B)
<1>1. Cardinality(A \cap B) = 0 /\ Cardinality(A) \in Nat /\ Cardinality(B) \in Nat
  BY FS_EmptySet, FS_CardinalityType
<1>2. IsFiniteSet(A \cup B)
  BY FS_Union
<1>3. Cardinality(A \cup B) = Cardinality(A) + Cardinality(B) - Cardinality(A \cap B)
  BY FS_Union
<1> QED
  BY <1>1, <1>2, <1>3

LEMMA Enqueue ==
  ASSUME NEW S, NEW q \in Seq(S), NEW x \in S
  PROVE  /\ Append(q, x) \in Seq(S)
         /\ Len(q) \in Nat /\ Len(Append(q, x)) = Len(q) + 1
         /\ Append(q, x)[Len(q) + 1] = x
         /\ \A i \in 1..Len(q) : Append(q, x)[i] = q[i]
  BY AppendProperties, LenProperties

LEMMA Dequeue ==
  ASSUME NEW S, NEW q \in Seq(S), q # <<>>
  PROVE  /\ Head(q) = q[1] /\ Head(q) \in S
         /\ Tail(q) \in Seq(S)
         /\ Len(q) \in Nat /\ Len(q) >= 1 /\ Len(Tail(q)) = Len(q) - 1
         /\ \A i \in 1..Len(Tail(q)) : Tail(q)[i] = q[i + 1]
<1>1. Len(q) \in Nat /\ Len(q) # 0
  BY EmptySeq, LenProperties
<1>2. Head(q) = q[1]
  OBVIOUS
<1> QED
  BY <1>1, <1>2, HeadTailProperties

\* A set of numbers has a least one, and a greatest one if it is bounded.
LEMMA LeastNumber ==
  ASSUME NEW S, S \subseteq Nat, S # {}
  PROVE  \E x \in S : \A y \in S : x <= y
<1>1. \E x \in S : \A y \in S : ~ (<<y, x>> \in OpToRel(<, Nat))
  BY WFMin, NatLessThanWellFounded
<1>2. PICK x \in S : \A y \in S : ~ (<<y, x>> \in OpToRel(<, Nat))
  BY <1>1
<1>3. \A y \in S : ~ (y < x)
  BY <1>2 DEF OpToRel
<1> QED
  BY <1>3

LEMMA GreatestNumber ==
  ASSUME NEW n \in Nat, NEW S, S \subseteq 0..n, S # {}
  PROVE  \E x \in S : \A y \in S : y <= x
<1> DEFINE R == {n - y : y \in S}
<1>1. R \subseteq Nat /\ R # {}
  <2>1. \A y \in S : n - y \in Nat
    OBVIOUS
  <2> QED
    BY <2>1
<1>2. PICK r \in R : \A q \in R : r <= q
  <2> HIDE DEF R
  <2> QED
    BY <1>1, LeastNumber
<1>3. PICK x \in S : r = n - x
  BY <1>2
<1>4. ASSUME NEW y \in S PROVE y <= x
  <2>1. n - y \in R /\ x \in 0..n /\ y \in 0..n
    OBVIOUS
  <2>2. r <= n - y
    BY <1>2, <2>1
  <2> QED
    BY <1>3, <2>1, <2>2
<1> QED
  BY <1>4

\* A function on 0..n that is given by its first value and a step exists.
Recursive(g, n, b, f) == g[0] = b /\ \A i \in 1..n : g[i] = f[<<i, g[i - 1]>>]

LEMMA Recursion ==
  ASSUME NEW n \in Nat, NEW X, NEW b \in X, NEW f \in [(1..n) \X X -> X]
  PROVE  \E g \in [0..n -> X] : Recursive(g, n, b, f)
<1> DEFINE T == {m \in Nat : m <= n => \E g \in [0..m -> X] :
                               g[0] = b /\ \A i \in 1..m : g[i] = f[<<i, g[i - 1]>>]}
<1>1. 0 \in T
  <2> DEFINE g == [i \in 0..0 |-> b]
  <2>1. g \in [0..0 -> X] /\ g[0] = b /\ \A i \in 1..0 : g[i] = f[<<i, g[i - 1]>>]
    OBVIOUS
  <2> QED
    BY <2>1
<1>2. ASSUME NEW m \in Nat, m \in T PROVE m + 1 \in T
  <2>1. ASSUME m + 1 <= n
        PROVE  \E g \in [0..m + 1 -> X] : g[0] = b /\ \A i \in 1..m + 1 : g[i] = f[<<i, g[i - 1]>>]
    <3>1. PICK h \in [0..m -> X] : h[0] = b /\ \A i \in 1..m : h[i] = f[<<i, h[i - 1]>>]
      BY <1>2, <2>1
    <3> DEFINE g == [i \in 0..m + 1 |-> IF i = m + 1 THEN f[<<m + 1, h[m]>>] ELSE h[i]]
    <3>2. f[<<m + 1, h[m]>>] \in X
      BY <2>1, <3>1
    <3>3. g \in [0..m + 1 -> X] /\ g[0] = b
      BY <3>1, <3>2
    <3>4. ASSUME NEW i \in 1..m + 1 PROVE g[i] = f[<<i, g[i - 1]>>]
      <4>1. CASE i = m + 1
        <5>1. i - 1 = m /\ m \in 0..m + 1 /\ m # m + 1
          BY <4>1
        <5>2. g[i - 1] = h[m] /\ g[i] = f[<<m + 1, h[m]>>]
          BY <4>1, <5>1
        <5> QED
          BY <4>1, <5>1, <5>2
      <4>2. CASE i # m + 1
        <5>1. i \in 1..m /\ g[i] = h[i] /\ g[i - 1] = h[i - 1]
          BY <4>2
        <5> QED
          BY <3>1, <5>1
      <4> QED
        BY <4>1, <4>2
    <3> QED
      BY <3>3, <3>4
  <2> QED
    BY <2>1
<1>3. Nat \subseteq T
  <2> HIDE DEF T
  <2> QED
    BY <1>1, <1>2, NatSetInduction
<1>4. n \in T
  BY <1>3
<1> QED
  BY <1>4 DEF Recursive

\* h starts with b and takes the step f from every value in X.
Follows(h, n, b, f, X) == h[0] = b /\ \A i \in 1..n : h[i - 1] \in X => h[i] = f[<<i, h[i - 1]>>]

\* Then its values stay in X.
LEMMA StepByStep ==
  ASSUME NEW n \in Nat, NEW X, NEW b \in X, NEW f \in [(1..n) \X X -> X], NEW h, Follows(h, n, b, f, X)
  PROVE  \A i \in 0..n : h[i] \in X
<1> USE DEF Follows
<1> DEFINE I == {i \in Nat : i <= n => h[i] \in X}
<1>1. 0 \in I
  OBVIOUS
<1>2. ASSUME NEW i \in Nat, i \in I PROVE i + 1 \in I
  <2>1. ASSUME i + 1 <= n PROVE h[i + 1] \in X
    <3>1. i + 1 \in 1..n /\ (i + 1) - 1 = i /\ h[i] \in X
      BY <1>2, <2>1
    <3>2. h[i + 1] = f[<<i + 1, h[i]>>] /\ <<i + 1, h[i]>> \in (1..n) \X X
      BY <3>1
    <3> QED
      BY <3>2
  <2> QED
    BY <2>1
<1>3. Nat \subseteq I
  <2> HIDE DEF I
  <2> QED
    BY <1>1, <1>2, NatSetInduction
<1>4. ASSUME NEW i \in 0..n PROVE h[i] \in X
  <2>1. i \in Nat /\ i <= n
    OBVIOUS
  <2> QED
    BY <1>3, <2>1
<1> QED
  BY <1>4

-----------------------------------------------------------------------------
(* How often a sequence has an element of a set. *)

Times(q, C) == Cardinality({i \in 1..Len(q) : q[i] \in C})

LEMMA TimesType ==
  ASSUME NEW T, NEW q \in Seq(T), NEW C
  PROVE  IsFiniteSet({i \in 1..Len(q) : q[i] \in C}) /\ Times(q, C) \in Nat
<1>1. IsFiniteSet(1..Len(q))
  BY LenProperties, Indices
<1>2. {i \in 1..Len(q) : q[i] \in C} \in SUBSET (1..Len(q))
  OBVIOUS
<1>3. IsFiniteSet({i \in 1..Len(q) : q[i] \in C})
  BY <1>1, <1>2, FS_Subset
<1> QED
  BY <1>3, FS_CardinalityType DEF Times

LEMMA TimesNone == \A C : Times(<<>>, C) = 0
<1> SUFFICES ASSUME NEW C PROVE Times(<<>>, C) = 0
  OBVIOUS
<1>1. {i \in 1..Len(<<>>) : <<>>[i] \in C} = {}
  OBVIOUS
<1> QED
  BY <1>1, FS_EmptySet DEF Times

LEMMA TimesOne ==
  ASSUME NEW x, NEW C
  PROVE  Times(<<x>>, C) = IF x \in C THEN 1 ELSE 0
<1>1. Len(<<x>>) = 1 /\ <<x>>[1] = x
  OBVIOUS
<1>2. {i \in 1..1 : <<x>>[i] \in C} = IF x \in C THEN {1} ELSE {}
  BY <1>1
<1> QED
  BY <1>1, <1>2, FS_EmptySet, FS_Singleton DEF Times

LEMMA TimesConcat ==
  ASSUME NEW T, NEW q \in Seq(T), NEW r \in Seq(T), NEW C
  PROVE  Times(q \o r, C) = Times(q, C) + Times(r, C)
<1>1. PICK m \in Nat, n \in Nat : m = Len(q) /\ n = Len(r)
  BY LenProperties
<1>2. Len(q \o r) = m + n /\ \A i \in 1..m + n : (q \o r)[i] = IF i <= m THEN q[i] ELSE r[i - m]
  BY <1>1, ConcatProperties
<1> DEFINE A == {i \in 1..Len(q) : q[i] \in C}
           B == {i \in 1..Len(r) : r[i] \in C}
           f == [i \in B |-> m + i]
           D == {f[i] : i \in B}
<1>3. IsFiniteSet(A) /\ IsFiniteSet(B)
  BY TimesType
<1>4. IsFiniteSet(D) /\ Cardinality(D) = Cardinality(B)
  <2>1. \A x, y \in B : f[x] = f[y] => x = y
    BY <1>1
  <2> HIDE DEF f, B
  <2> QED
    BY <1>3, <2>1, DistinctValues
<1>5. {i \in 1..Len(q \o r) : (q \o r)[i] \in C} = A \cup D
  <2>1. ASSUME NEW i \in 1..m + n, (q \o r)[i] \in C PROVE i \in A \cup D
    <3>1. CASE i <= m
      BY <1>1, <1>2, <2>1, <3>1
    <3>2. CASE ~ (i <= m)
      <4>1. i - m \in 1..n /\ m + (i - m) = i /\ r[i - m] \in C
        BY <1>1, <1>2, <2>1, <3>2
      <4>2. i - m \in B
        BY <1>1, <4>1
      <4>3. f[i - m] = i
        BY <4>1, <4>2
      <4> QED
        BY <4>2, <4>3
    <3> QED
      BY <3>1, <3>2
  <2>2. ASSUME NEW i \in A PROVE i \in 1..m + n /\ (q \o r)[i] \in C
    BY <1>1, <1>2
  <2>3. ASSUME NEW j \in B PROVE m + j \in 1..m + n /\ (q \o r)[m + j] \in C
    <3>1. j \in 1..n /\ r[j] \in C
      BY <1>1
    <3>2. m + j \in 1..m + n /\ ~ (m + j <= m) /\ (m + j) - m = j
      BY <3>1
    <3> QED
      BY <1>2, <3>1, <3>2
  <2> QED
    BY <1>2, <2>1, <2>2, <2>3
<1>6. A \cap D = {}
  <2>1. \A i \in A : i <= m
    BY <1>1
  <2>2. \A j \in B : f[j] > m
    BY <1>1
  <2> HIDE DEF A, B, f
  <2>3. A \subseteq Nat
    BY DEF A
  <2>4. \A j \in B : j \in Nat /\ f[j] = m + j
    BY DEF B, f
  <2> QED
    BY <1>1, <2>1, <2>2, <2>3, <2>4
<1>7. Cardinality(A \cup D) = Cardinality(A) + Cardinality(D)
  <2> HIDE DEF A, D
  <2> QED
    BY <1>3, <1>4, <1>6, DisjointUnion
<1> QED
  BY <1>4, <1>5, <1>7 DEF Times

LEMMA TimesAppend ==
  ASSUME NEW T, NEW q \in Seq(T), NEW x \in T, NEW C
  PROVE  Times(Append(q, x), C) = Times(q, C) + (IF x \in C THEN 1 ELSE 0)
<1>1. Append(q, x) = q \o <<x>> /\ <<x>> \in Seq(T)
  BY AppendIsConcat
<1>2. Times(Append(q, x), C) = Times(q, C) + Times(<<x>>, C)
  <2>1. PICK r \in Seq(T) : r = <<x>>
    BY <1>1
  <2>2. Times(q \o r, C) = Times(q, C) + Times(r, C)
    BY TimesConcat
  <2> QED
    BY <1>1, <2>1, <2>2
<1>3. Times(<<x>>, C) = IF x \in C THEN 1 ELSE 0
  BY TimesOne
<1> QED
  BY <1>2, <1>3

\* Without its element i a sequence has one less.
LEMMA TimesWithout ==
  ASSUME NEW T, NEW q \in Seq(T), NEW i \in 1..Len(q), NEW C
  PROVE  Times(SubSeq(q, 1, i - 1) \o SubSeq(q, i + 1, Len(q)), C)
           + (IF q[i] \in C THEN 1 ELSE 0) = Times(q, C)
<1>1. PICK n \in Nat : n = Len(q)
  BY LenProperties
<1>2. PICK a, b, c : a = SubSeq(q, 1, i - 1) /\ b = SubSeq(q, i + 1, n) /\ c = SubSeq(q, i, n)
  OBVIOUS
<1>3. \A j \in 1..n : q[j] \in T
  BY <1>1, ElementOfSeq
<1>4. a \in Seq(T) /\ b \in Seq(T) /\ c \in Seq(T)
  <2>1. \A j \in 1..(i - 1) : q[j] \in T
    BY <1>1, <1>3
  <2>2. \A j \in (i + 1)..n : q[j] \in T
    BY <1>1, <1>3
  <2>3. \A j \in i..n : q[j] \in T
    BY <1>1, <1>3
  <2>4. i - 1 \in Int /\ i + 1 \in Int /\ i \in Int /\ n \in Int
    BY <1>1
  <2> QED
    BY <1>2, <2>1, <2>2, <2>3, <2>4, SubSeqProperties
<1>5. c = <<q[i]>> \o b
  <2>1. n \in i..Len(q)
    BY <1>1
  <2> QED
    BY <1>1, <1>2, <2>1, SubSeqRecursiveFirst
<1>6. a \o c = q
  <2>1. 1 \in 1..Len(q) + 1 /\ i - 1 \in (1 - 1)..Len(q) /\ n \in (i - 1)..Len(q) /\ (i - 1) + 1 = i
    BY <1>1
  <2>2. SubSeq(q, 1, i - 1) \o SubSeq(q, (i - 1) + 1, n) = SubSeq(q, 1, n)
    BY <2>1, ConcatAdjacentSubSeq
  <2> QED
    BY <1>1, <1>2, <2>1, <2>2, SubSeqFull
<1>7. Times(a \o c, C) = Times(a, C) + Times(c, C)
  BY <1>4, TimesConcat
<1>8. Times(c, C) = (IF q[i] \in C THEN 1 ELSE 0) + Times(b, C)
  <2>1. <<q[i]>> \in Seq(T)
    BY <1>1, <1>3
  <2>2. Times(c, C) = Times(<<q[i]>>, C) + Times(b, C)
    BY <1>4, <1>5, <2>1, TimesConcat
  <2>3. Times(<<q[i]>>, C) = IF q[i] \in C THEN 1 ELSE 0
    BY TimesOne
  <2> QED
    BY <2>2, <2>3
<1>9. Times(a \o b, C) = Times(a, C) + Times(b, C)
  BY <1>4, TimesConcat
<1>10. Times(a, C) \in Nat /\ Times(b, C) \in Nat
  BY <1>4, TimesType
<1> QED
  BY <1>1, <1>2, <1>6, <1>7, <1>8, <1>9, <1>10

-----------------------------------------------------------------------------
(* Powers of two *)

LEMMA PowerType == \A n \in Nat : 2^n \in Nat
<1> SUFFICES ASSUME NEW n \in Nat PROVE 2^n \in Nat
  OBVIOUS
<1>1. IsFiniteSet(1..n) /\ Cardinality(1..n) = n
  BY Indices
<1>2. IsFiniteSet(SUBSET (1..n)) /\ Cardinality(SUBSET (1..n)) = 2^n
  BY <1>1, FS_SUBSET
<1> QED
  BY <1>2, FS_CardinalityType

LEMMA PowerPositive == \A n \in Nat : 2^n \in Nat \ {0}
<1> SUFFICES ASSUME NEW n \in Nat PROVE 2^n \in Nat \ {0}
  OBVIOUS
<1>1. IsFiniteSet(1..n) /\ Cardinality(1..n) = n
  BY Indices
<1>2. IsFiniteSet(SUBSET (1..n)) /\ Cardinality(SUBSET (1..n)) = 2^n
  BY <1>1, FS_SUBSET
<1>3. {} \in SUBSET (1..n)
  OBVIOUS
<1>4. Cardinality(SUBSET (1..n)) # 0
  BY <1>2, <1>3, FS_EmptySet
<1> QED
  BY <1>2, <1>4, PowerType

\* A set has twice as many subsets with one more element.
LEMMA PowerDouble == \A n \in Nat : 2^(n + 1) = 2 * 2^n
<1> SUFFICES ASSUME NEW n \in Nat PROVE 2^(n + 1) = 2 * 2^n
  OBVIOUS
<1> DEFINE S == 1..n
           A == SUBSET S
           f == [U \in A |-> U \cup {n + 1}]
           B == {f[U] : U \in A}
<1>1. IsFiniteSet(S) /\ Cardinality(S) = n
  BY Indices
<1>2. IsFiniteSet(A) /\ Cardinality(A) = 2^n
  BY <1>1, FS_SUBSET
<1>3. n + 1 \in Nat /\ IsFiniteSet(1..n + 1) /\ Cardinality(1..n + 1) = n + 1
  BY Indices
<1>4. Cardinality(SUBSET (1..n + 1)) = 2^(n + 1)
  BY <1>3, FS_SUBSET
<1>5. n + 1 \notin S /\ 1..n + 1 = S \cup {n + 1}
  OBVIOUS
<1>6. \A U, V \in A : f[U] = f[V] => U = V
  <2> SUFFICES ASSUME NEW U \in A, NEW V \in A, U \cup {n + 1} = V \cup {n + 1} PROVE U = V
    OBVIOUS
  <2>1. n + 1 \notin U /\ n + 1 \notin V
    BY <1>5
  <2> QED
    BY <2>1
<1>7. IsFiniteSet(B) /\ Cardinality(B) = 2^n
  <2> HIDE DEF f, A
  <2> QED
    BY <1>2, <1>6, DistinctValues
<1>8. A \cap B = {}
  BY <1>5
<1>9. SUBSET (1..n + 1) = A \cup B
  <2>1. ASSUME NEW U \in SUBSET (1..n + 1), U \notin A PROVE U \in B
    <3>1. n + 1 \in U /\ U \ {n + 1} \in A
      BY <1>5, <2>1
    <3>2. f[U \ {n + 1}] = U
      BY <3>1
    <3> QED
      BY <3>1, <3>2
  <2>2. A \subseteq SUBSET (1..n + 1) /\ B \subseteq SUBSET (1..n + 1)
    BY <1>5
  <2> QED
    BY <2>1, <2>2
<1>10. Cardinality(A \cup B) = 2^n + 2^n
  <2> HIDE DEF A, B
  <2> QED
    BY <1>2, <1>7, <1>8, DisjointUnion
<1>11. 2^n \in Nat
  BY PowerType
<1> HIDE DEF A, B
<1>12. 2^(n + 1) = 2^n + 2^n
  BY <1>4, <1>9, <1>10
<1> QED
  BY <1>11, <1>12

LEMMA PowerMonotone == \A a, b \in Nat : a <= b => 2^a <= 2^b
<1>1. ASSUME NEW a \in Nat PROVE \A d \in Nat : 2^a <= 2^(a + d)
  <2> DEFINE T == {d \in Nat : 2^a <= 2^(a + d)}
  <2>1. 0 \in T
    BY PowerType
  <2>2. ASSUME NEW d \in Nat, d \in T PROVE d + 1 \in T
    <3>1. 2^((a + d) + 1) = 2 * 2^(a + d) /\ 2^(a + d) \in Nat /\ 2^a \in Nat /\ a + (d + 1) = (a + d) + 1
      BY PowerDouble, PowerType
    <3> QED
      BY <2>2, <3>1
  <2>3. Nat \subseteq T
    <3> HIDE DEF T
    <3> QED
      BY <2>1, <2>2, NatSetInduction
  <2> QED
    BY <2>3
<1> SUFFICES ASSUME NEW a \in Nat, NEW b \in Nat, a <= b PROVE 2^a <= 2^b
  OBVIOUS
<1>2. b - a \in Nat /\ a + (b - a) = b
  OBVIOUS
<1>3. 2^a <= 2^(a + (b - a))
  BY <1>1, <1>2
<1> QED
  BY <1>2, <1>3

-----------------------------------------------------------------------------
(* The arithmetic of indices and of variable length integers, of Varint: m *)
(* is Modulus, g is GroupBits, groups is MaxGroups.                        *)

\* IndexSize counts one byte, and one for every group that v needs beyond the first.
LEMMA GroupsCounted ==
  ASSUME NEW groups \in Nat \ {0}, NEW g, NEW v
  PROVE  1 + Cardinality({n \in 1..groups - 1 : v >= 2^(g * n)}) \in 1..groups
<1> DEFINE S == {n \in 1..groups - 1 : v >= 2^(g * n)}
<1>1. IsFiniteSet(1..groups - 1) /\ Cardinality(1..groups - 1) = groups - 1
  BY Indices
<1>2. S \in SUBSET (1..groups - 1)
  OBVIOUS
<1>3. IsFiniteSet(S) /\ Cardinality(S) <= groups - 1
  BY <1>1, <1>2, FS_Subset
<1>4. Cardinality(S) \in Nat
  BY <1>3, FS_CardinalityType
<1> QED
  BY <1>3, <1>4

\* A value that fits into n groups has at most n bytes.
LEMMA GroupsEnough ==
  ASSUME NEW groups \in Nat \ {0}, NEW g \in Nat, NEW v \in Nat, NEW n \in Nat \ {0}, v < 2^(g * n)
  PROVE  1 + Cardinality({k \in 1..groups - 1 : v >= 2^(g * k)}) <= n
<1> DEFINE S == {k \in 1..groups - 1 : v >= 2^(g * k)}
<1>1. ASSUME NEW k \in S PROVE k \in 1..n - 1
  <2>1. SUFFICES ASSUME k >= n PROVE FALSE
    BY <1>1
  <2>2. g * n \in Nat /\ g * k \in Nat /\ g * n <= g * k
    BY <1>1, <2>1
  <2>3. 2^(g * n) <= 2^(g * k)
    BY <2>2, PowerMonotone
  <2>4. 2^(g * n) \in Nat /\ 2^(g * k) \in Nat /\ v >= 2^(g * k)
    BY <1>1, <2>2, PowerType
  <2> QED
    BY <2>3, <2>4
<1>2. IsFiniteSet(1..n - 1) /\ Cardinality(1..n - 1) = n - 1
  BY Indices
<1>3. S \in SUBSET (1..n - 1)
  BY <1>1
<1>4. Cardinality(S) <= n - 1
  BY <1>2, <1>3, FS_Subset
<1>5. IsFiniteSet(S)
  BY <1>2, <1>3, FS_Subset
<1>6. Cardinality(S) \in Nat
  BY <1>5, FS_CardinalityType
<1> QED
  BY <1>4, <1>6

\* The bits of a mesh are enough for its vertices, unless they are all that an index has.
LEMMA BitsEnough ==
  ASSUME NEW width \in Nat, NEW count \in Nat, NEW n,
         n = 1 + Cardinality({b \in 1..width - 1 : count > 2^b})
  PROVE  n \in Nat \ {0} /\ (count <= 2^n \/ n >= width)
<1> DEFINE S == {b \in 1..width - 1 : count > 2^b}
<1>1. IsFiniteSet(S)
  <2>1. IsFiniteSet(1..width - 1)
    BY FS_Interval
  <2> QED
    BY <2>1, FS_Subset
<1>2. Cardinality(S) \in Nat
  BY <1>1, FS_CardinalityType
<1>3. n \in Nat \ {0}
  BY <1>2
<1>4. ASSUME n < width, ~ (count <= 2^n) PROVE FALSE
  <2>1. ASSUME NEW b \in 1..n PROVE b \in S
    <3>1. 2^b <= 2^n /\ 2^b \in Nat /\ 2^n \in Nat
      BY <1>3, PowerMonotone, PowerType
    <3> QED
      BY <1>3, <1>4, <3>1
  <2>2. Cardinality(1..n) = n
    BY <1>3, Indices
  <2>3. Cardinality(1..n) <= Cardinality(S)
    BY <1>1, <2>1, FS_Subset
  <2> QED
    BY <1>2, <2>2, <2>3
<1> QED
  BY <1>3, <1>4

\* The zigzag encoding is undone.
LEMMA ZigZagUndone ==
  ASSUME NEW m \in Nat, m % 2 = 0, NEW d \in 0..m - 1, NEW z,
         z = IF d < m \div 2 THEN 2 * d ELSE 2 * (m - d) - 1
  PROVE  z \in 0..m - 1 /\ (IF z % 2 = 0 THEN z \div 2 ELSE m - (z + 1) \div 2) = d
<1>1. m \div 2 \in Nat /\ m = 2 * (m \div 2)
  OBVIOUS
<1>2. CASE d < m \div 2
  <2>1. z = 2 * d /\ 2 * d \in 0..m - 1
    BY <1>1, <1>2
  <2>2. (2 * d) % 2 = 0 /\ (2 * d) \div 2 = d
    OBVIOUS
  <2> QED
    BY <2>1, <2>2
<1>3. CASE ~(d < m \div 2)
  <2>1. z = 2 * (m - d) - 1 /\ z \in 0..m - 1
    BY <1>1, <1>3
  <2>2. z % 2 = 1 /\ (z + 1) \div 2 = m - d
    BY <2>1
  <2> QED
    BY <2>1, <2>2
<1> QED
  BY <1>2, <1>3

LEMMA UnZigZagRange ==
  ASSUME NEW m \in Nat, m % 2 = 0, NEW z \in 0..m - 1
  PROVE  (IF z % 2 = 0 THEN z \div 2 ELSE m - (z + 1) \div 2) \in 0..m - 1
<1>1. m = 2 * (m \div 2) /\ m \div 2 \in Nat
  OBVIOUS
<1> QED
  BY <1>1

\* A shorter index is not larger.
LEMMA ShorterRange ==
  ASSUME NEW short \in Nat \ {0}, NEW i \in Nat
  PROVE  i % short \in Nat /\ i % short <= i
<1>1. CASE i < short
  BY <1>1
<1>2. CASE ~(i < short)
  BY <1>2
<1> QED
  BY <1>1, <1>2

-----------------------------------------------------------------------------
(* Recursion over a measure *)

\* g takes the step G at every place of S whose measure mu is below n.
Solves(g, S, mu, n, G) == \A s \in S : mu[s] < n => g[s] = G[<<s, g>>]

\* G only looks at places of a smaller measure.
Grounded(G, S, X, mu) ==
  \A s \in S, g, h \in [S -> X] :
    (\A t \in S : mu[t] < mu[s] => g[t] = h[t]) => G[<<s, g>>] = G[<<s, h>>]

\* Two functions that take the same steps are the same.
LEMMA SameSolution ==
  ASSUME NEW S, NEW X, NEW mu \in [S -> Nat], NEW G, Grounded(G, S, X, mu),
         NEW g \in [S -> X], NEW h \in [S -> X], NEW n \in Nat,
         Solves(g, S, mu, n, G), Solves(h, S, mu, n, G)
  PROVE  \A s \in S : mu[s] < n => g[s] = h[s]
<1> DEFINE T == {m \in Nat : \A s \in S : mu[s] < m /\ mu[s] < n => g[s] = h[s]}
<1>1. 0 \in T
  OBVIOUS
<1>2. ASSUME NEW m \in Nat, m \in T PROVE m + 1 \in T
  <2> SUFFICES ASSUME NEW s \in S, mu[s] < m + 1, mu[s] < n PROVE g[s] = h[s]
    OBVIOUS
  <2>1. ASSUME NEW t \in S, mu[t] < mu[s] PROVE g[t] = h[t]
    <3>1. mu[t] \in Nat /\ mu[s] \in Nat
      OBVIOUS
    <3>2. mu[t] < m /\ mu[t] < n
      BY <2>1, <3>1
    <3> QED
      BY <1>2, <3>2
  <2>2. G[<<s, g>>] = G[<<s, h>>]
    BY <2>1 DEF Grounded
  <2> QED
    BY <2>2 DEF Solves
<1>3. Nat \subseteq T
  <2> HIDE DEF T
  <2> QED
    BY <1>1, <1>2, NatSetInduction
<1> QED
  <2>1. n \in T
    BY <1>3
  <2> QED
    BY <2>1

\* g takes the step G everywhere.
TakesSteps(g, S, G) == \A s \in S : g[s] = G[<<s, g>>]

\* A function that takes the steps everywhere exists.
LEMMA GroundedRecursion ==
  ASSUME NEW S, NEW X, X # {}, NEW mu \in [S -> Nat], NEW G \in [S \X [S -> X] -> X], Grounded(G, S, X, mu)
  PROVE  \E g \in [S -> X] : TakesSteps(g, S, G)
<1> DEFINE T == {n \in Nat : \E g \in [S -> X] : Solves(g, S, mu, n, G)}
<1>1. 0 \in T
  <2>1. PICK x \in X : TRUE
    OBVIOUS
  <2>2. [s \in S |-> x] \in [S -> X] /\ Solves([s \in S |-> x], S, mu, 0, G)
    BY DEF Solves
  <2> QED
    BY <2>2
<1>2. ASSUME NEW n \in Nat, n \in T PROVE n + 1 \in T
  <2>1. PICK g \in [S -> X] : Solves(g, S, mu, n, G)
    BY <1>2
  <2> DEFINE h == [s \in S |-> IF mu[s] < n THEN g[s] ELSE G[<<s, g>>]]
  <2>2. h \in [S -> X]
    OBVIOUS
  <2>3. ASSUME NEW s \in S, mu[s] < n + 1 PROVE h[s] = G[<<s, h>>]
    <3>1. \A t \in S : mu[t] < mu[s] => g[t] = h[t]
      <4> SUFFICES ASSUME NEW t \in S, mu[t] < mu[s] PROVE g[t] = h[t]
        OBVIOUS
      <4>1. mu[t] \in Nat /\ mu[s] \in Nat
        OBVIOUS
      <4>2. mu[t] < n
        BY <2>3, <4>1
      <4> QED
        BY <4>2
    <3>2. G[<<s, g>>] = G[<<s, h>>]
      <4> HIDE DEF h
      <4> QED
        BY <2>2, <3>1 DEF Grounded
    <3>3. h[s] = G[<<s, g>>]
      BY <2>1 DEF Solves
    <3> QED
      BY <3>2, <3>3
  <2>4. Solves(h, S, mu, n + 1, G)
    <3> HIDE DEF h
    <3> QED
      BY <2>3 DEF Solves
  <2> HIDE DEF h
  <2> QED
    BY <2>2, <2>4
<1>3. Nat \subseteq T
  <2> HIDE DEF T
  <2> QED
    BY <1>1, <1>2, NatSetInduction
<1> DEFINE at(n) == CHOOSE g \in [S -> X] : Solves(g, S, mu, n, G)
<1>4. \A n \in Nat : at(n) \in [S -> X] /\ Solves(at(n), S, mu, n, G)
  BY <1>3
<1> DEFINE g == [s \in S |-> at(mu[s] + 1)[s]]
<1> HIDE DEF at
<1>5. g \in [S -> X]
  <2> SUFFICES ASSUME NEW s \in S PROVE at(mu[s] + 1)[s] \in X
    OBVIOUS
  <2>1. mu[s] + 1 \in Nat
    OBVIOUS
  <2> QED
    BY <1>4, <2>1
<1>6. ASSUME NEW s \in S PROVE g[s] = G[<<s, g>>]
  <2>1. PICK n \in Nat : n = mu[s] + 1
    OBVIOUS
  <2>2. PICK h \in [S -> X] : h = at(n) /\ Solves(h, S, mu, n, G)
    BY <1>4
  <2>3. g[s] = h[s] /\ h[s] = G[<<s, h>>]
    <3>1. g[s] = h[s]
      BY <2>1, <2>2
    <3>2. mu[s] < n
      BY <2>1
    <3> QED
      BY <2>2, <3>1, <3>2 DEF Solves
  <2>4. ASSUME NEW t \in S, mu[t] < mu[s] PROVE g[t] = h[t]
    <3>1. PICK m \in Nat : m = mu[t] + 1
      OBVIOUS
    <3>2. PICK k \in [S -> X] : k = at(m) /\ Solves(k, S, mu, m, G)
      BY <1>4
    <3>3. g[t] = k[t]
      BY <3>1, <3>2
    <3>4. m <= n /\ mu[t] < m
      BY <2>1, <2>4, <3>1
    <3>5. Solves(h, S, mu, m, G)
      BY <2>2, <3>4 DEF Solves
    <3>6. k[t] = h[t]
      BY <3>2, <3>4, <3>5, SameSolution
    <3> QED
      BY <3>3, <3>6
  <2>5. G[<<s, g>>] = G[<<s, h>>]
    <3> HIDE DEF g
    <3> QED
      BY <1>5, <2>4 DEF Grounded
  <2> QED
    BY <2>3, <2>5
<1> HIDE DEF g
<1> QED
  BY <1>5, <1>6 DEF TakesSteps

\* The step f leads from each stage of xs to the next.
Advances(f, n, xs) == \A i \in 1..n : \A x \in xs[i - 1] : f[<<i, x>>] \in xs[i]

\* h starts with b and takes the step f from everything that is in its stage.
KeepsPace(h, n, b, f, xs) ==
  h[0] = b /\ \A i \in 1..n : h[i - 1] \in xs[i - 1] => h[i] = f[<<i, h[i - 1]>>]

\* h is at every place in its stage.
InStages(h, n, xs) == \A i \in 0..n : h[i] \in xs[i]

\* A function on 0..n that runs through the stages exists.
LEMMA StagedRecursion ==
  ASSUME NEW n \in Nat, NEW U, NEW xs \in [0..n -> SUBSET U], NEW b \in xs[0], NEW f, Advances(f, n, xs)
  PROVE  \E g \in [0..n -> U] : Recursive(g, n, b, f)
<1> USE DEF Advances
<1> DEFINE e == [p \in (1..n) \X U |-> IF p[2] \in xs[p[1] - 1] THEN f[<<p[1], p[2]>>] ELSE b]
<1>1. b \in U
  <2>1. 0 \in 0..n
    OBVIOUS
  <2> QED
    BY <2>1
<1>2. e \in [(1..n) \X U -> U]
  <2> SUFFICES ASSUME NEW i \in 1..n, NEW x \in U
               PROVE (IF x \in xs[i - 1] THEN f[<<i, x>>] ELSE b) \in U
    OBVIOUS
  <2>1. i \in 0..n
    OBVIOUS
  <2> QED
    BY <1>1, <2>1
<1>3. \A i \in 1..n, x \in U : x \in xs[i - 1] => e[<<i, x>>] = f[<<i, x>>]
  OBVIOUS
<1> HIDE DEF e
<1>4. PICK g \in [0..n -> U] : Recursive(g, n, b, e)
  BY <1>1, <1>2, Recursion
<1> DEFINE T == {i \in Nat : i <= n => g[i] \in xs[i]}
<1>5. 0 \in T
  BY <1>4 DEF Recursive
<1>6. ASSUME NEW i \in Nat, i \in T PROVE i + 1 \in T
  <2> SUFFICES ASSUME i + 1 <= n PROVE g[i + 1] \in xs[i + 1]
    OBVIOUS
  <2>1. i + 1 \in 1..n /\ (i + 1) - 1 = i /\ i \in 0..n /\ g[i] \in xs[i]
    BY <1>6
  <2>2. g[i + 1] = e[<<i + 1, g[i]>>] /\ g[i] \in U
    BY <1>4, <2>1 DEF Recursive
  <2>3. e[<<i + 1, g[i]>>] = f[<<i + 1, g[i]>>]
    BY <1>3, <2>1, <2>2
  <2> QED
    BY <2>1, <2>2, <2>3
<1>7. Nat \subseteq T
  <2> HIDE DEF T
  <2> QED
    BY <1>5, <1>6, NatSetInduction
<1>8. ASSUME NEW i \in 1..n PROVE g[i] = f[<<i, g[i - 1]>>]
  <2>1. i - 1 \in Nat /\ i - 1 <= n /\ i - 1 \in 0..n
    OBVIOUS
  <2>2. g[i - 1] \in xs[i - 1] /\ g[i - 1] \in U
    BY <1>7, <2>1
  <2>3. g[i] = e[<<i, g[i - 1]>>]
    BY <1>4 DEF Recursive
  <2> QED
    BY <1>3, <2>2, <2>3
<1> QED
  BY <1>4, <1>8 DEF Recursive

\* A function that takes the steps is at every place in its stage.
LEMMA StageByStage ==
  ASSUME NEW n \in Nat, NEW xs, NEW b \in xs[0], NEW f, Advances(f, n, xs), NEW h, KeepsPace(h, n, b, f, xs)
  PROVE  InStages(h, n, xs)
<1> USE DEF Advances, KeepsPace, InStages
<1> DEFINE T == {i \in Nat : i <= n => h[i] \in xs[i]}
<1>1. 0 \in T
  OBVIOUS
<1>2. ASSUME NEW i \in Nat, i \in T PROVE i + 1 \in T
  <2> SUFFICES ASSUME i + 1 <= n PROVE h[i + 1] \in xs[i + 1]
    OBVIOUS
  <2>1. i + 1 \in 1..n /\ (i + 1) - 1 = i /\ h[i] \in xs[i]
    BY <1>2
  <2>2. h[i + 1] = f[<<i + 1, h[i]>>] /\ f[<<i + 1, h[i]>>] \in xs[i + 1]
    BY <2>1
  <2> QED
    BY <2>2
<1>3. Nat \subseteq T
  <2> HIDE DEF T
  <2> QED
    BY <1>1, <1>2, NatSetInduction
<1> QED
  <2> SUFFICES ASSUME NEW i \in 0..n PROVE h[i] \in xs[i]
    OBVIOUS
  <2>1. i \in Nat /\ i <= n
    OBVIOUS
  <2> QED
    BY <1>3, <2>1
=============================================================================
