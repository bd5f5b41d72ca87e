--------------------------- MODULE VertexCodecProofs ---------------------------
(***************************************************************************)
(* Proofs about the vertex codec: whatever the vertices, the encodings and *)
(* the sizes of groups and blocks are, the encoder writes inside its       *)
(* buffer, a buffer of meshopt_encodeVertexBufferBound bytes suffices, and *)
(* the decoders read inside a stream that was cut or extended. The words   *)
(* and the groups that are encoded come back when they are decoded.        *)
(***************************************************************************)
EXTENDS VertexCodec, SetLemmas

-----------------------------------------------------------------------------
(* Arithmetic *)

LEMMA MaxOfTwo == \A a, b \in Int : Max({a, b}) = IF a >= b THEN a ELSE b
<1> SUFFICES ASSUME NEW a \in Int, NEW b \in Int PROVE Max({a, b}) = IF a >= b THEN a ELSE b
  OBVIOUS
<1>1. \E x \in {a, b} : \A y \in {a, b} : x >= y
  OBVIOUS
<1>2. Max({a, b}) \in {a, b} /\ \A y \in {a, b} : Max({a, b}) >= y
  BY <1>1 DEF Max
<1> QED
  BY <1>2

LEMMA MinOfTwo == \A a, b \in Int : Min({a, b}) = IF a <= b THEN a ELSE b
<1> SUFFICES ASSUME NEW a \in Int, NEW b \in Int PROVE Min({a, b}) = IF a <= b THEN a ELSE b
  OBVIOUS
<1>1. \E x \in {a, b} : \A y \in {a, b} : x <= y
  OBVIOUS
<1>2. Min({a, b}) \in {a, b} /\ \A y \in {a, b} : Min({a, b}) <= y
  BY <1>1 DEF Min
<1> QED
  BY <1>2

\* a numbers of size b: how many fit, and how many are enough.
LEMMA Quotient ==
  ASSUME NEW a \in Nat, NEW b \in Nat \ {0}
  PROVE  /\ a \div b \in Nat
         /\ (a \div b) * b <= a /\ a < (a \div b) * b + b
         /\ \A q \in Nat : q * b <= a => q <= a \div b
         /\ \A q \in Nat : a < q * b => a \div b < q
<1>1. a \div b \in Nat /\ (a \div b) * b <= a /\ a < (a \div b) * b + b
  OBVIOUS
<1>2. PICK p \in Nat : p = a \div b
  BY <1>1
<1>3. \A q, r \in Nat : q <= r => q * b <= r * b
  OBVIOUS
<1>4. (p + 1) * b = p * b + b
  OBVIOUS
<1>5. ASSUME NEW q \in Nat, q * b <= a PROVE q <= p
  <2>1. CASE p + 1 <= q
    <3>1. (p + 1) * b <= q * b
      BY <1>3, <2>1
    <3> QED
      BY <1>1, <1>2, <1>4, <1>5, <3>1
  <2> QED
    BY <2>1
<1>6. ASSUME NEW q \in Nat, a < q * b PROVE p < q
  <2>1. CASE q <= p
    <3>1. q * b <= p * b
      BY <1>3, <2>1
    <3> QED
      BY <1>1, <1>2, <1>6, <3>1
  <2> QED
    BY <2>1
<1> QED
  BY <1>1, <1>2, <1>5, <1>6

LEMMA QuotientMonotone ==
  ASSUME NEW a \in Nat, NEW c \in Nat, NEW b \in Nat \ {0}, a <= c
  PROVE  a \div b <= c \div b
<1>1. a \div b \in Nat /\ (a \div b) * b <= c
  BY Quotient
<1> QED
  BY <1>1, Quotient

LEMMA ShortMeans == \A end, at, need \in Nat : Short(end, at, need) <=> at <= end /\ end < at + need
  BY DEF Short

-----------------------------------------------------------------------------
(* Sizes *)

LEMMA GroupsFacts ==
  ASSUME NEW n \in Nat
  PROVE  /\ Groups(n) \in Nat /\ Aligned(n) = Groups(n) * GroupSize /\ Aligned(n) \in Nat
         /\ n <= Aligned(n)
         /\ \A q \in Nat : n <= q * GroupSize => Aligned(n) <= q * GroupSize
<1>1. GroupSize \in Nat \ {0} /\ n + GroupSize - 1 \in Nat
  BY SizesAssumption
<1>2. PICK a \in Nat : a = n + GroupSize - 1
  BY <1>1
<1>3. PICK p \in Nat : p = Groups(n) /\ p * GroupSize <= a /\ a < p * GroupSize + GroupSize
        /\ \A q \in Nat : a < q * GroupSize => p < q
  BY <1>1, <1>2, Quotient DEF Groups
<1>4. \A x, y \in Nat : x <= y => x * GroupSize <= y * GroupSize
  BY <1>1
<1>5. p * GroupSize \in Nat /\ \A q \in Nat : q * GroupSize \in Nat /\ (q + 1) * GroupSize = q * GroupSize + GroupSize
  BY <1>1
<1>6. ASSUME NEW q \in Nat, n <= q * GroupSize PROVE p * GroupSize <= q * GroupSize
  <2>1. a < (q + 1) * GroupSize
    BY <1>1, <1>2, <1>5, <1>6
  <2>2. p < q + 1
    BY <1>3, <2>1
  <2> QED
    BY <1>4, <2>2
<1>7. n <= p * GroupSize
  BY <1>1, <1>2, <1>3, <1>5
<1> QED
  BY <1>3, <1>5, <1>6, <1>7 DEF Aligned

LEMMA HeaderMonotone ==
  ASSUME NEW a \in Nat, NEW b \in Nat, a <= b
  PROVE  HeaderSize(a) \in Nat /\ HeaderSize(a) <= HeaderSize(b) /\ HeaderSize(b) \in Nat
<1>1. GroupSize \in Nat \ {0} /\ a + GroupSize - 1 \in Nat /\ b + GroupSize - 1 \in Nat
      /\ a + GroupSize - 1 <= b + GroupSize - 1
  BY SizesAssumption
<1>2. Groups(a) \in Nat /\ Groups(b) \in Nat /\ Groups(a) <= Groups(b)
  BY <1>1, Quotient, QuotientMonotone DEF Groups
<1>3. Groups(a) + 3 \in Nat /\ Groups(b) + 3 \in Nat /\ Groups(a) + 3 <= Groups(b) + 3
  BY <1>2
<1> QED
  BY <1>3, Quotient, QuotientMonotone DEF HeaderSize

\* A block has whole groups, at least one.
LEMMA BlockSizeFacts ==
  ASSUME NEW m \in Meshes
  PROVE  /\ BlockSize(m.size) \in Nat \ {0} /\ BlockSize(m.size) <= BlockMax
         /\ \E q \in Nat : BlockSize(m.size) = q * GroupSize
         /\ \E q \in Nat : BlockMax = q * GroupSize
<1>1. GroupSize \in Nat \ {0} /\ BlockMax \in Nat \ {0} /\ BlockMax % GroupSize = 0 /\ BlockBytes \in Nat
      /\ m.size \in Nat \ {0} /\ m.size * GroupSize <= BlockBytes
  BY SizesAssumption, InputsAssumption
<1>2. PICK s \in Nat \ {0} : s = m.size * GroupSize
  BY <1>1
<1>3. PICK p \in Nat : p = BlockBytes \div s /\ 1 <= p
  <2>1. 1 * s <= BlockBytes
    BY <1>1, <1>2
  <2> QED
    BY <1>1, <1>2, <2>1, Quotient
<1>4. GroupSize * p = p * GroupSize /\ p * GroupSize \in Nat \ {0}
  BY <1>1, <1>3
<1>5. BlockMax = (BlockMax \div GroupSize) * GroupSize /\ BlockMax \div GroupSize \in Nat
  BY <1>1
<1>6. BlockSize(m.size) = IF p * GroupSize < BlockMax THEN p * GroupSize ELSE BlockMax
  BY <1>2, <1>3, <1>4 DEF BlockSize
<1>7. PICK x \in Nat, y \in Nat, z \in Nat :
        x = p * GroupSize /\ x # 0 /\ z = BlockMax \div GroupSize /\ y = BlockMax /\ y # 0 /\ y = z * GroupSize
  BY <1>1, <1>4, <1>5
<1>8. BlockSize(m.size) = x \/ BlockSize(m.size) = y
  BY <1>6, <1>7
<1>9. BlockSize(m.size) \in Nat \ {0} /\ BlockSize(m.size) <= BlockMax
  <2>1. BlockSize(m.size) = IF x < y THEN x ELSE y
    BY <1>6, <1>7
  <2> QED
    BY <1>7, <2>1
<1>10. \E q \in Nat : BlockMax = q * GroupSize
  BY <1>7, Zenon
<1>11. \E q \in Nat : BlockSize(m.size) = q * GroupSize
  BY <1>3, <1>7, <1>8, Zenon
<1> QED
  BY <1>9, <1>10, <1>11

-----------------------------------------------------------------------------
(* Groups *)

BitsOfGroups == {0, 1, 2, 4, 8}

LEMMA FunctionSeq ==
  ASSUME NEW n \in Nat, NEW X, NEW f \in [1..n -> X]
  PROVE  f \in Seq(X) /\ Len(f) = n
<1>1. f \in Seq(X)
  BY SeqDef
<1>2. Len(f) \in Nat /\ DOMAIN f = 1..Len(f) /\ DOMAIN f = 1..n
  BY <1>1, LenProperties
<1> QED
  BY <1>1, <1>2

LEMMA SentinelType == \A bits \in Nat : Sentinel(bits) \in Nat
  BY PowerPositive DEF Sentinel

LEMMA EscapesFacts ==
  ASSUME NEW values, NEW bits, NEW n \in Nat
  PROVE  /\ Escapes(values, bits, n) \in 0..n
         /\ Escapes(values, bits, n + 1) = Escapes(values, bits, n) + (IF values[n + 1] >= Sentinel(bits) THEN 1 ELSE 0)
<1> DEFINE E(m) == {i \in 1..m : values[i] >= Sentinel(bits)}
<1>1. IsFiniteSet(1..n) /\ Cardinality(1..n) = n /\ E(n) \subseteq 1..n
  BY Indices
<1>2. IsFiniteSet(E(n)) /\ Cardinality(E(n)) \in Nat /\ Cardinality(E(n)) <= n
  <2>1. PICK S : S = E(n)
    OBVIOUS
  <2>2. IsFiniteSet(S) /\ Cardinality(S) <= Cardinality(1..n)
    BY <1>1, <2>1, FS_Subset
  <2>3. Cardinality(S) \in Nat
    BY <2>2, FS_CardinalityType
  <2> QED
    BY <1>1, <2>1, <2>2, <2>3
<1>3. CASE values[n + 1] >= Sentinel(bits)
  <2>1. E(n + 1) = E(n) \cup {n + 1} /\ n + 1 \notin E(n)
    BY <1>3
  <2>2. PICK S, a : S = E(n) /\ a = n + 1
    OBVIOUS
  <2>3. Cardinality(S \cup {a}) = Cardinality(S) + 1
    BY <1>2, <2>1, <2>2, FS_AddElement
  <2>4. Escapes(values, bits, n) = Cardinality(S) /\ Escapes(values, bits, n + 1) = Cardinality(S \cup {a})
    BY <2>1, <2>2 DEF Escapes
  <2>5. Cardinality(S) \in 0..n
    BY <1>2, <2>2
  <2> QED
    BY <1>3, <2>3, <2>4, <2>5
<1>4. CASE ~(values[n + 1] >= Sentinel(bits))
  <2>1. E(n + 1) = E(n)
    BY <1>4
  <2> QED
    BY <1>2, <1>4, <2>1 DEF Escapes
<1> QED
  BY <1>3, <1>4

LEMMA FixedFacts ==
  \A bits \in {1, 2, 4} : Fixed(bits) \in Nat /\ Fixed(bits) <= GroupSize \div 2 /\ 8 \div bits \in Nat \ {0}
  BY SizesAssumption DEF Fixed

\* The function that defines Whole.
WholeSteps(values, bits) ==
  CHOOSE whole : whole = [i \in 0..GroupSize |->
        IF i = 0 THEN <<>>
        ELSE IF values[i] >= Sentinel(bits) THEN Append(whole[i - 1], values[i]) ELSE whole[i - 1]]

\* What it does at each value
WholeRun(h, values, bits, T) ==
  /\ Whole(values, bits) = h[GroupSize] /\ h[0] = <<>>
  /\ \A i \in 1..GroupSize : h[i] = IF values[i] >= Sentinel(bits) THEN Append(h[i - 1], values[i]) ELSE h[i - 1]
  /\ \A i \in 0..GroupSize : h[i] \in Seq(T) /\ Len(h[i]) = Escapes(values, bits, i)

LEMMA WholeStepping ==
  ASSUME NEW T, NEW values \in [1..GroupSize -> T], NEW bits \in Nat
  PROVE  \E h : WholeRun(h, values, bits, T)
<1> DEFINE X == Seq(T)
           n == GroupSize
           Large(i) == values[i] >= Sentinel(bits)
           f == [p \in (1..n) \X X |-> IF Large(p[1]) THEN Append(p[2], values[p[1]]) ELSE p[2]]
           Body(h) == [i \in 0..n |->
             IF i = 0 THEN <<>> ELSE IF Large(i) THEN Append(h[i - 1], values[i]) ELSE h[i - 1]]
           w == WholeSteps(values, bits)
<1>1. n \in Nat /\ <<>> \in X
  BY SizesAssumption
<1>2. f \in [(1..n) \X X -> X]
  <2>1. ASSUME NEW p \in (1..n) \X X
        PROVE  (IF Large(p[1]) THEN Append(p[2], values[p[1]]) ELSE p[2]) \in X
    <3>1. p[1] \in 1..n /\ p[2] \in Seq(T) /\ values[p[1]] \in T
      OBVIOUS
    <3> HIDE DEF Large
    <3> QED
      BY <3>1, AppendProperties
  <2> HIDE DEF Large, X
  <2> QED
    BY <2>1
<1>3. \A i \in 1..n, x \in X : f[<<i, x>>] = IF Large(i) THEN Append(x, values[i]) ELSE x
  <2> HIDE DEF Large, X
  <2> QED
    OBVIOUS
<1> HIDE DEF f, Large
<1>4. PICK g \in [0..n -> X] : g[0] = <<>> /\ \A i \in 1..n : g[i] = f[<<i, g[i - 1]>>]
  <2> HIDE DEF X
  <2>1. \E g \in [0..n -> X] : Recursive(g, n, <<>>, f)
    BY <1>1, <1>2, Recursion
  <2> QED
    BY <2>1 DEF Recursive
<1>5. g = Body(g)
  <2>1. ASSUME NEW i \in 0..n PROVE Body(g)[i] = g[i]
    <3>1. CASE i = 0
      BY <1>4, <3>1
    <3>2. CASE i # 0
      <4>1. i \in 1..n /\ i - 1 \in 0..n
        BY <1>1, <3>2
      <4>2. g[i - 1] \in X
        BY <1>4, <4>1
      <4> HIDE DEF X
      <4>3. g[i] = IF Large(i) THEN Append(g[i - 1], values[i]) ELSE g[i - 1]
        BY <1>3, <1>4, <4>1, <4>2
      <4> QED
        BY <3>2, <4>3
    <3> QED
      BY <3>1, <3>2
  <2> QED
    BY <1>4, <2>1
<1>6. w = Body(w)
  <2>1. \E h : h = Body(h)
    <3> HIDE DEF Body
    <3> QED
      BY <1>5
  <2> QED
    BY <2>1 DEF WholeSteps, Large
<1>7. Whole(values, bits) = w[n]
  BY DEF Whole, WholeSteps
<1>8. PICK h : h = w
  OBVIOUS
<1> HIDE DEF w
<1>9. h[0] = <<>> /\ \A i \in 1..n : h[i] = IF Large(i) THEN Append(h[i - 1], values[i]) ELSE h[i - 1]
  <2>1. h = Body(h)
    BY <1>6, <1>8
  <2>2. \A i \in 0..n : Body(h)[i] =
          IF i = 0 THEN <<>> ELSE IF Large(i) THEN Append(h[i - 1], values[i]) ELSE h[i - 1]
    BY <1>1
  <2> HIDE DEF Body
  <2>3. \A i \in 0..n : h[i] =
          IF i = 0 THEN <<>> ELSE IF Large(i) THEN Append(h[i - 1], values[i]) ELSE h[i - 1]
    BY <2>1, <2>2
  <2> QED
    BY <1>1, <2>3
<1> HIDE DEF Body
<1>10. \A i \in 0..n : h[i] \in X
  <2> HIDE DEF X
  <2>1. \A i \in 1..n : h[i - 1] \in X => h[i] = f[<<i, h[i - 1]>>]
    BY <1>3, <1>9
  <2>2. h[0] = <<>>
    BY <1>9
  <2>3. Follows(h, n, <<>>, f, X)
    BY <2>1, <2>2 DEF Follows
  <2> QED
    BY <1>1, <1>2, <2>3, StepByStep
<1> DEFINE I == {i \in Nat : i <= n => Len(h[i]) = Escapes(values, bits, i)}
<1>11. 0 \in I
  <2>1. Escapes(values, bits, 0) \in 0..0
    BY EscapesFacts
  <2> QED
    BY <1>9, <2>1
<1>12. ASSUME NEW i \in Nat, i \in I PROVE i + 1 \in I
  <2>1. ASSUME i + 1 <= n PROVE Len(h[i + 1]) = Escapes(values, bits, i + 1)
    <3>1. i + 1 \in 1..n /\ (i + 1) - 1 = i /\ i \in 0..n /\ values[i + 1] \in T
      BY <1>1, <2>1
    <3>2. h[i] \in Seq(T) /\ Len(h[i]) = Escapes(values, bits, i)
      BY <1>10, <1>12, <3>1
    <3>3. h[i + 1] = IF Large(i + 1) THEN Append(h[i], values[i + 1]) ELSE h[i]
      BY <1>9, <3>1
    <3>4. Len(h[i + 1]) = Len(h[i]) + (IF Large(i + 1) THEN 1 ELSE 0)
      BY <3>1, <3>2, <3>3, Enqueue
    <3> QED
      BY <3>2, <3>4, EscapesFacts DEF Large
  <2> QED
    BY <2>1
<1>13. Nat \subseteq I
  <2> HIDE DEF I
  <2> QED
    BY <1>11, <1>12, NatSetInduction
<1>14. \A i \in 0..n : h[i] \in Seq(T) /\ Len(h[i]) = Escapes(values, bits, i)
  <2>1. \A i \in 0..n : i \in Nat /\ i <= n
    OBVIOUS
  <2> QED
    BY <1>10, <1>13, <2>1
<1>15. WholeRun(h, values, bits, T)
  BY <1>7, <1>8, <1>9, <1>14 DEF WholeRun, Large
<1> QED
  BY <1>15

LEMMA WholeFacts ==
  ASSUME NEW T, NEW values \in [1..GroupSize -> T], NEW bits \in Nat
  PROVE  Whole(values, bits) \in Seq(T) /\ Len(Whole(values, bits)) = Escapes(values, bits, GroupSize)
<1>1. PICK h : WholeRun(h, values, bits, T)
  BY WholeStepping
<1>2. GroupSize \in 0..GroupSize
  BY SizesAssumption
<1> QED
  BY <1>1, <1>2 DEF WholeRun

\* What a group costs: at most the limit that both sides check, and no more than it was measured.
LEMMA MeasureFacts ==
  ASSUME NEW values, NEW bits \in BitsOfGroups
  PROVE  /\ Measure(values, bits) \in Nat
         /\ GroupReach(values, bits) \in Nat /\ GroupReach(values, bits) <= DecodeLimit
<1>1. GroupSize \in Nat \ {0} /\ DecodeLimit = (GroupSize \div 2) + GroupSize /\ GroupSize \div 2 \in Nat
      /\ NoFit \in Nat
  BY SizesAssumption DEF NoFit
<1>2. Escapes(values, bits, GroupSize) \in 0..GroupSize
  BY <1>1, EscapesFacts
<1>3. Escapes(values, bits, GroupSize - 1) \in 0..GroupSize - 1
  <2>1. GroupSize - 1 \in Nat
    BY <1>1
  <2> QED
    BY <2>1, EscapesFacts
<1>4. CASE bits = 0
  BY <1>1, <1>4 DEF Measure, GroupReach
<1>5. CASE bits = 8
  BY <1>1, <1>5 DEF Measure, GroupReach
<1>6. CASE bits \notin {0, 8}
  <2>1. bits \in {1, 2, 4}
    BY <1>6 DEF BitsOfGroups
  <2>2. Fixed(bits) \in Nat /\ Fixed(bits) <= GroupSize \div 2
    BY <2>1, FixedFacts
  <2>3. /\ Measure(values, bits) = Fixed(bits) + Escapes(values, bits, GroupSize)
        /\ GroupReach(values, bits) = Fixed(bits) + Escapes(values, bits, GroupSize - 1) + 1
    BY <1>6 DEF Measure, GroupReach
  <2> QED
    BY <1>1, <1>2, <1>3, <2>2, <2>3
<1> QED
  BY <1>4, <1>5, <1>6

LEMMA PackedType ==
  ASSUME NEW fits \in [1..GroupSize -> Nat], NEW bits \in {1, 2, 4}, NEW n \in 1..Fixed(bits)
  PROVE  Packed(fits, bits, n) \in Nat
<1>1. PICK per \in Nat \ {0} : per = 8 \div bits /\ per * bits = 8
  OBVIOUS
<1> DEFINE f == [i \in 0..per - 1 |-> fits[(n - 1) * per + i + 1] * 2^Shift(bits, i)]
<1>2. ASSUME NEW i \in 0..per - 1 PROVE f[i] \in Nat
  <2>1. Shift(bits, i) \in Nat
    <3>1. CASE bits = 1
      BY <3>1 DEF Shift
    <3>2. CASE bits = 2
      BY <1>1, <3>2 DEF Shift
    <3>3. CASE bits = 4
      BY <1>1, <3>3 DEF Shift
    <3> QED
      BY <3>1, <3>2, <3>3
  <2>2. (n - 1) * per + i + 1 \in 1..GroupSize
    <3>1. GroupSize \in Nat /\ Fixed(bits) \in Nat /\ n \in Nat /\ n >= 1 /\ n <= Fixed(bits)
      BY SizesAssumption, FixedFacts
    <3>2. CASE bits = 1
      <4>1. per = 8 /\ n <= GroupSize \div 8
        BY <1>1, <3>1, <3>2 DEF Fixed
      <4> QED
        BY <3>1, <4>1
    <3>3. CASE bits = 2
      <4>1. per = 4 /\ n <= (GroupSize * 2) \div 8
        BY <1>1, <3>1, <3>3 DEF Fixed
      <4> QED
        BY <3>1, <4>1
    <3>4. CASE bits = 4
      <4>1. per = 2 /\ n <= (GroupSize * 4) \div 8
        BY <1>1, <3>1, <3>4 DEF Fixed
      <4> QED
        BY <3>1, <4>1
    <3> QED
      BY <3>2, <3>3, <3>4
  <2>3. 2^Shift(bits, i) \in Nat /\ fits[(n - 1) * per + i + 1] \in Nat
    BY <2>1, <2>2, PowerPositive
  <2> QED
    BY <2>3
<1>3. IsFiniteSet(0..per - 1)
  BY FS_Interval
<1>4. DOMAIN f = 0..per - 1
  OBVIOUS
<1>5. Packed(fits, bits, n) = SumFunctionOnSet(f, 0..per - 1)
  BY <1>1, <1>4 DEF Packed, SumFunction
<1> HIDE DEF f
<1> QED
  BY <1>2, <1>3, <1>5, SumNat

LEMMA CodedGroupFacts ==
  ASSUME NEW values \in Seq(Nat), Len(values) = GroupSize, NEW bits \in BitsOfGroups
  PROVE  /\ CodedGroup(values, bits) \in Seq(Nat)
         /\ Len(CodedGroup(values, bits)) <= Measure(values, bits)
         /\ Len(CodedGroup(values, bits)) <= DecodeLimit
<1>1. GroupSize \in Nat \ {0} /\ DecodeLimit = (GroupSize \div 2) + GroupSize /\ GroupSize \div 2 \in Nat
  BY SizesAssumption
<1>2. values \in [1..GroupSize -> Nat] /\ Measure(values, bits) \in Nat
  BY LenProperties, MeasureFacts
<1>3. CASE bits = 0
  <2>1. CodedGroup(values, bits) = <<>>
    BY <1>3 DEF CodedGroup
  <2> QED
    BY <1>1, <1>2, <2>1
<1>4. CASE bits = 8
  <2>1. CodedGroup(values, bits) = values /\ Measure(values, bits) = GroupSize
    BY <1>4 DEF CodedGroup, Measure
  <2> QED
    BY <1>1, <2>1
<1>5. CASE bits \notin {0, 8}
  <2>1. bits \in {1, 2, 4} /\ bits \in Nat
    BY <1>5 DEF BitsOfGroups
  <2>2. Fixed(bits) \in Nat /\ Fixed(bits) <= GroupSize \div 2
    BY <2>1, FixedFacts
  <2>3. Measure(values, bits) = Fixed(bits) + Escapes(values, bits, GroupSize)
    BY <1>5 DEF Measure
  <2>4. Escapes(values, bits, GroupSize) \in 0..GroupSize
    BY <1>1, EscapesFacts
  <2> DEFINE fits == [i \in 1..GroupSize |-> IF values[i] < Sentinel(bits) THEN values[i] ELSE Sentinel(bits)]
             head == [n \in 1..Fixed(bits) |-> Packed(fits, bits, n)]
  <2>5. fits \in [1..GroupSize -> Nat]
    BY <1>2, <2>1, SentinelType
  <2>6. CodedGroup(values, bits) = head \o Whole(values, bits)
    BY <1>5 DEF CodedGroup
  <2> HIDE DEF fits
  <2>7. head \in [1..Fixed(bits) -> Nat]
    BY <2>1, <2>5, PackedType
  <2>8. head \in Seq(Nat) /\ Len(head) = Fixed(bits)
    <3> HIDE DEF head
    <3> QED
      BY <2>2, <2>7, FunctionSeq
  <2>9. Whole(values, bits) \in Seq(Nat) /\ Len(Whole(values, bits)) = Escapes(values, bits, GroupSize)
    BY <1>2, <2>1, WholeFacts
  <2> HIDE DEF head
  <2>10. CodedGroup(values, bits) \in Seq(Nat) /\ Len(CodedGroup(values, bits)) = Fixed(bits) + Escapes(values, bits, GroupSize)
    BY <2>6, <2>8, <2>9, ConcatProperties
  <2> QED
    BY <1>1, <2>2, <2>3, <2>4, <2>10
<1> QED
  BY <1>3, <1>4, <1>5

\* The encoding of a group is the shortest of the four.
LEMMA BestBitsFacts ==
  ASSUME NEW values, NEW bits, \A i \in 1..4 : bits[i] \in BitsOfGroups, NEW lastBits
  PROVE  /\ BestBits(values, bits, lastBits) \in 0..3
         /\ \A b \in 0..3 : Measure(values, bits[BestBits(values, bits, lastBits) + 1]) <= Measure(values, bits[b + 1])
<1> DEFINE M(b) == Measure(values, bits[b + 1])
           Better(best, b) ==
             IF \/ M(b) < M(best)
                \/ M(b) = M(best) /\ bits[b + 1] = lastBits /\ bits[best + 1] # 8
             THEN b ELSE best
<1>1. \A b \in 0..3 : M(b) \in Nat
  <2> SUFFICES ASSUME NEW b \in 0..3 PROVE M(b) \in Nat
    OBVIOUS
  <2>1. b + 1 \in 1..4
    OBVIOUS
  <2> QED
    BY <2>1, MeasureFacts
<1> HIDE DEF M
<1>2. \A b, c \in 0..3 : Better(b, c) \in 0..3 /\ M(Better(b, c)) <= M(b) /\ M(Better(b, c)) <= M(c)
  <2> SUFFICES ASSUME NEW b \in 0..3, NEW c \in 0..3
               PROVE  Better(b, c) \in 0..3 /\ M(Better(b, c)) <= M(b) /\ M(Better(b, c)) <= M(c)
    OBVIOUS
  <2>1. Better(b, c) = b \/ (Better(b, c) = c /\ M(c) <= M(b))
    BY <1>1
  <2>2. Better(b, c) = b => M(b) <= M(c)
    <3>1. CASE b = c
      BY <1>1, <3>1
    <3>2. CASE b # c
      <4>1. ASSUME M(c) < M(b) PROVE Better(b, c) = c
        BY <4>1
      <4> QED
        BY <1>1, <3>2, <4>1
    <3> QED
      BY <3>1, <3>2
  <2> HIDE DEF Better
  <2> QED
    BY <1>1, <2>1, <2>2
<1>3. BestBits(values, bits, lastBits) = Better(Better(Better(3, 0), 1), 2)
  BY DEF BestBits, M
<1> HIDE DEF Better
<1>4. PICK x \in 0..3 : x = Better(3, 0) /\ M(x) <= M(3) /\ M(x) <= M(0)
  BY <1>2
<1>5. PICK y \in 0..3 : y = Better(x, 1) /\ M(y) <= M(x) /\ M(y) <= M(1)
  BY <1>2
<1>6. PICK z \in 0..3 : z = Better(y, 2) /\ M(z) <= M(y) /\ M(z) <= M(2)
  BY <1>2
<1>7. BestBits(values, bits, lastBits) = z
  BY <1>3, <1>4, <1>5, <1>6
<1>8. \A b \in 0..3 : M(z) <= M(b)
  <2>1. M(z) <= M(0) /\ M(z) <= M(1) /\ M(z) <= M(2) /\ M(z) <= M(3)
    BY <1>1, <1>4, <1>5, <1>6
  <2> QED
    BY <2>1
<1> QED
  BY <1>7, <1>8 DEF M

LEMMA GroupType ==
  ASSUME NEW n \in Nat, NEW values \in Seq(Nat), Len(values) = n * GroupSize, NEW g \in 1..n
  PROVE  Group(values, g - 1) \in Seq(Nat) /\ Len(Group(values, g - 1)) = GroupSize
<1>1. PICK a \in Int, b \in Int : a = (g - 1) * GroupSize + 1 /\ b = ((g - 1) + 1) * GroupSize
  BY SizesAssumption
<1>2. a >= 1 /\ b <= n * GroupSize /\ b - a + 1 = GroupSize /\ a <= b
  <2>1. GroupSize \in Nat \ {0}
    BY SizesAssumption
  <2>2. (g - 1) * GroupSize >= 0
    BY <2>1
  <2>3. ((g - 1) + 1) * GroupSize = (g - 1) * GroupSize + GroupSize
    BY <2>1
  <2>4. g * GroupSize <= n * GroupSize
    <3>1. \A x, y \in Nat : x <= y => x * GroupSize <= y * GroupSize
      BY <2>1
    <3> QED
      BY <3>1
  <2> QED
    BY <1>1, <2>1, <2>2, <2>3, <2>4
<1>3. \A i \in a..b : values[i] \in Nat
  <2>1. a..b \subseteq 1..Len(values)
    BY <1>2
  <2> QED
    BY <2>1, LenProperties
<1>4. SubSeq(values, a, b) \in Seq(Nat) /\ Len(SubSeq(values, a, b)) = GroupSize
  BY <1>2, <1>3, SubSeqProperties
<1> QED
  BY <1>1, <1>4 DEF Group

-----------------------------------------------------------------------------
(* Byte channels of the encoder *)

\* What encodeBytes carries from group to group.
Coding(H) == [header : [1..H -> Nat], groups : Seq(Nat), lastBits : Int, reach : Nat, ok : BOOLEAN]

Inside(s, start) == s.reach <= BufferSize /\ (s.ok => start + Len(s.groups) <= BufferSize)

\* A group is written only if the longest one fits, and it is not longer than any encoding of it.
OneGroup(s, e, values, bits, start, H) ==
  /\ e \in Coding(H)
  /\ Inside(s, start) => Inside(e, start)
  /\ e.ok => /\ s.ok
             /\ \A b \in 0..3 : Len(e.groups) <= Len(s.groups) + Measure(values, bits[b + 1])
  /\ ~e.ok => /\ e.groups = s.groups
              /\ s.ok => BufferSize < start + Len(s.groups) + DecodeLimit

LEMMA EncodeGroupFacts ==
  ASSUME BufferSize \in Nat, NEW start \in Nat, NEW H \in Nat,
         NEW n \in Nat, NEW values \in Seq(Nat), Len(values) = n * GroupSize,
         NEW bits, \A i \in 1..4 : bits[i] \in BitsOfGroups,
         NEW s \in Coding(H), NEW g \in 1..n, NEW e, e = EncodeGroup(s, values, bits, g, start)
  PROVE  OneGroup(s, e, Group(values, g - 1), bits, start, H)
<1> DEFINE grp == Group(values, g - 1)
           best == BestBits(grp, bits, s.lastBits)
           here == start + Len(s.groups)
           coded == CodedGroup(grp, bits[best + 1])
           new == [header   |-> [s.header EXCEPT ![((g - 1) \div 4) + 1] = @ + best * 2^(2 * ((g - 1) % 4))],
                   groups   |-> s.groups \o coded,
                   lastBits |-> bits[best + 1],
                   reach    |-> Max({s.reach, here + GroupReach(grp, bits[best + 1])}),
                   ok       |-> TRUE]
<1>1. grp \in Seq(Nat) /\ Len(grp) = GroupSize
  BY GroupType
<1>2. /\ s.header \in [1..H -> Nat] /\ s.groups \in Seq(Nat) /\ s.lastBits \in Int /\ s.reach \in Nat
      /\ s.ok \in BOOLEAN
  BY DEF Coding
<1>len. Len(s.groups) \in Nat /\ here \in Nat
  BY <1>2
<1>3. DecodeLimit \in Nat
  BY SizesAssumption
<1>4. e = IF ~s.ok \/ Short(BufferSize, here, DecodeLimit) THEN [s EXCEPT !.ok = FALSE] ELSE new
  BY DEF EncodeGroup
<1> HIDE DEF grp
<1>5. best \in 0..3 /\ \A b \in 0..3 : Measure(grp, bits[best + 1]) <= Measure(grp, bits[b + 1])
  BY BestBitsFacts
<1>6. CASE ~s.ok \/ Short(BufferSize, here, DecodeLimit)
  <2>1. e = [s EXCEPT !.ok = FALSE]
    BY <1>4, <1>6
  <2>2. e \in Coding(H) /\ ~e.ok /\ e.groups = s.groups /\ e.reach = s.reach
    BY <2>1 DEF Coding
  <2>3. s.ok => BufferSize < start + Len(s.groups) + DecodeLimit
    BY <1>len, <1>3, <1>6, ShortMeans
  <2> QED
    BY <2>2, <2>3 DEF Inside, OneGroup
<1>7. CASE ~(~s.ok \/ Short(BufferSize, here, DecodeLimit))
  <2>1. e = new
    BY <1>4, <1>7
  <2> HIDE DEF best
  <2>2. bits[best + 1] \in BitsOfGroups
    <3>1. best + 1 \in 1..4
      BY <1>5
    <3> QED
      BY <3>1
  <2>3. coded \in Seq(Nat) /\ Len(coded) <= Measure(grp, bits[best + 1]) /\ Len(coded) <= DecodeLimit
    BY <1>1, <2>2, CodedGroupFacts
  <2>4. GroupReach(grp, bits[best + 1]) \in Nat /\ GroupReach(grp, bits[best + 1]) <= DecodeLimit
    BY <2>2, MeasureFacts
  <2> HIDE DEF coded
  <2>5. s.groups \o coded \in Seq(Nat) /\ Len(s.groups \o coded) = Len(s.groups) + Len(coded)
    BY <1>2, <2>3, ConcatProperties
  <2>6. PICK r \in Nat : r = here + GroupReach(grp, bits[best + 1]) /\ r <= here + DecodeLimit
    BY <1>len, <1>3, <2>4, SMTT(30)
  <2>7. new.reach \in Nat /\ new.reach = IF s.reach >= r THEN s.reach ELSE r
    <3>1. new.reach = Max({s.reach, r})
      BY <2>6
    <3>2. s.reach \in Nat
      BY <1>2
    <3> HIDE DEF new
    <3> QED
      BY <3>1, <3>2, MaxOfTwo
  <2>8. new.header \in [1..H -> Nat]
    <3>1. PICK x \in Nat : x = best * 2^(2 * ((g - 1) % 4))
      <4>1. 2^(2 * ((g - 1) % 4)) \in Nat
        <5>1. 2 * ((g - 1) % 4) \in Nat
          OBVIOUS
        <5> QED
          BY <5>1, PowerPositive
      <4> QED
        BY <1>5, <4>1
    <3>2. new.header = [s.header EXCEPT ![((g - 1) \div 4) + 1] = @ + x]
      BY <3>1
    <3>3. PICK p : p = ((g - 1) \div 4) + 1
      OBVIOUS
    <3>4. PICK h \in [1..H -> Nat] : h = s.header
      BY <1>2
    <3>5. [h EXCEPT ![p] = @ + x] \in [1..H -> Nat]
      <4>1. CASE p \in 1..H
        <5>1. h[p] + x \in Nat
          BY <4>1
        <5> QED
          BY <5>1
      <4>2. CASE p \notin 1..H
        BY <4>2
      <4> QED
        BY <4>1, <4>2
    <3> HIDE DEF new
    <3> QED
      BY <3>2, <3>3, <3>4, <3>5
  <2>9. bits[best + 1] \in Int
    BY <2>2 DEF BitsOfGroups
  <2>10. new.ok /\ new.groups = s.groups \o coded /\ new.lastBits = bits[best + 1]
    OBVIOUS
  <2>11. new \in Coding(H)
    <3>1. new = [header |-> new.header, groups |-> new.groups, lastBits |-> new.lastBits, reach |-> new.reach,
                 ok |-> new.ok]
      OBVIOUS
    <3> HIDE DEF new
    <3> QED
      BY <2>5, <2>7, <2>8, <2>9, <2>10, <3>1 DEF Coding
  <2> HIDE DEF new
  <2>12. \A b \in 0..3 : Len(e.groups) <= Len(s.groups) + Measure(grp, bits[b + 1])
    <3> SUFFICES ASSUME NEW b \in 0..3 PROVE Len(e.groups) <= Len(s.groups) + Measure(grp, bits[b + 1])
      OBVIOUS
    <3>1. bits[b + 1] \in BitsOfGroups
      <4>1. b + 1 \in 1..4
        OBVIOUS
      <4> QED
        BY <4>1
    <3>2. Measure(grp, bits[b + 1]) \in Nat /\ Measure(grp, bits[best + 1]) \in Nat
      BY <2>2, <3>1, MeasureFacts
    <3>3. Len(coded) \in Nat /\ Measure(grp, bits[best + 1]) <= Measure(grp, bits[b + 1])
      BY <1>5, <2>3
    <3> QED
      BY <1>len, <2>1, <2>3, <2>5, <2>10, <3>2, <3>3
  <2>13. Inside(s, start) => Inside(new, start)
    <3> SUFFICES ASSUME Inside(s, start) PROVE Inside(new, start)
      OBVIOUS
    <3>1. here <= BufferSize /\ s.reach <= BufferSize
      BY <1>7 DEF Inside
    <3>2. here + DecodeLimit <= BufferSize
      BY <1>len, <1>3, <1>7, <3>1, ShortMeans
    <3>3. Len(coded) \in Nat
      BY <2>3
    <3>4. new.reach <= BufferSize
      BY <1>len, <1>3, <2>6, <2>7, <3>1, <3>2
    <3>5. start + Len(new.groups) <= BufferSize
      BY <1>len, <1>3, <2>3, <2>5, <2>10, <3>2, <3>3
    <3> QED
      BY <3>4, <3>5 DEF Inside
  <2> QED
    BY <1>7, <2>1, <2>10, <2>11, <2>12, <2>13 DEF grp, OneGroup
<1> QED
  BY <1>6, <1>7

LEMMA ExactQuotient == \A n \in Nat : (n * GroupSize) \div GroupSize = n
<1> SUFFICES ASSUME NEW n \in Nat PROVE (n * GroupSize) \div GroupSize = n
  OBVIOUS
<1>1. GroupSize \in Nat \ {0} /\ n * GroupSize \in Nat
  BY SizesAssumption
<1>2. PICK a \in Nat : a = n * GroupSize
  BY <1>1
<1>3. PICK p \in Nat : p = a \div GroupSize /\ n <= p /\ p * GroupSize <= n * GroupSize
  BY <1>1, <1>2, Quotient
<1>4. \A x, y \in Nat : x < y => x * GroupSize < y * GroupSize
  BY <1>1
<1> QED
  BY <1>1, <1>2, <1>3, <1>4

LEMMA ZerosType == \A n \in Nat : Zeros(n) \in [1..n -> Nat]
  BY DEF Zeros

\* What encodeBytes starts with.
NoGroups(at, size) ==
  [header |-> Zeros(size), groups |-> <<>>, lastBits |-> -1,
   reach |-> IF ~Short(BufferSize, at, size) THEN at + size ELSE at, ok |-> ~Short(BufferSize, at, size)]

\* The function that defines EncodedBytes.
EncodeSteps(values, bits, at) ==
  CHOOSE step : step = [g \in 0..Len(values) \div GroupSize |->
        IF g = 0 THEN NoGroups(at, HeaderSize(Len(values)))
        ELSE EncodeGroup(step[g - 1], values, bits, g, at + HeaderSize(Len(values)))]

\* If numbers cost are at least the sizes of the groups so far in one of their encodings, then so are the
\* bytes written; there is too little room only if these bytes and one group do not fit.
LEMMA EncodedBytesFacts ==
  ASSUME BufferSize \in Nat, NEW at \in Nat, at <= BufferSize,
         NEW n \in Nat, NEW values \in Seq(Nat), Len(values) = n * GroupSize,
         NEW bits, \A i \in 1..4 : bits[i] \in BitsOfGroups,
         NEW cost, \A g \in 0..n : cost[g] \in Nat,
         \A g \in 1..n : \E b \in 0..3 : cost[g - 1] + Measure(Group(values, g - 1), bits[b + 1]) <= cost[g],
         NEW H \in Nat, H = HeaderSize(Len(values)), NEW e, e = EncodedBytes(values, bits, at)
  PROVE  /\ e \in Coding(H)
         /\ Inside(e, at + H)
         /\ e.ok => Len(e.groups) <= cost[n]
         /\ ~e.ok => BufferSize < at + H + cost[n] + DecodeLimit
<1> DEFINE X == Coding(H)
           start == at + H
           none == NoGroups(at, H)
           f == [p \in (1..n) \X X |-> EncodeGroup(p[2], values, bits, p[1], start)]
           Body(h) == [g \in 0..n |-> IF g = 0 THEN none ELSE EncodeGroup(h[g - 1], values, bits, g, start)]
           w == EncodeSteps(values, bits, at)
<1>1. Len(values) \div GroupSize = n /\ start \in Nat /\ DecodeLimit \in Nat
  BY ExactQuotient, SizesAssumption
<1>2. /\ none \in X
      /\ none.groups = <<>>
      /\ Inside(none, start)
      /\ ~none.ok => BufferSize < start
  <2>1. none.ok = ~Short(BufferSize, at, H) /\ none.groups = <<>> /\ none.reach = IF none.ok THEN start ELSE at
    BY DEF NoGroups
  <2>2. none.ok <=> start <= BufferSize
    <3>1. Short(BufferSize, at, H) <=> BufferSize < at + H
      BY ShortMeans
    <3>2. none.ok <=> ~(BufferSize < at + H)
      BY <2>1, <3>1
    <3> HIDE DEF none
    <3> QED
      BY <3>2
  <2>3. none \in X
    BY <1>1, ZerosType DEF NoGroups, Coding
  <2>4. Inside(none, start)
    <3>1. Len(none.groups) = 0
      BY <2>1
    <3>2. none.reach <= BufferSize
      BY <2>1, <2>2
    <3> HIDE DEF none
    <3> QED
      BY <1>1, <2>2, <3>1, <3>2 DEF Inside
  <2> HIDE DEF none
  <2> QED
    BY <1>1, <2>1, <2>2, <2>3, <2>4
<1> HIDE DEF none
<1>3. ASSUME NEW s \in X, NEW g \in 1..n
      PROVE  EncodeGroup(s, values, bits, g, start) \in X
  <2>1. PICK x : x = EncodeGroup(s, values, bits, g, start)
    OBVIOUS
  <2>2. OneGroup(s, x, Group(values, g - 1), bits, start, H)
    BY <1>1, <2>1, EncodeGroupFacts
  <2>3. x \in X
    BY <2>2 DEF OneGroup
  <2> QED
    BY <2>1, <2>3
<1>4. f \in [(1..n) \X X -> X]
  <2>1. ASSUME NEW p \in (1..n) \X X PROVE EncodeGroup(p[2], values, bits, p[1], start) \in X
    <3>1. p[1] \in 1..n /\ p[2] \in X
      OBVIOUS
    <3> HIDE DEF X, start
    <3> QED
      BY <1>3, <3>1
  <2> HIDE DEF X, start
  <2> QED
    BY <2>1
<1>5. \A g \in 1..n, s \in X : f[<<g, s>>] = EncodeGroup(s, values, bits, g, start)
  <2> HIDE DEF X, start
  <2> QED
    OBVIOUS
<1> HIDE DEF f, X, start
<1>6. PICK h \in [0..n -> X] : h[0] = none /\ \A g \in 1..n : h[g] = f[<<g, h[g - 1]>>]
  <2>1. \E h \in [0..n -> X] : Recursive(h, n, none, f)
    BY <1>2, <1>4, Recursion
  <2> QED
    BY <2>1 DEF Recursive
<1>7. h = Body(h)
  <2>1. ASSUME NEW g \in 0..n PROVE Body(h)[g] = h[g]
    <3>1. CASE g = 0
      BY <1>6, <3>1
    <3>2. CASE g # 0
      <4>1. g \in 1..n /\ g - 1 \in 0..n
        BY <3>2
      <4>2. h[g - 1] \in X
        BY <1>6, <4>1
      <4>3. h[g] = EncodeGroup(h[g - 1], values, bits, g, start)
        BY <1>5, <1>6, <4>1, <4>2
      <4> QED
        BY <3>2, <4>3
    <3> QED
      BY <3>1, <3>2
  <2> QED
    BY <1>6, <2>1
<1>8. w = Body(w)
  <2>1. \E v : v = Body(v)
    <3> HIDE DEF Body
    <3> QED
      BY <1>7
  <2> QED
    BY <1>1, <2>1, ZenonT(30) DEF EncodeSteps, start, none
<1>9. e = w[n]
  BY <1>1 DEF EncodedBytes, EncodeSteps, NoGroups
<1>10. PICK s : s = w
  OBVIOUS
<1> HIDE DEF w
<1>11. s[0] = none /\ \A g \in 1..n : s[g] = EncodeGroup(s[g - 1], values, bits, g, start)
  <2>1. s = Body(s)
    BY <1>8, <1>10
  <2>2. \A g \in 0..n : Body(s)[g] = IF g = 0 THEN none ELSE EncodeGroup(s[g - 1], values, bits, g, start)
    OBVIOUS
  <2> HIDE DEF Body
  <2>3. \A g \in 0..n : s[g] = IF g = 0 THEN none ELSE EncodeGroup(s[g - 1], values, bits, g, start)
    BY <2>1, <2>2
  <2> QED
    BY <2>3
<1> HIDE DEF Body
<1>12. \A g \in 0..n : s[g] \in X
  <2>1. Follows(s, n, none, f, X)
    BY <1>5, <1>11 DEF Follows
  <2> QED
    BY <1>2, <1>4, <2>1, StepByStep
<1> DEFINE Fits(g) == /\ Inside(s[g], start)
                      /\ Len(s[g].groups) <= cost[g]
                      /\ ~s[g].ok => BufferSize < start + cost[g] + DecodeLimit
           I == {g \in Nat : g <= n => Fits(g)}
<1>13. 0 \in I
  <2>1. cost[0] \in Nat
    OBVIOUS
  <2>2. Len(s[0].groups) = 0
    BY <1>2, <1>11
  <2> QED
    BY <1>1, <1>2, <1>11, <2>1, <2>2
<1>14. ASSUME NEW g \in Nat, g \in I PROVE g + 1 \in I
  <2>1. ASSUME g + 1 <= n PROVE Fits(g + 1)
    <3>1. g + 1 \in 1..n /\ (g + 1) - 1 = g /\ g \in 0..n /\ g + 1 \in 0..n /\ Fits(g)
      BY <1>14, <2>1
    <3>2. PICK c, d : c = s[g] /\ d = s[g + 1]
      OBVIOUS
    <3>3. c \in Coding(H) /\ d = EncodeGroup(c, values, bits, g + 1, start)
      BY <1>11, <1>12, <3>1, <3>2 DEF X
    <3>4. /\ d \in Coding(H)
          /\ Inside(c, start) => Inside(d, start)
          /\ d.ok => /\ c.ok
                     /\ \A b \in 0..3 :
                          Len(d.groups) <= Len(c.groups) + Measure(Group(values, g), bits[b + 1])
          /\ ~d.ok => /\ d.groups = c.groups
                      /\ c.ok => BufferSize < start + Len(c.groups) + DecodeLimit
      <4>1. PICK j \in 1..n : j = g + 1 /\ j - 1 = g
        BY <3>1
      <4>2. d = EncodeGroup(c, values, bits, j, start)
        BY <3>3, <4>1
      <4>3. OneGroup(c, d, Group(values, j - 1), bits, start, H)
        BY <1>1, <3>3, <4>2, EncodeGroupFacts
      <4>4. OneGroup(c, d, Group(values, g), bits, start, H)
        BY <4>1, <4>3
      <4> QED
        BY <4>4 DEF OneGroup
    <3>5. PICK b \in 0..3 : cost[g] + Measure(Group(values, g), bits[b + 1]) <= cost[g + 1]
      BY <3>1
    <3>6. PICK m \in Nat : m = Measure(Group(values, g), bits[b + 1])
      <4>1. b + 1 \in 1..4
        OBVIOUS
      <4> QED
        BY <4>1, MeasureFacts
    <3>7. cost[g] \in Nat /\ cost[g + 1] \in Nat /\ cost[g] + m <= cost[g + 1]
      BY <3>1, <3>5, <3>6
    <3>8. Len(c.groups) \in Nat /\ Len(d.groups) \in Nat /\ Len(c.groups) <= cost[g]
      <4>1. c.groups \in Seq(Nat) /\ d.groups \in Seq(Nat)
        BY <3>3, <3>4 DEF Coding
      <4> QED
        BY <3>1, <3>2, <4>1, SMTT(30)
    <3>nat. PICK x \in Nat, y \in Nat, l \in Nat, k1 \in Nat :
            x = cost[g] /\ y = cost[g + 1] /\ l = Len(c.groups) /\ k1 = Len(d.groups)
      BY <3>7, <3>8
    <3>sum. x + m <= y /\ l <= x
      BY <3>7, <3>8, <3>nat
    <3>9. Inside(d, start)
      BY <3>1, <3>2, <3>4
    <3>10. Len(d.groups) <= cost[g + 1]
      <4>1. CASE d.ok
        <5>1. Len(d.groups) <= Len(c.groups) + m
          BY <3>4, <3>6, <4>1
        <5>2. k1 <= l + m
          BY <3>nat, <5>1
        <5>3. k1 <= y
          BY <3>sum, <5>2
        <5> QED
          BY <3>nat, <5>3
      <4>2. CASE ~d.ok
        <5>1. d.groups = c.groups
          BY <3>4, <4>2
        <5>2. k1 <= y
          BY <3>nat, <3>sum, <5>1, SMTT(30)
        <5> QED
          BY <3>nat, <5>2
      <4> QED
        BY <4>1, <4>2
    <3>11. ~d.ok => BufferSize < start + cost[g + 1] + DecodeLimit
      <4> SUFFICES ASSUME ~d.ok PROVE BufferSize < start + cost[g + 1] + DecodeLimit
        OBVIOUS
      <4>1. CASE c.ok
        <5>1. BufferSize < start + Len(c.groups) + DecodeLimit
          BY <3>4, <4>1
        <5>2. BufferSize < start + l + DecodeLimit
          BY <3>nat, <5>1
        <5>3. BufferSize < start + y + DecodeLimit
          BY <1>1, <3>sum, <5>2
        <5> QED
          BY <3>nat, <5>3
      <4>2. CASE ~c.ok
        <5>1. BufferSize < start + cost[g] + DecodeLimit
          BY <3>1, <3>2, <4>2
        <5>2. BufferSize < start + x + DecodeLimit
          BY <3>nat, <5>1
        <5>3. BufferSize < start + y + DecodeLimit
          BY <1>1, <3>sum, <5>2
        <5> QED
          BY <3>nat, <5>3
      <4> QED
        BY <4>1, <4>2
    <3> QED
      BY <3>2, <3>9, <3>10, <3>11
  <2> QED
    BY <2>1
<1>15. Nat \subseteq I
  <2> HIDE DEF I
  <2> QED
    BY <1>13, <1>14, NatSetInduction
<1>16. Fits(n) /\ s[n] \in X /\ e = s[n]
  <2>1. n \in 0..n /\ n \in I
    BY <1>15
  <2> QED
    BY <1>9, <1>10, <1>12, <2>1
<1> QED
  BY <1>16 DEF X, start

-----------------------------------------------------------------------------
(* Differences of vertices *)

LEMMA FromBitsType ==
  ASSUME NEW bits \in [0..31 -> Nat], NEW j \in 0..3
  PROVE  FromBits(bits, j) \in Nat
<1> DEFINE f == [b \in 0..7 |-> bits[8 * j + b] * 2^b]
<1>1. ASSUME NEW b \in 0..7 PROVE f[b] \in Nat
  <2>1. 8 * j + b \in 0..31 /\ 2^b \in Nat
    BY PowerPositive
  <2> QED
    BY <2>1
<1>2. IsFiniteSet(0..7)
  <2>1. \A n \in Nat : IsFiniteSet(0..n)
    BY FS_Interval
  <2> QED
    BY <2>1
<1>3. DOMAIN f = 0..7
  OBVIOUS
<1>4. FromBits(bits, j) = SumFunctionOnSet(f, 0..7)
  BY <1>3 DEF FromBits, SumFunction
<1> HIDE DEF f
<1> QED
  BY <1>1, <1>2, <1>4, SumNat

LEMMA ByteType == \A b \in Byte : b \in Nat /\ b \in Int
  BY DEF Byte

LEMMA DeltaType ==
  ASSUME NEW v \in [1..4 -> Byte], NEW p \in [1..4 -> Byte], NEW j \in 0..3,
         NEW channel \in Nat, channel % 4 \in 0..2
  PROVE  Delta(v, p, j, channel) \in Nat
<1>1. \A m \in Nat, d \in Int : d \in 0..m - 1 => ZigZag(d, m) \in Nat
  BY DEF ZigZag
<1>2. CASE channel % 4 = 0
  <2>1. PICK x \in Int, y \in Int : x = v[j + 1] /\ y = p[j + 1]
    <3>1. j + 1 \in 1..4
      OBVIOUS
    <3>2. v[j + 1] \in Byte /\ p[j + 1] \in Byte
      BY <3>1
    <3> QED
      BY <3>2, ByteType
  <2>2. PICK m \in Nat : m = 256
    OBVIOUS
  <2>3. PICK d \in Int : d = (x - y) % m /\ d \in 0..m - 1
    BY <2>2
  <2>4. Delta(v, p, j, channel) = ZigZag(d, m)
    BY <1>2, <2>1, <2>2, <2>3, SMTT(30) DEF Delta
  <2> QED
    BY <1>1, <2>3, <2>4
<1>3. CASE channel % 4 = 1
  <2>1. \A w \in [1..4 -> Byte] : Half(w, j) \in Int
    <3> SUFFICES ASSUME NEW w \in [1..4 -> Byte] PROVE Half(w, j) \in Int
      OBVIOUS
    <3>1. 2 * (j \div 2) + 1 \in 1..4 /\ 2 * (j \div 2) + 2 \in 1..4
      OBVIOUS
    <3>2. w[2 * (j \div 2) + 1] \in Byte /\ w[2 * (j \div 2) + 2] \in Byte
      BY <3>1
    <3>3. PICK x \in Int, y \in Int : x = w[2 * (j \div 2) + 1] /\ y = w[2 * (j \div 2) + 2]
      BY <3>2, ByteType
    <3> QED
      BY <3>3 DEF Half
  <2>2. PICK x \in Int, y \in Int : x = Half(v, j) /\ y = Half(p, j)
    BY <2>1
  <2>3. PICK m \in Nat : m = 65536
    OBVIOUS
  <2>4. PICK d \in Int : d = (x - y) % m /\ d \in 0..m - 1
    <3>1. PICK z \in Int : z = x - y
      OBVIOUS
    <3>2. PICK e \in Int : e = z % 65536 /\ 0 <= e /\ e < 65536
      OBVIOUS
    <3>3. e = (x - y) % m
      BY <2>3, <3>1, <3>2
    <3>4. 0 <= e /\ e <= m - 1
      BY <2>3, <3>2
    <3> QED
      BY <3>2, <3>3, <3>4
  <2>5. PICK h \in Nat : h = ZigZag(d, m)
    BY <1>1, <2>4
  <2>6. Delta(v, p, j, channel) = HalfByte(ZigZag((x - y) % m, m), j)
    <3>1. Delta(v, p, j, channel) = HalfByte(ZigZag((Half(v, j) - Half(p, j)) % 65536, 65536), j)
      BY <1>3 DEF Delta
    <3> QED
      BY <2>2, <2>3, <3>1
  <2>7. Delta(v, p, j, channel) = HalfByte(h, j)
    BY <2>4, <2>5, <2>6
  <2> QED
    BY <2>7 DEF HalfByte
<1>4. CASE channel % 4 = 2
  <2> DEFINE from(b) == (b - (channel \div 16)) % 32
             bits == [b \in 0..31 |-> (Bit(v, from(b)) + Bit(p, from(b))) % 2]
  <2>1. \A w \in [1..4 -> Byte], b \in 0..31 : Bit(w, b) \in Int
    <3> SUFFICES ASSUME NEW w \in [1..4 -> Byte], NEW b \in 0..31 PROVE Bit(w, b) \in Int
      OBVIOUS
    <3>1. PICK x \in Nat \ {0} : x = 2^(b % 8)
      <4>1. b % 8 \in Nat
        OBVIOUS
      <4> QED
        BY <4>1, PowerPositive
    <3>2. PICK y \in Nat : y = w[b \div 8 + 1]
      BY DEF Byte
    <3>3. y \div x \in Nat
      BY Quotient
    <3>4. Bit(w, b) = (y \div x) % 2
      BY <3>1, <3>2 DEF Bit
    <3> QED
      BY <3>3, <3>4
  <2>2. \A b \in 0..31 : from(b) \in 0..31
    OBVIOUS
  <2> HIDE DEF from
  <2>3. bits \in [0..31 -> Nat]
    <3>1. ASSUME NEW b \in 0..31 PROVE (Bit(v, from(b)) + Bit(p, from(b))) % 2 \in Nat
      <4>1. Bit(v, from(b)) \in Int /\ Bit(p, from(b)) \in Int
        BY <2>1, <2>2
      <4> QED
        BY <4>1
    <3> QED
      BY <3>1
  <2>4. Delta(v, p, j, channel) = FromBits(bits, j)
    BY <1>4 DEF Delta, from
  <2> HIDE DEF bits
  <2> QED
    BY <2>3, <2>4, FromBitsType
<1> QED
  BY <1>2, <1>3, <1>4

-----------------------------------------------------------------------------
(* Blocks *)

LEMMA MeshFacts ==
  ASSUME mesh \in Meshes
  PROVE  /\ mesh.size \in Nat \ {0} /\ mesh.size % 4 = 0 /\ mesh.size \div 4 \in Nat
         /\ Count \in Nat
         /\ \A i \in 1..Count : mesh.vertices[i] \in [1..mesh.size -> Byte]
<1>1. /\ mesh.size \in Nat \ {0} /\ mesh.size % 4 = 0
      /\ mesh.vertices \in Seq([1..mesh.size -> Byte])
  BY InputsAssumption
<1>2. Count \in Nat /\ \A i \in 1..Count : mesh.vertices[i] \in [1..mesh.size -> Byte]
  BY <1>1, ElementOfSeq, LenProperties DEF Count
<1> QED
  BY <1>1, <1>2

\* The vertices of a block and their groups; the last block may be smaller than the others.
LEMMA BlockFacts ==
  ASSUME mesh \in Meshes, offset \in 0..Count
  PROVE  /\ BlockCount \in Nat /\ BlockCount <= BlockSize(mesh.size)
         /\ offset + BlockCount \in 0..Count
         /\ offset < Count => BlockCount >= 1
         /\ BlockCount = BlockSize(mesh.size) \/ offset + BlockCount = Count
         /\ Groups(BlockCount) \in Nat /\ Aligned(BlockCount) = Groups(BlockCount) * GroupSize
         /\ Aligned(BlockCount) \in Nat /\ BlockCount <= Aligned(BlockCount)
         /\ Aligned(BlockCount) <= BlockSize(mesh.size)
<1>1. PICK bs \in Nat \ {0}, q \in Nat : bs = BlockSize(mesh.size) /\ bs = q * GroupSize
  BY BlockSizeFacts
<1>2. Count \in Nat /\ offset \in Nat /\ offset <= Count
  BY MeshFacts
<1>3. PICK r \in Nat : r = Count - offset
  BY <1>2
<1>4. BlockCount = Min({bs, r})
  BY <1>1, <1>3 DEF BlockCount
<1>5. BlockCount = IF bs <= r THEN bs ELSE r
  BY <1>4, MinOfTwo
<1>6. PICK b \in Nat : b = BlockCount
  BY <1>5
<1>7. b <= q * GroupSize
  BY <1>1, <1>5, <1>6
<1>8. Groups(b) \in Nat /\ Aligned(b) = Groups(b) * GroupSize /\ Aligned(b) \in Nat /\ b <= Aligned(b) /\ Aligned(b) <= q * GroupSize
  BY <1>7, GroupsFacts
<1> QED
  BY <1>1, <1>2, <1>3, <1>5, <1>6, <1>8

LEMMA WordType ==
  ASSUME NEW n \in Nat, NEW w \in Nat, 4 * w + 4 <= n, NEW vertex \in [1..n -> Byte]
  PROVE  Word(vertex, w) \in [1..4 -> Byte]
<1>1. vertex \in Seq(Byte) /\ Len(vertex) = n
  BY FunctionSeq
<1>2. PICK a \in Int, b \in Int : a = 4 * w + 1 /\ b = 4 * w + 4
  OBVIOUS
<1>3. \A i \in a..b : vertex[i] \in Byte
  BY <1>2
<1>4. SubSeq(vertex, a, b) \in Seq(Byte) /\ Len(SubSeq(vertex, a, b)) = 4
  BY <1>2, <1>3, SubSeqProperties
<1> QED
  BY <1>2, <1>4, LenProperties DEF Word

LEMMA DeltasType ==
  ASSUME mesh \in Meshes, offset \in 0..Count, k \in 0..mesh.size - 1,
         lastVertex \in [1..mesh.size -> Byte],
         channels \in [1..mesh.size \div 4 -> AllowedChannels], Rotations \subseteq Nat
  PROVE  Deltas \in Seq(Nat) /\ Len(Deltas) = Aligned(BlockCount)
<1> DEFINE vertex(i) == IF i = 0 THEN lastVertex ELSE mesh.vertices[offset + i]
           w == k \div 4
<1>1. /\ mesh.size \in Nat \ {0} /\ mesh.size % 4 = 0 /\ Count \in Nat
      /\ \A i \in 1..Count : mesh.vertices[i] \in [1..mesh.size -> Byte]
  BY MeshFacts
<1>2. BlockCount \in Nat /\ offset + BlockCount <= Count /\ Aligned(BlockCount) \in Nat
  BY <1>1, BlockFacts
<1>3. w \in Nat /\ 4 * w + 4 <= mesh.size /\ w + 1 \in 1..mesh.size \div 4 /\ k % 4 \in 0..3
  <2>1. PICK q \in Nat : mesh.size = 4 * q /\ q = mesh.size \div 4
    BY <1>1
  <2>2. k \in Nat /\ k < 4 * q
    BY <2>1
  <2>3. w \in Nat /\ w < q /\ k % 4 \in 0..3
    BY <2>2
  <2> HIDE DEF w
  <2> QED
    BY <2>1, <2>3
<1>4. channels[w + 1] \in Nat /\ channels[w + 1] % 4 \in 0..2
  <2>1. channels[w + 1] \in AllowedChannels
    BY <1>3
  <2>2. \A c \in AllowedChannels : c \in Nat /\ c % 4 \in 0..2
    BY DEF AllowedChannels
  <2> QED
    BY <2>1, <2>2
<1>5. ASSUME NEW i \in 0..BlockCount PROVE Word(vertex(i), w) \in [1..4 -> Byte]
  <2>1. vertex(i) \in [1..mesh.size -> Byte]
    BY <1>1, <1>2
  <2> HIDE DEF vertex, w
  <2> QED
    BY <1>1, <1>3, <2>1, WordType
<1> DEFINE D(i) == IF i > BlockCount THEN 0
                   ELSE Delta(Word(vertex(i), w), Word(vertex(i - 1), w), k % 4, channels[w + 1])
<1>6. ASSUME NEW i \in 1..Aligned(BlockCount) PROVE D(i) \in Nat
  <2>1. CASE i > BlockCount
    BY <2>1
  <2>2. CASE ~(i > BlockCount)
    <3>1. i \in 0..BlockCount /\ i - 1 \in 0..BlockCount
      BY <1>2, <2>2
    <3> HIDE DEF vertex, w
    <3>2. Word(vertex(i), w) \in [1..4 -> Byte] /\ Word(vertex(i - 1), w) \in [1..4 -> Byte]
      BY <1>5, <3>1
    <3>3. Delta(Word(vertex(i), w), Word(vertex(i - 1), w), k % 4, channels[w + 1]) \in Nat
      BY <1>3, <1>4, <3>2, DeltaType
    <3> QED
      BY <2>2, <3>3
  <2> QED
    BY <2>1, <2>2
<1>7. Deltas = [i \in 1..Aligned(BlockCount) |-> D(i)]
  BY DEF Deltas
<1> HIDE DEF D
<1>8. Deltas \in [1..Aligned(BlockCount) -> Nat]
  BY <1>6, <1>7
<1> QED
  BY <1>2, <1>8, FunctionSeq

-----------------------------------------------------------------------------
(* The bound *)

LEMMA MaxOfThree ==
  \A a, b, c \in Int : /\ Max({a, b, c}) \in {a, b, c}
                       /\ Max({a, b, c}) >= a /\ Max({a, b, c}) >= b /\ Max({a, b, c}) >= c
<1> SUFFICES ASSUME NEW a \in Int, NEW b \in Int, NEW c \in Int
             PROVE  Max({a, b, c}) \in {a, b, c} /\ \A y \in {a, b, c} : Max({a, b, c}) >= y
  OBVIOUS
<1>1. \E x \in {a, b, c} : \A y \in {a, b, c} : x >= y
  OBVIOUS
<1> QED
  BY <1>1 DEF Max

\* The bytes that the bound has for a byte channel, for a block and for the tail.
ChannelMost == HeaderSize(BlockSize(mesh.size)) + BlockSize(mesh.size)
BlockMost   == mesh.size * (mesh.size \div 4 + ChannelMost)
TailMost    == Max({TailSize(1, mesh.size), TailMin[0], TailMin[1]})
Blocks      == (Count + BlockSize(mesh.size) - 1) \div BlockSize(mesh.size)

LEMMA BoundFacts ==
  ASSUME mesh \in Meshes
  PROVE  /\ ChannelMost \in Nat /\ BlockMost \in Nat /\ Blocks \in Nat /\ TailMost \in Nat
         /\ mesh.size \div 4 + mesh.size * ChannelMost <= BlockMost
         /\ Bound(Count, mesh.size) = 1 + Blocks * BlockMost + TailMost
         /\ Bound(Count, mesh.size) \in Nat
         /\ DecodeLimit <= TailMost
         /\ \A version \in Versions :
              TailSize(version, mesh.size) \in Nat /\ TailSize(version, mesh.size) <= TailPad(version, mesh.size)
              /\ TailPad(version, mesh.size) \in Nat /\ TailPad(version, mesh.size) <= TailMost
         /\ \A d \in Nat : d * BlockSize(mesh.size) < Count => d + 1 <= Blocks
<1>1. PICK s \in Nat \ {0}, w \in Nat : s = mesh.size /\ w = mesh.size \div 4
  BY MeshFacts
<1>2. PICK c \in Nat : c = Count
  BY MeshFacts
<1>3. PICK bs \in Nat \ {0} : bs = BlockSize(mesh.size)
  BY BlockSizeFacts
<1>4. PICK p \in Nat : p = ChannelMost
  <2>1. HeaderSize(bs) \in Nat
    BY HeaderMonotone
  <2> QED
    BY <1>3, <2>1 DEF ChannelMost
<1>5. PICK t0 \in Nat, t1 \in Nat : t0 = TailMin[0] /\ t1 = TailMin[1] /\ DecodeLimit <= t0 /\ DecodeLimit \in Nat
  <2>1. TailMin[0] \in Nat /\ TailMin[1] \in Nat /\ TailMin[0] >= DecodeLimit /\ DecodeLimit \in Nat
    BY SizesAssumption DEF Versions
  <2> QED
    BY <2>1
<1>6. PICK t \in Nat : t = TailMost /\ t >= s + w /\ t >= t0 /\ t >= t1
  <2>1. TailMost = Max({s + w, t0, t1})
    BY <1>1, <1>5 DEF TailMost, TailSize
  <2>2. s + w \in Int /\ t0 \in Int /\ t1 \in Int
    OBVIOUS
  <2>3. TailMost \in {s + w, t0, t1} /\ TailMost >= s + w /\ TailMost >= t0 /\ TailMost >= t1
    BY <2>1, <2>2, MaxOfThree
  <2> QED
    BY <2>3
<1>7. PICK m \in Nat : m = BlockMost /\ m = s * (w + p) /\ w + s * p <= m
  <2>1. s * (w + p) \in Nat /\ s * (w + p) = s * w + s * p /\ s * w \in Nat /\ s * p \in Nat
    OBVIOUS
  <2>2. s * w >= w
    OBVIOUS
  <2> QED
    BY <1>1, <1>4, <2>1, <2>2 DEF BlockMost
<1>8. PICK n \in Nat : n = Blocks /\ \A q \in Nat : q * bs <= c + bs - 1 => q <= n
  <2>1. PICK a \in Nat : a = c + bs - 1
    OBVIOUS
  <2> QED
    BY <1>2, <1>3, <2>1, Quotient DEF Blocks
<1>9. Bound(Count, mesh.size) = 1 + n * m + t
  <2>1. PICK h \in Nat : h = HeaderSize(bs) /\ p = h + bs
    BY <1>3, <1>4, HeaderMonotone DEF ChannelMost
  <2>2. Bound(Count, mesh.size) = 1 + n * s * (w + h + bs) + t
    BY <1>1, <1>2, <1>3, <1>6, <1>8, <2>1 DEF Bound, Blocks, TailMost
  <2>3. w + h + bs = w + p
    BY <2>1
  <2>4. n * s * (w + p) = n * (s * (w + p))
    OBVIOUS
  <2> QED
    BY <1>7, <2>2, <2>3, <2>4
<1>10. n * m \in Nat
  OBVIOUS
<1>11. ASSUME NEW version \in Versions
       PROVE  /\ TailSize(version, mesh.size) \in Nat /\ TailSize(version, mesh.size) <= TailPad(version, mesh.size)
              /\ TailPad(version, mesh.size) \in Nat /\ TailPad(version, mesh.size) <= t
  <2>1. PICK a \in Nat : a = TailSize(version, mesh.size) /\ a <= s + w
    BY <1>1 DEF TailSize
  <2>2. PICK b \in Nat : b = TailMin[version] /\ b <= t
    BY <1>5, <1>6 DEF Versions
  <2>3. Max({a, b}) = IF a >= b THEN a ELSE b
    BY MaxOfTwo
  <2> QED
    BY <1>6, <2>1, <2>2, <2>3 DEF TailPad
<1>12. ASSUME NEW d \in Nat, d * bs < c PROVE d + 1 <= n
  <2>1. (d + 1) * bs = d * bs + bs /\ d * bs \in Nat
    OBVIOUS
  <2>2. (d + 1) * bs <= c + bs - 1
    BY <1>12, <2>1
  <2>3. d + 1 \in Nat
    OBVIOUS
  <2> QED
    BY <1>8, <2>2, <2>3
<1>13. s * p \in Nat
  OBVIOUS
<1> QED
  BY <1>1, <1>2, <1>3, <1>4, <1>5, <1>6, <1>7, <1>8, <1>9, <1>10, <1>11, <1>12, <1>13

LEMMA BufferType ==
  ASSUME mesh \in Meshes, call \in Calls
  PROVE  BufferSize \in Nat
<1>1. PICK x \in Int : x = Bound(Count, mesh.size) - call.slack
  BY BoundFacts, InputsAssumption
<1>2. BufferSize = Max({0, x})
  BY <1>1 DEF BufferSize
<1>3. Max({0, x}) = IF 0 >= x THEN 0 ELSE x
  BY MaxOfTwo
<1> QED
  BY <1>2, <1>3

-----------------------------------------------------------------------------
(* Byte channels: their encodings *)

LEMMA BitsFacts ==
  ASSUME NEW version \in Versions, NEW ctrl \in 0..1
  PROVE  /\ \A i \in 1..4 : BitsOf(version, ctrl)[i] \in BitsOfGroups
         /\ version = 0 \/ ctrl = 1 => BitsOf(version, ctrl)[4] = 8
         /\ version = 1 /\ ctrl = 0 =>
              \A b \in {1, 2, 4, 0} : \E i \in 0..3 : BitsOf(version, ctrl)[i + 1] = b
<1>1. CASE version = 0
  BY <1>1 DEF BitsOf, BitsV0, BitsOfGroups
<1>2. CASE version = 1
  <2>1. BitsOf(version, ctrl) = SubSeq(BitsV1, ctrl + 1, ctrl + 4)
    BY <1>2 DEF BitsOf
  <2>2. BitsV1 \in Seq(Nat) /\ Len(BitsV1) = 5 /\ BitsV1[1] = 0 /\ BitsV1[2] = 1 /\ BitsV1[3] = 2
        /\ BitsV1[4] = 4 /\ BitsV1[5] = 8
    BY DEF BitsV1
  <2>3. \A i \in 1..4 : SubSeq(BitsV1, ctrl + 1, ctrl + 4)[i] = BitsV1[ctrl + i]
    OBVIOUS
  <2>4. CASE ctrl = 0
    <3>1. /\ BitsOf(version, ctrl)[1] = 0 /\ BitsOf(version, ctrl)[2] = 1
          /\ BitsOf(version, ctrl)[3] = 2 /\ BitsOf(version, ctrl)[4] = 4
      BY <2>1, <2>2, <2>3, <2>4
    <3>2. \A b \in {1, 2, 4, 0} : \E i \in 0..3 : BitsOf(version, ctrl)[i + 1] = b
      BY <3>1
    <3> QED
      BY <1>2, <2>4, <3>1, <3>2 DEF BitsOfGroups
  <2>5. CASE ctrl = 1
    <3>1. /\ BitsOf(version, ctrl)[1] = 1 /\ BitsOf(version, ctrl)[2] = 2
          /\ BitsOf(version, ctrl)[3] = 4 /\ BitsOf(version, ctrl)[4] = 8
      BY <2>1, <2>2, <2>3, <2>5
    <3> QED
      BY <2>5, <3>1 DEF BitsOfGroups
  <2> QED
    BY <2>4, <2>5
<1> QED
  BY <1>1, <1>2 DEF Versions

\* Numbers that a byte channel's groups cost in the encodings that GroupsSize expects.
Priced(cost, n, values, last) ==
  /\ \A g \in 0..n : cost[g] \in Nat
  /\ cost[n] = GroupsSize(values, last)
  /\ \A g \in 1..n : \E b \in {1, 2, 4, last} :
       cost[g - 1] + Measure(Group(values, g - 1), b) <= cost[g]

LEMMA CostFacts ==
  ASSUME NEW n \in Nat, NEW values \in Seq(Nat), Len(values) = n * GroupSize, NEW last \in {0, 8}
  PROVE  \E cost : Priced(cost, n, values, last)
<1> DEFINE S(g) == {Measure(Group(values, g - 1), b) : b \in {1, 2, 4, last}}
           f == [g \in 1..n |-> Min(S(g))]
           cost == [g \in 0..n |-> SumFunctionOnSet(f, 1..g)]
<1>1. ASSUME NEW g \in 1..n
      PROVE  f[g] \in Nat /\ \E b \in {1, 2, 4, last} : f[g] = Measure(Group(values, g - 1), b)
  <2>1. S(g) \subseteq Nat /\ S(g) # {}
    BY MeasureFacts DEF BitsOfGroups
  <2>2. PICK T : T = S(g)
    OBVIOUS
  <2>3. \E x \in T : \A y \in T : x <= y
    BY <2>1, <2>2, LeastNumber
  <2>4. Min(T) \in T
    BY <2>3 DEF Min
  <2>5. f[g] = Min(T)
    BY <2>2
  <2> HIDE DEF f
  <2> QED
    BY <2>1, <2>2, <2>4, <2>5
<1>2. Len(values) \div GroupSize = n /\ DOMAIN f = 1..n
  BY ExactQuotient
<1>3. GroupsSize(values, last) = SumFunctionOnSet(f, 1..n)
  BY <1>2 DEF GroupsSize, SumFunction
<1> HIDE DEF f
<1>4. /\ \A g \in 0..n : SumFunctionOnSet(f, 1..g) \in Nat
      /\ \A g \in 0..n : g < n => SumFunctionOnSet(f, 1..g + 1) = SumFunctionOnSet(f, 1..g) + f[g + 1]
  BY <1>1, PrefixStep
<1>5. ASSUME NEW g \in 1..n
      PROVE  \E b \in {1, 2, 4, last} : cost[g - 1] + Measure(Group(values, g - 1), b) <= cost[g]
  <2>1. PICK h \in 0..n : h = g - 1 /\ h < n /\ h + 1 = g
    OBVIOUS
  <2>2. PICK b \in {1, 2, 4, last} : f[g] = Measure(Group(values, g - 1), b)
    BY <1>1
  <2>3. SumFunctionOnSet(f, 1..g) = SumFunctionOnSet(f, 1..h) + f[g]
    BY <1>4, <2>1
  <2>4. cost[g - 1] + f[g] = cost[g] /\ cost[g] \in Nat
    BY <1>4, <2>1, <2>3
  <2> QED
    BY <2>2, <2>4
<1>6. cost[n] = GroupsSize(values, last) /\ \A g \in 0..n : cost[g] \in Nat
  BY <1>3, <1>4
<1> HIDE DEF cost
<1>7. Priced(cost, n, values, last)
  BY <1>5, <1>6 DEF Priced
<1> QED
  BY <1>7

\* Byte channels are encoded with a control value that makes them no longer than they are.
LEMMA ControlFacts ==
  ASSUME mesh \in Meshes, offset \in 0..Count,
         NEW n \in Nat, NEW values \in Seq(Nat), Len(values) = n * GroupSize
  PROVE  /\ Control(values) \in 0..3
         /\ Control(values) = 0 => HeaderSize(Len(values)) + GroupsSize(values, 0) < BlockCount
<1> DEFINE estimate(last) == HeaderSize(Len(values)) + GroupsSize(values, last)
<1>1. \A last \in {0, 8} : estimate(last) \in Nat
  <2> SUFFICES ASSUME NEW last \in {0, 8} PROVE estimate(last) \in Nat
    OBVIOUS
  <2>1. PICK cost : (\A g \in 0..n : cost[g] \in Nat) /\ cost[n] = GroupsSize(values, last)
    BY CostFacts, SMTT(30) DEF Priced
  <2>2. HeaderSize(Len(values)) \in Nat
    BY LenProperties, HeaderMonotone
  <2> QED
    BY <2>1, <2>2
<1>2. Control(values) = IF \A i \in DOMAIN values : values[i] = 0 THEN 2
                        ELSE IF call.level = 0 THEN 1
                        ELSE IF estimate(0) >= BlockCount /\ estimate(8) >= BlockCount THEN 3
                        ELSE IF estimate(0) < estimate(8) THEN 0 ELSE 1
  BY DEF Control
<1>3. PICK a \in Nat, b \in Nat : a = estimate(0) /\ b = estimate(8)
  BY <1>1
<1> HIDE DEF estimate
<1>4. Control(values) = IF \A i \in DOMAIN values : values[i] = 0 THEN 2
                        ELSE IF call.level = 0 THEN 1
                        ELSE IF a >= BlockCount /\ b >= BlockCount THEN 3
                        ELSE IF a < b THEN 0 ELSE 1
  BY <1>2, <1>3
<1>5. Control(values) \in 0..3
  BY <1>4
<1>6. ASSUME Control(values) = 0 PROVE a < BlockCount
  <2>1. a < b /\ ~(a >= BlockCount /\ b >= BlockCount)
    BY <1>4, <1>6
  <2>2. BlockCount \in Nat
    BY BlockFacts
  <2> QED
    BY <2>1, <2>2
<1> QED
  BY <1>3, <1>5, <1>6 DEF estimate

\* The byte channel of a block that is coming next.
ChannelState ==
  /\ mesh \in Meshes /\ call \in Calls
  /\ offset \in 0..Count /\ k \in 0..mesh.size - 1
  /\ lastVertex \in [1..mesh.size -> Byte]
  /\ channels \in [1..mesh.size \div 4 -> AllowedChannels]
  /\ data \in Seq(Nat) /\ Len(data) <= BufferSize

\* What encodeBytes writes for a byte channel.
LEMMA EncodedChannel ==
  ASSUME ChannelState, ControlOfChannel \in 0..1,
         NEW e, e = EncodedBytes(Deltas, BitsOf(call.version, ControlOfChannel), Len(data))
  PROVE  \E H \in Nat, total \in Nat :
           /\ H + total <= ChannelMost
           /\ e \in Coding(H) /\ Inside(e, Len(data) + H)
           /\ e.ok => Len(e.groups) <= total
           /\ ~e.ok => BufferSize < Len(data) + H + total + DecodeLimit
<1> USE DEF ChannelState
<1>1. BufferSize \in Nat /\ Len(data) \in Nat /\ call.version \in Versions
  BY BufferType, LenProperties, InputsAssumption
<1>2. PICK values \in Seq(Nat), n \in Nat :
        values = Deltas /\ Len(values) = n * GroupSize /\ n * GroupSize \in Nat
        /\ n * GroupSize <= BlockSize(mesh.size)
  <2>1. Rotations \subseteq Nat
    BY SizesAssumption
  <2>2. Deltas \in Seq(Nat) /\ Len(Deltas) = Aligned(BlockCount)
    BY <2>1, DeltasType
  <2>3. /\ Groups(BlockCount) \in Nat /\ Aligned(BlockCount) = Groups(BlockCount) * GroupSize
        /\ Aligned(BlockCount) \in Nat /\ Aligned(BlockCount) <= BlockSize(mesh.size)
    BY BlockFacts
  <2> QED
    BY <2>2, <2>3
<1>3. PICK bs \in Nat, h \in Nat : bs = BlockSize(mesh.size) /\ h = HeaderSize(bs) /\ ChannelMost = h + bs
  <2>1. BlockSize(mesh.size) \in Nat
    BY BlockSizeFacts
  <2> QED
    BY <2>1, HeaderMonotone DEF ChannelMost
<1>4. PICK H \in Nat : H = HeaderSize(Len(values)) /\ H <= h
  BY <1>2, <1>3, HeaderMonotone
<1>5. PICK bits : bits = BitsOf(call.version, ControlOfChannel)
  OBVIOUS
<1>6. \A i \in 1..4 : bits[i] \in BitsOfGroups
  BY <1>1, <1>5, BitsFacts
<1>7. \E cost : /\ \A g \in 0..n : cost[g] \in Nat
                /\ H + cost[n] <= h + bs
                /\ \A g \in 1..n : \E b \in 0..3 : cost[g - 1] + Measure(Group(values, g - 1), bits[b + 1]) <= cost[g]
  <2>1. CASE call.version = 0 \/ ControlOfChannel = 1
    <3> DEFINE cost == [g \in 0..n |-> g * GroupSize]
    <3>1. bits[4] = 8 /\ GroupSize \in Nat
      BY <1>1, <1>5, <2>1, BitsFacts, SizesAssumption
    <3>2. \A g \in 0..n : cost[g] \in Nat
      BY <3>1
    <3>3. H + cost[n] <= h + bs
      BY <1>2, <1>3, <1>4, SMTT(30)
    <3>4. ASSUME NEW g \in 1..n PROVE \E b \in 0..3 : cost[g - 1] + Measure(Group(values, g - 1), bits[b + 1]) <= cost[g]
      <4>1. Measure(Group(values, g - 1), 8) = GroupSize
        BY DEF Measure
      <4>2. 3 \in 0..3 /\ bits[3 + 1] = 8
        BY <3>1
      <4>3. g - 1 \in 0..n /\ (g - 1) * GroupSize + GroupSize = g * GroupSize /\ g * GroupSize \in Nat
        BY <3>1
      <4>4. cost[g - 1] + Measure(Group(values, g - 1), bits[3 + 1]) <= cost[g]
        BY <4>1, <4>2, <4>3
      <4> HIDE DEF cost
      <4> QED
        BY <4>2, <4>4
    <3> HIDE DEF cost
    <3> QED
      BY <3>2, <3>3, <3>4
  <2>2. CASE call.version = 1 /\ ControlOfChannel = 0
    <3>1. Control(values) = 0
      BY <1>2, <2>2 DEF ControlOfChannel
    <3>2. BlockCount \in Nat /\ BlockCount <= bs
      BY <1>3, BlockFacts
    <3>3. H + GroupsSize(values, 0) < BlockCount
      BY <1>2, <1>4, <3>1, <3>2, ControlFacts
    <3>4. PICK cost : /\ \A g \in 0..n : cost[g] \in Nat
                      /\ cost[n] = GroupsSize(values, 0)
                      /\ \A g \in 1..n : \E b \in {1, 2, 4, 0} :
                           cost[g - 1] + Measure(Group(values, g - 1), b) <= cost[g]
      <4>1. PICK last \in {0, 8} : last = 0
        OBVIOUS
      <4>2. PICK cost : Priced(cost, n, values, last)
        BY <1>2, CostFacts
      <4> QED
        BY <4>1, <4>2 DEF Priced
    <3>5. H + cost[n] <= h + bs
      <4>1. cost[n] \in Nat
        BY <3>4
      <4> QED
        BY <3>2, <3>3, <3>4, <4>1
    <3>6. \A b \in {1, 2, 4, 0} : \E i \in 0..3 : bits[i + 1] = b
      BY <1>1, <1>5, <2>2, BitsFacts
    <3>7. ASSUME NEW g \in 1..n PROVE \E b \in 0..3 : cost[g - 1] + Measure(Group(values, g - 1), bits[b + 1]) <= cost[g]
      <4>1. PICK b \in {1, 2, 4, 0} : cost[g - 1] + Measure(Group(values, g - 1), b) <= cost[g]
        BY <3>4
      <4>2. PICK i \in 0..3 : bits[i + 1] = b
        BY <3>6
      <4> QED
        BY <4>1, <4>2
    <3> QED
      BY <3>4, <3>5, <3>7
  <2> QED
    BY <1>1, <2>1, <2>2 DEF Versions
<1>8. PICK cost : /\ \A g \in 0..n : cost[g] \in Nat
                  /\ H + cost[n] <= h + bs
                  /\ \A g \in 1..n : \E b \in 0..3 : cost[g - 1] + Measure(Group(values, g - 1), bits[b + 1]) <= cost[g]
  BY <1>7
<1>9. PICK at \in Nat : at = Len(data) /\ at <= BufferSize
  BY <1>1
<1>10. e = EncodedBytes(values, bits, at)
  BY <1>2, <1>5, <1>9
<1>11. /\ e \in Coding(H)
       /\ Inside(e, at + H)
       /\ e.ok => Len(e.groups) <= cost[n]
       /\ ~e.ok => BufferSize < at + H + cost[n] + DecodeLimit
  BY <1>1, <1>2, <1>4, <1>6, <1>8, <1>9, <1>10, EncodedBytesFacts
<1>12. PICK total \in Nat : total = cost[n]
  <2>1. n \in 0..n
    OBVIOUS
  <2> QED
    BY <1>8, <2>1
<1> QED
  BY <1>3, <1>8, <1>9, <1>11, <1>12

\* A byte channel is not longer than the bound expects, and room is lacking only if the longest one does
\* not fit together with the bytes that the groups' check asks for.
LEMMA CodedFacts ==
  ASSUME ChannelState
  PROVE  /\ Coded.bytes \in Seq(Nat) /\ Coded.reach \in Nat /\ Coded.reach <= BufferSize
         /\ Coded.ok => /\ Len(data) + Len(Coded.bytes) <= BufferSize
                        /\ Len(Coded.bytes) <= ChannelMost
         /\ ~Coded.ok => BufferSize < Len(data) + ChannelMost + DecodeLimit
         /\ ControlOfChannel \in 0..3
<1>1. mesh \in Meshes /\ call \in Calls /\ offset \in 0..Count /\ data \in Seq(Nat) /\ Len(data) <= BufferSize
  BY DEF ChannelState
<1>2. PICK N \in Nat : N = BufferSize
  BY <1>1, BufferType
<1>3. PICK at \in Nat : at = Len(data) /\ at <= N
  BY <1>1, <1>2, LenProperties
<1>4. PICK p \in Nat, d \in Nat : p = ChannelMost /\ d = DecodeLimit
  BY <1>1, BoundFacts, SizesAssumption
<1>5. PICK b \in Nat : b = BlockCount /\ b <= Aligned(b) /\ Aligned(b) \in Nat /\ b <= p
  <2>1. BlockSize(mesh.size) \in Nat /\ HeaderSize(BlockSize(mesh.size)) \in Nat
    BY <1>1, BlockSizeFacts, HeaderMonotone
  <2>2. BlockCount \in Nat /\ BlockCount <= Aligned(BlockCount) /\ Aligned(BlockCount) \in Nat
        /\ BlockCount <= BlockSize(mesh.size)
    BY <1>1, BlockFacts
  <2> QED
    BY <1>4, <2>1, <2>2 DEF ChannelMost
<1>6. Deltas \in Seq(Nat) /\ Len(Deltas) = Aligned(b)
  <2>1. Rotations \subseteq Nat
    BY SizesAssumption
  <2> QED
    BY <1>5, <2>1, DeltasType DEF ChannelState
<1>7. ControlOfChannel \in 0..3
  <2>1. Groups(b) \in Nat /\ Aligned(b) = Groups(b) * GroupSize
    BY GroupsFacts
  <2>2. Control(Deltas) \in 0..3
    BY <1>1, <1>6, <2>1, ControlFacts
  <2> QED
    BY <2>2 DEF ControlOfChannel
<1>8. CASE ControlOfChannel = 2
  <2>1. Coded = [bytes |-> <<>>, reach |-> at, ok |-> TRUE]
    BY <1>3, <1>8 DEF Coded
  <2> QED
    BY <1>2, <1>3, <1>4, <1>7, <2>1
<1>9. CASE ControlOfChannel = 3
  <2> DEFINE room == ~Short(N, at, b)
             bytes == SubSeq(Deltas, 1, b)
  <2>1. Coded = [bytes |-> bytes, reach |-> IF room THEN at + b ELSE at, ok |-> room]
    BY <1>2, <1>3, <1>5, <1>9 DEF Coded
  <2>2. bytes \in Seq(Nat) /\ Len(bytes) = b
    <3>1. \A i \in 1..b : Deltas[i] \in Nat
      BY <1>5, <1>6, ElementOfSeq
    <3>2. Len(bytes) = IF 1 <= b THEN (b - 1) + 1 ELSE 0
      BY <3>1, SubSeqProperties
    <3>3. bytes \in Seq(Nat)
      BY <3>1, SubSeqProperties
    <3> QED
      BY <3>2, <3>3
  <2> HIDE DEF bytes
  <2>3. room <=> at + b <= N
    BY <1>3, ShortMeans
  <2>4. Coded.bytes = bytes /\ Coded.ok = room /\ Coded.reach = IF room THEN at + b ELSE at
    BY <2>1
  <2> HIDE DEF room
  <2>5. Coded.reach \in Nat /\ Coded.reach <= N
    BY <1>3, <2>3, <2>4
  <2>6. Coded.ok => at + b <= N /\ b <= p
    BY <1>5, <2>3, <2>4
  <2>7. ~Coded.ok => N < at + p + d
    BY <1>3, <1>4, <1>5, <2>3, <2>4
  <2> QED
    BY <1>2, <1>3, <1>4, <1>7, <2>2, <2>4, <2>5, <2>6, <2>7
<1>10. CASE ControlOfChannel \in 0..1
  <2> DEFINE e == EncodedBytes(Deltas, BitsOf(call.version, ControlOfChannel), at)
  <2>1. Coded = [bytes |-> e.header \o e.groups, reach |-> e.reach, ok |-> e.ok]
    BY <1>3, <1>10 DEF Coded
  <2>2. PICK c : c = e
    OBVIOUS
  <2>3. PICK H \in Nat, total \in Nat :
           /\ H + total <= ChannelMost
           /\ c \in Coding(H) /\ Inside(c, at + H)
           /\ c.ok => Len(c.groups) <= total
           /\ ~c.ok => BufferSize < at + H + total + DecodeLimit
    BY <1>3, <1>10, <2>2, EncodedChannel
  <2> HIDE DEF e
  <2>4. c.header \in [1..H -> Nat] /\ c.groups \in Seq(Nat) /\ c.reach \in Nat /\ c.ok \in BOOLEAN
    BY <2>3 DEF Coding
  <2>5. c.header \in Seq(Nat) /\ Len(c.header) = H
    BY <2>4, FunctionSeq
  <2>6. PICK l \in Nat : l = Len(c.groups)
    BY <2>4, LenProperties
  <2>7. c.header \o c.groups \in Seq(Nat) /\ Len(c.header \o c.groups) = H + l
    BY <2>4, <2>5, <2>6, ConcatProperties
  <2>8. Coded.bytes = c.header \o c.groups /\ Coded.reach = c.reach /\ Coded.ok = c.ok
    BY <2>1, <2>2
  <2>9. c.reach <= N /\ (c.ok => at + H + l <= N)
    BY <1>2, <2>3, <2>6 DEF Inside
  <2>10. /\ H + total <= p
         /\ c.ok => l <= total
         /\ ~c.ok => N < at + H + total + d
    BY <1>2, <1>4, <2>3, <2>6
  <2>11. ~c.ok => N < at + p + d
    BY <2>10
  <2>12. c.ok => H + l <= p /\ at + (H + l) <= N
    BY <2>9, <2>10
  <2> QED
    BY <1>2, <1>3, <1>4, <1>7, <2>4, <2>7, <2>8, <2>9, <2>11, <2>12
<1> QED
  BY <1>7, <1>8, <1>9, <1>10

-----------------------------------------------------------------------------
(* Byte channels of the decoders *)

LEMMA AtType ==
  ASSUME data \in Seq(Nat)
  PROVE  \A n \in Nat : At(n) \in Nat
<1> SUFFICES ASSUME NEW n \in Nat PROVE At(n) \in Nat
  OBVIOUS
<1>1. CASE n < Len(data)
  <2>1. n + 1 \in 1..Len(data)
    BY <1>1, LenProperties
  <2>2. data[n + 1] \in Nat
    BY <2>1, ElementOfSeq
  <2> QED
    BY <1>1, <2>2 DEF At
<1>2. CASE ~(n < Len(data))
  BY <1>2 DEF At
<1> QED
  BY <1>1, <1>2

LEMMA ShiftType == \A bits \in {1, 2, 4}, i \in Nat : i < 8 \div bits => Shift(bits, i) \in Nat
<1> SUFFICES ASSUME NEW bits \in {1, 2, 4}, NEW i \in Nat, i < 8 \div bits PROVE Shift(bits, i) \in Nat
  OBVIOUS
<1>1. CASE bits = 1
  BY <1>1 DEF Shift
<1>2. CASE bits = 2
  BY <1>2 DEF Shift
<1>3. CASE bits = 4
  BY <1>3 DEF Shift
<1> QED
  BY <1>1, <1>2, <1>3

LEMMA ReadReachFacts ==
  ASSUME call \in Calls, NEW bits \in BitsOfGroups, NEW at \in Nat, NEW escaped \in 0..GroupSize - 1
  PROVE  ReadReach(bits, at, escaped) \in Nat /\ ReadReach(bits, at, escaped) <= at + DecodeLimit
<1>1. GroupSize \in Nat \ {0} /\ DecodeLimit = (GroupSize \div 2) + GroupSize /\ GroupSize \div 2 \in Nat
  BY SizesAssumption
<1>2. CASE bits = 0
  <2>1. ReadReach(bits, at, escaped) = IF call.simd THEN at + GroupSize ELSE at
    BY <1>2 DEF ReadReach
  <2> QED
    BY <1>1, <2>1
<1>3. CASE bits = 8
  <2>1. ReadReach(bits, at, escaped) = at + GroupSize
    BY <1>3 DEF ReadReach
  <2> QED
    BY <1>1, <2>1
<1>4. CASE bits \notin {0, 8}
  <2>1. Fixed(bits) \in Nat /\ Fixed(bits) <= GroupSize \div 2
    BY <1>4, FixedFacts DEF BitsOfGroups
  <2>2. ReadReach(bits, at, escaped) = at + Fixed(bits) + IF call.simd THEN GroupSize ELSE escaped + 1
    BY <1>4 DEF ReadReach
  <2> QED
    BY <1>1, <2>1, <2>2
<1> QED
  BY <1>2, <1>3, <1>4

\* A group has GroupSize values, and its decoder looks no further than the limit.
LEMMA ReadGroupFacts ==
  ASSUME data \in Seq(Nat), call \in Calls, NEW bits \in BitsOfGroups, NEW at \in Nat, NEW r, r = ReadGroup(bits, at)
  PROVE  /\ r.values \in Seq(Nat) /\ Len(r.values) = GroupSize
         /\ r.next \in Nat /\ r.next <= at + DecodeLimit
         /\ r.reach \in Nat /\ r.reach <= at + DecodeLimit
<1>1. GroupSize \in Nat \ {0} /\ DecodeLimit = (GroupSize \div 2) + GroupSize /\ GroupSize \div 2 \in Nat
      /\ GroupSize - 1 \in Nat /\ 0 \in 0..GroupSize - 1
  BY SizesAssumption
<1>2. CASE bits = 0
  <2>1. r = [values |-> Zeros(GroupSize), next |-> at, reach |-> ReadReach(bits, at, 0)]
    BY <1>2 DEF ReadGroup
  <2>2. Zeros(GroupSize) \in Seq(Nat) /\ Len(Zeros(GroupSize)) = GroupSize
    BY <1>1, ZerosType, FunctionSeq
  <2>3. ReadReach(bits, at, 0) \in Nat /\ ReadReach(bits, at, 0) <= at + DecodeLimit
    BY <1>1, ReadReachFacts
  <2> QED
    BY <1>1, <2>1, <2>2, <2>3
<1>3. CASE bits = 8
  <2> DEFINE values == [i \in 1..GroupSize |-> At(at + i - 1)]
  <2>1. r = [values |-> values, next |-> at + GroupSize, reach |-> ReadReach(bits, at, 0)]
    BY <1>3 DEF ReadGroup
  <2>2. values \in [1..GroupSize -> Nat]
    <3>1. ASSUME NEW i \in 1..GroupSize PROVE At(at + i - 1) \in Nat
      <4>1. at + i - 1 \in Nat
        OBVIOUS
      <4> QED
        BY <4>1, AtType
    <3> QED
      BY <3>1
  <2> HIDE DEF values
  <2>3. values \in Seq(Nat) /\ Len(values) = GroupSize
    BY <1>1, <2>2, FunctionSeq
  <2>4. ReadReach(bits, at, 0) \in Nat /\ ReadReach(bits, at, 0) <= at + DecodeLimit
    BY <1>1, ReadReachFacts
  <2> QED
    BY <1>1, <2>1, <2>3, <2>4
<1>4. CASE bits \notin {0, 8}
  <2>1. bits \in {1, 2, 4} /\ bits \in Nat
    BY <1>4 DEF BitsOfGroups
  <2>2. PICK body \in Nat, per \in Nat \ {0} : body = Fixed(bits) /\ per = 8 \div bits /\ body <= GroupSize \div 2
    BY <2>1, FixedFacts
  <2> DEFINE enc == [i \in 1..GroupSize |-> (At(at + (i - 1) \div per) \div 2^Shift(bits, (i - 1) % per)) % 2^bits]
             values == [i \in 1..GroupSize |->
                          IF enc[i] = Sentinel(bits) THEN At(at + body + Escapes(enc, bits, i - 1)) ELSE enc[i]]
  <2>3. enc \in [1..GroupSize -> Nat]
    <3>1. ASSUME NEW i \in 1..GroupSize
          PROVE  (At(at + (i - 1) \div per) \div 2^Shift(bits, (i - 1) % per)) % 2^bits \in Nat
      <4>1. PICK q \in Nat, j \in Nat : q = (i - 1) \div per /\ j = (i - 1) % per /\ j < per
        <5>1. i - 1 \in Nat
          OBVIOUS
        <5>2. (i - 1) \div per \in Nat
          BY <5>1, Quotient
        <5>3. (i - 1) % per \in Nat /\ (i - 1) % per < per
          BY <5>1
        <5> QED
          BY <5>2, <5>3
      <4>2. PICK x \in Nat : x = At(at + q)
        <5>1. at + q \in Nat
          OBVIOUS
        <5> QED
          BY <5>1, AtType
      <4>3. PICK y \in Nat \ {0} : y = 2^Shift(bits, j)
        <5>1. Shift(bits, j) \in Nat
          BY <2>1, <2>2, <4>1, ShiftType
        <5> QED
          BY <5>1, PowerPositive
      <4>4. PICK z \in Nat \ {0} : z = 2^bits
        BY <2>1, PowerPositive
      <4>5. PICK w \in Nat : w = x \div y
        BY Quotient
      <4>6. (At(at + (i - 1) \div per) \div 2^Shift(bits, (i - 1) % per)) % 2^bits = w % z
        BY <4>1, <4>2, <4>3, <4>4, <4>5
      <4> QED
        BY <4>6
    <3> QED
      BY <3>1
  <2>4. /\ r.values = values
        /\ r.next = at + body + Escapes(enc, bits, GroupSize)
        /\ r.reach = ReadReach(bits, at, Escapes(enc, bits, GroupSize - 1))
    BY <1>4, <2>2 DEF ReadGroup
  <2> HIDE DEF enc
  <2>5. Escapes(enc, bits, GroupSize) \in 0..GroupSize /\ Escapes(enc, bits, GroupSize - 1) \in 0..GroupSize - 1
    BY <1>1, EscapesFacts
  <2>6. values \in [1..GroupSize -> Nat]
    <3>1. ASSUME NEW i \in 1..GroupSize
          PROVE  (IF enc[i] = Sentinel(bits) THEN At(at + body + Escapes(enc, bits, i - 1)) ELSE enc[i]) \in Nat
      <4>1. Escapes(enc, bits, i - 1) \in 0..i - 1
        <5>1. PICK j \in Nat : j = i - 1
          OBVIOUS
        <5>2. Escapes(enc, bits, j) \in 0..j
          BY EscapesFacts
        <5> QED
          BY <5>1, <5>2
      <4>2. at + body + Escapes(enc, bits, i - 1) \in Nat
        BY <4>1
      <4>3. At(at + body + Escapes(enc, bits, i - 1)) \in Nat /\ enc[i] \in Nat
        BY <2>3, <4>2, AtType
      <4> QED
        BY <4>3
    <3> QED
      BY <3>1
  <2> HIDE DEF values
  <2>7. values \in Seq(Nat) /\ Len(values) = GroupSize
    BY <1>1, <2>6, FunctionSeq
  <2>8. PICK n \in 0..GroupSize - 1 : n = Escapes(enc, bits, GroupSize - 1)
    BY <2>5
  <2>9. ReadReach(bits, at, n) \in Nat /\ ReadReach(bits, at, n) <= at + DecodeLimit
    BY ReadReachFacts
  <2>10. PICK m \in 0..GroupSize : m = Escapes(enc, bits, GroupSize)
    BY <2>5
  <2>11. r.values \in Seq(Nat) /\ Len(r.values) = GroupSize
    BY <2>4, <2>7
  <2>12. r.next = at + body + m
    BY <2>4, <2>10
  <2>13. r.reach = ReadReach(bits, at, n)
    BY <2>4, <2>8
  <2>14. r.next \in Nat /\ r.next <= at + DecodeLimit
    BY <1>1, <2>2, <2>12
  <2> QED
    BY <2>9, <2>11, <2>13, <2>14
<1> QED
  BY <1>2, <1>3, <1>4

\* What decodeBytes carries from group to group.
Reading == [values : Seq(Nat), next : Nat, reach : Nat, ok : BOOLEAN]

Read(s, g) == s.reach <= Len(data) /\ (s.ok => s.next <= Len(data) /\ Len(s.values) = g * GroupSize)

\* A group is read only if the longest one is left.
LEMMA DecodeGroupFacts ==
  ASSUME data \in Seq(Nat), call \in Calls, taken \in Nat, NEW bits, \A i \in 1..4 : bits[i] \in BitsOfGroups,
         NEW s \in Reading, NEW g \in Nat \ {0}, NEW e, e = DecodeGroup(s, bits, g)
  PROVE  e \in Reading /\ (Read(s, g - 1) => Read(e, g))
<1> DEFINE h == (At(taken + ((g - 1) \div 4)) \div 2^(2 * ((g - 1) % 4))) % 4
           r == ReadGroup(bits[h + 1], s.next)
           new == [values |-> s.values \o r.values, next |-> r.next, reach |-> Max({s.reach, r.reach}), ok |-> TRUE]
<1>1. s.values \in Seq(Nat) /\ s.next \in Nat /\ s.reach \in Nat /\ s.ok \in BOOLEAN
  BY DEF Reading
<1>2. e = IF ~s.ok \/ NoGroupLeft(s.next) THEN [s EXCEPT !.ok = FALSE] ELSE new
  BY DEF DecodeGroup
<1>3. h \in 0..3
  <2>1. PICK q \in Nat, j \in Nat : q = (g - 1) \div 4 /\ j = 2 * ((g - 1) % 4)
    OBVIOUS
  <2>2. PICK x \in Nat, y \in Nat \ {0} : x = At(taken + q) /\ y = 2^j
    <3>1. taken + q \in Nat
      OBVIOUS
    <3> QED
      BY <3>1, AtType, PowerPositive
  <2>3. PICK z \in Nat : z = x \div y
    BY Quotient
  <2>4. h = z % 4
    BY <2>1, <2>2, <2>3
  <2> HIDE DEF h
  <2> QED
    BY <2>4
<1>4. bits[h + 1] \in BitsOfGroups
  <2> HIDE DEF h
  <2>1. h + 1 \in 1..4
    BY <1>3
  <2> QED
    BY <2>1
<1>5. PICK b \in BitsOfGroups : b = bits[h + 1]
  BY <1>4
<1> HIDE DEF h
<1>6. PICK t : t = ReadGroup(b, s.next)
  OBVIOUS
<1>7. /\ t.values \in Seq(Nat) /\ Len(t.values) = GroupSize
      /\ t.next \in Nat /\ t.next <= s.next + DecodeLimit
      /\ t.reach \in Nat /\ t.reach <= s.next + DecodeLimit
  BY <1>1, <1>6, ReadGroupFacts
<1>8. DecodeLimit \in Nat /\ GroupSize \in Nat /\ Len(data) \in Nat
  BY SizesAssumption, LenProperties
<1>9. CASE ~s.ok \/ NoGroupLeft(s.next)
  <2>1. e = [s EXCEPT !.ok = FALSE]
    BY <1>2, <1>9
  <2>2. e \in Reading /\ ~e.ok /\ e.reach = s.reach
    BY <2>1 DEF Reading
  <2> QED
    BY <2>2 DEF Read
<1>10. CASE s.ok /\ ~NoGroupLeft(s.next)
  <2>1. e = [values |-> s.values \o t.values, next |-> t.next, reach |-> Max({s.reach, t.reach}), ok |-> TRUE]
    BY <1>2, <1>5, <1>6, <1>10
  <2>2. PICK a \in Nat, c \in Nat, x \in Nat, y \in Nat :
          a = s.reach /\ c = t.reach /\ x = s.next /\ y = t.next
    BY <1>1, <1>7
  <2>3. PICK m \in Nat : m = Max({a, c}) /\ m = IF a >= c THEN a ELSE c
    BY MaxOfTwo, SMTT(30)
  <2>4. PICK v \in Seq(Nat) : v = s.values \o t.values /\ Len(v) = Len(s.values) + GroupSize
    BY <1>1, <1>7, ConcatProperties
  <2>5. e = [values |-> v, next |-> y, reach |-> m, ok |-> TRUE]
    BY <2>1, <2>2, <2>3, <2>4
  <2>6. e \in Reading /\ e.values = v /\ e.next = y /\ e.reach = m
    BY <2>5 DEF Reading
  <2>7. ASSUME Read(s, g - 1) PROVE Read(e, g)
    <3>1. a <= Len(data) /\ x <= Len(data) /\ Len(s.values) = (g - 1) * GroupSize
      BY <1>10, <2>2, <2>7 DEF Read
    <3>2. x + DecodeLimit <= Len(data)
      BY <1>8, <1>10, <2>2, <3>1, ShortMeans DEF NoGroupLeft
    <3>3. c <= x + DecodeLimit /\ y <= x + DecodeLimit
      BY <1>7, <2>2
    <3>4. m <= Len(data) /\ y <= Len(data)
      BY <1>8, <2>3, <3>1, <3>2, <3>3
    <3>5. Len(v) = g * GroupSize
      <4>1. (g - 1) * GroupSize + GroupSize = g * GroupSize
        BY <1>8
      <4> QED
        BY <2>4, <3>1, <4>1
    <3> QED
      BY <2>6, <3>4, <3>5 DEF Read
  <2> QED
    BY <2>6, <2>7
<1> QED
  BY <1>1, <1>9, <1>10

\* The function that defines DecodedBytes.
NoGroupsRead ==
  [values |-> <<>>, next |-> taken + HeaderSize(BlockCount),
   reach |-> IF ~Short(Len(data), taken, HeaderSize(BlockCount)) THEN taken + HeaderSize(BlockCount) ELSE taken,
   ok |-> ~Short(Len(data), taken, HeaderSize(BlockCount))]

DecodeSteps(bits) ==
  CHOOSE step : step = [g \in 0..Groups(BlockCount) |->
        IF g = 0 THEN NoGroupsRead ELSE DecodeGroup(step[g - 1], bits, g)]

\* The decoder stops before the end of the stream, or after it has looked at all groups.
LEMMA DecodedBytesFacts ==
  ASSUME data \in Seq(Nat), call \in Calls, taken \in Nat, taken <= Len(data),
         BlockCount \in Nat, NEW bits, \A i \in 1..4 : bits[i] \in BitsOfGroups,
         NEW e, e = DecodedBytes(bits)
  PROVE  e \in Reading /\ Read(e, Groups(BlockCount))
<1> DEFINE X == Reading
           none == NoGroupsRead
           n == Groups(BlockCount)
           f == [p \in (1..n) \X X |-> DecodeGroup(p[2], bits, p[1])]
           Body(h) == [g \in 0..n |-> IF g = 0 THEN none ELSE DecodeGroup(h[g - 1], bits, g)]
           w == DecodeSteps(bits)
<1>1. n \in Nat /\ HeaderSize(BlockCount) \in Nat /\ Len(data) \in Nat
  BY GroupsFacts, HeaderMonotone, LenProperties
<1>2. none \in X /\ Read(none, 0)
  <2>1. PICK h \in Nat, l \in Nat, t \in Nat : h = HeaderSize(BlockCount) /\ l = Len(data) /\ t = taken /\ t <= l
    BY <1>1
  <2>2. PICK ok \in BOOLEAN : ok = ~Short(l, t, h) /\ (ok => t + h <= l)
    <3>1. Short(l, t, h) <=> t <= l /\ l < t + h
      BY ShortMeans
    <3>2. CASE Short(l, t, h)
      BY <3>1, <3>2
    <3>3. CASE ~Short(l, t, h)
      <4>1. t + h <= l
        BY <2>1, <3>1, <3>3
      <4>2. TRUE = ~Short(l, t, h)
        BY <3>3
      <4> QED
        BY <4>1, <4>2
    <3> QED
      BY <3>2, <3>3
  <2>3. PICK r \in Nat : r = (IF ok THEN t + h ELSE t) /\ r <= l
    BY <2>1, <2>2
  <2>4. none = [values |-> <<>>, next |-> t + h, reach |-> r, ok |-> ok]
    BY <2>1, <2>2, <2>3 DEF NoGroupsRead
  <2>5. none \in X
    BY <2>4 DEF Reading
  <2>6. GroupSize \in Nat
    BY SizesAssumption
  <2>7. none.reach = r /\ none.ok = ok /\ none.next = t + h /\ Len(none.values) = 0 * GroupSize
    BY <2>4, <2>6
  <2> HIDE DEF none
  <2> QED
    BY <2>1, <2>2, <2>3, <2>5, <2>7 DEF Read
<1> HIDE DEF none
<1>3. ASSUME NEW s \in X, NEW g \in 1..n
      PROVE  DecodeGroup(s, bits, g) \in X /\ (Read(s, g - 1) => Read(DecodeGroup(s, bits, g), g))
  <2>1. PICK x : x = DecodeGroup(s, bits, g)
    OBVIOUS
  <2>2. x \in X /\ (Read(s, g - 1) => Read(x, g))
    BY <1>1, <2>1, DecodeGroupFacts
  <2> QED
    BY <2>1, <2>2
<1>4. f \in [(1..n) \X X -> X]
  <2>1. ASSUME NEW p \in (1..n) \X X PROVE DecodeGroup(p[2], bits, p[1]) \in X
    <3>1. p[1] \in 1..n /\ p[2] \in X
      OBVIOUS
    <3> HIDE DEF X, n
    <3> QED
      BY <1>3, <3>1
  <2> HIDE DEF X, n
  <2> QED
    BY <2>1
<1>5. \A g \in 1..n, s \in X : f[<<g, s>>] = DecodeGroup(s, bits, g)
  <2> HIDE DEF X, n
  <2> QED
    OBVIOUS
<1> HIDE DEF f, X, n
<1>6. PICK h \in [0..n -> X] : h[0] = none /\ \A g \in 1..n : h[g] = f[<<g, h[g - 1]>>]
  <2>1. \E h \in [0..n -> X] : Recursive(h, n, none, f)
    BY <1>1, <1>2, <1>4, Recursion
  <2> QED
    BY <2>1 DEF Recursive
<1>7. h = Body(h)
  <2>1. ASSUME NEW g \in 0..n PROVE Body(h)[g] = h[g]
    <3>1. CASE g = 0
      BY <1>6, <3>1
    <3>2. CASE g # 0
      <4>1. g \in 1..n /\ g - 1 \in 0..n
        BY <1>1, <3>2
      <4>2. h[g - 1] \in X
        BY <1>6, <4>1
      <4>3. h[g] = DecodeGroup(h[g - 1], bits, g)
        BY <1>5, <1>6, <4>1, <4>2
      <4> QED
        BY <3>2, <4>3
    <3> QED
      BY <3>1, <3>2
  <2> QED
    BY <1>6, <2>1
<1>8. w = Body(w)
  <2>1. \E v : v = Body(v)
    <3> HIDE DEF Body
    <3> QED
      BY <1>7
  <2> QED
    BY <2>1 DEF DecodeSteps, none, n
<1>9. e = w[n]
  BY DEF DecodedBytes, DecodeSteps, NoGroupsRead, n
<1>10. PICK s : s = w
  OBVIOUS
<1> HIDE DEF w
<1>11. s[0] = none /\ \A g \in 1..n : s[g] = DecodeGroup(s[g - 1], bits, g)
  <2>1. s = Body(s)
    BY <1>8, <1>10
  <2>2. \A g \in 0..n : Body(s)[g] = IF g = 0 THEN none ELSE DecodeGroup(s[g - 1], bits, g)
    OBVIOUS
  <2> HIDE DEF Body
  <2>3. \A g \in 0..n : s[g] = IF g = 0 THEN none ELSE DecodeGroup(s[g - 1], bits, g)
    BY <2>1, <2>2
  <2> QED
    BY <1>1, <2>3
<1> HIDE DEF Body
<1>12. \A g \in 0..n : s[g] \in X
  <2>1. Follows(s, n, none, f, X)
    BY <1>5, <1>11 DEF Follows
  <2> QED
    BY <1>1, <1>2, <1>4, <2>1, StepByStep
<1> DEFINE I == {g \in Nat : g <= n => Read(s[g], g)}
<1>13. 0 \in I
  BY <1>2, <1>11
<1>14. ASSUME NEW g \in Nat, g \in I PROVE g + 1 \in I
  <2>1. ASSUME g + 1 <= n PROVE Read(s[g + 1], g + 1)
    <3>1. PICK j \in 1..n : j = g + 1 /\ j - 1 = g
      BY <1>1, <2>1
    <3>2. s[g] \in X /\ Read(s[g], g)
      BY <1>1, <1>12, <1>14, <2>1
    <3>3. s[j] = DecodeGroup(s[j - 1], bits, j)
      BY <1>11
    <3>4. Read(s[j - 1], j - 1) => Read(DecodeGroup(s[j - 1], bits, j), j)
      BY <1>3, <3>1, <3>2
    <3> QED
      BY <3>1, <3>2, <3>3, <3>4
  <2> QED
    BY <2>1
<1>15. Nat \subseteq I
  <2> HIDE DEF I
  <2> QED
    BY <1>13, <1>14, NatSetInduction
<1>16. Read(s[n], n) /\ s[n] \in X
  <2>1. n \in 0..n /\ n \in I
    BY <1>1, <1>15
  <2> QED
    BY <1>12, <2>1
<1> QED
  BY <1>9, <1>10, <1>16 DEF X, n

\* A byte channel of a block is read inside the stream, and no longer than a block's share of buffer.
LEMMA DecodedFacts ==
  ASSUME mesh \in Meshes, call \in Calls, offset \in 0..Count, k \in Nat, control \in Nat,
         data \in Seq(Nat), taken \in Nat, taken <= Len(data), DecodedVersion \in Versions
  PROVE  /\ Decoded.next \in Nat /\ Decoded.reach \in Nat /\ Decoded.reach <= Len(data)
         /\ Decoded.values \in Seq(Nat)
         /\ Decoded.ok => Decoded.next <= Len(data) /\ Len(Decoded.values) <= Aligned(BlockCount)
<1> DEFINE ctrl == IF DecodedVersion = 0 THEN 0 ELSE (At(control + (k \div 4)) \div 2^(2 * (k % 4))) % 4
<1>1. PICK b \in Nat, a \in Nat, st \in Nat :
        b = BlockCount /\ a = Aligned(b) /\ st = Stride /\ b <= st /\ st <= a /\ a = Groups(b) * GroupSize
  <2>1. BlockCount \in Nat /\ Aligned(BlockCount) \in Nat /\ BlockCount <= Aligned(BlockCount)
        /\ Aligned(BlockCount) = Groups(BlockCount) * GroupSize
    BY BlockFacts
  <2> QED
    BY <2>1 DEF Stride
<1>2. PICK l \in Nat, t \in Nat : l = Len(data) /\ t = taken /\ t <= l
  BY LenProperties
<1>3. ctrl \in 0..3 /\ (DecodedVersion = 0 => ctrl = 0)
  <2>1. PICK q \in Nat, j \in Nat : q = k \div 4 /\ j = 2 * (k % 4)
    OBVIOUS
  <2>2. PICK x \in Nat, y \in Nat \ {0} : x = At(control + q) /\ y = 2^j
    <3>1. control + q \in Nat
      OBVIOUS
    <3> QED
      BY <3>1, AtType, PowerPositive
  <2>3. PICK z \in Nat : z = x \div y
    BY Quotient
  <2>4. ctrl = IF DecodedVersion = 0 THEN 0 ELSE z % 4
    BY <2>1, <2>2, <2>3
  <2> HIDE DEF ctrl
  <2> QED
    BY <2>4
<1>4. Decoded = CASE ctrl = 3 -> [values |-> [i \in 1..Stride |-> At(taken + i - 1)],
                                  next   |-> taken + BlockCount,
                                  reach  |-> IF ~Short(Len(data), taken, LiteralSize) THEN taken + Stride ELSE taken,
                                  ok     |-> ~Short(Len(data), taken, LiteralSize)]
                  [] ctrl = 2 -> [values |-> Zeros(Stride), next |-> taken, reach |-> taken, ok |-> TRUE]
                  [] OTHER -> DecodedBytes(BitsOf(DecodedVersion, ctrl))
  BY DEF Decoded
<1> HIDE DEF ctrl
<1>5. CASE ctrl = 3
  <2> DEFINE values == [i \in 1..st |-> At(t + i - 1)]
  <2>1. PICK ok \in BOOLEAN : ok = ~Short(l, t, st) /\ (ok => t + st <= l)
    <3>1. Short(l, t, st) <=> t <= l /\ l < t + st
      BY ShortMeans
    <3>2. CASE Short(l, t, st)
      BY <3>1, <3>2
    <3>3. CASE ~Short(l, t, st)
      <4>1. t + st <= l
        BY <1>2, <3>1, <3>3
      <4>2. TRUE = ~Short(l, t, st)
        BY <3>3
      <4> QED
        BY <4>1, <4>2
    <3> QED
      BY <3>2, <3>3
  <2>2. Decoded = [values |-> values, next |-> t + b, reach |-> IF ok THEN t + st ELSE t, ok |-> ok]
    <3>1. Decoded = [values |-> [i \in 1..Stride |-> At(taken + i - 1)],
                     next   |-> taken + BlockCount,
                     reach  |-> IF ~Short(Len(data), taken, LiteralSize) THEN taken + Stride ELSE taken,
                     ok     |-> ~Short(Len(data), taken, LiteralSize)]
      BY <1>4, <1>5
    <3>2. ok = ~Short(Len(data), taken, LiteralSize)
      BY <1>1, <1>2, <2>1 DEF LiteralSize
    <3> QED
      BY <1>1, <1>2, <3>1, <3>2
  <2>3. values \in [1..st -> Nat]
    <3>1. ASSUME NEW i \in 1..st PROVE At(t + i - 1) \in Nat
      <4>1. t + i - 1 \in Nat
        OBVIOUS
      <4> QED
        BY <4>1, AtType
    <3> QED
      BY <3>1
  <2> HIDE DEF values
  <2>4. values \in Seq(Nat) /\ Len(values) = st
    BY <2>3, FunctionSeq
  <2>5. PICK r \in Nat : r = (IF ok THEN t + st ELSE t) /\ r <= l
    BY <1>2, <2>1
  <2>6. Decoded.values = values /\ Decoded.next = t + b /\ Decoded.reach = r /\ Decoded.ok = ok
    BY <2>2, <2>5
  <2> QED
    BY <1>1, <1>2, <2>1, <2>4, <2>5, <2>6
<1>6. CASE ctrl = 2
  <2>1. Decoded = [values |-> Zeros(st), next |-> t, reach |-> t, ok |-> TRUE]
    BY <1>1, <1>2, <1>4, <1>6
  <2>2. Zeros(st) \in Seq(Nat) /\ Len(Zeros(st)) = st
    BY ZerosType, FunctionSeq
  <2>3. Decoded.values = Zeros(st) /\ Decoded.next = t /\ Decoded.reach = t
    BY <2>1
  <2> QED
    BY <1>1, <1>2, <2>2, <2>3
<1>7. CASE ctrl \in 0..1
  <2>1. PICK bits : bits = BitsOf(DecodedVersion, ctrl) /\ \A i \in 1..4 : bits[i] \in BitsOfGroups
    BY <1>7, BitsFacts
  <2>2. PICK e : e = DecodedBytes(bits)
    OBVIOUS
  <2>3. Decoded = e
    BY <1>4, <1>7, <2>1, <2>2
  <2>4. e \in Reading /\ Read(e, Groups(BlockCount))
    BY <1>1, <2>1, <2>2, DecodedBytesFacts
  <2>5. e.values \in Seq(Nat) /\ e.next \in Nat /\ e.reach \in Nat
    BY <2>4 DEF Reading
  <2>6. e.reach <= Len(data) /\ (e.ok => e.next <= Len(data) /\ Len(e.values) = a)
    BY <1>1, <2>4 DEF Read
  <2> QED
    BY <1>1, <2>3, <2>5, <2>6
<1> QED
  BY <1>3, <1>5, <1>6, <1>7

LEMMA WrittenFacts ==
  ASSUME NEW s \in Seq(Nat), NEW at \in Nat, NEW values \in Seq(Nat), at + Len(values) <= Len(s)
  PROVE  Written(s, at, values) \in Seq(Nat) /\ Len(Written(s, at, values)) = Len(s)
<1>1. PICK m \in Nat, n \in Nat : m = Len(s) /\ n = Len(values) /\ at + n <= m
  BY LenProperties
<1>2. Max({m, at + n}) = m
  <2>1. PICK x \in Int : x = at + n
    OBVIOUS
  <2> QED
    BY <1>1, <2>1, MaxOfTwo
<1> DEFINE f == [i \in 1..m |-> IF i \in at + 1..at + n THEN values[i - at] ELSE s[i]]
<1>3. Written(s, at, values) = f
  BY <1>1, <1>2 DEF Written
<1>4. f \in [1..m -> Nat]
  <2>1. ASSUME NEW i \in 1..m PROVE (IF i \in at + 1..at + n THEN values[i - at] ELSE s[i]) \in Nat
    <3>1. s[i] \in Nat
      BY <1>1, ElementOfSeq
    <3>2. i \in at + 1..at + n => values[i - at] \in Nat
      <4>1. i \in at + 1..at + n => i - at \in 1..n
        OBVIOUS
      <4> QED
        BY <1>1, <4>1, ElementOfSeq
    <3> QED
      BY <3>1, <3>2
  <2> QED
    BY <2>1
<1> HIDE DEF f
<1> QED
  BY <1>1, <1>3, <1>4, FunctionSeq

-----------------------------------------------------------------------------
(* The invariant *)

Shape ==
  /\ mesh \in Meshes /\ call \in Calls
  /\ offset \in 0..Count /\ k \in Nat /\ control \in Nat
  /\ data \in Seq(Nat) /\ taken \in Nat /\ reach \in Nat
  /\ buffer \in Seq(Nat) /\ Len(buffer) = 4 * BlockMax

\* The first d blocks are written, and no more than the bound has for them.
Filled(d) ==
  IF phase = "encode"
  THEN /\ offset = d * BlockSize(mesh.size) \/ offset = Count
       /\ Len(data) <= 1 + d * BlockMost
  ELSE /\ offset = d * BlockSize(mesh.size) /\ offset < Count /\ k < mesh.size
       /\ Len(data) <= 1 + d * BlockMost + mesh.size \div 4 + k * ChannelMost

EncoderState ==
  phase \in {"encode", "encodeChannels"} =>
    /\ lastVertex \in [1..mesh.size -> Byte]
    /\ channels \in [1..mesh.size \div 4 -> AllowedChannels]
    /\ Len(data) <= BufferSize /\ reach <= BufferSize
    /\ \E d \in 0..Blocks : Filled(d)

DecoderState ==
  /\ phase \in {"decode", "decodeChannels", "decodeDeltas", "failed", "done"} => reach <= Len(data)
  /\ phase \in {"decode", "decodeChannels", "decodeDeltas"} =>
       taken <= Len(data) /\ DecodedVersion \in Versions

SafeInv ==
  /\ Shape
  /\ phase = "idle" => offset = 0 /\ reach = 0
  /\ EncoderState
  /\ phase = "refused" => reach <= BufferSize /\ BufferSize < Bound(Count, mesh.size)
  /\ phase = "encoded" => reach <= BufferSize
  /\ DecoderState

\* What depends on the inputs only.
LEMMA SameInputs ==
  ASSUME mesh' = mesh, call' = call
  PROVE  /\ Count' = Count /\ BufferSize' = BufferSize /\ Bound(Count, mesh.size)' = Bound(Count, mesh.size)
         /\ AllowedChannels' = AllowedChannels /\ Blocks' = Blocks
         /\ BlockMost' = BlockMost /\ ChannelMost' = ChannelMost
  BY DEF Count, BufferSize, Bound, AllowedChannels, Blocks, BlockMost, ChannelMost, BlockSize, HeaderSize, Groups,
         TailSize

\* A block that is not written yet has its share of the bound, and so has the tail.
LEMMA RoomForBlock ==
  ASSUME mesh \in Meshes, NEW d \in Nat, d * BlockSize(mesh.size) < Count
  PROVE  /\ d + 1 \in 0..Blocks
         /\ d * BlockMost \in Nat /\ (d + 1) * BlockMost = d * BlockMost + BlockMost
         /\ 1 + d * BlockMost + BlockMost + TailMost <= Bound(Count, mesh.size)
<1>1. PICK b \in Nat, m \in Nat, t \in Nat : b = Blocks /\ m = BlockMost /\ t = TailMost
  BY BoundFacts
<1>2. d + 1 <= b
  BY <1>1, BoundFacts
<1>3. Bound(Count, mesh.size) = 1 + b * m + t
  BY <1>1, BoundFacts
<1>4. d * m \in Nat /\ (d + 1) * m = d * m + m /\ b * m \in Nat
  OBVIOUS
<1>5. \A x, y \in Nat : x <= y => x * m <= y * m
  OBVIOUS
<1>6. (d + 1) * m <= b * m
  BY <1>2, <1>5
<1> QED
  BY <1>1, <1>2, <1>3, <1>4, <1>6

LEMMA FirstVertexType == ASSUME mesh \in Meshes PROVE FirstVertex \in [1..mesh.size -> Byte]
<1>1. CASE Count > 0
  <2>1. 1 \in 1..Count
    BY <1>1, MeshFacts
  <2> QED
    BY <1>1, <2>1, MeshFacts DEF FirstVertex
<1>2. CASE ~(Count > 0)
  <2>1. 0 \in Byte
    BY DEF Byte
  <2> QED
    BY <1>2, <2>1 DEF FirstVertex, Zeros
<1> QED
  BY <1>1, <1>2

LEMMA StartSafe == ASSUME SafeInv, EncodeStart PROVE SafeInv'
<1>1. Shape /\ phase = "idle" /\ offset = 0 /\ reach = 0
  BY DEF SafeInv, EncodeStart
<1>2. mesh' = mesh /\ call' = call /\ offset' = 0 /\ k' = k /\ control' = control /\ taken' = taken /\ buffer' = buffer
  BY <1>1 DEF EncodeStart, decoderVars
<1>3. /\ Count' = Count /\ BufferSize' = BufferSize /\ Bound(Count, mesh.size)' = Bound(Count, mesh.size)
      /\ AllowedChannels' = AllowedChannels /\ Blocks' = Blocks /\ BlockMost' = BlockMost
  BY <1>2, SameInputs
<1>4. BufferSize \in Nat
  BY <1>1, BufferType DEF Shape
<1>5. CASE BufferSize < 1
  <2>1. phase' = "refused" /\ data' = data /\ reach' = 0
    BY <1>1, <1>5 DEF EncodeStart, Refuse, encoderVars
  <2>2. BufferSize < Bound(Count, mesh.size)
    <3>1. PICK b \in Nat, m \in Nat, t \in Nat : Bound(Count, mesh.size) = 1 + b * m + t
      BY <1>1, BoundFacts DEF Shape
    <3>2. b * m \in Nat
      OBVIOUS
    <3> QED
      BY <1>4, <1>5, <3>1, <3>2
  <2> QED
    BY <1>1, <1>2, <1>3, <1>4, <2>1, <2>2 DEF SafeInv, Shape, EncoderState, DecoderState
<1>6. CASE ~(BufferSize < 1)
  <2>1. /\ phase' = "encode" /\ reach' = 1 /\ data' = <<VertexHeader + call.version>>
        /\ lastVertex' = FirstVertex /\ channels' \in [1..mesh.size \div 4 -> AllowedChannels]
    BY <1>1, <1>6 DEF EncodeStart
  <2>2. data' \in Seq(Nat) /\ Len(data') = 1
    <3>1. VertexHeader + call.version \in Nat
      BY <1>1, InputsAssumption, SMTT(30) DEF Shape, VertexHeader, Versions
    <3> QED
      BY <2>1, <3>1
  <2>3. lastVertex' \in [1..mesh.size -> Byte]
    BY <1>1, <2>1, FirstVertexType DEF Shape
  <2>4. Filled(0)' /\ 0 \in 0..Blocks
    <3>1. PICK m \in Nat, s \in Nat, b \in Nat : m = BlockMost /\ s = BlockSize(mesh.size) /\ b = Blocks
      BY <1>1, BoundFacts, BlockSizeFacts DEF Shape
    <3>2. 0 * m = 0 /\ 0 * s = 0
      OBVIOUS
    <3> QED
      BY <1>2, <1>3, <2>1, <2>2, <3>1, <3>2 DEF Filled
  <2> QED
    BY <1>1, <1>2, <1>3, <1>4, <1>6, <2>1, <2>2, <2>3, <2>4 DEF SafeInv, Shape, EncoderState, DecoderState
<1> QED
  BY <1>5, <1>6

LEMMA BlockSafe == ASSUME SafeInv, EncodeBlock PROVE SafeInv'
<1>1. Shape /\ EncoderState /\ phase = "encode" /\ offset < Count
  BY DEF SafeInv, EncodeBlock
<1>2. mesh' = mesh /\ call' = call /\ offset' = offset /\ channels' = channels /\ lastVertex' = lastVertex
      /\ taken' = taken /\ buffer' = buffer
  BY DEF EncodeBlock, decoderVars
<1>3. /\ Count' = Count /\ BufferSize' = BufferSize /\ Bound(Count, mesh.size)' = Bound(Count, mesh.size)
      /\ AllowedChannels' = AllowedChannels /\ Blocks' = Blocks /\ BlockMost' = BlockMost /\ ChannelMost' = ChannelMost
  BY <1>2, SameInputs
<1>4. PICK N \in Nat, l \in Nat : N = BufferSize /\ l = Len(data) /\ l <= N /\ reach <= N
  BY <1>1, BufferType, LenProperties DEF Shape, EncoderState
<1>5. PICK w \in Nat, c \in Nat, s \in Nat \ {0} : w = mesh.size \div 4 /\ c = ControlSize(call.version) /\ c <= w /\ s = mesh.size
  BY <1>1, MeshFacts, SMTT(30) DEF Shape, ControlSize
<1>6. PICK d \in 0..Blocks : Filled(d)
  BY <1>1 DEF EncoderState
<1>7. d \in Nat /\ offset = d * BlockSize(mesh.size) /\ l <= 1 + d * BlockMost
  <2>1. Blocks \in Nat /\ Count \in Nat
    BY <1>1, BoundFacts, MeshFacts DEF Shape
  <2> QED
    BY <1>1, <1>4, <1>6, <2>1 DEF Filled
<1>8. PICK m \in Nat, p \in Nat, t \in Nat, e \in Nat :
        m = BlockMost /\ p = ChannelMost /\ t = TailMost /\ e = d * m /\ w <= m
        /\ 1 + e + m + t <= Bound(Count, mesh.size) /\ Bound(Count, mesh.size) \in Nat
  <2>1. /\ d * BlockMost \in Nat
        /\ 1 + d * BlockMost + BlockMost + TailMost <= Bound(Count, mesh.size)
    BY <1>1, <1>7, RoomForBlock DEF Shape
  <2>2. /\ ChannelMost \in Nat /\ BlockMost \in Nat /\ TailMost \in Nat
        /\ mesh.size \div 4 + mesh.size * ChannelMost <= BlockMost
        /\ Bound(Count, mesh.size) \in Nat
    BY <1>1, BoundFacts DEF Shape
  <2>3. mesh.size * ChannelMost \in Nat
    BY <1>5, <2>2
  <2> QED
    BY <1>5, <2>1, <2>2, <2>3
<1>9. CASE Short(N, l, c)
  <2>1. phase' = "refused" /\ k' = k /\ control' = control /\ data' = data /\ reach' = reach
    BY <1>4, <1>5, <1>9 DEF EncodeBlock, Refuse
  <2>2. N < l + c
    BY <1>9, ShortMeans
  <2>3. N < Bound(Count, mesh.size)
    BY <1>4, <1>5, <1>7, <1>8, <2>2
  <2> QED
    BY <1>1, <1>2, <1>3, <1>4, <2>1, <2>3 DEF SafeInv, Shape, EncoderState, DecoderState
<1>10. CASE ~Short(N, l, c)
  <2>1. /\ phase' = "encodeChannels" /\ k' = 0 /\ control' = Len(data)
        /\ data' = data \o Zeros(c) /\ reach' = Max({reach, Len(data')})
    BY <1>4, <1>5, <1>10 DEF EncodeBlock
  <2>2. l + c <= N
    BY <1>4, <1>10, ShortMeans
  <2>3. data' \in Seq(Nat) /\ Len(data') = l + c
    <3>1. Zeros(c) \in Seq(Nat) /\ Len(Zeros(c)) = c
      BY ZerosType, FunctionSeq
    <3> QED
      BY <1>1, <1>4, <2>1, <3>1, ConcatProperties DEF Shape
  <2>4. reach' \in Nat /\ reach' <= N
    <3>1. PICK r \in Nat, n \in Nat : r = reach /\ n = Len(data') /\ n <= N /\ r <= N
      BY <1>1, <1>4, <2>2, <2>3 DEF Shape
    <3>2. Max({r, n}) = IF r >= n THEN r ELSE n
      BY MaxOfTwo
    <3> QED
      BY <2>1, <3>1, <3>2
  <2>5. Filled(d)'
    <3>1. 0 * p = 0 /\ Len(data') <= 1 + e + w + 0 * p
      BY <1>5, <1>7, <1>8, <2>3, SMTT(30)
    <3>2. 0 < mesh.size
      BY <1>5
    <3> QED
      BY <1>1, <1>2, <1>3, <1>5, <1>7, <1>8, <2>1, <3>1, <3>2 DEF Filled
  <2>6. Len(data') <= BufferSize' /\ reach' <= BufferSize'
    BY <1>3, <1>4, <2>2, <2>3, <2>4
  <2>7. Shape'
    BY <1>1, <1>2, <1>3, <1>4, <2>1, <2>3, <2>4 DEF Shape
  <2>8. EncoderState'
    <3>1. d \in 0..Blocks'
      BY <1>3
    <3> QED
      BY <1>1, <1>2, <1>3, <2>5, <2>6, <3>1 DEF EncoderState
  <2> QED
    BY <2>1, <2>7, <2>8 DEF SafeInv, DecoderState
<1> QED
  BY <1>9, <1>10

\* The share of the bound that byte channel k of block d has: d blocks and k byte channels before it take
\* e and y bytes, a block m, its control bytes w, its byte channels z, one of them p.
Share(d, e, m, p, w, y, z) ==
  /\ d + 1 \in 0..Blocks /\ (d + 1) * BlockMost = e + m /\ e + m \in Nat
  /\ w = mesh.size \div 4 /\ p = ChannelMost /\ m = BlockMost /\ e = d * BlockMost
  /\ y = k * p /\ (k + 1) * p = y + p /\ z = mesh.size * p
  /\ w + z <= m /\ y + p <= z
  /\ Len(data) <= 1 + e + w + y
  /\ 1 + e + m + TailMost <= Bound(Count, mesh.size)

LEMMA InChannel ==
  ASSUME SafeInv, phase = "encodeChannels"
  PROVE  /\ ChannelState /\ BufferSize \in Nat /\ Len(data) \in Nat /\ k \in Nat
         /\ \E d \in 0..Blocks : /\ d \in Nat /\ offset = d * BlockSize(mesh.size) /\ offset < Count
                                /\ \E e, m, p, w, y, z \in Nat : Share(d, e, m, p, w, y, z)
<1>1. Shape /\ EncoderState
  BY DEF SafeInv
<1>2. PICK d \in 0..Blocks : Filled(d)
  BY <1>1 DEF EncoderState
<1>3. /\ d \in Nat /\ offset = d * BlockSize(mesh.size) /\ offset < Count /\ k < mesh.size
      /\ Len(data) <= 1 + d * BlockMost + mesh.size \div 4 + k * ChannelMost
  <2>1. Blocks \in Nat
    BY <1>1, BoundFacts DEF Shape
  <2> QED
    BY <1>2, <2>1 DEF Filled
<1>4. PICK m \in Nat, p \in Nat, t \in Nat, w \in Nat, s \in Nat \ {0} :
        /\ m = BlockMost /\ p = ChannelMost /\ t = TailMost /\ w = mesh.size \div 4 /\ s = mesh.size
        /\ DecodeLimit <= t /\ w + s * p <= m
  BY <1>1, BoundFacts, MeshFacts DEF Shape
<1>5. PICK e \in Nat : e = d * BlockMost /\ d + 1 \in 0..Blocks /\ (d + 1) * BlockMost = e + m
                       /\ 1 + e + m + t <= Bound(Count, mesh.size)
  BY <1>1, <1>3, <1>4, RoomForBlock DEF Shape
<1>6. PICK n \in Nat : n = k
  BY <1>1 DEF Shape
<1>7. n + 1 <= s
  <2>1. k < mesh.size
    BY <1>3
  <2>2. mesh.size = s
    BY <1>4
  <2>3. n < s
    BY <1>6, <2>1, <2>2
  <2> QED
    BY <2>3
<1>8. PICK y \in Nat, z \in Nat : y = n * p /\ z = s * p /\ (n + 1) * p = y + p /\ y + p <= z
  <2>1. \A x, v \in Nat : x <= v => x * p <= v * p
    OBVIOUS
  <2>2. (n + 1) * p <= s * p /\ n * p \in Nat /\ s * p \in Nat /\ (n + 1) * p = n * p + p
    BY <1>7, <2>1
  <2> QED
    BY <2>2
<1>9. ChannelState /\ BufferSize \in Nat /\ Len(data) \in Nat
  <2>1. k \in 0..mesh.size - 1
    BY <1>4, <1>6, <1>7
  <2> QED
    BY <1>1, <2>1, BufferType, LenProperties DEF Shape, EncoderState, ChannelState
<1>10. Share(d, e, m, p, w, y, z)
  BY <1>3, <1>4, <1>5, <1>6, <1>8 DEF Share
<1> QED
  BY <1>2, <1>3, <1>6, <1>9, <1>10

LEMMA ChannelSafe == ASSUME SafeInv, EncodeChannel PROVE SafeInv'
<1>1. Shape /\ EncoderState /\ phase = "encodeChannels" /\ Coded.ok
  BY DEF SafeInv, EncodeChannel
<1>2. mesh' = mesh /\ call' = call /\ channels' = channels /\ control' = control
      /\ taken' = taken /\ buffer' = buffer /\ k' = k + 1 /\ reach' = Max({reach, Coded.reach})
  BY DEF EncodeChannel, decoderVars
<1>3. /\ Count' = Count /\ BufferSize' = BufferSize /\ Bound(Count, mesh.size)' = Bound(Count, mesh.size)
      /\ AllowedChannels' = AllowedChannels /\ Blocks' = Blocks /\ BlockMost' = BlockMost /\ ChannelMost' = ChannelMost
  BY <1>2, SameInputs
<1>4. PICK d \in 0..Blocks :
        /\ d \in Nat /\ offset = d * BlockSize(mesh.size) /\ offset < Count
        /\ \E e, m, p, w, y, z \in Nat : Share(d, e, m, p, w, y, z)
  BY <1>1, InChannel
<1>share. PICK e \in Nat, m \in Nat, p \in Nat, w \in Nat, y \in Nat, z \in Nat : Share(d, e, m, p, w, y, z)
  BY <1>4
<1>5. ChannelState
  BY <1>1, InChannel
<1>6. PICK N \in Nat, l \in Nat : N = BufferSize /\ l = Len(data) /\ reach <= N
  BY <1>1, InChannel DEF EncoderState
<1>7. PICK c \in Nat, r \in Nat : c = Len(Coded.bytes) /\ r = Coded.reach /\ r <= N /\ l + c <= N /\ c <= p
                                  /\ Coded.bytes \in Seq(Nat)
  BY <1>1, <1>5, <1>6, <1>share, CodedFacts, LenProperties DEF Share
<1>8. data' \in Seq(Nat) /\ Len(data') = l + c
  <2> DEFINE at == control + (k \div 4) + 1
             x == ControlOfChannel * 2^(2 * (k % 4))
             base == IF call.version = 0 THEN data ELSE [data EXCEPT ![at] = @ + x]
  <2>1. x \in Nat
    <3>1. PICK j \in Nat : j = 2 * (k % 4)
      BY <1>1 DEF Shape
    <3>2. PICK u \in Nat, s \in Nat : u = ControlOfChannel /\ s = 2^j
      BY <1>5, CodedFacts, PowerPositive
    <3>3. u * s \in Nat
      OBVIOUS
    <3> QED
      BY <3>1, <3>2, <3>3
  <2>2. data' = base \o Coded.bytes
    BY DEF EncodeChannel
  <2> HIDE DEF at, x
  <2>3. base \in Seq(Nat) /\ Len(base) = l
    <3>1. data \in Seq(Nat)
      BY <1>1 DEF Shape
    <3>2. CASE at \in 1..Len(data)
      <4>1. data[at] + x \in Nat
        BY <2>1, <3>1, <3>2, ElementOfSeq
      <4>2. PICK v \in Nat : v = data[at] + x
        BY <4>1
      <4>3. [data EXCEPT ![at] = v] \in Seq(Nat) /\ Len([data EXCEPT ![at] = v]) = l
        BY <1>6, <3>1, <3>2, ExceptSeq
      <4>4. [data EXCEPT ![at] = @ + x] = [data EXCEPT ![at] = v]
        BY <4>2
      <4> QED
        BY <1>6, <3>1, <4>3, <4>4
    <3>3. CASE at \notin 1..Len(data)
      <4>1. DOMAIN data = 1..Len(data) /\ data = [i \in DOMAIN data |-> data[i]]
        BY <3>1, LenProperties
      <4>2. [data EXCEPT ![at] = @ + x] = data
        BY <3>3, <4>1
      <4> QED
        BY <1>6, <3>1, <4>2
    <3> QED
      BY <3>2, <3>3
  <2> HIDE DEF base
  <2> QED
    BY <1>7, <2>2, <2>3, ConcatProperties
<1>9. reach' \in Nat /\ reach' <= N /\ Len(data') <= N
  <2>1. PICK a \in Nat : a = reach
    BY <1>1 DEF Shape
  <2>2. Max({a, r}) = IF a >= r THEN a ELSE r
    BY MaxOfTwo
  <2> QED
    BY <1>2, <1>6, <1>7, <1>8, <2>1, <2>2
<1>9a. /\ l <= 1 + e + w + y
       /\ w + z <= m /\ y + p <= z
  <2>1. Len(data) <= 1 + e + w + y /\ w + z <= m /\ y + p <= z
    BY <1>share DEF Share
  <2> QED
    BY <1>6, <2>1
<1>10. Len(data') <= 1 + e + w + y + p
  BY <1>7, <1>8, <1>9a
<1>11. k \in Nat /\ k' \in Nat
  BY <1>1, <1>2 DEF Shape
<1>12. CASE k' < mesh.size
  <2>1. phase' = "encodeChannels" /\ offset' = offset /\ lastVertex' = lastVertex
    BY <1>1, <1>12 DEF EncodeChannel
  <2>2. Filled(d)'
    <3>1. Len(data') <= 1 + d * BlockMost' + mesh.size' \div 4 + k' * ChannelMost'
      <4>1. Len(data') <= 1 + e + w + (y + p)
        BY <1>8, <1>10
      <4>2. y + p = k' * ChannelMost' /\ e = d * BlockMost' /\ w = mesh.size' \div 4
        BY <1>2, <1>3, <1>share DEF Share
      <4> QED
        BY <4>1, <4>2
    <3> QED
      BY <1>2, <1>3, <1>4, <1>12, <2>1, <3>1 DEF Filled
  <2>3. Shape'
    BY <1>1, <1>2, <1>3, <1>8, <1>9, <1>11, <2>1 DEF Shape
  <2>4. EncoderState'
    <3>1. d \in 0..Blocks' /\ Len(data') <= BufferSize' /\ reach' <= BufferSize'
      BY <1>3, <1>4, <1>6, <1>9
    <3> QED
      BY <1>1, <1>2, <1>3, <2>1, <2>2, <3>1 DEF EncoderState
  <2> QED
    BY <2>1, <2>3, <2>4 DEF SafeInv, DecoderState
<1>13. CASE ~(k' < mesh.size)
  <2>1. phase' = "encode" /\ offset' = offset + BlockCount /\ lastVertex' = EncodeLast
    BY <1>13 DEF EncodeChannel
  <2>2. /\ BlockCount \in Nat /\ offset + BlockCount \in 0..Count /\ BlockCount >= 1
        /\ BlockCount = BlockSize(mesh.size) \/ offset + BlockCount = Count
    BY <1>1, <1>4, BlockFacts DEF Shape
  <2>3. lastVertex' \in [1..mesh.size -> Byte]
    <3>1. Count \in Nat /\ offset \in Nat /\ \A i \in 1..Count : mesh.vertices[i] \in [1..mesh.size -> Byte]
      BY <1>1, MeshFacts DEF Shape
    <3>2. offset + BlockCount \in 1..Count
      BY <2>2, <3>1
    <3> QED
      BY <2>1, <3>1, <3>2 DEF EncodeLast
  <2>4. Len(data') <= 1 + (d + 1) * BlockMost
    <3>1. Len(data') <= 1 + (e + m)
      BY <1>7, <1>8, <1>9a
    <3> QED
      BY <1>share, <3>1 DEF Share
  <2>5. offset' = (d + 1) * BlockSize(mesh.size) \/ offset' = Count
    <3>1. BlockSize(mesh.size) \in Nat
      BY <1>1, BlockSizeFacts DEF Shape
    <3>2. (d + 1) * BlockSize(mesh.size) = d * BlockSize(mesh.size) + BlockSize(mesh.size)
      BY <3>1
    <3> QED
      BY <1>4, <2>1, <2>2, <3>2
  <2>6. PICK f \in 0..Blocks : f = d + 1
    BY <1>share DEF Share
  <2>7. Filled(f)'
    <3>1. Len(data') <= 1 + f * BlockMost'
      BY <1>3, <2>4, <2>6
    <3>2. offset' = f * BlockSize(mesh.size) \/ offset' = Count'
      BY <1>3, <2>5, <2>6
    <3> QED
      BY <1>2, <2>1, <3>1, <3>2 DEF Filled
  <2>8. Shape'
    BY <1>1, <1>2, <1>3, <1>8, <1>9, <1>11, <2>1, <2>2 DEF Shape
  <2>9. EncoderState'
    <3>1. f \in 0..Blocks' /\ Len(data') <= BufferSize' /\ reach' <= BufferSize'
      BY <1>3, <1>6, <1>9
    <3> QED
      BY <1>1, <1>2, <1>3, <2>1, <2>3, <2>7, <3>1 DEF EncoderState
  <2> QED
    BY <2>1, <2>8, <2>9 DEF SafeInv, DecoderState
<1> QED
  BY <1>12, <1>13

LEMMA RefuseSafe == ASSUME SafeInv, EncodeRefuse PROVE SafeInv'
<1>1. Shape /\ EncoderState /\ phase = "encodeChannels" /\ ~Coded.ok
  BY DEF SafeInv, EncodeRefuse
<1>2. /\ mesh' = mesh /\ call' = call /\ offset' = offset /\ k' = k /\ control' = control /\ data' = data
      /\ taken' = taken /\ buffer' = buffer /\ phase' = "refused" /\ reach' = Max({reach, Coded.reach})
  BY DEF EncodeRefuse, Refuse, encoderVars, decoderVars
<1>3. /\ Count' = Count /\ BufferSize' = BufferSize /\ Bound(Count, mesh.size)' = Bound(Count, mesh.size)
  BY <1>2, SameInputs
<1>4. PICK d \in 0..Blocks, e \in Nat, m \in Nat, p \in Nat, w \in Nat, y \in Nat, z \in Nat :
        Share(d, e, m, p, w, y, z)
  BY <1>1, InChannel
<1>tail. PICK t \in Nat : t = TailMost /\ DecodeLimit <= t
  BY <1>1, BoundFacts DEF Shape
<1>5. PICK N \in Nat, l \in Nat, r \in Nat, b \in Nat, a \in Nat :
        N = BufferSize /\ l = Len(data) /\ r = Coded.reach /\ r <= N /\ N < l + p + DecodeLimit
        /\ b = Bound(Count, mesh.size) /\ a = reach /\ a <= N
  <2>1. ChannelState /\ BufferSize \in Nat /\ Len(data) \in Nat
    BY <1>1, InChannel
  <2>2. Coded.reach \in Nat /\ Coded.reach <= BufferSize /\ BufferSize < Len(data) + ChannelMost + DecodeLimit
    BY <1>1, <2>1, CodedFacts
  <2>3. Bound(Count, mesh.size) \in Nat /\ reach \in Nat /\ reach <= BufferSize
    BY <1>1, BoundFacts DEF Shape, EncoderState
  <2> QED
    BY <1>4, <2>1, <2>2, <2>3 DEF Share
<1>6. N < b
  <2>1. DecodeLimit \in Nat
    BY SizesAssumption
  <2>2. w + z <= m /\ y + p <= z /\ l <= 1 + e + w + y /\ 1 + e + m + t <= b
    BY <1>4, <1>5, <1>tail DEF Share
  <2> QED
    BY <1>5, <1>tail, <2>1, <2>2
<1>7. reach' \in Nat /\ reach' <= N
  <2>1. Max({a, r}) = IF a >= r THEN a ELSE r
    BY MaxOfTwo
  <2> QED
    BY <1>2, <1>5, <2>1
<1> QED
  BY <1>1, <1>2, <1>3, <1>5, <1>6, <1>7 DEF SafeInv, Shape, EncoderState, DecoderState

LEMMA FinishSafe == ASSUME SafeInv, EncodeFinish PROVE SafeInv'
<1>1. Shape /\ EncoderState /\ phase = "encode" /\ offset = Count
  BY DEF SafeInv, EncodeFinish
<1>2. mesh' = mesh /\ call' = call /\ channels' = channels /\ offset' = offset /\ k' = k /\ control' = control
      /\ lastVertex' = lastVertex /\ taken' = taken /\ buffer' = buffer
  BY DEF EncodeFinish, decoderVars
<1>3. Count' = Count /\ BufferSize' = BufferSize /\ Bound(Count, mesh.size)' = Bound(Count, mesh.size)
  BY <1>2, SameInputs
<1>4. PICK N \in Nat, l \in Nat, r \in Nat : N = BufferSize /\ l = Len(data) /\ l <= N /\ r = reach /\ r <= N
  BY <1>1, BufferType, LenProperties DEF Shape, EncoderState
<1>5. PICK version \in Versions : version = call.version
  BY <1>1, InputsAssumption DEF Shape
<1>6. PICK tail \in Nat, pad \in Nat, t \in Nat :
        tail = TailSize(call.version, mesh.size) /\ pad = TailPad(call.version, mesh.size) /\ tail <= pad
        /\ t = TailMost /\ pad <= t
  BY <1>1, <1>5, BoundFacts DEF Shape
<1>7. CASE Short(N, l, pad)
  <2>1. phase' = "refused" /\ data' = data /\ reach' = reach
    BY <1>4, <1>6, <1>7 DEF EncodeFinish, Refuse
  <2>2. N < l + pad
    BY <1>7, ShortMeans
  <2>3. N < Bound(Count, mesh.size)
    <3>1. PICK d \in 0..Blocks : Filled(d)
      BY <1>1 DEF EncoderState
    <3>2. PICK b \in Nat, m \in Nat : b = Blocks /\ m = BlockMost /\ Bound(Count, mesh.size) = 1 + b * m + t
      BY <1>1, <1>6, BoundFacts DEF Shape
    <3>3. d \in Nat /\ d <= b
      BY <3>1, <3>2
    <3>4. PICK e \in Nat, f \in Nat : e = d * m /\ f = b * m /\ e <= f
      <4>1. \A x, y \in Nat : x <= y => x * m <= y * m
        OBVIOUS
      <4>2. d * m <= b * m /\ d * m \in Nat /\ b * m \in Nat
        BY <3>3, <4>1
      <4> QED
        BY <4>2
    <3>5. l <= 1 + e
      BY <1>1, <1>4, <3>1, <3>2, <3>4 DEF Filled
    <3>6. Bound(Count, mesh.size) = 1 + f + t
      BY <3>2, <3>4
    <3> QED
      BY <1>6, <2>2, <3>4, <3>5, <3>6
  <2> QED
    BY <1>1, <1>2, <1>3, <1>4, <2>1, <2>3 DEF SafeInv, Shape, EncoderState, DecoderState
<1>8. CASE ~Short(N, l, pad)
  <2> DEFINE code == IF call.version = 0 THEN <<>> ELSE channels
  <2>1. /\ phase' = "encoded" /\ reach' = Max({reach, Len(data')})
        /\ data' = data \o Zeros(pad - tail) \o FirstVertex \o code
    BY <1>4, <1>6, <1>8 DEF EncodeFinish
  <2>2. l + pad <= N
    BY <1>4, <1>8, ShortMeans
  <2>3. PICK w \in Nat, s \in Nat : w = mesh.size \div 4 /\ s = mesh.size
    BY <1>1, MeshFacts DEF Shape
  <2>4. code \in Seq(Nat) /\ Len(code) = IF call.version = 0 THEN 0 ELSE w
    <3>1. CASE call.version = 0
      BY <3>1
    <3>2. CASE call.version # 0
      <4>1. AllowedChannels \subseteq Nat
        <5>1. Rotations \subseteq Nat
          BY SizesAssumption
        <5> QED
          BY <5>1 DEF AllowedChannels
      <4>2. channels \in [1..w -> Nat]
        BY <1>1, <2>3, <4>1 DEF EncoderState
      <4>3. channels \in Seq(Nat) /\ Len(channels) = w
        BY <4>2, FunctionSeq
      <4> QED
        BY <3>2, <4>3
    <3> QED
      BY <3>1, <3>2
  <2>5. FirstVertex \in Seq(Nat) /\ Len(FirstVertex) = s
    <3>1. Byte \subseteq Nat
      BY ByteType
    <3>2. FirstVertex \in [1..s -> Nat]
      BY <1>1, <2>3, <3>1, FirstVertexType DEF Shape
    <3> QED
      BY <3>2, FunctionSeq
  <2>6. Zeros(pad - tail) \in Seq(Nat) /\ Len(Zeros(pad - tail)) = pad - tail
    <3>1. PICK n \in Nat : n = pad - tail
      BY <1>6
    <3>2. Zeros(n) \in Seq(Nat) /\ Len(Zeros(n)) = n
      BY ZerosType, FunctionSeq
    <3> QED
      BY <3>1, <3>2
  <2>7. tail = s + Len(code)
    BY <1>6, <2>3, <2>4 DEF TailSize
  <2> HIDE DEF code
  <2>8. data' \in Seq(Nat) /\ Len(data') = l + pad
    <3>1. PICK z \in Seq(Nat), v \in Seq(Nat), c \in Seq(Nat) :
            z = Zeros(pad - tail) /\ v = FirstVertex /\ c = code /\ Len(z) = pad - tail /\ Len(v) = s
      BY <2>4, <2>5, <2>6
    <3>2. data \in Seq(Nat)
      BY <1>1 DEF Shape
    <3>3. PICK x \in Seq(Nat) : x = data \o z /\ Len(x) = l + (pad - tail)
      <4>1. data \o z \in Seq(Nat) /\ Len(data \o z) = Len(data) + Len(z)
        BY <3>2, ConcatProperties
      <4> QED
        BY <1>4, <3>1, <4>1
    <3>4. PICK y \in Seq(Nat) : y = x \o v /\ Len(y) = l + (pad - tail) + s
      <4>1. x \o v \in Seq(Nat) /\ Len(x \o v) = Len(x) + Len(v)
        BY ConcatProperties
      <4> QED
        BY <3>1, <3>3, <4>1
    <3>5. PICK n \in Nat : n = Len(c)
      BY LenProperties
    <3>6. y \o c \in Seq(Nat) /\ Len(y \o c) = l + (pad - tail) + s + n
      BY <3>4, <3>5, ConcatProperties
    <3>7. tail = s + n
      BY <2>7, <3>1, <3>5
    <3>8. l + (pad - tail) + s + n = l + pad
      BY <3>7
    <3>9. data' = y \o c
      BY <2>1, <3>1, <3>3, <3>4
    <3> QED
      BY <3>6, <3>8, <3>9
  <2>9. reach' \in Nat /\ reach' <= N
    <3>1. PICK n \in Nat : n = Len(data') /\ n <= N
      BY <2>2, <2>8
    <3>2. Max({r, n}) = IF r >= n THEN r ELSE n
      BY MaxOfTwo
    <3> QED
      BY <1>4, <2>1, <3>1, <3>2
  <2> QED
    BY <1>1, <1>2, <1>3, <1>4, <2>1, <2>8, <2>9 DEF SafeInv, Shape, EncoderState, DecoderState
<1> QED
  BY <1>7, <1>8

-----------------------------------------------------------------------------
(* Steps of the decoder *)

LEMMA StreamType == ASSUME data \in Seq(Nat), call \in Calls PROVE Stream \in Seq(Nat)
<1> DEFINE s == IF call.cut >= 0 THEN SubSeq(data, 1, Len(data) - call.cut) ELSE data \o Zeros(-call.cut)
<1>1. PICK cut \in Int, flip \in Nat : cut = call.cut /\ flip = call.flip
  <2>1. call.cut \in Int /\ call.flip \in 0..254 - VertexHeader
    BY InputsAssumption
  <2>2. \A x \in 0..254 - VertexHeader : x \in Nat
    BY DEF VertexHeader
  <2> QED
    BY <2>1, <2>2
<1>2. s \in Seq(Nat)
  <2>1. CASE cut >= 0
    <3>1. PICK n \in Int : n = Len(data) - cut /\ n <= Len(data)
      <4>1. PICK l \in Nat : l = Len(data)
        BY LenProperties
      <4>2. l - cut \in Int /\ l - cut <= l
        BY <2>1
      <4> QED
        BY <4>1, <4>2
    <3>2. \A i \in 1..n : data[i] \in Nat
      <4>1. 1..n \subseteq 1..Len(data)
        BY <3>1, LenProperties
      <4> QED
        BY <4>1, ElementOfSeq
    <3>3. SubSeq(data, 1, n) \in Seq(Nat)
      BY <3>2, SubSeqProperties
    <3> QED
      BY <1>1, <2>1, <3>1, <3>3
  <2>2. CASE ~(cut >= 0)
    <3>1. PICK n \in Nat : n = -cut
      BY <2>2
    <3>2. Zeros(n) \in Seq(Nat)
      BY ZerosType, FunctionSeq
    <3>3. data \o Zeros(n) \in Seq(Nat)
      BY <3>2, ConcatProperties
    <3> QED
      BY <1>1, <2>2, <3>1, <3>3
  <2> QED
    BY <2>1, <2>2
<1>3. Stream = IF s = <<>> THEN s ELSE [s EXCEPT ![1] = @ + flip]
  BY <1>1 DEF Stream
<1> HIDE DEF s
<1>4. CASE s = <<>>
  BY <1>2, <1>3, <1>4
<1>5. CASE s # <<>>
  <2>1. 1 \in 1..Len(s)
    BY <1>2, <1>5, EmptySeq, LenProperties
  <2>2. PICK v \in Nat : v = s[1] + flip
    BY <1>2, <2>1, ElementOfSeq
  <2>3. [s EXCEPT ![1] = v] \in Seq(Nat)
    BY <1>2, <2>1, ExceptSeq
  <2>4. Stream = [s EXCEPT ![1] = v]
    BY <1>3, <1>5, <2>2
  <2> QED
    BY <2>3, <2>4
<1> QED
  BY <1>4, <1>5

LEMMA DecodeStartSafe == ASSUME SafeInv, DecodeStart PROVE SafeInv'
<1>1. Shape /\ phase = "encoded"
  BY DEF SafeInv, DecodeStart
<1>2. mesh' = mesh /\ call' = call /\ offset' = 0 /\ k' = 0 /\ control' = 0 /\ buffer' = buffer
      /\ data' = Stream /\ reach' = Min({1, Len(data')}) /\ taken' = reach'
  BY DEF DecodeStart
<1>3. Count' = Count /\ Count \in Nat
  BY <1>1, <1>2, MeshFacts, SameInputs DEF Shape
<1>4. data' \in Seq(Nat)
  BY <1>1, <1>2, StreamType DEF Shape
<1>5. reach' \in Nat /\ reach' <= Len(data')
  <2>1. PICK n \in Nat : n = Len(data')
    BY <1>4, LenProperties
  <2>2. Min({1, n}) = IF 1 <= n THEN 1 ELSE n
    BY MinOfTwo
  <2> QED
    BY <1>2, <2>1, <2>2
<1>6. Shape'
  BY <1>1, <1>2, <1>3, <1>4, <1>5 DEF Shape
<1>7. phase' = "failed" \/ (phase' = "decode" /\ DecodedVersion' \in Versions)
  <2> DEFINE version == data'[1] % 16
             tail    == Len(data') - TailSize(version, mesh.size)
  <2>1. CASE data' = <<>>
    BY <2>1 DEF DecodeStart, Fail
  <2>2. CASE data' # <<>> /\ (data'[1] - version # VertexHeader \/ version \notin Versions)
    BY <2>2 DEF DecodeStart, Fail
  <2>3. CASE data' # <<>> /\ data'[1] - version = VertexHeader /\ version \in Versions
    <3>1. CASE Short(Len(data'), 1, TailPad(version, mesh.size))
      BY <2>3, <3>1 DEF DecodeStart, Fail
    <3>2. CASE ~Short(Len(data'), 1, TailPad(version, mesh.size))
      BY <2>3, <3>2 DEF DecodeStart, DecodedVersion
    <3> QED
      BY <3>1, <3>2
  <2> QED
    BY <2>1, <2>2, <2>3
<1> QED
  BY <1>2, <1>5, <1>6, <1>7 DEF SafeInv, EncoderState, DecoderState

LEMMA DecodeBlockSafe == ASSUME SafeInv, DecodeBlock PROVE SafeInv'
<1>1. Shape /\ DecoderState /\ phase = "decode"
  BY DEF SafeInv, DecodeBlock
<1>2. mesh' = mesh /\ call' = call /\ offset' = offset /\ data' = data /\ buffer' = buffer
  BY DEF DecodeBlock, encoderVars
<1>3. Count' = Count /\ DecodedVersion' = DecodedVersion
  BY <1>2, SameInputs DEF DecodedVersion
<1>4. PICK l \in Nat, t \in Nat, r \in Nat : l = Len(data) /\ t = taken /\ t <= l /\ r = reach /\ r <= l
  BY <1>1, LenProperties DEF Shape, DecoderState
<1>5. PICK c \in Nat : c = ControlSize(DecodedVersion)
  BY <1>1, MeshFacts DEF Shape, ControlSize
<1>6. CASE Short(l, t, c)
  <2>1. phase' = "failed" /\ k' = k /\ control' = control /\ taken' = taken /\ reach' = reach
    BY <1>4, <1>5, <1>6 DEF DecodeBlock, Fail
  <2> QED
    BY <1>1, <1>2, <1>3, <1>4, <2>1 DEF SafeInv, Shape, EncoderState, DecoderState
<1>7. CASE ~Short(l, t, c)
  <2>1. phase' = "decodeChannels" /\ k' = 0 /\ control' = taken /\ taken' = t + c /\ reach' = Max({r, t + c})
    BY <1>4, <1>5, <1>7 DEF DecodeBlock
  <2>2. t + c <= l
    BY <1>4, <1>7, ShortMeans
  <2>3. reach' \in Nat /\ reach' <= l
    <3>1. PICK n \in Nat : n = t + c
      OBVIOUS
    <3>2. Max({r, n}) = IF r >= n THEN r ELSE n
      BY MaxOfTwo
    <3> QED
      BY <1>4, <2>1, <2>2, <3>1, <3>2
  <2> QED
    BY <1>1, <1>2, <1>3, <1>4, <2>1, <2>2, <2>3 DEF SafeInv, Shape, EncoderState, DecoderState
<1> QED
  BY <1>6, <1>7

\* What a step of the decoder reads of a byte channel.
LEMMA InDecoder ==
  ASSUME SafeInv, phase = "decodeChannels"
  PROVE  /\ Decoded.next \in Nat /\ Decoded.reach \in Nat /\ Decoded.reach <= Len(data)
         /\ Decoded.values \in Seq(Nat)
         /\ Decoded.ok => Decoded.next <= Len(data) /\ Len(Decoded.values) <= Aligned(BlockCount)
         /\ Max({reach, Decoded.reach}) \in Nat /\ Max({reach, Decoded.reach}) <= Len(data)
<1>1. Shape /\ DecoderState
  BY DEF SafeInv
<1>2. /\ Decoded.next \in Nat /\ Decoded.reach \in Nat /\ Decoded.reach <= Len(data)
      /\ Decoded.values \in Seq(Nat)
      /\ Decoded.ok => Decoded.next <= Len(data) /\ Len(Decoded.values) <= Aligned(BlockCount)
  BY <1>1, DecodedFacts DEF Shape, DecoderState
<1>3. PICK a \in Nat, r \in Nat : a = reach /\ r = Decoded.reach /\ a <= Len(data) /\ r <= Len(data)
  BY <1>1, <1>2 DEF Shape, DecoderState
<1>4. Max({a, r}) = IF a >= r THEN a ELSE r
  BY MaxOfTwo
<1> QED
  BY <1>2, <1>3, <1>4

LEMMA DecodeChannelSafe == ASSUME SafeInv, DecodeChannel PROVE SafeInv'
<1>1. Shape /\ DecoderState /\ phase = "decodeChannels" /\ Decoded.ok
  BY DEF SafeInv, DecodeChannel
<1>2. /\ mesh' = mesh /\ call' = call /\ offset' = offset /\ control' = control /\ data' = data /\ k' = k + 1
      /\ buffer' = Written(buffer, (k % 4) * Stride, Decoded.values)
      /\ taken' = Decoded.next /\ reach' = Max({reach, Decoded.reach})
      /\ phase' \in {"decodeDeltas", "decodeChannels"}
  BY <1>1 DEF DecodeChannel, encoderVars
<1>3. Count' = Count /\ DecodedVersion' = DecodedVersion
  BY <1>2, SameInputs DEF DecodedVersion
<1>4. taken' \in Nat /\ taken' <= Len(data) /\ reach' \in Nat /\ reach' <= Len(data)
  BY <1>1, <1>2, InDecoder
<1>5. buffer' \in Seq(Nat) /\ Len(buffer') = 4 * BlockMax
  <2>1. PICK a \in Nat, st \in Nat : a = Aligned(BlockCount) /\ st = Stride /\ st <= a /\ a <= BlockMax
    <3>1. /\ BlockCount \in Nat /\ Aligned(BlockCount) \in Nat /\ BlockCount <= Aligned(BlockCount)
          /\ Aligned(BlockCount) <= BlockSize(mesh.size)
      BY <1>1, BlockFacts DEF Shape
    <3>2. BlockSize(mesh.size) \in Nat /\ BlockSize(mesh.size) <= BlockMax /\ BlockMax \in Nat
      BY <1>1, BlockSizeFacts, SizesAssumption DEF Shape
    <3> QED
      BY <3>1, <3>2 DEF Stride
  <2>2. PICK j \in 0..3 : j = k % 4
    BY <1>1 DEF Shape
  <2>3. PICK at \in Nat : at = j * st /\ at <= 3 * a
    <3>1. j * st \in Nat /\ j * st <= 3 * st
      OBVIOUS
    <3> QED
      BY <2>1, <3>1
  <2>4. PICK values \in Seq(Nat), n \in Nat : values = Decoded.values /\ n = Len(values) /\ n <= a
    BY <1>1, <2>1, InDecoder, LenProperties
  <2>5. at + n <= 4 * BlockMax /\ BlockMax \in Nat
    <3>1. PICK b \in Nat : b = BlockMax /\ a <= b
      BY <2>1, SizesAssumption
    <3>2. at <= 3 * a /\ n <= a
      BY <2>3, <2>4
    <3>3. at + n <= 4 * b
      BY <3>1, <3>2
    <3> QED
      BY <3>1, <3>3
  <2>6. Written(buffer, at, values) \in Seq(Nat) /\ Len(Written(buffer, at, values)) = Len(buffer)
    BY <1>1, <2>4, <2>5, WrittenFacts DEF Shape
  <2> QED
    BY <1>1, <1>2, <2>1, <2>2, <2>3, <2>4, <2>6 DEF Shape
<1>6. k' \in Nat
  BY <1>1, <1>2 DEF Shape
<1> QED
  BY <1>1, <1>2, <1>3, <1>4, <1>5, <1>6 DEF SafeInv, Shape, EncoderState, DecoderState

LEMMA DecodeDeltasSafe == ASSUME SafeInv, DecodeDeltas PROVE SafeInv'
<1>1. Shape /\ DecoderState /\ phase = "decodeDeltas"
  BY DEF SafeInv, DecodeDeltas
<1>2. /\ mesh' = mesh /\ call' = call /\ k' = k /\ control' = control /\ data' = data
      /\ taken' = taken /\ reach' = reach /\ buffer' = buffer
      /\ phase' \in {"decodeChannels", "decode"} /\ offset' \in {offset, offset + BlockCount}
  BY DEF DecodeDeltas
<1>3. Count' = Count /\ DecodedVersion' = DecodedVersion
  BY <1>2, SameInputs DEF DecodedVersion
<1>4. offset' \in 0..Count
  BY <1>1, <1>2, BlockFacts DEF Shape
<1> QED
  BY <1>1, <1>2, <1>3, <1>4 DEF SafeInv, Shape, EncoderState, DecoderState

\* Steps that end a call of the decoder, and those that leave everything as it is.
LEMMA DecodeEndSafe ==
  ASSUME SafeInv, DecodeTruncated \/ DecodeInvalid \/ DecodeFinish \/ UNCHANGED vars
  PROVE  SafeInv'
<1>1. Shape /\ DecoderState
  BY DEF SafeInv
<1>2. CASE UNCHANGED vars
  <2>1. mesh' = mesh /\ call' = call
    BY <1>2 DEF vars
  <2>2. /\ Count' = Count /\ BufferSize' = BufferSize /\ Bound(Count, mesh.size)' = Bound(Count, mesh.size)
        /\ AllowedChannels' = AllowedChannels /\ Blocks' = Blocks
        /\ BlockMost' = BlockMost /\ ChannelMost' = ChannelMost
    BY <2>1, SameInputs
  <2> QED
    BY <1>2, <2>2 DEF vars, SafeInv, Shape, EncoderState, DecoderState, Filled, DecodedVersion
<1>3. CASE DecodeTruncated
  <2>1. /\ mesh' = mesh /\ call' = call /\ offset' = offset /\ k' = k /\ control' = control /\ data' = data
        /\ taken' = taken /\ buffer' = buffer /\ phase' = "failed" /\ reach' = Max({reach, Decoded.reach})
        /\ phase = "decodeChannels"
    BY <1>3 DEF DecodeTruncated, Fail, encoderVars, decoderVars
  <2>2. reach' \in Nat /\ reach' <= Len(data)
    BY <2>1, InDecoder
  <2>3. Count' = Count
    BY <2>1, SameInputs
  <2> QED
    BY <1>1, <2>1, <2>2, <2>3 DEF SafeInv, Shape, EncoderState, DecoderState
<1>4. CASE DecodeInvalid \/ DecodeFinish
  <2>1. /\ mesh' = mesh /\ call' = call /\ offset' = offset /\ k' = k /\ control' = control /\ data' = data
        /\ taken' = taken /\ buffer' = buffer /\ phase' \in {"failed", "done"} /\ reach' = reach
        /\ phase \in {"decodeDeltas", "decode"}
    BY <1>4 DEF DecodeInvalid, DecodeFinish, Fail, encoderVars, decoderVars
  <2>2. Count' = Count
    BY <2>1, SameInputs
  <2> QED
    BY <1>1, <2>1, <2>2 DEF SafeInv, Shape, EncoderState, DecoderState
<1> QED
  BY <1>2, <1>3, <1>4

-----------------------------------------------------------------------------

LEMMA InitSafe == Init => SafeInv
<1> SUFFICES ASSUME Init PROVE SafeInv
  OBVIOUS
<1>1. /\ mesh \in Meshes /\ call \in Calls /\ phase = "idle" /\ offset = 0 /\ k = 0 /\ control = 0
      /\ data = <<>> /\ taken = 0 /\ reach = 0 /\ buffer = Zeros(4 * BlockMax)
  BY DEF Init
<1>2. Count \in Nat
  BY <1>1, MeshFacts
<1>3. buffer \in Seq(Nat) /\ Len(buffer) = 4 * BlockMax
  <2>1. PICK n \in Nat : n = 4 * BlockMax
    BY SizesAssumption
  <2>2. Zeros(n) \in Seq(Nat) /\ Len(Zeros(n)) = n
    BY ZerosType, FunctionSeq
  <2> QED
    BY <1>1, <2>1, <2>2
<1> QED
  BY <1>1, <1>2, <1>3 DEF SafeInv, Shape, EncoderState, DecoderState

LEMMA StepSafe == SafeInv /\ [Next]_vars => SafeInv'
<1> SUFFICES ASSUME SafeInv, [Next]_vars PROVE SafeInv'
  OBVIOUS
<1>1. CASE EncodeStart
  BY <1>1, StartSafe
<1>2. CASE EncodeBlock
  BY <1>2, BlockSafe
<1>3. CASE EncodeChannel
  BY <1>3, ChannelSafe
<1>4. CASE EncodeRefuse
  BY <1>4, RefuseSafe
<1>5. CASE EncodeFinish
  BY <1>5, FinishSafe
<1>6. CASE DecodeStart
  BY <1>6, DecodeStartSafe
<1>7. CASE DecodeBlock
  BY <1>7, DecodeBlockSafe
<1>8. CASE DecodeChannel
  BY <1>8, DecodeChannelSafe
<1>9. CASE DecodeDeltas
  BY <1>9, DecodeDeltasSafe
<1>10. CASE DecodeTruncated \/ DecodeInvalid \/ DecodeFinish \/ Returned \/ UNCHANGED vars
  BY <1>10, DecodeEndSafe DEF Returned
<1> QED
  BY <1>1, <1>2, <1>3, <1>4, <1>5, <1>6, <1>7, <1>8, <1>9, <1>10 DEF Next

\* The codec never touches memory that is not its own: the encoder writes inside its buffer, although its
\* append of bytes that do not fit writes ahead; the loads of both decoders stay inside the stream, also
\* when it was cut or extended; byte channels stay inside the scratch memory of a block.  And a buffer of
\* meshopt_encodeVertexBufferBound bytes is never refused.
THEOREM StaysInBounds == Spec => []InBounds
<1>1. SafeInv => InBounds
  <2> SUFFICES ASSUME SafeInv PROVE InBounds
    OBVIOUS
  <2>1. BoundSuffices /\ EncoderInside
    BY DEF SafeInv, EncoderState, BoundSuffices, EncoderInside
  <2>2. DecoderInside
    BY DEF SafeInv, Shape, DecoderState, DecoderInside
  <2> QED
    BY <2>1, <2>2 DEF InBounds
<1> QED
  BY <1>1, InitSafe, StepSafe, PTL DEF Spec

-----------------------------------------------------------------------------
(* Bits of bytes *)

\* The powers of two up to a byte's range
LEMMA Powers ==
  /\ 2^0 = 1 /\ 2^1 = 2 /\ 2^2 = 4 /\ 2^3 = 8 /\ 2^4 = 16
  /\ 2^5 = 32 /\ 2^6 = 64 /\ 2^7 = 128 /\ 2^8 = 256
<1>1. 2^0 = 1
  OBVIOUS
<1>2. 2^1 = 2 * 2^0 /\ 2^2 = 2 * 2^1 /\ 2^3 = 2 * 2^2 /\ 2^4 = 2 * 2^3
  <2>1. 2^(0 + 1) = 2 * 2^0 /\ 2^(1 + 1) = 2 * 2^1 /\ 2^(2 + 1) = 2 * 2^2 /\ 2^(3 + 1) = 2 * 2^3
    BY PowerDouble
  <2> QED
    BY <2>1
<1>3. 2^5 = 2 * 2^4 /\ 2^6 = 2 * 2^5 /\ 2^7 = 2 * 2^6 /\ 2^8 = 2 * 2^7
  <2>1. 2^(4 + 1) = 2 * 2^4 /\ 2^(5 + 1) = 2 * 2^5 /\ 2^(6 + 1) = 2 * 2^6 /\ 2^(7 + 1) = 2 * 2^7
    BY PowerDouble
  <2> QED
    BY <2>1
<1>4. 2^1 = 2 /\ 2^2 = 4 /\ 2^3 = 8 /\ 2^4 = 16
  BY <1>1, <1>2
<1>5. 2^5 = 32 /\ 2^6 = 64 /\ 2^7 = 128 /\ 2^8 = 256
  BY <1>3, <1>4
<1> QED
  BY <1>1, <1>4, <1>5

\* Sums of two, four and eight terms
LEMMA SumUpTo ==
  ASSUME NEW n \in Nat, NEW m, m = n + 1, NEW f, \A i \in 0..m : f[i] \in Nat
  PROVE  SumFunctionOnSet(f, 0..m) = SumFunctionOnSet(f, 0..n) + f[m]
<1>1. IsFiniteSet(0..n)
  BY FS_Interval
<1>2. 0..m = (0..n) \cup {m} /\ m \notin 0..n
  OBVIOUS
<1>3. \A x \in (0..n) \cup {m} : f[x] \in Int
  BY <1>2
<1>4. SumFunctionOnSet(f, (0..n) \cup {m}) = SumFunctionOnSet(f, 0..n) + f[m]
  BY <1>1, <1>2, <1>3, SumAdd
<1> QED
  BY <1>2, <1>4

LEMMA SumOfOne == \A f : f[0] \in Nat => SumFunctionOnSet(f, 0..0) = f[0]
<1> SUFFICES ASSUME NEW f, f[0] \in Nat PROVE SumFunctionOnSet(f, 0..0) = f[0]
  OBVIOUS
<1>1. IsFiniteSet({})
  BY FS_EmptySet
<1>2. 0..0 = {} \cup {0} /\ 0 \notin {} /\ \A x \in {} \cup {0} : f[x] \in Int
  OBVIOUS
<1>3. SumFunctionOnSet(f, {} \cup {0}) = SumFunctionOnSet(f, {}) + f[0]
  BY <1>1, <1>2, SumAdd
<1> QED
  BY <1>2, <1>3, SumEmpty

LEMMA SumOfTwo ==
  ASSUME NEW f, \A i \in 0..1 : f[i] \in Nat
  PROVE  SumFunctionOnSet(f, 0..1) = f[0] + f[1]
<1>1. SumFunctionOnSet(f, 0..0) = f[0]
  BY SumOfOne
<1>2. SumFunctionOnSet(f, 0..1) = SumFunctionOnSet(f, 0..0) + f[1]
  <2>1. 0 \in Nat /\ 1 = 0 + 1 /\ \A i \in 0..1 : f[i] \in Nat
    OBVIOUS
  <2> QED
    BY <2>1, SumUpTo
<1> QED
  BY <1>1, <1>2

LEMMA SumOfFour ==
  ASSUME NEW f, \A i \in 0..3 : f[i] \in Nat
  PROVE  SumFunctionOnSet(f, 0..3) = f[0] + f[1] + f[2] + f[3]
<1>1. SumFunctionOnSet(f, 0..1) = f[0] + f[1]
  BY SumOfTwo
<1>2. SumFunctionOnSet(f, 0..2) = SumFunctionOnSet(f, 0..1) + f[2]
  <2>1. 1 \in Nat /\ 2 = 1 + 1 /\ \A i \in 0..2 : f[i] \in Nat
    OBVIOUS
  <2> QED
    BY <2>1, SumUpTo
<1>3. SumFunctionOnSet(f, 0..3) = SumFunctionOnSet(f, 0..2) + f[3]
  <2>1. 2 \in Nat /\ 3 = 2 + 1 /\ \A i \in 0..3 : f[i] \in Nat
    OBVIOUS
  <2> QED
    BY <2>1, SumUpTo
<1> QED
  BY <1>1, <1>2, <1>3

LEMMA SumOfEight ==
  ASSUME NEW f, \A i \in 0..7 : f[i] \in Nat
  PROVE  SumFunctionOnSet(f, 0..7) = f[0] + f[1] + f[2] + f[3] + f[4] + f[5] + f[6] + f[7]
<1>1. SumFunctionOnSet(f, 0..3) = f[0] + f[1] + f[2] + f[3]
  BY SumOfFour
<1>2. SumFunctionOnSet(f, 0..4) = SumFunctionOnSet(f, 0..3) + f[4]
  <2>1. 3 \in Nat /\ 4 = 3 + 1 /\ \A i \in 0..4 : f[i] \in Nat
    OBVIOUS
  <2> QED
    BY <2>1, SumUpTo
<1>3. SumFunctionOnSet(f, 0..5) = SumFunctionOnSet(f, 0..4) + f[5]
  <2>1. 4 \in Nat /\ 5 = 4 + 1 /\ \A i \in 0..5 : f[i] \in Nat
    OBVIOUS
  <2> QED
    BY <2>1, SumUpTo
<1>4. SumFunctionOnSet(f, 0..6) = SumFunctionOnSet(f, 0..5) + f[6]
  <2>1. 5 \in Nat /\ 6 = 5 + 1 /\ \A i \in 0..6 : f[i] \in Nat
    OBVIOUS
  <2> QED
    BY <2>1, SumUpTo
<1>5. SumFunctionOnSet(f, 0..7) = SumFunctionOnSet(f, 0..6) + f[7]
  <2>1. 6 \in Nat /\ 7 = 6 + 1 /\ \A i \in 0..7 : f[i] \in Nat
    OBVIOUS
  <2> QED
    BY <2>1, SumUpTo
<1> QED
  BY <1>1, <1>2, <1>3, <1>4, <1>5

\* The byte with given bits, and the bits of a byte
ByteOf(a0, a1, a2, a3, a4, a5, a6, a7) ==
  a0 + 2 * a1 + 4 * a2 + 8 * a3 + 16 * a4 + 32 * a5 + 64 * a6 + 128 * a7

\* A byte is the sum of its bits.
LEMMA ByteOfBits ==
  \A y \in 0..255 :
    y = ByteOf((y \div 1) % 2, (y \div 2) % 2, (y \div 4) % 2, (y \div 8) % 2,
               (y \div 16) % 2, (y \div 32) % 2, (y \div 64) % 2, (y \div 128) % 2)
  BY DEF ByteOf

\* What FromBits sums, written out
LEMMA FromBitsIs ==
  ASSUME NEW bits \in [0..31 -> Nat], NEW j \in 0..3
  PROVE  FromBits(bits, j) = ByteOf(bits[8 * j], bits[8 * j + 1], bits[8 * j + 2], bits[8 * j + 3],
                                    bits[8 * j + 4], bits[8 * j + 5], bits[8 * j + 6], bits[8 * j + 7])
<1> DEFINE f == [b \in 0..7 |-> bits[8 * j + b] * 2^b]
<1>1. \A b \in 0..7 : 8 * j + b \in 0..31
  OBVIOUS
<1>2. \A b \in 0..7 : bits[8 * j + b] \in Nat
  BY <1>1
<1>3. /\ f[0] = bits[8 * j] * 2^0 /\ f[1] = bits[8 * j + 1] * 2^1 /\ f[2] = bits[8 * j + 2] * 2^2
      /\ f[3] = bits[8 * j + 3] * 2^3 /\ f[4] = bits[8 * j + 4] * 2^4 /\ f[5] = bits[8 * j + 5] * 2^5
      /\ f[6] = bits[8 * j + 6] * 2^6 /\ f[7] = bits[8 * j + 7] * 2^7
  OBVIOUS
<1>4. DOMAIN f = 0..7
  OBVIOUS
<1>5. FromBits(bits, j) = SumFunctionOnSet(f, 0..7)
  BY <1>4 DEF FromBits, SumFunction
<1> HIDE DEF f
<1>6. /\ bits[8 * j] \in Nat /\ bits[8 * j + 1] \in Nat /\ bits[8 * j + 2] \in Nat /\ bits[8 * j + 3] \in Nat
      /\ bits[8 * j + 4] \in Nat /\ bits[8 * j + 5] \in Nat /\ bits[8 * j + 6] \in Nat /\ bits[8 * j + 7] \in Nat
  <2>1. bits[8 * j + 0] \in Nat /\ 8 * j + 0 = 8 * j
    BY <1>2
  <2> QED
    BY <1>2, <2>1
<1>7. /\ f[0] = bits[8 * j] /\ f[1] = 2 * bits[8 * j + 1] /\ f[2] = 4 * bits[8 * j + 2]
      /\ f[3] = 8 * bits[8 * j + 3] /\ f[4] = 16 * bits[8 * j + 4] /\ f[5] = 32 * bits[8 * j + 5]
      /\ f[6] = 64 * bits[8 * j + 6] /\ f[7] = 128 * bits[8 * j + 7]
  BY <1>3, <1>6, Powers
<1>8. \A b \in 0..7 : f[b] \in Nat
  BY <1>6, <1>7
<1>9. SumFunctionOnSet(f, 0..7) = f[0] + f[1] + f[2] + f[3] + f[4] + f[5] + f[6] + f[7]
  BY <1>8, SumOfEight
<1> QED
  BY <1>5, <1>6, <1>7, <1>9 DEF ByteOf

\* FromBits gives a byte, whose bits are the given ones.
LEMMA FromBitsByte ==
  ASSUME NEW bits \in [0..31 -> 0..1], NEW j \in 0..3
  PROVE  /\ FromBits(bits, j) \in Byte
         /\ \A c \in 0..7 : (FromBits(bits, j) \div 2^c) % 2 = bits[8 * j + c]
<1>1. /\ bits[8 * j] \in 0..1 /\ bits[8 * j + 1] \in 0..1 /\ bits[8 * j + 2] \in 0..1 /\ bits[8 * j + 3] \in 0..1
      /\ bits[8 * j + 4] \in 0..1 /\ bits[8 * j + 5] \in 0..1 /\ bits[8 * j + 6] \in 0..1 /\ bits[8 * j + 7] \in 0..1
  <2>1. /\ 8 * j \in 0..31 /\ 8 * j + 1 \in 0..31 /\ 8 * j + 2 \in 0..31 /\ 8 * j + 3 \in 0..31
        /\ 8 * j + 4 \in 0..31 /\ 8 * j + 5 \in 0..31 /\ 8 * j + 6 \in 0..31 /\ 8 * j + 7 \in 0..31
    OBVIOUS
  <2> QED
    BY <2>1
<1>2. bits \in [0..31 -> Nat]
  <2>1. \A b \in 0..31 : bits[b] \in Nat
    OBVIOUS
  <2> QED
    BY <2>1
<1>3. PICK y : y = FromBits(bits, j)
  OBVIOUS
<1>4. y = ByteOf(bits[8 * j], bits[8 * j + 1], bits[8 * j + 2], bits[8 * j + 3],
                 bits[8 * j + 4], bits[8 * j + 5], bits[8 * j + 6], bits[8 * j + 7])
  BY <1>2, <1>3, FromBitsIs
<1>5. /\ y \in 0..255
      /\ (y \div 1) % 2 = bits[8 * j] /\ (y \div 2) % 2 = bits[8 * j + 1]
      /\ (y \div 4) % 2 = bits[8 * j + 2] /\ (y \div 8) % 2 = bits[8 * j + 3]
      /\ (y \div 16) % 2 = bits[8 * j + 4] /\ (y \div 32) % 2 = bits[8 * j + 5]
      /\ (y \div 64) % 2 = bits[8 * j + 6] /\ (y \div 128) % 2 = bits[8 * j + 7]
  <2>1. PICK a0, a1, a2, a3, a4, a5, a6, a7 \in 0..1 :
          /\ a0 = bits[8 * j] /\ a1 = bits[8 * j + 1] /\ a2 = bits[8 * j + 2] /\ a3 = bits[8 * j + 3]
          /\ a4 = bits[8 * j + 4] /\ a5 = bits[8 * j + 5] /\ a6 = bits[8 * j + 6] /\ a7 = bits[8 * j + 7]
    BY <1>1
  <2>2. y = ByteOf(a0, a1, a2, a3, a4, a5, a6, a7)
    BY <1>4, <2>1
  <2>3. /\ y \in 0..255
        /\ (y \div 1) % 2 = a0 /\ (y \div 2) % 2 = a1 /\ (y \div 4) % 2 = a2 /\ (y \div 8) % 2 = a3
        /\ (y \div 16) % 2 = a4 /\ (y \div 32) % 2 = a5 /\ (y \div 64) % 2 = a6 /\ (y \div 128) % 2 = a7
    BY <2>2 DEF ByteOf
  <2> QED
    BY <2>1, <2>3
<1>6. ASSUME NEW c \in 0..7 PROVE (y \div 2^c) % 2 = bits[8 * j + c]
  <2>1. c = 0 \/ c = 1 \/ c = 2 \/ c = 3 \/ c = 4 \/ c = 5 \/ c = 6 \/ c = 7
    OBVIOUS
  <2>2. CASE c = 0
    <3>1. 8 * j + c = 8 * j
      BY <2>2
    <3> QED
      BY <1>5, <2>2, <3>1, Powers
  <2>3. CASE c = 1
    BY <1>5, <2>3, Powers
  <2>4. CASE c = 2
    BY <1>5, <2>4, Powers
  <2>5. CASE c = 3
    BY <1>5, <2>5, Powers
  <2>6. CASE c = 4
    BY <1>5, <2>6, Powers
  <2>7. CASE c = 5
    BY <1>5, <2>7, Powers
  <2>8. CASE c = 6
    BY <1>5, <2>8, Powers
  <2>9. CASE c = 7
    BY <1>5, <2>9, Powers
  <2> QED
    BY <2>1, <2>2, <2>3, <2>4, <2>5, <2>6, <2>7, <2>8, <2>9
<1> QED
  BY <1>3, <1>5, <1>6 DEF Byte

\* The bits of a word, and the word of these bits
LEMMA BitOfWord ==
  ASSUME NEW w \in [1..4 -> Byte], NEW b \in 0..31
  PROVE  /\ Bit(w, b) \in 0..1
         /\ \A j \in 0..3, c \in 0..7 : b = 8 * j + c => Bit(w, b) = (w[j + 1] \div 2^c) % 2
<1>1. b \div 8 \in 0..3 /\ b % 8 \in 0..7 /\ b \div 8 + 1 \in 1..4
  OBVIOUS
<1>2. PICK x \in Nat \ {0} : x = 2^(b % 8)
  BY <1>1, PowerPositive
<1>3. PICK y \in Nat : y = w[b \div 8 + 1]
  BY <1>1 DEF Byte
<1>4. y \div x \in Nat
  BY Quotient
<1>5. Bit(w, b) = (y \div x) % 2
  BY <1>2, <1>3 DEF Bit
<1>6. (y \div x) % 2 \in 0..1
  BY <1>4
<1>7. ASSUME NEW j \in 0..3, NEW c \in 0..7, b = 8 * j + c PROVE Bit(w, b) = (w[j + 1] \div 2^c) % 2
  <2>1. b \div 8 = j /\ b % 8 = c
    BY <1>7
  <2> QED
    BY <2>1 DEF Bit
<1> QED
  BY <1>5, <1>6, <1>7

\* A bit of a word of packed bits is that bit.
LEMMA BitOfBits ==
  ASSUME NEW bits \in [0..31 -> 0..1], NEW d \in [1..4 -> Byte], \A j \in 0..3 : d[j + 1] = FromBits(bits, j),
         NEW b \in 0..31
  PROVE  Bit(d, b) = bits[b]
<1>1. PICK j \in 0..3, c \in 0..7 : b = 8 * j + c
  <2>1. b \div 8 \in 0..3 /\ b % 8 \in 0..7
    OBVIOUS
  <2>2. b = 8 * (b \div 8) + (b % 8)
    OBVIOUS
  <2> QED
    BY <2>1, <2>2
<1>2. Bit(d, b) = (d[j + 1] \div 2^c) % 2
  BY <1>1, BitOfWord
<1>3. d[j + 1] = FromBits(bits, j)
  OBVIOUS
<1>4. (FromBits(bits, j) \div 2^c) % 2 = bits[8 * j + c]
  BY FromBitsByte
<1> QED
  BY <1>1, <1>2, <1>3, <1>4

\* Packing the bits of a word gives its bytes.
LEMMA BitsOfWord ==
  ASSUME NEW w \in [1..4 -> Byte], NEW bits \in [0..31 -> 0..1], \A b \in 0..31 : bits[b] = Bit(w, b), NEW j \in 0..3
  PROVE  FromBits(bits, j) = w[j + 1]
<1>1. PICK y \in 0..255 : y = w[j + 1]
  <2>1. j + 1 \in 1..4
    OBVIOUS
  <2> QED
    BY <2>1 DEF Byte
<1>2. \A c \in 0..7 : bits[8 * j + c] = (y \div 2^c) % 2
  <2> SUFFICES ASSUME NEW c \in 0..7 PROVE bits[8 * j + c] = (y \div 2^c) % 2
    OBVIOUS
  <2>1. 8 * j + c \in 0..31
    OBVIOUS
  <2>2. Bit(w, 8 * j + c) = (w[j + 1] \div 2^c) % 2
    BY <2>1, BitOfWord
  <2> QED
    BY <1>1, <2>1, <2>2
<1>3. /\ bits[8 * j] = (y \div 1) % 2 /\ bits[8 * j + 1] = (y \div 2) % 2
      /\ bits[8 * j + 2] = (y \div 4) % 2 /\ bits[8 * j + 3] = (y \div 8) % 2
      /\ bits[8 * j + 4] = (y \div 16) % 2 /\ bits[8 * j + 5] = (y \div 32) % 2
      /\ bits[8 * j + 6] = (y \div 64) % 2 /\ bits[8 * j + 7] = (y \div 128) % 2
  <2>1. /\ bits[8 * j + 0] = (y \div 2^0) % 2 /\ bits[8 * j + 1] = (y \div 2^1) % 2
        /\ bits[8 * j + 2] = (y \div 2^2) % 2 /\ bits[8 * j + 3] = (y \div 2^3) % 2
        /\ bits[8 * j + 4] = (y \div 2^4) % 2 /\ bits[8 * j + 5] = (y \div 2^5) % 2
        /\ bits[8 * j + 6] = (y \div 2^6) % 2 /\ bits[8 * j + 7] = (y \div 2^7) % 2
    BY <1>2
  <2>2. 8 * j + 0 = 8 * j
    OBVIOUS
  <2> QED
    BY <2>1, <2>2, Powers
<1>4. bits \in [0..31 -> Nat]
  <2>1. \A b \in 0..31 : bits[b] \in Nat
    OBVIOUS
  <2> QED
    BY <2>1
<1>5. FromBits(bits, j) = ByteOf(bits[8 * j], bits[8 * j + 1], bits[8 * j + 2], bits[8 * j + 3],
                                 bits[8 * j + 4], bits[8 * j + 5], bits[8 * j + 6], bits[8 * j + 7])
  BY <1>4, FromBitsIs
<1>6. FromBits(bits, j) = ByteOf((y \div 1) % 2, (y \div 2) % 2, (y \div 4) % 2, (y \div 8) % 2,
                                 (y \div 16) % 2, (y \div 32) % 2, (y \div 64) % 2, (y \div 128) % 2)
  BY <1>3, <1>5
<1> QED
  BY <1>1, <1>6, ByteOfBits

-----------------------------------------------------------------------------
(* Differences of words *)

\* The number of values of two bytes
Wide == 65536

LEMMA WideIs == Wide \in Nat \ {0} /\ Wide % 2 = 0
  BY SMT DEF Wide

\* Two bytes as one number
Pair(a, b) == a + 256 * b

\* Two bytes come back from their number, and a number from its two bytes.
LEMMA TwoBytes ==
  ASSUME NEW a \in 0..255, NEW b \in 0..255
  PROVE  Pair(a, b) \in 0..Wide - 1 /\ Pair(a, b) % 256 = a /\ Pair(a, b) \div 256 = b
<1>1. Pair(a, b) <= Wide - 1
  BY SMT DEF Pair, Wide
<1>2. Pair(a, b) \in Nat
  BY DEF Pair
<1>3. Pair(a, b) % 256 = a /\ Pair(a, b) \div 256 = b
  BY DEF Pair
<1> QED
  BY <1>1, <1>2, <1>3, WideIs

LEMMA BytesOfWide ==
  ASSUME NEW h \in 0..Wide - 1
  PROVE  h % 256 \in 0..255 /\ h \div 256 \in 0..255 /\ h = (h % 256) + 256 * (h \div 256)
<1>1. h \in Nat /\ h <= Wide - 1
  BY WideIs
<1>2. h \div 256 <= 255
  BY <1>1, SMT DEF Wide
<1>3. h \div 256 \in Nat /\ h % 256 \in 0..255
  BY <1>1
<1>4. h = (h % 256) + 256 * (h \div 256)
  BY <1>1
<1> QED
  BY <1>2, <1>3, <1>4

\* What was subtracted is added again.
LEMMA WideBack ==
  ASSUME NEW x \in Int, NEW y \in Int, 0 <= x, x <= Wide - 1, 0 <= y, y <= Wide - 1,
         NEW e \in Int, e = (x - y) % Wide
  PROVE  0 <= e /\ e <= Wide - 1 /\ (e + y) % Wide = x
  BY SMT DEF Wide

ThreeWays(c, x, y, z) == CASE c = 0 -> x [] c = 1 -> y [] c = 2 -> z

\* The branch of a channel's encoding
LEMMA WayTaken ==
  ASSUME NEW c, NEW x, NEW y, NEW z
  PROVE  /\ c = 0 => ThreeWays(c, x, y, z) = x
         /\ c = 1 => ThreeWays(c, x, y, z) = y
         /\ c = 2 => ThreeWays(c, x, y, z) = z
<1>1. CASE c = 0
  BY <1>1 DEF ThreeWays
<1>2. CASE c = 1
  BY <1>2 DEF ThreeWays
<1>3. CASE c = 2
  BY <1>3 DEF ThreeWays
<1> QED
  BY <1>1, <1>2, <1>3

\* Bits that are turned and compared
Turned(v, p, channel) ==
  [b \in 0..31 |-> (Bit(v, (b - (channel \div 16)) % 32) + Bit(p, (b - (channel \div 16)) % 32)) % 2]
TurnedBack(d, p, channel) == [b \in 0..31 |-> (Bit(d, (b + (channel \div 16)) % 32) + Bit(p, b)) % 2]

\* Delta and Restore as one branch for each encoding
LEMMA DeltaForm ==
  ASSUME NEW v, NEW p, NEW j, NEW channel
  PROVE  Delta(v, p, j, channel) =
           ThreeWays(channel % 4, ZigZag((v[j + 1] - p[j + 1]) % 256, 256),
                     HalfByte(ZigZag((Half(v, j) - Half(p, j)) % Wide, Wide), j),
                     FromBits(Turned(v, p, channel), j))
  BY SMT DEF Delta, ThreeWays, Turned, Wide

LEMMA RestoreForm ==
  ASSUME NEW d, NEW p, NEW j, NEW channel
  PROVE  Restore(d, p, j, channel) =
           ThreeWays(channel % 4, (UnZigZag(d[j + 1], 256) + p[j + 1]) % 256,
                     HalfByte((UnZigZag(Half(d, j), Wide) + Half(p, j)) % Wide, j),
                     FromBits(TurnedBack(d, p, channel), j))
  BY SMT DEF Restore, ThreeWays, TurnedBack, Wide

\* The halves of a word are numbers of two bytes that give its bytes back.
LEMMA HalfType ==
  ASSUME NEW w \in [1..4 -> Byte], NEW j \in 0..3
  PROVE  Half(w, j) \in 0..Wide - 1 /\ HalfByte(Half(w, j), j) = w[j + 1]
<1>2. w[1] \in 0..255 /\ w[2] \in 0..255 /\ w[3] \in 0..255 /\ w[4] \in 0..255
  BY DEF Byte
<1>3. CASE j = 0
  <2>1. PICK a, b \in 0..255 : a = w[1] /\ b = w[2]
    BY <1>2
  <2>2. PICK h : h = Pair(a, b)
    OBVIOUS
  <2>3. Half(w, j) = h /\ HalfByte(h, j) = h % 256 /\ w[j + 1] = w[1]
    BY <1>3, <2>1, <2>2 DEF Half, HalfByte, Pair
  <2>4. h \in 0..Wide - 1 /\ h % 256 = a /\ h \div 256 = b
    BY <2>2, TwoBytes
  <2> QED
    BY <2>1, <2>3, <2>4
<1>4. CASE j = 1
  <2>1. PICK a, b \in 0..255 : a = w[1] /\ b = w[2]
    BY <1>2
  <2>2. PICK h : h = Pair(a, b)
    OBVIOUS
  <2>3. Half(w, j) = h /\ HalfByte(h, j) = h \div 256 /\ w[j + 1] = w[2]
    BY <1>4, <2>1, <2>2 DEF Half, HalfByte, Pair
  <2>4. h \in 0..Wide - 1 /\ h % 256 = a /\ h \div 256 = b
    BY <2>2, TwoBytes
  <2> QED
    BY <2>1, <2>3, <2>4
<1>5. CASE j = 2
  <2>1. PICK a, b \in 0..255 : a = w[3] /\ b = w[4]
    BY <1>2
  <2>2. PICK h : h = Pair(a, b)
    OBVIOUS
  <2>3. Half(w, j) = h /\ HalfByte(h, j) = h % 256 /\ w[j + 1] = w[3]
    BY <1>5, <2>1, <2>2 DEF Half, HalfByte, Pair
  <2>4. h \in 0..Wide - 1 /\ h % 256 = a /\ h \div 256 = b
    BY <2>2, TwoBytes
  <2> QED
    BY <2>1, <2>3, <2>4
<1>6. CASE j = 3
  <2>1. PICK a, b \in 0..255 : a = w[3] /\ b = w[4]
    BY <1>2
  <2>2. PICK h : h = Pair(a, b)
    OBVIOUS
  <2>3. Half(w, j) = h /\ HalfByte(h, j) = h \div 256 /\ w[j + 1] = w[4]
    BY <1>6, <2>1, <2>2 DEF Half, HalfByte, Pair
  <2>4. h \in 0..Wide - 1 /\ h % 256 = a /\ h \div 256 = b
    BY <2>2, TwoBytes
  <2> QED
    BY <2>1, <2>3, <2>4
<1> QED
  BY <1>3, <1>4, <1>5, <1>6

\* A half of 16 bits is the one of its two bytes.
LEMMA HalfOfBytes ==
  ASSUME NEW h \in 0..Wide - 1, NEW w, NEW j \in 0..3,
         w[2 * (j \div 2) + 1] = HalfByte(h, 2 * (j \div 2)), w[2 * (j \div 2) + 2] = HalfByte(h, 2 * (j \div 2) + 1)
  PROVE  Half(w, j) = h
<1>1. (2 * (j \div 2)) % 2 = 0 /\ (2 * (j \div 2) + 1) % 2 = 1
  OBVIOUS
<1>2. HalfByte(h, 2 * (j \div 2)) = h % 256 /\ HalfByte(h, 2 * (j \div 2) + 1) = h \div 256
  BY <1>1 DEF HalfByte
<1>3. Half(w, j) = (h % 256) + 256 * (h \div 256)
  BY <1>2 DEF Half
<1> QED
  BY <1>3, BytesOfWide

LEMMA HalfByteType == \A h \in 0..Wide - 1, j \in 0..3 : HalfByte(h, j) \in Byte
  BY BytesOfWide DEF HalfByte, Byte

\* The zigzag numbers come back.
LEMMA ZigZagBack ==
  ASSUME NEW m \in Nat, m % 2 = 0, NEW d \in 0..m - 1
  PROVE  ZigZag(d, m) \in 0..m - 1 /\ UnZigZag(ZigZag(d, m), m) = d
<1>1. PICK z : z = ZigZag(d, m)
  OBVIOUS
<1>2. z = IF d < m \div 2 THEN 2 * d ELSE 2 * (m - d) - 1
  BY <1>1 DEF ZigZag
<1>3. z \in 0..m - 1 /\ (IF z % 2 = 0 THEN z \div 2 ELSE m - (z + 1) \div 2) = d
  BY <1>2, ZigZagUndone
<1> QED
  BY <1>1, <1>3 DEF UnZigZag

\* The first encoding: differences of bytes
LEMMA BytesBack ==
  ASSUME NEW v \in [1..4 -> Byte], NEW p \in [1..4 -> Byte], NEW channel \in Nat, channel % 4 = 0,
         NEW d, NEW j \in 0..3, d[j + 1] = Delta(v, p, j, channel)
  PROVE  d[j + 1] \in Byte /\ Restore(d, p, j, channel) = v[j + 1]
<1>1. PICK x, y \in 0..255 : x = v[j + 1] /\ y = p[j + 1]
  <2>1. j + 1 \in 1..4
    OBVIOUS
  <2> QED
    BY <2>1 DEF Byte
<1>2. PICK e \in 0..255 : e = (x - y) % 256 /\ (e + y) % 256 = x
  <2>1. PICK e \in Int : e = (x - y) % 256
    OBVIOUS
  <2>2. e \in 0..255 /\ (e + y) % 256 = x
    BY <2>1
  <2> QED
    BY <2>1, <2>2
<1>3. d[j + 1] = ZigZag(e, 256)
  <2>1. d[j + 1] = ZigZag((v[j + 1] - p[j + 1]) % 256, 256)
    BY DeltaForm, WayTaken
  <2>2. (v[j + 1] - p[j + 1]) % 256 = e
    BY <1>1, <1>2
  <2> QED
    BY <2>1, <2>2
<1>4. ZigZag(e, 256) \in 0..255 /\ UnZigZag(ZigZag(e, 256), 256) = e
  <2>1. PICK m \in Nat : m = 256 /\ m % 2 = 0 /\ e \in 0..m - 1
    OBVIOUS
  <2>2. ZigZag(e, m) \in 0..m - 1 /\ UnZigZag(ZigZag(e, m), m) = e
    BY <2>1, ZigZagBack
  <2> QED
    BY <2>1, <2>2
<1>5. Restore(d, p, j, channel) = (UnZigZag(d[j + 1], 256) + p[j + 1]) % 256
  BY RestoreForm, WayTaken
<1>6. Restore(d, p, j, channel) = (e + y) % 256
  BY <1>1, <1>3, <1>4, <1>5
<1>7. Restore(d, p, j, channel) = v[j + 1]
  BY <1>1, <1>2, <1>6
<1>8. d[j + 1] \in Byte
  BY <1>3, <1>4 DEF Byte
<1> QED
  BY <1>7, <1>8

\* The second encoding: differences of halves
LEMMA HalvesBack ==
  ASSUME NEW v \in [1..4 -> Byte], NEW p \in [1..4 -> Byte], NEW channel \in Nat, channel % 4 = 1,
         NEW d, d = [i \in 1..4 |-> d[i]], \A j \in 0..3 : d[j + 1] = Delta(v, p, j, channel), NEW j \in 0..3
  PROVE  d[j + 1] \in Byte /\ Restore(d, p, j, channel) = v[j + 1]
<1>1. \A i \in 0..3 : d[i + 1] = HalfByte(ZigZag((Half(v, i) - Half(p, i)) % Wide, Wide), i)
  BY DeltaForm, WayTaken
<1>2. PICK x, y \in 0..Wide - 1 : x = Half(v, j) /\ y = Half(p, j)
  BY HalfType
<1>3. PICK e \in 0..Wide - 1 : e = (x - y) % Wide /\ (e + y) % Wide = x
  <2>1. x \in Int /\ y \in Int /\ 0 <= x /\ x <= Wide - 1 /\ 0 <= y /\ y <= Wide - 1
    BY WideIs
  <2>2. (x - y) % Wide \in Int
    <3>1. \A z \in Int, m \in Nat \ {0} : z % m \in Int
      OBVIOUS
    <3>2. x - y \in Int
      BY <2>1
    <3> QED
      BY <3>1, <3>2, WideIs
  <2>3. PICK e \in Int : e = (x - y) % Wide
    BY <2>2
  <2>4. 0 <= e /\ e <= Wide - 1 /\ (e + y) % Wide = x
    BY <2>1, <2>3, WideBack
  <2> QED
    BY <2>3, <2>4, WideIs
<1>4. PICK h \in 0..Wide - 1 : h = ZigZag(e, Wide) /\ UnZigZag(h, Wide) = e
  <2>1. ZigZag(e, Wide) \in 0..Wide - 1 /\ UnZigZag(ZigZag(e, Wide), Wide) = e
    BY WideIs, ZigZagBack
  <2> QED
    BY <2>1
<1>5. \A i \in 0..3 : i \div 2 = j \div 2 => d[i + 1] = HalfByte(h, i)
  <2> SUFFICES ASSUME NEW i \in 0..3, i \div 2 = j \div 2 PROVE d[i + 1] = HalfByte(h, i)
    OBVIOUS
  <2>1. Half(v, i) = Half(v, j) /\ Half(p, i) = Half(p, j)
    BY DEF Half
  <2>2. (Half(v, i) - Half(p, i)) % Wide = e
    BY <1>2, <1>3, <2>1
  <2> QED
    BY <1>1, <1>4, <2>2
<1>6. /\ d[2 * (j \div 2) + 1] = HalfByte(h, 2 * (j \div 2))
      /\ d[2 * (j \div 2) + 2] = HalfByte(h, 2 * (j \div 2) + 1)
  <2>1. PICK a \in 0..3 : a = 2 * (j \div 2) /\ a + 1 \in 0..3 /\ a \div 2 = j \div 2 /\ (a + 1) \div 2 = j \div 2
    OBVIOUS
  <2>2. d[a + 1] = HalfByte(h, a) /\ d[(a + 1) + 1] = HalfByte(h, a + 1)
    BY <1>5, <2>1
  <2>3. (a + 1) + 1 = a + 2
    BY <2>1
  <2> QED
    BY <2>1, <2>2, <2>3
<1>7. Half(d, j) = h
  BY <1>6, HalfOfBytes
<1>8. Restore(d, p, j, channel) = HalfByte((UnZigZag(Half(d, j), Wide) + Half(p, j)) % Wide, j)
  BY RestoreForm, WayTaken
<1>9. Restore(d, p, j, channel) = HalfByte(Half(v, j), j)
  BY <1>2, <1>3, <1>4, <1>7, <1>8
<1>10. d[j + 1] = HalfByte(h, j)
  BY <1>5
<1> QED
  BY <1>9, <1>10, HalfType, HalfByteType

\* Turning the bits of a word forth and back
LEMMA RoundAndBack ==
  ASSUME NEW b \in 0..31, NEW r \in Nat
  PROVE  (b - r) % 32 \in 0..31 /\ (b + r) % 32 \in 0..31 /\ (((b + r) % 32) - r) % 32 = b
<1>1. \A z \in Int : z % 32 \in 0..31 /\ z \div 32 \in Int /\ z = 32 * (z \div 32) + (z % 32)
  OBVIOUS
<1>2. PICK s \in 0..31, q \in Int : s = (b + r) % 32 /\ b + r = 32 * q + s
  <2>1. b + r \in Int
    OBVIOUS
  <2> QED
    BY <1>1, <2>1
<1>3. PICK u \in 0..31, t \in Int : u = (s - r) % 32 /\ s - r = 32 * t + u
  <2>1. s - r \in Int
    OBVIOUS
  <2> QED
    BY <1>1, <2>1
<1>4. b - u = 32 * (q + t)
  <2>1. b + r = 32 * q + s /\ s - r = 32 * t + u
    BY <1>2, <1>3
  <2> QED
    BY <2>1
<1>5. u = b
  <2>1. PICK m \in Int : m = q + t /\ b - u = 32 * m
    BY <1>4
  <2>2. m = 0
    BY <2>1
  <2> QED
    BY <2>1, <2>2
<1>6. (b - r) % 32 \in 0..31
  <2>1. b - r \in Int
    OBVIOUS
  <2> QED
    BY <1>1, <2>1
<1> QED
  BY <1>2, <1>3, <1>5, <1>6

\* The third encoding: bits that are turned and compared
LEMMA BitsBack ==
  ASSUME NEW v \in [1..4 -> Byte], NEW p \in [1..4 -> Byte], NEW channel \in Nat, channel % 4 = 2,
         NEW d, d = [i \in 1..4 |-> d[i]], \A j \in 0..3 : d[j + 1] = Delta(v, p, j, channel), NEW j \in 0..3
  PROVE  d[j + 1] \in Byte /\ Restore(d, p, j, channel) = v[j + 1]
<1> DEFINE from(b) == (b - (channel \div 16)) % 32
           to(b) == (b + (channel \div 16)) % 32
           bits == Turned(v, p, channel)
           back == TurnedBack(d, p, channel)
<1>1. \A b \in 0..31 : from(b) \in 0..31 /\ to(b) \in 0..31 /\ from(to(b)) = b
  <2>1. PICK r \in Nat : r = channel \div 16
    OBVIOUS
  <2> QED
    BY <2>1, RoundAndBack
<1>2. \A i \in 0..3 : d[i + 1] = FromBits(bits, i)
  BY DeltaForm, WayTaken
<1>3. Restore(d, p, j, channel) = FromBits(back, j)
  BY RestoreForm, WayTaken
<1>4. \A w \in [1..4 -> Byte], b \in 0..31 : Bit(w, b) \in 0..1
  BY BitOfWord
<1> HIDE DEF from, to
<1>5. bits \in [0..31 -> 0..1]
  <2>1. ASSUME NEW b \in 0..31 PROVE (Bit(v, from(b)) + Bit(p, from(b))) % 2 \in 0..1
    <3>1. Bit(v, from(b)) \in 0..1 /\ Bit(p, from(b)) \in 0..1
      BY <1>1, <1>4
    <3> QED
      BY <3>1
  <2> QED
    BY <2>1 DEF Turned, from
<1>6. \A b \in 0..31 : bits[b] = (Bit(v, from(b)) + Bit(p, from(b))) % 2
  BY DEF Turned, from
<1>7. \A b \in 0..31 : back[b] = (Bit(d, to(b)) + Bit(p, b)) % 2
  BY DEF TurnedBack, to
<1>8. DOMAIN back = 0..31 /\ back = [b \in 0..31 |-> back[b]]
  BY DEF TurnedBack
<1> HIDE DEF bits, back
<1>9. d \in [1..4 -> Byte]
  <2>1. \A i \in 0..3 : d[i + 1] \in Byte
    BY <1>2, <1>5, FromBitsByte
  <2>2. ASSUME NEW i \in 1..4 PROVE d[i] \in Byte
    <3>1. i - 1 \in 0..3 /\ (i - 1) + 1 = i
      OBVIOUS
    <3> QED
      BY <2>1, <3>1
  <2> QED
    BY <2>2
<1>10. ASSUME NEW b \in 0..31 PROVE back[b] = Bit(v, b)
  <2>1. Bit(d, to(b)) = bits[to(b)]
    BY <1>1, <1>2, <1>5, <1>9, BitOfBits
  <2>2. bits[to(b)] = (Bit(v, b) + Bit(p, b)) % 2
    BY <1>1, <1>6
  <2>3. Bit(v, b) \in 0..1 /\ Bit(p, b) \in 0..1
    BY <1>4
  <2>4. \A x, y \in 0..1 : (((x + y) % 2) + y) % 2 = x
    OBVIOUS
  <2> QED
    BY <1>7, <2>1, <2>2, <2>3, <2>4
<1>11. back \in [0..31 -> 0..1]
  BY <1>4, <1>8, <1>10
<1>12. FromBits(back, j) = v[j + 1]
  BY <1>10, <1>11, BitsOfWord
<1> QED
  BY <1>2, <1>3, <1>5, <1>12, FromBitsByte

\* The three encodings together
LEMMA RestoreDelta ==
  ASSUME NEW v \in [1..4 -> Byte], NEW p \in [1..4 -> Byte], NEW channel \in Nat, channel % 4 \in 0..2,
         NEW d, d = [i \in 1..4 |-> d[i]], \A j \in 0..3 : d[j + 1] = Delta(v, p, j, channel), NEW j \in 0..3
  PROVE  d[j + 1] \in Byte /\ Restore(d, p, j, channel) = v[j + 1]
<1>1. channel % 4 = 0 \/ channel % 4 = 1 \/ channel % 4 = 2
  OBVIOUS
<1> QED
  BY <1>1, BytesBack, HalvesBack, BitsBack

\* The bytes that encodeDeltas1 makes of a word and the word before are bytes, and decodeDeltas1 restores the word
\* from them: for all words and for each encoding of a channel (bytes, halves, bits turned by any rotation).
THEOREM WordsComeBack ==
  ASSUME NEW v \in [1..4 -> Byte], NEW p \in [1..4 -> Byte], NEW channel \in Nat, channel % 4 \in 0..2
  PROVE  LET d == [i \in 1..4 |-> Delta(v, p, i - 1, channel)]
         IN  d \in [1..4 -> Byte] /\ \A j \in 0..3 : Restore(d, p, j, channel) = v[j + 1]
<1>1. PICK d : d = [i \in 1..4 |-> Delta(v, p, i - 1, channel)]
  OBVIOUS
<1>2. \A j \in 0..3 : d[j + 1] = Delta(v, p, j, channel)
  <2> SUFFICES ASSUME NEW j \in 0..3 PROVE d[j + 1] = Delta(v, p, j, channel)
    OBVIOUS
  <2>1. j + 1 \in 1..4 /\ (j + 1) - 1 = j
    OBVIOUS
  <2> QED
    BY <1>1, <2>1
<1>3. d = [i \in 1..4 |-> d[i]]
  BY <1>1
<1>4. \A j \in 0..3 : d[j + 1] \in Byte /\ Restore(d, p, j, channel) = v[j + 1]
  BY <1>2, <1>3, RestoreDelta
<1>5. ASSUME NEW i \in 1..4 PROVE d[i] \in Byte
  <2>1. i - 1 \in 0..3 /\ (i - 1) + 1 = i
    OBVIOUS
  <2> QED
    BY <1>4, <2>1
<1>6. d \in [1..4 -> Byte]
  BY <1>3, <1>5
<1> QED
  BY <1>1, <1>4, <1>6

\* A restored byte is a byte, whatever the differences are.
-----------------------------------------------------------------------------
(* Values packed in bytes *)

LEMMA PackedInOne ==
  ASSUME NEW fits, NEW n \in Nat, \A i \in 0..7 : fits[(n - 1) * 8 + i + 1] \in 0..1
  PROVE  /\ Packed(fits, 1, n) \in Byte
         /\ \A i \in 0..7 : (Packed(fits, 1, n) \div 2^Shift(1, i)) % 2 = fits[(n - 1) * 8 + i + 1]
<1> DEFINE f == [i \in 0..7 |-> fits[(n - 1) * 8 + i + 1] * 2^Shift(1, i)]
<1>1. PICK g \in [0..7 -> 0..1] : \A i \in 0..7 : g[i] = fits[(n - 1) * 8 + i + 1]
  <2>1. [i \in 0..7 |-> fits[(n - 1) * 8 + i + 1]] \in [0..7 -> 0..1]
    OBVIOUS
  <2> QED
    BY <2>1
<1>2. \A i \in 0..7 : Shift(1, i) = i
  BY DEF Shift
<1>3. \A i \in 0..7 : f[i] = g[i] * 2^i
  BY <1>1, <1>2
<1>4. DOMAIN f = 0..7
  OBVIOUS
<1>5. Packed(fits, 1, n) = SumFunctionOnSet(f, 0..7)
  <2>1. 8 \div 1 = 8
    OBVIOUS
  <2>2. 8 - 1 = 7
    OBVIOUS
  <2>3. Packed(fits, 1, n) = SumFunction(f)
    BY <2>1, <2>2 DEF Packed
  <2> QED
    BY <1>4, <2>3 DEF SumFunction
<1> HIDE DEF f
<1>6. /\ f[0] = g[0] /\ f[1] = 2 * g[1] /\ f[2] = 4 * g[2] /\ f[3] = 8 * g[3]
      /\ f[4] = 16 * g[4] /\ f[5] = 32 * g[5] /\ f[6] = 64 * g[6] /\ f[7] = 128 * g[7]
  <2>1. /\ f[0] = g[0] * 2^0 /\ f[1] = g[1] * 2^1 /\ f[2] = g[2] * 2^2 /\ f[3] = g[3] * 2^3
        /\ f[4] = g[4] * 2^4 /\ f[5] = g[5] * 2^5 /\ f[6] = g[6] * 2^6 /\ f[7] = g[7] * 2^7
    BY <1>3
  <2> QED
    BY <2>1, Powers
<1>7. PICK a0, a1, a2, a3, a4, a5, a6, a7 \in 0..1 :
        /\ a0 = g[0] /\ a1 = g[1] /\ a2 = g[2] /\ a3 = g[3] /\ a4 = g[4] /\ a5 = g[5] /\ a6 = g[6] /\ a7 = g[7]
  OBVIOUS
<1>8. \A i \in 0..7 : f[i] \in Nat
  BY <1>6, <1>7
<1>9. PICK y : y = Packed(fits, 1, n)
  OBVIOUS
<1>10. y = f[0] + f[1] + f[2] + f[3] + f[4] + f[5] + f[6] + f[7]
  BY <1>5, <1>8, <1>9, SumOfEight
<1>11. y = ByteOf(a0, a1, a2, a3, a4, a5, a6, a7)
  BY <1>6, <1>7, <1>10 DEF ByteOf
<1>12. /\ y \in 0..255
       /\ (y \div 1) % 2 = a0 /\ (y \div 2) % 2 = a1 /\ (y \div 4) % 2 = a2 /\ (y \div 8) % 2 = a3
       /\ (y \div 16) % 2 = a4 /\ (y \div 32) % 2 = a5 /\ (y \div 64) % 2 = a6 /\ (y \div 128) % 2 = a7
  BY <1>11 DEF ByteOf
<1>13. ASSUME NEW i \in 0..7 PROVE (y \div 2^Shift(1, i)) % 2 = g[i]
  <2>1. Shift(1, i) = i
    BY <1>2
  <2>2. (y \div 2^i) % 2 = g[i]
    <3>1. i = 0 \/ i = 1 \/ i = 2 \/ i = 3 \/ i = 4 \/ i = 5 \/ i = 6 \/ i = 7
      OBVIOUS
    <3>2. CASE i = 0
      BY <1>7, <1>12, <3>2, Powers
    <3>3. CASE i = 1
      BY <1>7, <1>12, <3>3, Powers
    <3>4. CASE i = 2
      BY <1>7, <1>12, <3>4, Powers
    <3>5. CASE i = 3
      BY <1>7, <1>12, <3>5, Powers
    <3>6. CASE i = 4
      BY <1>7, <1>12, <3>6, Powers
    <3>7. CASE i = 5
      BY <1>7, <1>12, <3>7, Powers
    <3>8. CASE i = 6
      BY <1>7, <1>12, <3>8, Powers
    <3>9. CASE i = 7
      BY <1>7, <1>12, <3>9, Powers
    <3> QED
      BY <3>1, <3>2, <3>3, <3>4, <3>5, <3>6, <3>7, <3>8, <3>9
  <2> QED
    BY <2>1, <2>2
<1> QED
  BY <1>1, <1>9, <1>12, <1>13 DEF Byte

LEMMA PackedInTwo ==
  ASSUME NEW fits, NEW n \in Nat, \A i \in 0..3 : fits[(n - 1) * 4 + i + 1] \in 0..3
  PROVE  /\ Packed(fits, 2, n) \in Byte
         /\ \A i \in 0..3 : (Packed(fits, 2, n) \div 2^Shift(2, i)) % 4 = fits[(n - 1) * 4 + i + 1]
<1> DEFINE f == [i \in 0..3 |-> fits[(n - 1) * 4 + i + 1] * 2^Shift(2, i)]
<1>1. PICK g \in [0..3 -> 0..3] : \A i \in 0..3 : g[i] = fits[(n - 1) * 4 + i + 1]
  <2>1. [i \in 0..3 |-> fits[(n - 1) * 4 + i + 1]] \in [0..3 -> 0..3]
    OBVIOUS
  <2> QED
    BY <2>1
<1>2. Shift(2, 0) = 6 /\ Shift(2, 1) = 4 /\ Shift(2, 2) = 2 /\ Shift(2, 3) = 0
  BY DEF Shift
<1>3. \A i \in 0..3 : f[i] = g[i] * 2^Shift(2, i)
  BY <1>1
<1>4. DOMAIN f = 0..3
  OBVIOUS
<1>5. Packed(fits, 2, n) = SumFunctionOnSet(f, 0..3)
  <2>1. 8 \div 2 = 4
    OBVIOUS
  <2>2. 4 - 1 = 3
    OBVIOUS
  <2>3. Packed(fits, 2, n) = SumFunction(f)
    BY <2>1, <2>2 DEF Packed
  <2> QED
    BY <1>4, <2>3 DEF SumFunction
<1> HIDE DEF f
<1>6. f[0] = 64 * g[0] /\ f[1] = 16 * g[1] /\ f[2] = 4 * g[2] /\ f[3] = g[3]
  <2>1. /\ f[0] = g[0] * 2^Shift(2, 0) /\ f[1] = g[1] * 2^Shift(2, 1)
        /\ f[2] = g[2] * 2^Shift(2, 2) /\ f[3] = g[3] * 2^Shift(2, 3)
    BY <1>3
  <2>2. f[0] = g[0] * 2^6 /\ f[1] = g[1] * 2^4 /\ f[2] = g[2] * 2^2 /\ f[3] = g[3] * 2^0
    BY <1>2, <2>1
  <2> QED
    BY <2>2, Powers
<1>7. PICK a0, a1, a2, a3 \in 0..3 : a0 = g[0] /\ a1 = g[1] /\ a2 = g[2] /\ a3 = g[3]
  OBVIOUS
<1>8. \A i \in 0..3 : f[i] \in Nat
  BY <1>6, <1>7
<1>9. PICK y : y = Packed(fits, 2, n)
  OBVIOUS
<1>10. y = f[0] + f[1] + f[2] + f[3]
  BY <1>5, <1>8, <1>9, SumOfFour
<1>11. y = 64 * a0 + 16 * a1 + 4 * a2 + a3
  BY <1>6, <1>7, <1>10
<1>12. /\ y \in 0..255
       /\ (y \div 64) % 4 = a0 /\ (y \div 16) % 4 = a1 /\ (y \div 4) % 4 = a2 /\ (y \div 1) % 4 = a3
  BY <1>11
<1>13. ASSUME NEW i \in 0..3 PROVE (y \div 2^Shift(2, i)) % 4 = g[i]
  <2>1. i = 0 \/ i = 1 \/ i = 2 \/ i = 3
    OBVIOUS
  <2>2. CASE i = 0
    <3>1. 2^Shift(2, i) = 64
      BY <1>2, <2>2, Powers
    <3> QED
      BY <1>7, <1>12, <2>2, <3>1
  <2>3. CASE i = 1
    <3>1. 2^Shift(2, i) = 16
      BY <1>2, <2>3, Powers
    <3> QED
      BY <1>7, <1>12, <2>3, <3>1
  <2>4. CASE i = 2
    <3>1. 2^Shift(2, i) = 4
      BY <1>2, <2>4, Powers
    <3> QED
      BY <1>7, <1>12, <2>4, <3>1
  <2>5. CASE i = 3
    <3>1. 2^Shift(2, i) = 1
      BY <1>2, <2>5, Powers
    <3> QED
      BY <1>7, <1>12, <2>5, <3>1
  <2> QED
    BY <2>1, <2>2, <2>3, <2>4, <2>5
<1> QED
  BY <1>1, <1>9, <1>12, <1>13 DEF Byte

LEMMA PackedInFour ==
  ASSUME NEW fits, NEW n \in Nat, \A i \in 0..1 : fits[(n - 1) * 2 + i + 1] \in 0..15
  PROVE  /\ Packed(fits, 4, n) \in Byte
         /\ \A i \in 0..1 : (Packed(fits, 4, n) \div 2^Shift(4, i)) % 16 = fits[(n - 1) * 2 + i + 1]
<1> DEFINE f == [i \in 0..1 |-> fits[(n - 1) * 2 + i + 1] * 2^Shift(4, i)]
<1>1. PICK g \in [0..1 -> 0..15] : \A i \in 0..1 : g[i] = fits[(n - 1) * 2 + i + 1]
  <2>1. [i \in 0..1 |-> fits[(n - 1) * 2 + i + 1]] \in [0..1 -> 0..15]
    OBVIOUS
  <2> QED
    BY <2>1
<1>2. Shift(4, 0) = 4 /\ Shift(4, 1) = 0
  BY DEF Shift
<1>3. \A i \in 0..1 : f[i] = g[i] * 2^Shift(4, i)
  BY <1>1
<1>4. DOMAIN f = 0..1
  OBVIOUS
<1>5. Packed(fits, 4, n) = SumFunctionOnSet(f, 0..1)
  <2>1. 8 \div 4 = 2
    OBVIOUS
  <2>2. 2 - 1 = 1
    OBVIOUS
  <2>3. Packed(fits, 4, n) = SumFunction(f)
    BY <2>1, <2>2 DEF Packed
  <2> QED
    BY <1>4, <2>3 DEF SumFunction
<1> HIDE DEF f
<1>6. f[0] = 16 * g[0] /\ f[1] = g[1]
  <2>1. f[0] = g[0] * 2^Shift(4, 0) /\ f[1] = g[1] * 2^Shift(4, 1)
    BY <1>3
  <2>2. f[0] = g[0] * 2^4 /\ f[1] = g[1] * 2^0
    BY <1>2, <2>1
  <2> QED
    BY <2>2, Powers
<1>7. PICK a0, a1 \in 0..15 : a0 = g[0] /\ a1 = g[1]
  OBVIOUS
<1>8. \A i \in 0..1 : f[i] \in Nat
  BY <1>6, <1>7
<1>9. PICK y : y = Packed(fits, 4, n)
  OBVIOUS
<1>10. y = f[0] + f[1]
  BY <1>5, <1>8, <1>9, SumOfTwo
<1>11. y = 16 * a0 + a1
  BY <1>6, <1>7, <1>10
<1>12. y \in 0..255 /\ (y \div 16) % 16 = a0 /\ (y \div 1) % 16 = a1
  BY <1>11
<1>13. ASSUME NEW i \in 0..1 PROVE (y \div 2^Shift(4, i)) % 16 = g[i]
  <2>1. CASE i = 0
    <3>1. 2^Shift(4, i) = 16
      BY <1>2, <2>1, Powers
    <3> QED
      BY <1>7, <1>12, <2>1, <3>1
  <2>2. CASE i = 1
    <3>1. 2^Shift(4, i) = 1
      BY <1>2, <2>2, Powers
    <3> QED
      BY <1>7, <1>12, <2>2, <3>1
  <2> QED
    BY <2>1, <2>2
<1> QED
  BY <1>1, <1>9, <1>12, <1>13 DEF Byte

-----------------------------------------------------------------------------
(* A group is read as it was written. *)

\* A sequence that is put together of two
LEMMA ConcatAt ==
  ASSUME NEW T, NEW q \in Seq(T), NEW r \in Seq(T), NEW c, c = q \o r
  PROVE  /\ c \in Seq(T) /\ Len(q) \in Nat /\ Len(r) \in Nat /\ Len(c) = Len(q) + Len(r)
         /\ \A i \in 1..Len(q) : c[i] = q[i]
         /\ \A i \in 1..Len(r) : c[Len(q) + i] = r[i]
<1>1. Len(q) \in Nat /\ Len(r) \in Nat /\ c \in Seq(T) /\ Len(c) = Len(q) + Len(r)
  BY LenProperties, ConcatProperties
<1>2. \A i \in 1..Len(q) + Len(r) : c[i] = IF i <= Len(q) THEN q[i] ELSE r[i - Len(q)]
  BY ConcatProperties
<1>3. ASSUME NEW i \in 1..Len(q) PROVE c[i] = q[i]
  BY <1>1, <1>2
<1>4. ASSUME NEW i \in 1..Len(r) PROVE c[Len(q) + i] = r[i]
  <2>1. Len(q) + i \in 1..Len(q) + Len(r) /\ ~(Len(q) + i <= Len(q)) /\ (Len(q) + i) - Len(q) = i
    BY <1>1
  <2> QED
    BY <1>2, <2>1
<1> QED
  BY <1>1, <1>3, <1>4

\* The values as they are packed
Fits(values, bits) ==
  [i \in 1..GroupSize |-> IF values[i] < Sentinel(bits) THEN values[i] ELSE Sentinel(bits)]

\* The codes that mark an escaped value
LEMMA SentinelIs ==
  /\ Sentinel(1) = 1 /\ Sentinel(2) = 3 /\ Sentinel(4) = 15
  /\ \A bits \in {1, 2, 4} : Sentinel(bits) \in 1..15
<1>1. 2^1 = 2 /\ 2^2 = 4 /\ 2^4 = 16
  BY Powers
<1>2. Sentinel(1) = 1 /\ Sentinel(2) = 3 /\ Sentinel(4) = 15
  BY <1>1 DEF Sentinel
<1> QED
  BY <1>2

\* Where value i of a group is: value j of byte q
InByte(bits, per, i, q, j) ==
  q = (i - 1) \div per /\ j = (i - 1) % per /\ q + 1 \in 1..Fixed(bits) /\ q * per + j + 1 = i

\* Where a value stands among the packed bytes
LEMMA PlaceOfValue ==
  ASSUME NEW bits \in {1, 2, 4}, NEW per, per = 8 \div bits, NEW i \in 1..GroupSize
  PROVE  per \in Nat \ {0} /\ \E q \in Nat, j \in 0..per - 1 : InByte(bits, per, i, q, j)
<1>1. PICK m \in Nat \ {0} : GroupSize = 8 * m
  <2>1. GroupSize \in Nat \ {0} /\ GroupSize % 8 = 0
    BY SizesAssumption
  <2>2. GroupSize \div 8 \in Nat /\ GroupSize = 8 * (GroupSize \div 8)
    BY <2>1
  <2> QED
    BY <2>1, <2>2
<1>2. PICK a \in Nat : a = i - 1 /\ a <= 8 * m - 1 /\ i = a + 1
  BY <1>1
<1>3. CASE bits = 1
  <2>1. per = 8 /\ Fixed(bits) = m
    BY <1>1, <1>3 DEF Fixed
  <2>2. PICK q \in Nat, j \in 0..7 : q = a \div 8 /\ j = a % 8 /\ a = 8 * q + j
    <3>1. a = 8 * (a \div 8) + (a % 8)
      OBVIOUS
    <3> QED
      BY <3>1
  <2>3. q + 1 \in 1..m
    BY <1>1, <1>2, <2>2
  <2>4. q * 8 + j + 1 = i
    BY <1>2, <2>2
  <2>5. InByte(bits, per, i, q, j)
    BY <1>2, <2>1, <2>2, <2>3, <2>4 DEF InByte
  <2>6. j \in 0..per - 1
    BY <2>1
  <2> QED
    BY <2>1, <2>5, <2>6
<1>4. CASE bits = 2
  <2>1. per = 4 /\ Fixed(bits) = 2 * m
    BY <1>1, <1>4 DEF Fixed
  <2>2. PICK q \in Nat, j \in 0..3 : q = a \div 4 /\ j = a % 4 /\ a = 4 * q + j
    <3>1. a = 4 * (a \div 4) + (a % 4)
      OBVIOUS
    <3> QED
      BY <3>1
  <2>3. q + 1 \in 1..2 * m
    BY <1>1, <1>2, <2>2
  <2>4. q * 4 + j + 1 = i
    BY <1>2, <2>2
  <2>5. InByte(bits, per, i, q, j)
    BY <1>2, <2>1, <2>2, <2>3, <2>4 DEF InByte
  <2>6. j \in 0..per - 1
    BY <2>1
  <2> QED
    BY <2>1, <2>5, <2>6
<1>5. CASE bits = 4
  <2>1. per = 2 /\ Fixed(bits) = 4 * m
    BY <1>1, <1>5 DEF Fixed
  <2>2. PICK q \in Nat, j \in 0..1 : q = a \div 2 /\ j = a % 2 /\ a = 2 * q + j
    <3>1. a = 2 * (a \div 2) + (a % 2)
      OBVIOUS
    <3> QED
      BY <3>1
  <2>3. q + 1 \in 1..4 * m
    BY <1>1, <1>2, <2>2
  <2>4. q * 2 + j + 1 = i
    BY <1>2, <2>2
  <2>5. InByte(bits, per, i, q, j)
    BY <1>2, <2>1, <2>2, <2>3, <2>4 DEF InByte
  <2>6. j \in 0..per - 1
    BY <2>1
  <2> QED
    BY <2>1, <2>5, <2>6
<1> QED
  BY <1>3, <1>4, <1>5

\* Which values byte n of a group holds
LEMMA ValuesOfByte ==
  ASSUME NEW bits \in {1, 2, 4}, NEW per, per = 8 \div bits, NEW n \in 1..Fixed(bits), NEW i \in 0..per - 1
  PROVE  (n - 1) * per + i + 1 \in 1..GroupSize
<1>1. PICK m \in Nat \ {0} : GroupSize = 8 * m
  <2>1. GroupSize \in Nat \ {0} /\ GroupSize % 8 = 0
    BY SizesAssumption
  <2>2. GroupSize \div 8 \in Nat /\ GroupSize = 8 * (GroupSize \div 8)
    BY <2>1
  <2> QED
    BY <2>1, <2>2
<1>2. CASE bits = 1
  <2>1. per = 8 /\ Fixed(bits) = m
    BY <1>1, <1>2 DEF Fixed
  <2> QED
    BY <1>1, <2>1
<1>3. CASE bits = 2
  <2>1. per = 4 /\ Fixed(bits) = 2 * m
    BY <1>1, <1>3 DEF Fixed
  <2> QED
    BY <1>1, <2>1
<1>4. CASE bits = 4
  <2>1. per = 2 /\ Fixed(bits) = 4 * m
    BY <1>1, <1>4 DEF Fixed
  <2> QED
    BY <1>1, <2>1
<1> QED
  BY <1>2, <1>3, <1>4

\* A byte of packed values is a byte, and each of its values can be read.
LEMMA PackedByte ==
  ASSUME NEW bits \in {1, 2, 4}, NEW per, per = 8 \div bits,
         NEW fits \in [1..GroupSize -> 0..Sentinel(bits)], NEW n \in 1..Fixed(bits)
  PROVE  /\ Packed(fits, bits, n) \in Byte
         /\ \A i \in 0..per - 1 :
              (Packed(fits, bits, n) \div 2^Shift(bits, i)) % 2^bits = fits[(n - 1) * per + i + 1]
<1>1. n \in Nat
  BY FixedFacts
<1>5. ASSUME NEW i \in 0..per - 1 PROVE fits[(n - 1) * per + i + 1] \in 0..Sentinel(bits)
  <2>1. (n - 1) * per + i + 1 \in 1..GroupSize
    BY ValuesOfByte
  <2> QED
    BY <2>1
<1>2. CASE bits = 1
  <2>1. per = 8 /\ Sentinel(bits) = 1 /\ 2^bits = 2
    BY <1>2, SentinelIs, Powers
  <2>2. ASSUME NEW i \in 0..7 PROVE fits[(n - 1) * 8 + i + 1] \in 0..1
    <3>1. i \in 0..per - 1
      BY <2>1
    <3>2. fits[(n - 1) * per + i + 1] \in 0..Sentinel(bits)
      BY <1>5, <3>1
    <3> QED
      BY <2>1, <3>2
  <2>3. /\ Packed(fits, 1, n) \in Byte
        /\ \A i \in 0..7 : (Packed(fits, 1, n) \div 2^Shift(1, i)) % 2 = fits[(n - 1) * 8 + i + 1]
    BY <1>1, <2>2, PackedInOne
  <2> QED
    BY <1>2, <2>1, <2>3
<1>3. CASE bits = 2
  <2>1. per = 4 /\ Sentinel(bits) = 3 /\ 2^bits = 4
    BY <1>3, SentinelIs, Powers
  <2>2. ASSUME NEW i \in 0..3 PROVE fits[(n - 1) * 4 + i + 1] \in 0..3
    <3>1. i \in 0..per - 1
      BY <2>1
    <3>2. fits[(n - 1) * per + i + 1] \in 0..Sentinel(bits)
      BY <1>5, <3>1
    <3> QED
      BY <2>1, <3>2
  <2>3. /\ Packed(fits, 2, n) \in Byte
        /\ \A i \in 0..3 : (Packed(fits, 2, n) \div 2^Shift(2, i)) % 4 = fits[(n - 1) * 4 + i + 1]
    BY <1>1, <2>2, PackedInTwo
  <2> QED
    BY <1>3, <2>1, <2>3
<1>4. CASE bits = 4
  <2>1. per = 2 /\ Sentinel(bits) = 15 /\ 2^bits = 16
    BY <1>4, SentinelIs, Powers
  <2>2. ASSUME NEW i \in 0..1 PROVE fits[(n - 1) * 2 + i + 1] \in 0..15
    <3>1. i \in 0..per - 1
      BY <2>1
    <3>2. fits[(n - 1) * per + i + 1] \in 0..Sentinel(bits)
      BY <1>5, <3>1
    <3> QED
      BY <2>1, <3>2
  <2>3. /\ Packed(fits, 4, n) \in Byte
        /\ \A i \in 0..1 : (Packed(fits, 4, n) \div 2^Shift(4, i)) % 16 = fits[(n - 1) * 2 + i + 1]
    BY <1>1, <2>2, PackedInFour
  <2> QED
    BY <1>4, <2>1, <2>3
<1> QED
  BY <1>2, <1>3, <1>4

\* What the reader takes for value i, when the bytes of the group are those of the values fits
ValueTaken(fits, bits, per, i) ==
  (Packed(fits, bits, (i - 1) \div per + 1) \div 2^Shift(bits, (i - 1) % per)) % 2^bits

\* The value at a place of a group
LEMMA PackedValue ==
  ASSUME NEW bits \in {1, 2, 4}, NEW per, per = 8 \div bits,
         NEW fits \in [1..GroupSize -> 0..Sentinel(bits)], NEW i \in 1..GroupSize
  PROVE  ValueTaken(fits, bits, per, i) = fits[i]
<1>1. PICK q \in Nat, j \in 0..per - 1 : InByte(bits, per, i, q, j)
  BY PlaceOfValue
<1>2. PICK n \in 1..Fixed(bits) : n = q + 1 /\ n - 1 = q
  BY <1>1 DEF InByte
<1>3. (Packed(fits, bits, n) \div 2^Shift(bits, j)) % 2^bits = fits[(n - 1) * per + j + 1]
  BY PackedByte
<1>4. (n - 1) * per + j + 1 = i
  BY <1>1, <1>2 DEF InByte
<1>5. q = (i - 1) \div per /\ j = (i - 1) % per
  BY <1>1 DEF InByte
<1> QED
  BY <1>2, <1>3, <1>4, <1>5 DEF ValueTaken

\* A value that does not fit is the next of those that follow the group.
LEMMA WholeAt ==
  ASSUME NEW T, NEW values \in [1..GroupSize -> T], NEW bits \in Nat, NEW i \in 1..GroupSize,
         values[i] >= Sentinel(bits)
  PROVE  /\ Escapes(values, bits, i - 1) + 1 \in 1..Escapes(values, bits, GroupSize)
         /\ Whole(values, bits)[Escapes(values, bits, i - 1) + 1] = values[i]
<1> DEFINE n == GroupSize
<1>1. n \in Nat
  BY SizesAssumption
<1>2. PICK h : WholeRun(h, values, bits, T)
  BY WholeStepping
<1>3. PICK e \in Nat : e = Escapes(values, bits, i - 1) /\ Escapes(values, bits, i) = e + 1
  <2>1. PICK j \in Nat : j = i - 1 /\ j + 1 = i
    OBVIOUS
  <2>2. Escapes(values, bits, j) \in 0..j /\ Escapes(values, bits, j + 1) = Escapes(values, bits, j) + 1
    BY <2>1, EscapesFacts
  <2> QED
    BY <2>1, <2>2
<1> DEFINE Stays(j) == e + 1 <= Len(h[j]) /\ h[j][e + 1] = values[i]
           I == {j \in Nat : i + j <= n => Stays(i + j)}
<1>4. 0 \in I
  <2>1. i \in 1..n /\ i - 1 \in 0..n
    BY <1>1
  <2>2. h[i] = Append(h[i - 1], values[i]) /\ h[i - 1] \in Seq(T) /\ Len(h[i - 1]) = e
    BY <1>2, <1>3, <2>1 DEF WholeRun
  <2>3. Len(Append(h[i - 1], values[i])) = e + 1 /\ Append(h[i - 1], values[i])[e + 1] = values[i]
    BY <2>2, Enqueue
  <2>4. Stays(i)
    BY <2>2, <2>3
  <2>5. i + 0 = i
    OBVIOUS
  <2> HIDE DEF Stays
  <2> QED
    BY <2>4, <2>5
<1>5. ASSUME NEW j \in Nat, j \in I PROVE j + 1 \in I
  <2>1. ASSUME i + (j + 1) <= n PROVE Stays(i + (j + 1))
    <3>1. PICK g \in 1..n : g = i + (j + 1) /\ g - 1 = i + j /\ g - 1 \in 0..n
      BY <1>1, <2>1
    <3>2. e + 1 <= Len(h[g - 1]) /\ h[g - 1][e + 1] = values[i]
      BY <1>5, <2>1, <3>1
    <3>3. h[g - 1] \in Seq(T) /\ values[g] \in T
      BY <1>2, <3>1 DEF WholeRun
    <3>4. h[g] = Append(h[g - 1], values[g]) \/ h[g] = h[g - 1]
      BY <1>2 DEF WholeRun
    <3>5. /\ Len(Append(h[g - 1], values[g])) = Len(h[g - 1]) + 1 /\ Len(h[g - 1]) \in Nat
          /\ \A x \in 1..Len(h[g - 1]) : Append(h[g - 1], values[g])[x] = h[g - 1][x]
      BY <3>3, Enqueue
    <3>6. e + 1 \in 1..Len(h[g - 1])
      BY <3>2, <3>5
    <3>7. e + 1 <= Len(h[g]) /\ h[g][e + 1] = values[i]
      BY <3>2, <3>4, <3>5, <3>6
    <3> QED
      BY <3>1, <3>7
  <2> HIDE DEF Stays
  <2> QED
    BY <2>1
<1>6. Nat \subseteq I
  <2> HIDE DEF I
  <2> QED
    BY <1>4, <1>5, NatSetInduction
<1>7. Stays(n)
  <2>1. PICK j \in Nat : j = n - i /\ i + j = n
    BY <1>1
  <2> HIDE DEF Stays
  <2>2. j \in I
    BY <1>6
  <2> QED
    BY <1>1, <2>1, <2>2
<1>8. Whole(values, bits) = h[n] /\ Len(h[n]) = Escapes(values, bits, n)
  BY <1>1, <1>2 DEF WholeRun
<1>9. Escapes(values, bits, n) \in Nat
  BY <1>1, EscapesFacts
<1> QED
  BY <1>3, <1>7, <1>8, <1>9

\* The bytes c are the values in these bits, packed, and then those that do not fit.
Codes(c, values, bits) ==
  /\ values \in [1..GroupSize -> Byte] /\ Fits(values, bits) \in [1..GroupSize -> 0..Sentinel(bits)]
  /\ Fixed(bits) \in Nat /\ Escapes(values, bits, GroupSize) \in Nat
  /\ c \in Seq(Byte) /\ Len(c) = Fixed(bits) + Escapes(values, bits, GroupSize)
  /\ \A n \in 1..Fixed(bits) : c[n] = Packed(Fits(values, bits), bits, n)
  /\ \A n \in 1..Escapes(values, bits, GroupSize) : c[Fixed(bits) + n] = Whole(values, bits)[n]

\* What encodeBytesGroup writes for values that have two, four or sixteen codes
LEMMA CodedForm ==
  ASSUME NEW values \in Seq(Byte), Len(values) = GroupSize, NEW bits \in {1, 2, 4}, NEW c, c = CodedGroup(values, bits)
  PROVE  Codes(c, values, bits)
<1>1. values \in [1..GroupSize -> Byte]
  BY LenProperties
<1> DEFINE fits == Fits(values, bits)
           head == [n \in 1..Fixed(bits) |-> Packed(fits, bits, n)]
           tail == Whole(values, bits)
<1>2. fits \in [1..GroupSize -> 0..Sentinel(bits)]
  <2>1. Sentinel(bits) \in Nat
    BY SentinelIs
  <2>2. \A i \in 1..GroupSize : values[i] \in Nat
    BY <1>1, ByteType
  <2>3. ASSUME NEW i \in 1..GroupSize
        PROVE  (IF values[i] < Sentinel(bits) THEN values[i] ELSE Sentinel(bits)) \in 0..Sentinel(bits)
    BY <2>1, <2>2
  <2> QED
    BY <2>3 DEF Fits
<1>3. c = head \o tail
  <2>1. bits # 0 /\ bits # 8
    OBVIOUS
  <2>2. c = [n \in 1..Fixed(bits) |-> Packed([i \in 1..GroupSize |-> IF values[i] < Sentinel(bits) THEN values[i] ELSE Sentinel(bits)],
                                            bits, n)] \o tail
    BY <2>1 DEF CodedGroup
  <2> QED
    BY <2>2 DEF Fits
<1> HIDE DEF fits
<1>4. Fixed(bits) \in Nat /\ bits \in Nat
  BY FixedFacts
<1>5. head \in [1..Fixed(bits) -> Byte]
  <2>1. PICK per : per = 8 \div bits
    OBVIOUS
  <2>2. ASSUME NEW n \in 1..Fixed(bits) PROVE Packed(fits, bits, n) \in Byte
    BY <1>2, <2>1, PackedByte
  <2> QED
    BY <2>2
<1>6. \A n \in 1..Fixed(bits) : head[n] = Packed(fits, bits, n)
  OBVIOUS
<1> HIDE DEF head
<1>7. head \in Seq(Byte) /\ Len(head) = Fixed(bits)
  BY <1>4, <1>5, FunctionSeq
<1>8. tail \in Seq(Byte) /\ Len(tail) = Escapes(values, bits, GroupSize)
  BY <1>1, <1>4, WholeFacts
<1>9. PICK e \in Nat : e = Escapes(values, bits, GroupSize)
  <2>1. GroupSize \in Nat
    BY SizesAssumption
  <2> QED
    BY <2>1, EscapesFacts
<1> HIDE DEF tail
<1>10. /\ c \in Seq(Byte) /\ Len(c) = Len(head) + Len(tail)
       /\ \A n \in 1..Len(head) : c[n] = head[n]
       /\ \A n \in 1..Len(tail) : c[Len(head) + n] = tail[n]
  <2>1. PICK h, t : h = head /\ t = tail
    OBVIOUS
  <2>2. h \in Seq(Byte) /\ t \in Seq(Byte)
    BY <1>7, <1>8, <2>1
  <2>3. c = h \o t
    BY <1>3, <2>1
  <2>4. /\ c \in Seq(Byte) /\ Len(c) = Len(h) + Len(t)
        /\ \A n \in 1..Len(h) : c[n] = h[n]
        /\ \A n \in 1..Len(t) : c[Len(h) + n] = t[n]
    BY ONLY <2>2, <2>3, ConcatAt
  <2> QED
    BY <2>1, <2>4
<1>11. \A n \in 1..Fixed(bits) : c[n] = Packed(fits, bits, n)
  BY <1>6, <1>7, <1>10
<1>12. \A n \in 1..e : c[Fixed(bits) + n] = tail[n]
  BY <1>7, <1>8, <1>9, <1>10
<1>13. Len(c) = Fixed(bits) + e
  BY <1>7, <1>8, <1>9, <1>10
<1> QED
  BY <1>1, <1>2, <1>4, <1>9, <1>10, <1>11, <1>12, <1>13 DEF fits, tail, Codes

\* The sequence d holds a group in some bits at the offset at, up to the offset next.
GroupHolds(d, at, values, bits, next) ==
  /\ next = at + Len(CodedGroup(values, bits)) /\ next <= Len(d)
  /\ \A n \in 1..Len(CodedGroup(values, bits)) : d[at + n] = CodedGroup(values, bits)[n]
  /\ bits = 0 => \A i \in 1..GroupSize : values[i] = 0

\* The values as the reader takes them from the bytes at an offset
FieldsAt(bits, at) ==
  [i \in 1..GroupSize |->
     (At(at + (i - 1) \div (8 \div bits)) \div 2^Shift(bits, (i - 1) % (8 \div bits))) % 2^bits]

\* What the reader takes for values before the escaped ones are replaced
LEMMA EncodedRead ==
  ASSUME data \in Seq(Byte), NEW values \in Seq(Byte), Len(values) = GroupSize, NEW bits \in {1, 2, 4},
         NEW at \in Nat, NEW next, GroupHolds(data, at, values, bits, next), NEW i \in 1..GroupSize
  PROVE  FieldsAt(bits, at)[i] = Fits(values, bits)[i]
<1> DEFINE fits == Fits(values, bits)
<1>9. PICK per : per = 8 \div bits
  OBVIOUS
<1>1. PICK c : c = CodedGroup(values, bits)
  OBVIOUS
<1>2. /\ fits \in [1..GroupSize -> 0..Sentinel(bits)] /\ Fixed(bits) \in Nat /\ Escapes(values, bits, GroupSize) \in Nat
      /\ c \in Seq(Byte) /\ Len(c) = Fixed(bits) + Escapes(values, bits, GroupSize)
      /\ \A n \in 1..Fixed(bits) : c[n] = Packed(fits, bits, n)
  <2>1. values \in Seq(Byte) /\ Len(values) = GroupSize
    OBVIOUS
  <2>2. Codes(c, values, bits)
    BY ONLY <1>1, <2>1, bits \in {1, 2, 4}, CodedForm
  <2> QED
    BY <1>1, <2>1, <2>2 DEF Codes
<1>8. Len(c) \in Nat /\ Len(data) \in Nat /\ Fixed(bits) <= Len(c)
  BY <1>2, LenProperties
<1>3. next = at + Len(c) /\ next <= Len(data) /\ \A n \in 1..Len(c) : data[at + n] = c[n]
  BY <1>1 DEF GroupHolds
<1> HIDE DEF fits
<1>4. PICK q \in Nat : q = (i - 1) \div per /\ q + 1 \in 1..Fixed(bits)
  <2>1. PICK q \in Nat, j \in 0..per - 1 : InByte(bits, per, i, q, j)
    BY ONLY <1>9, bits \in {1, 2, 4}, i \in 1..GroupSize, PlaceOfValue
  <2> QED
    BY <2>1 DEF InByte
<1>5. q + 1 \in 1..Len(c) /\ at + q \in Nat /\ at + q < Len(data) /\ (at + q) + 1 = at + (q + 1)
  <2>1. Fixed(bits) \in Nat
    BY <1>2
  <2>2. at + Len(c) <= Len(data)
    BY <1>3
  <2> QED
    BY <1>4, <1>8, <2>1, <2>2
<1>6. At(at + q) = Packed(fits, bits, q + 1)
  <2>1. At(at + q) = data[(at + q) + 1]
    BY <1>5 DEF At
  <2>2. data[at + (q + 1)] = c[q + 1]
    BY <1>3, <1>5
  <2> QED
    BY <1>2, <1>4, <1>5, <2>1, <2>2
<1>7. ValueTaken(fits, bits, per, i) = fits[i]
  <2>1. fits \in [1..GroupSize -> 0..Sentinel(bits)]
    BY <1>2
  <2> QED
    BY ONLY <1>9, <2>1, bits \in {1, 2, 4}, i \in 1..GroupSize, PackedValue
<1> QED
  BY <1>4, <1>6, <1>7, <1>9 DEF fits, ValueTaken, FieldsAt

\* The packed values have as many escapes as the values themselves.
LEMMA EscapesSame ==
  ASSUME NEW values \in [1..GroupSize -> Byte], NEW bits \in {1, 2, 4}, NEW n \in 0..GroupSize
  PROVE  Escapes(Fits(values, bits), bits, n) = Escapes(values, bits, n)
<1> DEFINE fits == Fits(values, bits)
<1>1. GroupSize \in Nat /\ Sentinel(bits) \in Nat
  BY SizesAssumption, SentinelIs
<1>2. \A i \in 1..GroupSize : values[i] \in Nat
  BY ByteType
<1>3. \A i \in 1..GroupSize : fits[i] = IF values[i] < Sentinel(bits) THEN values[i] ELSE Sentinel(bits)
  BY DEF Fits
<1> HIDE DEF fits
<1>4. \A i \in 1..GroupSize : fits[i] >= Sentinel(bits) <=> values[i] >= Sentinel(bits)
  BY <1>1, <1>2, <1>3
<1>5. \A i \in 1..n : i \in 1..GroupSize
  BY <1>1
<1>6. {i \in 1..n : fits[i] >= Sentinel(bits)} = {i \in 1..n : values[i] >= Sentinel(bits)}
  BY <1>4, <1>5
<1> QED
  BY <1>6 DEF Escapes, fits

\* What decodeBytesGroup reads for values in two, four or sixteen codes
LEMMA ReadForm ==
  ASSUME NEW bits \in {1, 2, 4}, NEW at
  PROVE  /\ ReadGroup(bits, at).values =
              [i \in 1..GroupSize |->
                 IF FieldsAt(bits, at)[i] = Sentinel(bits)
                 THEN At(at + Fixed(bits) + Escapes(FieldsAt(bits, at), bits, i - 1)) ELSE FieldsAt(bits, at)[i]]
         /\ ReadGroup(bits, at).next = at + Fixed(bits) + Escapes(FieldsAt(bits, at), bits, GroupSize)
<1>1. bits # 0 /\ bits # 8
  OBVIOUS
<1> QED
  BY <1>1 DEF ReadGroup, FieldsAt

\* The bytes that encodeBytesGroup writes for a group are read back as its values, at whatever offset they are:
\* the escaped values in their order, and the reader goes on where the writer went on.
THEOREM GroupsComeBack ==
  ASSUME data \in Seq(Byte), NEW values \in Seq(Byte), Len(values) = GroupSize, NEW bits \in BitsOfGroups,
         NEW at \in Nat, NEW next, GroupHolds(data, at, values, bits, next)
  PROVE  ReadGroup(bits, at).values = values /\ ReadGroup(bits, at).next = next
<1>1. PICK c : c = CodedGroup(values, bits)
  OBVIOUS
<1>2. next = at + Len(c) /\ next <= Len(data) /\ \A n \in 1..Len(c) : data[at + n] = c[n]
  BY <1>1 DEF GroupHolds
<1>3. values \in [1..GroupSize -> Byte] /\ Len(data) \in Nat /\ GroupSize \in Nat
  BY SizesAssumption, LenProperties
<1>4. CASE bits = 0
  <2>1. c = <<>> /\ Len(c) = 0
    BY <1>1, <1>4 DEF CodedGroup
  <2>2. ReadGroup(bits, at).values = [i \in 1..GroupSize |-> 0] /\ ReadGroup(bits, at).next = at
    BY <1>4 DEF ReadGroup, Zeros
  <2>3. \A i \in 1..GroupSize : values[i] = 0
    BY <1>4 DEF GroupHolds
  <2>4. values = [i \in 1..GroupSize |-> 0]
    BY <1>3, <2>3
  <2> QED
    BY <1>2, <2>1, <2>2, <2>4
<1>5. CASE bits = 8
  <2>1. c = values
    BY <1>1, <1>5 DEF CodedGroup
  <2>2. ReadGroup(bits, at).values = [i \in 1..GroupSize |-> At(at + i - 1)] /\ ReadGroup(bits, at).next = at + GroupSize
    BY <1>5 DEF ReadGroup
  <2>3. ASSUME NEW i \in 1..GroupSize PROVE At(at + i - 1) = values[i]
    <3>1. at + i - 1 < Len(data) /\ (at + i - 1) + 1 = at + i
      BY <1>2, <1>3, <2>1
    <3>2. At(at + i - 1) = data[at + i]
      BY <3>1 DEF At
    <3> QED
      BY <1>2, <2>1, <3>2
  <2>4. values = [i \in 1..GroupSize |-> At(at + i - 1)]
    BY <1>3, <2>3
  <2> QED
    BY <1>2, <2>1, <2>2, <2>4
<1>6. CASE bits \in {1, 2, 4}
  <2> DEFINE fits == Fits(values, bits)
             enc == FieldsAt(bits, at)
             E(n) == Escapes(values, bits, n)
  <2> HIDE DEF E
  <2>1. Codes(c, values, bits)
    BY ONLY <1>1, <1>6, values \in Seq(Byte), Len(values) = GroupSize, CodedForm
  <2>2. enc = fits
    <3>1. \A i \in 1..GroupSize : enc[i] = fits[i]
      BY <1>6, EncodedRead
    <3> QED
      BY <3>1 DEF FieldsAt, Fits
  <2>3. \A n \in 0..GroupSize : Escapes(fits, bits, n) = E(n)
    BY <1>3, <1>6, EscapesSame DEF E
  <2>4. PICK f \in Nat, e \in Nat : f = Fixed(bits) /\ e = E(GroupSize) /\ Len(c) = f + e
    BY <2>1 DEF Codes, E
  <2>5. PICK r : r = ReadGroup(bits, at)
    OBVIOUS
  <2>6. /\ r.values = [i \in 1..GroupSize |->
                         IF fits[i] = Sentinel(bits) THEN At(at + f + Escapes(fits, bits, i - 1)) ELSE fits[i]]
        /\ r.next = at + f + Escapes(fits, bits, GroupSize)
    <3>1. /\ r.values = [i \in 1..GroupSize |->
                           IF enc[i] = Sentinel(bits) THEN At(at + Fixed(bits) + Escapes(enc, bits, i - 1)) ELSE enc[i]]
          /\ r.next = at + Fixed(bits) + Escapes(enc, bits, GroupSize)
      BY ONLY <1>6, <2>5, ReadForm
    <3> QED
      BY <2>2, <2>4, <3>1
  <2>7. r.next = next
    <3>1. Escapes(fits, bits, GroupSize) = e
      BY <1>3, <2>3, <2>4
    <3> QED
      BY <1>2, <2>4, <2>6, <3>1
  <2>8. ASSUME NEW i \in 1..GroupSize PROVE r.values[i] = values[i]
    <3>1. fits[i] = (IF values[i] < Sentinel(bits) THEN values[i] ELSE Sentinel(bits))
      BY DEF Fits
    <3>2. values[i] \in Nat /\ Sentinel(bits) \in Nat
      BY <1>3, <1>6, ByteType, SentinelIs
    <3>3. CASE values[i] < Sentinel(bits)
      BY <2>6, <3>1, <3>2, <3>3
    <3>4. CASE values[i] >= Sentinel(bits)
      <4>1. PICK j : j = E(i - 1)
        OBVIOUS
      <4>2. j + 1 \in 1..e /\ Whole(values, bits)[j + 1] = values[i]
        <5>1. bits \in Nat
          BY <1>6
        <5>2. /\ Escapes(values, bits, i - 1) + 1 \in 1..Escapes(values, bits, GroupSize)
              /\ Whole(values, bits)[Escapes(values, bits, i - 1) + 1] = values[i]
          BY ONLY <1>3, <3>4, <5>1, i \in 1..GroupSize, WholeAt
        <5> QED
          BY <2>4, <4>1, <5>2 DEF E
      <4>3. j \in Nat
        <5>1. i - 1 \in 0..GroupSize
          BY <1>3
        <5> QED
          BY <1>3, <1>6, <4>1, <5>1, EscapesFacts DEF E
      <4>4. Escapes(fits, bits, i - 1) = j
        <5>1. i - 1 \in 0..GroupSize
          BY <1>3
        <5> QED
          BY <2>3, <4>1, <5>1
      <4>5. r.values[i] = At(at + f + j)
        BY <2>6, <3>1, <3>2, <3>4, <4>4
      <4>6. c[f + (j + 1)] = values[i]
        BY <2>1, <2>4, <4>2 DEF Codes
      <4>7. f + (j + 1) \in 1..Len(c) /\ at + f + j \in Nat /\ at + f + j < Len(data) /\ (at + f + j) + 1 = at + (f + (j + 1))
        <5>1. at + Len(c) <= Len(data) /\ Len(data) \in Nat
          BY <1>2, <1>3
        <5>2. j + 1 <= e /\ Len(c) = f + e
          BY <2>4, <4>2
        <5>3. f \in Nat /\ e \in Nat /\ j \in Nat /\ at \in Nat
          BY <2>4, <4>3
        <5>4. \A a, g, h, n, m \in Nat : n + 1 <= h /\ a + (g + h) <= m =>
                g + (n + 1) \in 1..g + h /\ a + g + n \in Nat /\ a + g + n < m /\ (a + g + n) + 1 = a + (g + (n + 1))
          OBVIOUS
        <5>5. at + (f + e) <= Len(data)
          BY <5>1, <5>2
        <5> QED
          BY <5>1, <5>2, <5>3, <5>4, <5>5
      <4>8. At(at + f + j) = data[at + (f + (j + 1))]
        BY <4>7 DEF At
      <4>9. data[at + (f + (j + 1))] = c[f + (j + 1)]
        BY <1>2, <4>7
      <4> QED
        BY <4>5, <4>6, <4>8, <4>9
    <3> QED
      BY <3>2, <3>3, <3>4
  <2>9. r.values = values
    <3>1. DOMAIN r.values = 1..GroupSize /\ r.values = [i \in 1..GroupSize |-> r.values[i]]
      BY <2>6
    <3> QED
      BY <1>3, <2>8, <3>1
  <2> QED
    BY <2>5, <2>7, <2>9
<1> QED
  BY <1>4, <1>5, <1>6 DEF BitsOfGroups

==============================================================================
