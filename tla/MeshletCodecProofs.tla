-------------------------- MODULE MeshletCodecProofs --------------------------
(***************************************************************************)
(* The optimizer and the codec of meshlets, for every list of triangles:   *)
(* the optimizer keeps the triangles, the decoders give back what the      *)
(* encoder was given and stay inside their stream and memory.              *)
(***************************************************************************)
EXTENDS MeshletCodec, SetLemmas

-----------------------------------------------------------------------------
(* Indices and variable length integers *)

\* UnZigZag gives back what ZigZag was given.
LEMMA ZigZagInverse ==
  ASSUME Modulus \in Nat, Modulus % 2 = 0, NEW d \in Index
  PROVE  ZigZag(d) \in Index /\ UnZigZag(ZigZag(d)) = d
  BY ZigZagUndone DEF ZigZag, UnZigZag, Index

LEMMA UnZigZagType ==
  ASSUME Modulus \in Nat, Modulus % 2 = 0, NEW v \in Index
  PROVE  UnZigZag(v) \in Index
  BY UnZigZagRange DEF UnZigZag, Index

\* Adding the difference to a baseline gives back the index.
LEMMA DifferenceInverse ==
  ASSUME Modulus \in Nat, NEW i \in Index, NEW base \in Index
  PROVE  Minus(i, base) \in Index /\ Plus(base, Minus(i, base)) = i
  BY DEF Minus, Plus, Index

LEMMA PlusType ==
  ASSUME Modulus \in Nat, NEW i \in Index, NEW d \in Index
  PROVE  Plus(i, d) \in Index
  BY DEF Plus, Index

-----------------------------------------------------------------------------
(* Helpers *)

LEMMA MinIs ==
  ASSUME NEW S, S \subseteq Nat, S # {}
  PROVE  Min(S) \in S /\ \A y \in S : Min(S) <= y
<1>1. \E x \in S : \A y \in S : x <= y
  BY LeastNumber
<1> QED
  BY <1>1 DEF Min

LEMMA MaxIs ==
  ASSUME NEW n \in Nat, NEW S, S \subseteq 0..n, S # {}
  PROVE  Max(S) \in S /\ \A y \in S : y <= Max(S)
<1>1. \E x \in S : \A y \in S : y <= x
  BY GreatestNumber
<1> QED
  BY <1>1 DEF Max

LEMMA ModType == ASSUME NEW n \in Nat \ {0}, NEW x \in Int PROVE x % n \in 0..n - 1
  OBVIOUS

LEMMA Constants ==
  /\ ByteBits \in 1..8 /\ ByteValues \in Nat /\ ByteValues > 0
  /\ CacheSize \in Nat \ {0} /\ Ticks \in Nat /\ Ticks > 6 /\ Ticks % 2 = 0
  BY CodecAssumption, OptimizerAssumption, PowerPositive DEF ByteValues, Cutoff

-----------------------------------------------------------------------------
(* The optimizer *)

Distinct(s) == \A i, j \in 1..Len(s) : s[i] = s[j] => i = j

\* Where the cache has no position for a key, no vertex has that key.
Known(c, vs) == \A key \in 0..CacheSize - 1 : c[key] = -1 => \A n \in 1..Len(vs) : vs[n] % CacheSize # key

CacheFits(c, vs) == c \in [0..CacheSize - 1 -> -1..Len(vs) - 1] /\ Known(c, vs)

\* Every vertex is a corner of a triangle.
AllUsed(ts, count) == \A v \in 0..count - 1 : \E j \in 1..Len(ts) : \E n \in 1..Len(ts[j]) : ts[j][n] = v

\* The triangles ts of the meshlet, as far as they go, stand for those of the list.
StandFor(ts, vs) == \A j \in 1..Len(ts) : \A n \in 1..Len(ts[j]) : vs[ts[j][n] + 1] = list[j][n]

FewVertices == vertices \in Seq(Index) /\ Len(vertices) <= ByteValues

Extracting ==
  /\ at <= 3 * Len(list)
  /\ triangles \in Seq(Seq(Locals))
  /\ Len(triangles) = (at + 2) \div 3
  /\ \A j \in 1..Len(triangles) : Len(triangles[j]) = Smaller(3, at - 3 * (j - 1))
  /\ StandFor(triangles, vertices)
  /\ CacheFits(cache, vertices)
  /\ Distinct(vertices)
  /\ \A n \in 1..Len(vertices) : vertices[n] \in VerticesOf(list)
  /\ AllUsed(triangles, Len(vertices))

\* The whole triangles of a meshlet.
Whole == triangles \in Seq([1..3 -> Locals])

OptimizerInv ==
  /\ list \in Lists /\ at \in Nat /\ level \in 0..9
  /\ work \in {"extract", "order", "rotate", "renumber", "optimized"}
  /\ FewVertices
  /\ work = "extract" => Extracting
  /\ work # "extract" => Whole
  /\ work = "order" => /\ at <= Len(triangles)
                       /\ cache \in [Locals -> 0..Ticks - 1]
                       /\ valence \in [Locals -> 0..Ticks - 1]
  /\ work = "rotate" => at <= Len(triangles) /\ cache \in [Locals -> {0, 1}]

LEMMA PositionCorrect ==
  ASSUME NEW v \in Nat, vertices \in Seq(Nat), NEW c \in -1..Len(vertices) - 1,
         c = -1 => \A n \in 1..Len(vertices) : vertices[n] # v
  PROVE  /\ Position(v, c) \in 0..Len(vertices)
         /\ Position(v, c) < Len(vertices) => vertices[Position(v, c) + 1] = v
         /\ Position(v, c) = Len(vertices) => \A n \in 1..Len(vertices) : vertices[n] # v
<1> DEFINE found == {n \in DOMAIN vertices : vertices[n] = v}
<1>1. Len(vertices) \in Nat /\ DOMAIN vertices = 1..Len(vertices)
  BY LenProperties
<1>2. CASE c >= 0 /\ vertices[c + 1] = v
  <2>1. Position(v, c) = c
    BY <1>2 DEF Position
  <2>2. c \in 0..Len(vertices) - 1 /\ vertices[c + 1] = v
    BY <1>1, <1>2
  <2>3. PICK n \in Nat : n = Len(vertices)
    BY <1>1
  <2>4. c \in 0..n /\ c < n /\ ~ (c = n)
    BY <2>2, <2>3
  <2> QED
    BY <2>1, <2>2, <2>3, <2>4
<1>3. CASE c < 0
  <2>1. Position(v, c) = Len(vertices)
    BY <1>3 DEF Position
  <2>2. c = -1
    BY <1>1, <1>3
  <2> QED
    BY <1>1, <2>1, <2>2
<1>4. CASE c >= 0 /\ vertices[c + 1] # v /\ found = {}
  <2>1. Position(v, c) = Len(vertices)
    BY <1>4 DEF Position
  <2> QED
    BY <1>1, <1>4, <2>1
<1>5. CASE c >= 0 /\ vertices[c + 1] # v /\ found # {}
  <2>1. Min(found) \in found
    <3>1. found \subseteq Nat /\ found # {}
      BY <1>1, <1>5
    <3> HIDE DEF found
    <3> QED
      BY <3>1, MinIs
  <2>2. Position(v, c) = Min(found) - 1
    BY <1>5 DEF Position
  <2>3. PICK m \in 1..Len(vertices) : Min(found) = m /\ vertices[m] = v
    BY <1>1, <2>1
  <2> QED
    BY <1>1, <2>2, <2>3
<1> QED
  BY <1>1, <1>2, <1>3, <1>4, <1>5

LEMMA ListType ==
  ASSUME NEW l \in Lists
  PROVE  /\ l \in Seq([1..3 -> Nat]) /\ Len(l) \in Nat
         /\ \A j \in 1..Len(l) : l[j] \in [1..3 -> Nat] /\ \A n \in 1..3 : l[j][n] \in VerticesOf(l)
<1>1. l \in Seq([1..3 -> Nat])
  BY ListsAssumption
<1>2. ASSUME NEW j \in 1..Len(l) PROVE l[j] \in [1..3 -> Nat] /\ \A n \in 1..3 : l[j][n] \in VerticesOf(l)
  <2>1. l[j] \in [1..3 -> Nat] /\ l[j] \in ToSet(l)
    BY <1>1, ElementOfSeq, LenProperties DEF ToSet
  <2>2. 1..3 = {1, 2, 3}
    OBVIOUS
  <2> QED
    BY <2>1, <2>2 DEF VerticesOf
<1> QED
  BY <1>1, <1>2, LenProperties

\* The vertices of a list are finite in number and fit.
LEMMA VerticesFit ==
  ASSUME NEW l \in Lists, NEW s \in Seq(VerticesOf(l)), Distinct(s)
  PROVE  Len(s) <= ByteValues
<1> DEFINE V == VerticesOf(l)
           R == {s[i] : i \in 1..Len(s)}
<1>1. Len(s) \in Nat /\ IsFiniteSet(1..Len(s)) /\ Cardinality(1..Len(s)) = Len(s)
  BY LenProperties, Indices
<1>2. IsFiniteSet(R) /\ Cardinality(R) = Len(s)
  <2>1. \A i, j \in 1..Len(s) : s[i] = s[j] => i = j
    BY DEF Distinct
  <2> QED
    BY <1>1, <2>1, DistinctValues
<1>3. R \subseteq V
  BY ElementOfSeq
<1>4. IsFiniteSet(V)
  <2>1. l \in Seq([1..3 -> Nat]) /\ DOMAIN l = 1..Len(l) /\ Len(l) \in Nat
    BY ListType, LenProperties
  <2>2. IsFiniteSet(1..Len(l))
    BY <2>1, Indices
  <2>3. \A j \in 1..Len(l) : IsFiniteSet({l[j][1], l[j][2], l[j][3]})
    <3>1. ASSUME NEW a, NEW b, NEW c PROVE IsFiniteSet({a, b, c})
      <4>1. IsFiniteSet({a})
        BY FS_Singleton
      <4>2. IsFiniteSet({a} \cup {b})
        BY <4>1, FS_AddElement
      <4>3. IsFiniteSet(({a} \cup {b}) \cup {c})
        BY <4>2, FS_AddElement
      <4>4. ({a} \cup {b}) \cup {c} = {a, b, c}
        OBVIOUS
      <4> QED
        BY <4>3, <4>4
    <3> QED
      BY <3>1
  <2> DEFINE C == {{t[1], t[2], t[3]} : t \in ToSet(l)}
  <2>4. C = {{l[j][1], l[j][2], l[j][3]} : j \in 1..Len(l)}
    BY <2>1 DEF ToSet
  <2>5. IsFiniteSet(C)
    <3> DEFINE f == [j \in 1..Len(l) |-> {l[j][1], l[j][2], l[j][3]}]
    <3>1. f \in Surjection(1..Len(l), C)
      BY <2>4 DEF Surjection
    <3> QED
      BY <2>2, <3>1, FS_Surjection
  <2>6. \A x \in C : IsFiniteSet(x)
    BY <2>3, <2>4
  <2> QED
    BY <2>5, <2>6, FS_UNION DEF VerticesOf
<1>5. Cardinality(R) <= Cardinality(V)
  BY <1>3, <1>4, FS_Subset
<1>6. Cardinality(V) <= ByteValues /\ Cardinality(V) \in Nat
  BY <1>4, MeshletAssumption, FS_CardinalityType
<1> HIDE DEF V, R
<1> QED
  BY <1>1, <1>2, <1>5, <1>6, Constants

LEMMA SeqOfFunction ==
  ASSUME NEW S, NEW n \in Nat, NEW f \in [1..n -> S]
  PROVE  f \in Seq(S) /\ Len(f) = n
<1>1. f \in Seq(S)
  BY SeqDef
<1>2. PICK l \in Nat : l = Len(f) /\ 1..l = 1..n
  BY <1>1, LenProperties
<1> QED
  BY <1>1, <1>2

LEMMA LargerSeqs ==
  ASSUME NEW S, NEW T, S \subseteq T, NEW s \in Seq(Seq(S))
  PROVE  s \in Seq(Seq(T))
<1>1. Seq(S) \subseteq Seq(T)
  BY SeqMonotonic
<1> QED
  BY <1>1, SeqMonotonic

LEMMA OneSeq == ASSUME NEW S, NEW x \in S PROVE <<x>> \in Seq(S) /\ Len(<<x>>) = 1 /\ <<x>>[1] = x
<1>1. <<x>> \in [1..1 -> S]
  OBVIOUS
<1> QED
  BY <1>1, SeqDef

\* us is ts with p as corner k of triangle j.
Grown(ts, us, j, k, p) ==
  /\ Len(us) = j /\ Len(us[j]) = k /\ us[j][k] = p
  /\ \A i \in 1..j - 1 : us[i] = ts[i]
  /\ \A i \in 1..k - 1 : us[j][i] = ts[j][i]

LEMMA GrowTriangles ==
  ASSUME NEW L, NEW ts \in Seq(Seq(L)), NEW p \in L, NEW j \in Nat \ {0}, NEW k \in 1..3, NEW us,
         Len(ts) = (IF k = 1 THEN j - 1 ELSE j),
         k # 1 => Len(ts[j]) = k - 1,
         us = IF k = 1 THEN Append(ts, <<p>>) ELSE [ts EXCEPT ![Len(ts)] = Append(@, p)]
  PROVE  us \in Seq(Seq(L)) /\ Grown(ts, us, j, k, p)
<1>0. PICK T : T = Seq(L) /\ ts \in Seq(T)
  OBVIOUS
<1>1. CASE k = 1
  <2>1. PICK one \in T : one = <<p>> /\ Len(one) = 1 /\ one[1] = p
    BY <1>0, OneSeq
  <2>2. us = Append(ts, one) /\ Len(ts) = j - 1
    BY <1>1, <2>1
  <2>3. us \in Seq(T) /\ Len(us) = j /\ us[j] = one /\ \A i \in 1..j - 1 : us[i] = ts[i]
    <3>1. /\ us \in Seq(T) /\ Len(us) = Len(ts) + 1 /\ us[Len(ts) + 1] = one
          /\ \A i \in 1..Len(ts) : us[i] = ts[i]
      BY <1>0, <2>2, Enqueue
    <3>2. Len(ts) + 1 = j
      BY <2>2
    <3> QED
      BY <2>2, <3>1, <3>2
  <2> QED
    BY <1>0, <1>1, <2>1, <2>3 DEF Grown
<1>2. CASE k # 1
  <2>1. Len(ts) = j /\ Len(ts[j]) = k - 1 /\ j \in 1..Len(ts)
    BY <1>2
  <2>2. PICK q \in Seq(L) : q = ts[j] /\ Len(q) = k - 1
    BY <1>0, <2>1, ElementOfSeq
  <2>3. Append(q, p) \in Seq(L) /\ Len(Append(q, p)) = Len(q) + 1 /\ Append(q, p)[Len(q) + 1] = p
        /\ \A i \in 1..Len(q) : Append(q, p)[i] = q[i]
    BY Enqueue
  <2>4. PICK r \in T : r = Append(q, p) /\ Len(r) = k /\ r[k] = p /\ \A i \in 1..k - 1 : r[i] = q[i]
    <3>1. Len(q) = k - 1 /\ Len(q) + 1 = k
      BY <2>2
    <3> QED
      BY <1>0, <2>3, <3>1
  <2>5. us = [ts EXCEPT ![j] = r]
    BY <1>2, <2>1, <2>2, <2>4
  <2>6. /\ us \in Seq(T) /\ Len(us) = j
        /\ \A i \in 1..j : us[i] = IF i = j THEN r ELSE ts[i]
    <3>1. [ts EXCEPT ![j] = r] \in Seq(T) /\ Len([ts EXCEPT ![j] = r]) = Len(ts)
          /\ \A i \in 1..Len(ts) : [ts EXCEPT ![j] = r][i] = IF i = j THEN r ELSE ts[i]
      BY <1>0, <2>1, <2>4, ExceptSeq
    <3> QED
      BY <2>1, <2>5, <3>1
  <2> QED
    BY <1>0, <2>2, <2>4, <2>6 DEF Grown
<1> QED
  BY <1>1, <1>2

\* The vertices vs with v at position pos, which may be new.
With(vs, v, pos) == IF pos = Len(vs) THEN Append(vs, v) ELSE vs

Suits(l, vs, v, pos) ==
  /\ l \in Lists /\ vs \in Seq(Index) /\ Distinct(vs)
  /\ \A i \in 1..Len(vs) : vs[i] \in VerticesOf(l)
  /\ v \in VerticesOf(l) /\ pos \in 0..Len(vs)
  /\ pos < Len(vs) => vs[pos + 1] = v
  /\ pos = Len(vs) => \A i \in 1..Len(vs) : vs[i] # v

HasVertex(l, vs, ws, v, pos) ==
  /\ ws \in Seq(Index) /\ Len(ws) \in Nat /\ Len(ws) >= Len(vs) /\ Len(ws) <= ByteValues
  /\ pos \in 0..Len(ws) - 1 /\ ws[pos + 1] = v
  /\ \A i \in 1..Len(vs) : ws[i] = vs[i]
  /\ Distinct(ws)
  /\ \A i \in 1..Len(ws) : ws[i] \in VerticesOf(l)
  /\ \A i \in 1..Len(ws) : i <= Len(vs) \/ i = pos + 1

LEMMA GrowVertices ==
  ASSUME NEW l, NEW vs, NEW v, NEW pos, Suits(l, vs, v, pos)
  PROVE  HasVertex(l, vs, With(vs, v, pos), v, pos)
<1> DEFINE ws == With(vs, v, pos)
<1> USE DEF Suits, HasVertex
<1>0. PICK n \in Nat : n = Len(vs)
  BY LenProperties
<1>1. v \in Index
  BY MeshletAssumption
<1>2. CASE pos = n
  <2>1. ws = Append(vs, v)
    BY <1>0, <1>2 DEF With
  <2> HIDE DEF ws
  <2>2. ws \in Seq(Index) /\ Len(ws) = n + 1 /\ ws[n + 1] = v /\ \A i \in 1..n : ws[i] = vs[i]
    BY <1>0, <1>1, <2>1, Enqueue
  <2>3. Distinct(ws)
    <3> SUFFICES ASSUME NEW i \in 1..n + 1, NEW j \in 1..n + 1, ws[i] = ws[j] PROVE i = j
      BY <2>2 DEF Distinct
    <3>1. \A k \in 1..n : vs[k] # v
      BY <1>0, <1>2
    <3>2. CASE i \in 1..n /\ j \in 1..n
      BY <1>0, <2>2, <3>2 DEF Distinct
    <3>3. CASE i = n + 1 \/ j = n + 1
      BY <2>2, <3>1, <3>3
    <3> QED
      BY <3>2, <3>3
  <2>4. \A i \in 1..n + 1 : ws[i] \in VerticesOf(l)
    BY <1>0, <2>2
  <2>5. ws \in Seq(VerticesOf(l))
    <3>1. ws \in [1..n + 1 -> Index]
      BY <2>2, LenProperties
    <3>2. ws \in [1..n + 1 -> VerticesOf(l)]
      BY <2>4, <3>1
    <3> QED
      BY <3>2, SeqDef
  <2>6. Len(ws) <= ByteValues
    BY <2>3, <2>5, VerticesFit
  <2> QED
    <3>1. pos \in 0..Len(ws) - 1 /\ Len(ws) >= n /\ ws[pos + 1] = v
      BY <1>0, <1>2, <2>2
    <3>2. \A i \in 1..Len(ws) : ws[i] \in VerticesOf(l) /\ (i <= n \/ i = pos + 1)
      BY <1>0, <1>2, <2>2, <2>4
    <3>3. HasVertex(l, vs, ws, v, pos)
      BY <1>0, <2>2, <2>3, <2>6, <3>1, <3>2
    <3> QED
      BY <3>3 DEF ws
<1>3. CASE pos # n
  <2>1. ws = vs /\ pos < n /\ vs[pos + 1] = v
    BY <1>0, <1>3 DEF With
  <2>2. vs \in Seq(VerticesOf(l))
    <3>1. vs \in [1..n -> Index]
      BY <1>0, LenProperties
    <3>2. vs \in [1..n -> VerticesOf(l)]
      BY <1>0, <3>1
    <3> QED
      BY <3>2, SeqDef
  <2>3. Len(vs) <= ByteValues
    BY <2>2, VerticesFit
  <2> QED
    BY <1>0, <1>3, <2>1, <2>3
<1> QED
  BY <1>2, <1>3

LEMMA GrowCache ==
  ASSUME NEW l, NEW c, NEW vs, NEW ws, NEW v, NEW pos, HasVertex(l, vs, ws, v, pos), CacheFits(c, vs),
         vs \in Seq(Index), v \in Nat
  PROVE  CacheFits([c EXCEPT ![v % CacheSize] = pos], ws)
<1>0. PICK n \in Nat : n = Len(vs)
  BY LenProperties
<1>1. PICK m \in Nat : m = Len(ws) /\ n <= m /\ pos \in 0..m - 1
  BY <1>0 DEF HasVertex
<1>2. PICK key \in 0..CacheSize - 1 : key = v % CacheSize
  BY Constants
<1> DEFINE d == [c EXCEPT ![key] = pos]
<1>3. d \in [0..CacheSize - 1 -> -1..m - 1]
  <2>1. c \in [0..CacheSize - 1 -> -1..n - 1]
    BY <1>0 DEF CacheFits
  <2> QED
    BY <1>1, <1>2, <2>1
<1>4. ASSUME NEW k \in 0..CacheSize - 1, d[k] = -1, NEW i \in 1..m
      PROVE  ws[i] % CacheSize # k
  <2>1. k # key /\ c[k] = -1
    <3>1. c \in [0..CacheSize - 1 -> -1..n - 1]
      BY <1>0 DEF CacheFits
    <3> QED
      BY <1>1, <1>2, <1>4, <3>1
  <2>2. CASE i <= n
    <3>1. vs[i] % CacheSize # k
      BY <1>0, <2>1, <2>2 DEF Known, CacheFits
    <3>2. ws[i] = vs[i]
      BY <1>0, <2>2 DEF HasVertex
    <3> QED
      BY <3>1, <3>2
  <2>3. CASE i = pos + 1
    BY <1>2, <2>1, <2>3 DEF HasVertex
  <2>4. i <= n \/ i = pos + 1
    BY <1>0, <1>1 DEF HasVertex
  <2> QED
    BY <2>2, <2>3, <2>4
<1> QED
  BY <1>1, <1>2, <1>3, <1>4 DEF Known, CacheFits

LEMMA ExtractStep ==
  ASSUME OptimizerInv, ExtractCorner
  PROVE  OptimizerInv'
<1> DEFINE j == at \div 3 + 1
           k == (at % 3) + 1
           v == list[j][k]
           key == v % CacheSize
           pos == Position(v, cache[key])
<1>0. PICK n \in Nat : n = Len(vertices)
  BY LenProperties DEF OptimizerInv, FewVertices
<1>1. /\ work = "extract" /\ at \in Nat /\ at < 3 * Len(list) /\ list \in Lists /\ level \in 0..9
      /\ vertices \in Seq(Index) /\ Extracting
      /\ work' = work /\ list' = list /\ level' = level /\ at' = at + 1
  BY DEF OptimizerInv, ExtractCorner, FewVertices
<1>2. /\ j \in 1..Len(list) /\ k \in 1..3 /\ at = 3 * (j - 1) + (k - 1) /\ j \in Nat \ {0}
      /\ Len(list) \in Nat
  BY <1>1, ListType
<1>3. v \in Nat /\ v \in VerticesOf(list)
  <2>1. list[j] \in [1..3 -> Nat] /\ \A i \in 1..3 : list[j][i] \in VerticesOf(list)
    BY <1>1, <1>2, ListType
  <2> QED
    BY <1>2, <2>1
<1>4. /\ vertices' = (IF pos = n THEN Append(vertices, v) ELSE vertices)
      /\ cache' = [cache EXCEPT ![key] = pos]
      /\ triangles' = (IF k = 1 THEN Append(triangles, <<pos>>)
                       ELSE [triangles EXCEPT ![Len(triangles)] = Append(@, pos)])
  <2>1. Corner(list[at \div 3 + 1], at + 1) = v
    <3>1. (((at + 1) - 1) % 3) + 1 = k
      BY <1>1
    <3> QED
      BY <3>1 DEF Corner
  <2>2. at % 3 = 0 <=> k = 1
    BY <1>1
  <2> HIDE DEF k, j
  <2> QED
    BY <1>0, <2>1, <2>2 DEF ExtractCorner
<1> HIDE DEF j, k, v
<1>5. key \in 0..CacheSize - 1
  BY <1>3, Constants
<1>6. CacheFits(cache, vertices) /\ Distinct(vertices)
      /\ \A i \in 1..n : vertices[i] \in VerticesOf(list)
  BY <1>0, <1>1 DEF Extracting
<1>7. cache[key] \in -1..n - 1 /\ (cache[key] = -1 => \A i \in 1..n : vertices[i] # v)
  <2>1. cache[key] \in -1..n - 1
    BY <1>0, <1>5, <1>6 DEF CacheFits
  <2>2. cache[key] = -1 => \A i \in 1..n : vertices[i] % CacheSize # key
    BY <1>0, <1>5, <1>6 DEF CacheFits, Known
  <2> QED
    BY <2>1, <2>2
<1> HIDE DEF key
<1>8. vertices \in Seq(Nat)
  <2>1. Index \subseteq Nat
    BY DEF Index
  <2> QED
    BY <1>1, <2>1, SeqMonotonic
<1>9. /\ pos \in 0..n
      /\ pos < n => vertices[pos + 1] = v
      /\ pos = n => \A i \in 1..n : vertices[i] # v
  BY <1>0, <1>3, <1>7, <1>8, PositionCorrect
<1> HIDE DEF pos
<1>a. HasVertex(list, vertices, vertices', v, pos)
  <2>1. Suits(list, vertices, v, pos)
    BY <1>0, <1>1, <1>3, <1>6, <1>9 DEF Suits
  <2>2. vertices' = With(vertices, v, pos)
    BY <1>0, <1>4 DEF With
  <2>3. HasVertex(list, vertices, With(vertices, v, pos), v, pos)
    BY <2>1, GrowVertices
  <2> QED
    BY <2>2, <2>3
<1>10. /\ vertices' \in Seq(Index) /\ Len(vertices') \in Nat /\ Len(vertices') >= n /\ Len(vertices') <= ByteValues
       /\ pos \in 0..Len(vertices') - 1 /\ vertices'[pos + 1] = v
       /\ \A i \in 1..n : vertices'[i] = vertices[i]
       /\ Distinct(vertices')
       /\ \A i \in 1..Len(vertices') : vertices'[i] \in VerticesOf(list)
       /\ \A i \in 1..Len(vertices') : i <= n \/ i = pos + 1
  BY <1>0, <1>a DEF HasVertex
<1>11. PICK m \in Nat : m = Len(vertices') /\ n <= m
  BY <1>10
<1>12. CacheFits(cache', vertices')
  <2>1. CacheFits([cache EXCEPT ![v % CacheSize] = pos], vertices')
    BY <1>1, <1>3, <1>6, <1>a, GrowCache
  <2> QED
    BY <1>4, <2>1 DEF key
<1> DEFINE L == 0..m - 1
<1>13. /\ triangles \in Seq(Seq(0..n - 1))
       /\ Len(triangles) = (at + 2) \div 3
       /\ \A i \in 1..Len(triangles) : Len(triangles[i]) = Smaller(3, at - 3 * (i - 1))
       /\ StandFor(triangles, vertices)
       /\ AllUsed(triangles, n)
  BY <1>0, <1>1 DEF Extracting, Locals
<1>14. Len(triangles) = (IF k = 1 THEN j - 1 ELSE j)
  <2>1. j \in Nat \ {0} /\ k \in 1..3 /\ at = 3 * (j - 1) + (k - 1)
    BY <1>2
  <2>2. (at + 2) \div 3 = (IF k = 1 THEN j - 1 ELSE j)
    <3> HIDE DEF j, k
    <3>1. k = 1 \/ k = 2 \/ k = 3
      BY <2>1
    <3> QED
      BY <2>1, <3>1
  <2>3. Len(triangles) = (at + 2) \div 3
    BY <1>13
  <2> QED
    BY <2>2, <2>3
<1>15. k # 1 => Len(triangles[j]) = k - 1
  <2>1. k # 1 => Len(triangles[j]) = Smaller(3, at - 3 * (j - 1))
    BY <1>2, <1>13, <1>14
  <2>2. Smaller(3, at - 3 * (j - 1)) = k - 1
    BY <1>2 DEF Smaller
  <2> QED
    BY <2>1, <2>2
<1>16. triangles' \in Seq(Seq(L)) /\ Grown(triangles, triangles', j, k, pos)
  <2>1. triangles \in Seq(Seq(L))
    BY <1>11, <1>13, LargerSeqs
  <2>2. pos \in L
    BY <1>10, <1>11
  <2> HIDE DEF L
  <2> QED
    BY <1>2, <1>4, <1>14, <1>15, <2>1, <2>2, GrowTriangles
<1>17. /\ Len(triangles') = j /\ Len(triangles'[j]) = k /\ triangles'[j][k] = pos
       /\ \A i \in 1..j - 1 : triangles'[i] = triangles[i]
       /\ \A i \in 1..k - 1 : triangles'[j][i] = triangles[j][i]
  BY <1>16 DEF Grown
<1>18. Len(triangles') = (at' + 2) \div 3 /\ at' <= 3 * Len(list)
  <2>1. at' = at + 1 /\ Len(triangles') = j
    BY <1>1, <1>17
  <2>2. j = (at + 3) \div 3 /\ at + 1 <= 3 * Len(list)
    BY <1>1, <1>2
  <2>3. at' + 2 = at + 3
    BY <1>1, <2>1
  <2> QED
    BY <2>1, <2>2, <2>3
<1>19. \A i \in 1..Len(triangles') : Len(triangles'[i]) = Smaller(3, at' - 3 * (i - 1))
  <2> SUFFICES ASSUME NEW i \in 1..j PROVE Len(triangles'[i]) = Smaller(3, at' - 3 * (i - 1))
    BY <1>17
  <2>1. CASE i = j
    <3>1. Len(triangles'[i]) = k
      BY <1>17, <2>1
    <3>2. at' - 3 * (i - 1) = k
      BY <1>1, <1>2, <2>1
    <3>3. k \in 1..3
      BY <1>2
    <3>4. Smaller(3, k) = k
      BY <3>3 DEF Smaller
    <3> QED
      BY <3>1, <3>2, <3>4
  <2>2. CASE i < j
    <3>1. Len(triangles[i]) = Smaller(3, at - 3 * (i - 1)) /\ triangles'[i] = triangles[i]
      <4>1. i \in 1..Len(triangles) /\ i \in 1..j - 1
        BY <1>2, <1>14, <2>2
      <4> QED
        BY <1>13, <1>17, <4>1
    <3>2. Smaller(3, at - 3 * (i - 1)) = 3 /\ Smaller(3, at' - 3 * (i - 1)) = 3
      BY <1>1, <1>2, <2>2 DEF Smaller
    <3> QED
      BY <3>1, <3>2
  <2>3. i = j \/ i < j
    BY <1>2
  <2> QED
    BY <2>1, <2>2, <2>3
<1>20. StandFor(triangles, vertices)' 
  <2> SUFFICES ASSUME NEW i \in 1..j, NEW c \in 1..Len(triangles'[i])
               PROVE  vertices'[triangles'[i][c] + 1] = list[i][c]
    BY <1>1, <1>17 DEF StandFor
  <2>1. CASE i = j /\ c = k
    BY <1>10, <1>17, <2>1 DEF v
  <2>2. CASE i < j \/ (i = j /\ c < k)
    <3>1. i \in 1..Len(triangles) /\ c \in 1..Len(triangles[i]) /\ triangles'[i][c] = triangles[i][c]
      <4>1. CASE i < j
        BY <1>2, <1>14, <1>17, <4>1
      <4>2. CASE i = j /\ c < k
        BY <1>2, <1>14, <1>15, <1>17, <4>2
      <4> QED
        BY <2>2, <4>1, <4>2
    <3>2. triangles[i][c] \in 0..n - 1
      <4>1. triangles[i] \in Seq(0..n - 1)
        BY <1>13, <3>1, ElementOfSeq
      <4> QED
        BY <3>1, <4>1, ElementOfSeq
    <3>3. vertices[triangles[i][c] + 1] = list[i][c]
      BY <1>13, <3>1 DEF StandFor
    <3> QED
      BY <1>10, <3>1, <3>2, <3>3
  <2>3. (i = j /\ c = k) \/ i < j \/ (i = j /\ c < k)
    BY <1>2, <1>17
  <2> QED
    BY <2>1, <2>2, <2>3
<1>21. AllUsed(triangles', m)
  <2> SUFFICES ASSUME NEW u \in 0..m - 1
               PROVE  \E i \in 1..j : \E c \in 1..Len(triangles'[i]) : triangles'[i][c] = u
    BY <1>17 DEF AllUsed
  <2>1. CASE u = pos
    BY <1>2, <1>17, <2>1
  <2>2. CASE u < n
    <3>0. u \in 0..n - 1
      BY <2>2
    <3>a. PICK i \in 1..Len(triangles) : \E c \in 1..Len(triangles[i]) : triangles[i][c] = u
      <4>1. \A w \in 0..n - 1 : \E i \in 1..Len(triangles) : \E c \in 1..Len(triangles[i]) : triangles[i][c] = w
        BY <1>13 DEF AllUsed
      <4> QED
        BY <3>0, <4>1
    <3>1. PICK c \in 1..Len(triangles[i]) : triangles[i][c] = u
      BY <3>a
    <3>2. i \in 1..j /\ c \in 1..Len(triangles'[i]) /\ triangles'[i][c] = triangles[i][c]
      <4>1. CASE i < j
        BY <1>2, <1>14, <1>17, <3>1, <4>1
      <4>2. CASE i = j
        BY <1>2, <1>14, <1>15, <1>17, <3>1, <4>2
      <4> QED
        BY <1>2, <1>14, <4>1, <4>2
    <3> QED
      BY <3>1, <3>2
  <2>3. u < n \/ u = pos
    BY <1>0, <1>10, <1>11
  <2> QED
    BY <2>1, <2>2, <2>3
<1>22. Locals' = L
  BY <1>11 DEF Locals
<1>23. Extracting'
  BY <1>1, <1>10, <1>11, <1>12, <1>16, <1>18, <1>19, <1>20, <1>21, <1>22 DEF Extracting
<1> QED
  BY <1>1, <1>10, <1>23 DEF OptimizerInv, FewVertices

-----------------------------------------------------------------------------
(* Reordering and rotation *)

LEMMA WholeLen ==
  ASSUME Whole
  PROVE  /\ Len(triangles) \in Nat /\ DOMAIN triangles = 1..Len(triangles)
         /\ \A j \in 1..Len(triangles) : triangles[j] \in [1..3 -> Locals]
  BY LenProperties, ElementOfSeq DEF Whole

\* A number of corners.
LEMMA CornersCount == \A P \in SUBSET (1..3) : Cardinality(P) \in Nat
<1>1. IsFiniteSet(1..3)
  <2>1. 3 \in Nat
    OBVIOUS
  <2> QED
    BY <2>1, Indices
<1> QED
  BY <1>1, FS_Subset, FS_CardinalityType

LEMMA StartOrderStep ==
  ASSUME OptimizerInv, StartOrder
  PROVE  OptimizerInv' /\ Extracting /\ at = 3 * Len(list)
<1>1. /\ work = "extract" /\ at = 3 * Len(list) /\ work' = "order" /\ at' = 0
      /\ UNCHANGED <<list, level, vertices, triangles>>
      /\ cache' = [v \in Locals |-> 0]
      /\ list \in Lists /\ level \in 0..9 /\ FewVertices /\ Extracting
  BY DEF OptimizerInv, StartOrder
<1>2. Len(list) \in Nat
  BY <1>1, ListType
<1>3. /\ triangles \in Seq(Seq(Locals)) /\ Len(triangles) = Len(list)
      /\ \A j \in 1..Len(triangles) : Len(triangles[j]) = 3
  <2>1. Len(triangles) = Len(list) /\ triangles \in Seq(Seq(Locals))
    BY <1>1, <1>2 DEF Extracting
  <2>2. \A j \in 1..Len(triangles) : Len(triangles[j]) = Smaller(3, at - 3 * (j - 1))
    BY <1>1 DEF Extracting
  <2>3. \A j \in 1..Len(triangles) : Smaller(3, at - 3 * (j - 1)) = 3
    <3> SUFFICES ASSUME NEW j \in 1..Len(triangles) PROVE Smaller(3, at - 3 * (j - 1)) = 3
      OBVIOUS
    <3>1. PICK n \in Nat : n = Len(list) /\ at = 3 * n /\ j \in 1..n
      BY <1>1, <1>2, <2>1
    <3>2. ~ (3 < 3 * n - 3 * (j - 1)) => 3 * n - 3 * (j - 1) = 3
      BY <3>1
    <3> QED
      BY <3>1, <3>2 DEF Smaller
  <2> QED
    BY <2>1, <2>2, <2>3
<1>4. Whole
  <2>1. ASSUME NEW j \in 1..Len(triangles) PROVE triangles[j] \in [1..3 -> Locals]
    <3>1. triangles[j] \in Seq(Locals)
      BY <1>3, ElementOfSeq
    <3>2. triangles[j] \in [1..Len(triangles[j]) -> Locals]
      BY <3>1, LenProperties
    <3> QED
      BY <1>3, <3>2
  <2>2. triangles \in [1..Len(triangles) -> [1..3 -> Locals]]
    <3>1. triangles \in [1..Len(triangles) -> Seq(Locals)]
      BY <1>3, LenProperties
    <3> QED
      BY <2>1, <3>1
  <2>3. Len(triangles) \in Nat
    BY <1>2, <1>3
  <2> QED
    BY <2>2, <2>3, SeqDef DEF Whole
<1>5. Locals' = Locals /\ Len(triangles) \in Nat
  BY <1>1, <1>2, <1>3 DEF Locals
<1>6. cache' \in [Locals' -> 0..Ticks - 1]
  BY <1>1, <1>5, Constants
<1>7. valence' \in [Locals' -> 0..Ticks - 1]
  <2> DEFINE Corners == (DOMAIN triangles) \X (1..3)
             Uses(v) == {p \in Corners : triangles[p[1]][p[2]] = v}
  <2>1. IsFiniteSet(Corners)
    <3>1. IsFiniteSet(DOMAIN triangles) /\ IsFiniteSet(1..3)
      BY <1>4, <1>5, WholeLen, Indices, FS_Interval
    <3> QED
      BY <3>1, FS_Product
  <2>2. \A v : Cardinality(Uses(v)) \in Nat
    <3>1. \A v : Uses(v) \in SUBSET Corners
      OBVIOUS
    <3> HIDE DEF Uses, Corners
    <3> QED
      BY <2>1, <3>1, FS_Subset, FS_CardinalityType
  <2>3. valence' = [v \in Locals |-> Cardinality(Uses(v)) % Ticks]
    BY DEF StartOrder
  <2>4. \A v \in Locals : Cardinality(Uses(v)) % Ticks \in 0..Ticks - 1
    <3> HIDE DEF Uses
    <3> QED
      BY <2>2, Constants
  <2> HIDE DEF Uses
  <2> QED
    BY <1>5, <2>3, <2>4
<1>8. Whole'
  BY <1>1, <1>4, <1>5 DEF Whole
<1>9. FewVertices'
  BY <1>1 DEF FewVertices
<1> QED
  BY <1>1, <1>5, <1>6, <1>7, <1>8, <1>9 DEF OptimizerInv

\* One of finitely many numbers is the largest.
LEMMA LargestValue ==
  ASSUME NEW S, IsFiniteSet(S), S # {}, NEW f, \A x \in S : f[x] \in Int
  PROVE  \E x \in S : \A y \in S : f[y] <= f[x]
<1> DEFINE T == {U \in SUBSET S : U # {} => \E x \in U : \A y \in U : f[y] <= f[x]}
<1>1. {} \in T
  OBVIOUS
<1>2. ASSUME NEW U \in SUBSET S, NEW x \in S, U \in T, x \notin U PROVE U \cup {x} \in T
  <2>1. CASE U = {}
    BY <2>1
  <2>2. CASE U # {}
    <3>1. PICK z \in U : \A y \in U : f[y] <= f[z]
      BY <1>2, <2>2
    <3>2. CASE f[x] <= f[z]
      BY <3>1, <3>2
    <3>3. CASE ~ (f[x] <= f[z])
      <4>1. \A y \in U : f[y] <= f[x]
        BY <3>1, <3>3
      <4> QED
        BY <4>1
    <3> QED
      BY <3>2, <3>3
  <2> QED
    BY <2>1, <2>2
<1> HIDE DEF T
<1>3. SUBSET S \subseteq T
  BY <1>1, <1>2, SubsetInduction
<1> QED
  BY <1>3 DEF T

LEMMA ScoreType ==
  ASSUME cache \in [Locals -> 0..Ticks - 1], valence \in [Locals -> 0..Ticks - 1], at \in Nat,
         NEW t \in [1..3 -> Locals], vertices \in Seq(Index)
  PROVE  Score(t) \in Int
<1>1. \A n \in 1..3 : Ago(t, n) \in Nat
  <2> SUFFICES ASSUME NEW n \in 1..3 PROVE Ago(t, n) \in Nat
    OBVIOUS
  <2>1. Corner(t, n) \in Locals
    <3>1. ((n - 1) % 3) + 1 \in 1..3
      OBVIOUS
    <3> QED
      BY <3>1 DEF Corner
  <2>2. cache[Corner(t, n)] \in Int /\ Ticks \in Nat \ {0} /\ Ticks \div 2 \in Int
    BY <2>1, Constants
  <2> QED
    <3>1. PICK x \in Int : x = Ticks \div 2 + at - cache[Corner(t, n)]
      <4>1. PICK a \in Int, b \in Int : a = Ticks \div 2 /\ b = cache[Corner(t, n)]
        BY <2>2
      <4>2. a + at - b \in Int
        OBVIOUS
      <4> QED
        BY <4>1, <4>2
    <3>2. x % Ticks \in Nat
      BY <2>2, ModType
    <3> QED
      BY <3>1, <3>2 DEF Ago
<1>2. Match(t) \in Nat
  <2>1. {n \in 1..3 : Ago(t, n) < Cutoff} \in SUBSET (1..3)
    OBVIOUS
  <2> QED
    BY <2>1, CornersCount DEF Match
<1>3. Min({valence[v] : v \in ToSet(t)}) \in Nat
  <2>1. ToSet(t) = {t[1], t[2], t[3]} /\ t[1] \in Locals
    BY DEF ToSet
  <2>2. {valence[v] : v \in ToSet(t)} # {} /\ {valence[v] : v \in ToSet(t)} \subseteq Nat
    BY <2>1
  <2> QED
    BY <2>2, MinIs
<1>4. CASE level = 0
  BY <1>2, <1>4 DEF Score
<1>5. CASE level # 0
  <2> DEFINE m == Match(t)
             a == Ago(t, 1)
             b == Ago(t, 2)
             c == Ago(t, 3)
             w == Min({valence[v] : v \in ToSet(t)})
  <2>1. m \in Nat /\ a \in Nat /\ b \in Nat /\ c \in Nat /\ w \in Nat
    BY <1>1, <1>2, <1>3
  <2>3. Score(t) = (m * 4 * Ticks + 4 * Ticks - 1 - (a + b + c)) * Ticks + Ticks - 1 - w
    BY <1>5 DEF Score
  <2> HIDE DEF m, a, b, c, w
  <2>2. (m * 4 * Ticks + 4 * Ticks - 1 - (a + b + c)) * Ticks + Ticks - 1 - w \in Int
    BY <2>1, Constants
  <2> QED
    BY <2>2, <2>3
<1> QED
  BY <1>4, <1>5

LEMMA ChosenType ==
  ASSUME OptimizerInv, work = "order", at < Len(triangles)
  PROVE  Chosen \in at + 1..Len(triangles)
<1>1. /\ Whole /\ at \in Nat /\ vertices \in Seq(Index) /\ level \in 0..9
      /\ cache \in [Locals -> 0..Ticks - 1] /\ valence \in [Locals -> 0..Ticks - 1]
  BY DEF OptimizerInv, FewVertices
<1>2. PICK n \in Nat : n = Len(triangles) /\ at < n /\ \A j \in 1..n : triangles[j] \in [1..3 -> Locals]
  BY <1>1, WholeLen
<1>3. Candidates \subseteq at + 1..n
  BY <1>2 DEF Candidates
<1>4. at + 1 \in Candidates
  <2>1. {i \in at + 1..(at + 1) - 1 : Match(triangles[i]) >= 2} = {}
    BY <1>1
  <2>a. Cardinality({i \in at + 1..(at + 1) - 1 : Match(triangles[i]) >= 2}) = 0
    BY <2>1, FS_EmptySet
  <2>2. Cardinality({i \in at + 1..(at + 1) - 1 : Match(triangles[i]) >= 2}) < IF level = 0 THEN 1 ELSE level
    BY <1>1, <2>a
  <2>3. at + 1 \in at + 1..n
    BY <1>1, <1>2
  <2> QED
    BY <1>2, <2>2, <2>3 DEF Candidates
<1> DEFINE f == [j \in Candidates |-> Score(triangles[j])]
           best == {j \in Candidates : \A i \in Candidates : Score(triangles[i]) <= Score(triangles[j])}
<1>5. \A j \in Candidates : f[j] \in Int
  <2>1. \A j \in Candidates : Score(triangles[j]) \in Int
    BY <1>1, <1>2, <1>3, ScoreType
  <2> QED
    BY <2>1
<1>6. IsFiniteSet(Candidates)
  <2>1. IsFiniteSet(at + 1..n)
    BY <1>1, FS_Interval
  <2> QED
    BY <1>3, <2>1, FS_Subset
<1>7. PICK j \in Candidates : \A i \in Candidates : f[i] <= f[j]
  <2> HIDE DEF f
  <2> QED
    BY <1>4, <1>5, <1>6, LargestValue
<1>8. j \in best
  BY <1>7
<1>9. best \subseteq Nat /\ best # {}
  <2>1. best \subseteq Candidates
    OBVIOUS
  <2>2. Candidates \subseteq Nat
    BY <1>1, <1>3
  <2> QED
    BY <1>8, <2>1, <2>2
<1>10. Min(best) \in best
  <2> HIDE DEF best
  <2> QED
    BY <1>9, MinIs
<1>11. Chosen = Min(best)
  BY DEF Chosen
<1> QED
  BY <1>2, <1>3, <1>10, <1>11

\* The triangle that comes to place n when triangle j is moved.
From(j, n) == IF n = at + 1 THEN j ELSE IF n \in at + 2..j THEN n - 1 ELSE n

LEMMA MovedIs ==
  ASSUME Whole, at \in Nat, NEW j \in at + 1..Len(triangles)
  PROVE  /\ Moved(j) \in Seq([1..3 -> Locals]) /\ Len(Moved(j)) = Len(triangles)
         /\ \A n \in 1..Len(triangles) : From(j, n) \in 1..Len(triangles) /\ Moved(j)[n] = triangles[From(j, n)]
<1>1. PICK m \in Nat : /\ m = Len(triangles) /\ DOMAIN triangles = 1..m
                       /\ \A n \in 1..m : triangles[n] \in [1..3 -> Locals]
  BY WholeLen
<1>2. \A n \in 1..m : From(j, n) \in 1..m
  BY <1>1 DEF From
<1>3. \A n \in 1..m : Moved(j)[n] = triangles[From(j, n)]
  BY <1>1 DEF Moved, From
<1>4. Moved(j) \in [1..m -> [1..3 -> Locals]]
  <2>1. DOMAIN Moved(j) = 1..m /\ Moved(j) = [n \in 1..m |-> Moved(j)[n]]
    BY <1>1 DEF Moved
  <2>2. \A n \in 1..m : Moved(j)[n] \in [1..3 -> Locals]
    BY <1>1, <1>2, <1>3
  <2> QED
    BY <2>1, <2>2
<1>5. Moved(j) \in Seq([1..3 -> Locals]) /\ Len(Moved(j)) = m
  <2>1. Moved(j) \in Seq([1..3 -> Locals])
    BY <1>4, SeqDef
  <2>2. DOMAIN Moved(j) = 1..m
    BY <1>4
  <2>3. DOMAIN Moved(j) = 1..Len(Moved(j)) /\ Len(Moved(j)) \in Nat
    BY <2>1, LenProperties
  <2>4. PICK l \in Nat : l = Len(Moved(j)) /\ 1..l = 1..m
    BY <2>2, <2>3
  <2> QED
    BY <2>1, <2>4
<1> QED
  BY <1>1, <1>2, <1>3, <1>5

LEMMA OrderStep ==
  ASSUME OptimizerInv, OrderTriangle
  PROVE  OptimizerInv' /\ Chosen \in at + 1..Len(triangles) /\ triangles' = Moved(Chosen)
<1>1. /\ work = "order" /\ work' = "order" /\ at' = at + 1 /\ at < Len(triangles)
      /\ UNCHANGED <<list, level, vertices>>
      /\ list \in Lists /\ level \in 0..9 /\ FewVertices /\ Whole /\ at \in Nat
      /\ cache \in [Locals -> 0..Ticks - 1] /\ valence \in [Locals -> 0..Ticks - 1]
      /\ triangles' = Moved(Chosen)
  BY DEF OptimizerInv, OrderTriangle
<1>2. Chosen \in at + 1..Len(triangles)
  BY <1>1, ChosenType
<1>3. triangles' \in Seq([1..3 -> Locals]) /\ Len(triangles') = Len(triangles) /\ Len(triangles) \in Nat
  BY <1>1, <1>2, MovedIs, WholeLen
<1>4. Locals' = Locals
  BY <1>1 DEF Locals
<1>5. Whole' /\ at' <= Len(triangles') /\ at' \in Nat
  BY <1>1, <1>3, <1>4 DEF Whole
<1> DEFINE t == triangles[Chosen]
<1>6. cache' \in [Locals' -> 0..Ticks - 1]
  <2>1. cache' = [v \in Locals |-> IF v \in ToSet(t) THEN (Ticks \div 2 + at + 1) % Ticks ELSE cache[v]]
    BY <1>1 DEF OrderTriangle
  <2>2. (Ticks \div 2 + at + 1) % Ticks \in 0..Ticks - 1
    <3>1. Ticks \div 2 + at + 1 \in Int /\ Ticks \in Nat \ {0}
      BY <1>1, Constants
    <3> QED
      BY <3>1, ModType
  <2> HIDE DEF t
  <2> QED
    BY <1>1, <1>4, <2>1, <2>2
<1>7. valence' \in [Locals' -> 0..Ticks - 1]
  <2>1. valence' = [v \in Locals |-> (valence[v] - Needed(t)[v] + Ticks) % Ticks]
    BY <1>1 DEF OrderTriangle
  <2>2. \A v \in Locals : Needed(t)[v] \in Nat
    <3>1. \A v \in Locals : Needed(t)[v] = Cardinality({n \in 1..3 : t[n] = v})
      BY <1>1 DEF Needed
    <3>2. \A v : {n \in 1..3 : t[n] = v} \in SUBSET (1..3)
      OBVIOUS
    <3> HIDE DEF t
    <3> QED
      BY <3>1, <3>2, CornersCount
  <2> HIDE DEF t
  <2>3. \A v \in Locals : (valence[v] - Needed(t)[v] + Ticks) % Ticks \in 0..Ticks - 1
    <3> SUFFICES ASSUME NEW v \in Locals PROVE (valence[v] - Needed(t)[v] + Ticks) % Ticks \in 0..Ticks - 1
      OBVIOUS
    <3>1. valence[v] - Needed(t)[v] + Ticks \in Int /\ Ticks \in Nat \ {0}
      BY <1>1, <2>2, Constants
    <3> QED
      BY <3>1, ModType
  <2> QED
    BY <1>4, <2>1, <2>3
<1>8. FewVertices'
  BY <1>1 DEF FewVertices
<1> QED
  BY <1>1, <1>2, <1>5, <1>6, <1>7, <1>8 DEF OptimizerInv

LEMMA StartRotateStep ==
  ASSUME OptimizerInv, StartRotate
  PROVE  OptimizerInv'
<1>1. /\ work = "order" /\ work' \in {"rotate", "renumber"}
      /\ UNCHANGED <<list, level, vertices, triangles>>
      /\ work' = "rotate" => at' = 0 /\ cache' = [v \in Locals |-> 0]
      /\ at' \in Nat
      /\ list \in Lists /\ level \in 0..9 /\ FewVertices /\ Whole
  BY DEF OptimizerInv, StartRotate
<1>2. Locals' = Locals /\ Len(triangles) \in Nat
  BY <1>1, WholeLen DEF Locals
<1>3. Whole' /\ FewVertices'
  BY <1>1, <1>2 DEF Whole, FewVertices
<1>4. work' = "rotate" => at' <= Len(triangles') /\ cache' \in [Locals' -> {0, 1}]
  BY <1>1, <1>2
<1> QED
  BY <1>1, <1>3, <1>4 DEF OptimizerInv

LEMMA TurnIs ==
  ASSUME NEW L, NEW t \in [1..3 -> L]
  PROVE  /\ Turn(t, 0) = t /\ Turn(t, 0) \in [1..3 -> L]
         /\ Turn(t, 1) \in [1..3 -> L] /\ Turn(t, 1)[1] = t[2] /\ Turn(t, 1)[2] = t[3] /\ Turn(t, 1)[3] = t[1]
         /\ Turn(t, 2) \in [1..3 -> L] /\ Turn(t, 2)[1] = t[3] /\ Turn(t, 2)[2] = t[1] /\ Turn(t, 2)[3] = t[2]
<1>1. /\ Corner(t, 1) = t[1] /\ Corner(t, 2) = t[2] /\ Corner(t, 3) = t[3]
      /\ Corner(t, 4) = t[1] /\ Corner(t, 5) = t[2]
  BY DEF Corner
<1>2. \A n \in 1..3 : n = 1 \/ n = 2 \/ n = 3
  OBVIOUS
<1>3. \A n \in 1..3 : Turn(t, 0)[n] = t[n]
  BY <1>1, <1>2 DEF Turn
<1>4. Turn(t, 0) = t
  <2>1. Turn(t, 0) = [n \in 1..3 |-> Turn(t, 0)[n]] /\ t = [n \in 1..3 |-> t[n]]
    BY DEF Turn
  <2> QED
    BY <1>3, <2>1
<1>5. Turn(t, 1)[1] = t[2] /\ Turn(t, 1)[2] = t[3] /\ Turn(t, 1)[3] = t[1]
  BY <1>1 DEF Turn
<1>6. Turn(t, 2)[1] = t[3] /\ Turn(t, 2)[2] = t[1] /\ Turn(t, 2)[3] = t[2]
  BY <1>1 DEF Turn
<1>7. Turn(t, 1) \in [1..3 -> L] /\ Turn(t, 2) \in [1..3 -> L]
  <2>1. Turn(t, 1) = [n \in 1..3 |-> Turn(t, 1)[n]] /\ Turn(t, 2) = [n \in 1..3 |-> Turn(t, 2)[n]]
    BY DEF Turn
  <2>2. \A n \in 1..3 : Turn(t, 1)[n] \in L /\ Turn(t, 2)[n] \in L
    BY <1>2, <1>5, <1>6
  <2> QED
    BY <2>1, <2>2
<1> QED
  BY <1>4, <1>5, <1>6, <1>7

\* A rotated triangle is a turned one.
LEMMA RotationIs == \A t : Rotation(t) \in {t, Turn(t, 1), Turn(t, 2)}
  BY DEF Rotation

LEMMA RotateStep ==
  ASSUME OptimizerInv, RotateTriangle
  PROVE  /\ OptimizerInv'
         /\ Len(triangles') = Len(triangles) /\ at + 1 \in 1..Len(triangles)
         /\ \A j \in 1..Len(triangles) :
              triangles'[j] = IF j = at + 1 THEN Rotation(triangles[j]) ELSE triangles[j]
<1>1. /\ work = "rotate" /\ work' = "rotate" /\ at' = at + 1 /\ at < Len(triangles)
      /\ UNCHANGED <<list, level, vertices>>
      /\ list \in Lists /\ level \in 0..9 /\ FewVertices /\ Whole /\ at \in Nat
      /\ cache \in [Locals -> {0, 1}]
      /\ triangles' = [triangles EXCEPT ![at + 1] = Rotation(@)]
      /\ cache' = [v \in DOMAIN cache |-> IF v \in ToSet(triangles[at + 1]) THEN 1 ELSE cache[v]]
  BY DEF OptimizerInv, RotateTriangle
<1>2. PICK m \in Nat : m = Len(triangles) /\ \A n \in 1..m : triangles[n] \in [1..3 -> Locals]
  BY <1>1, WholeLen
<1>3. PICK r \in [1..3 -> Locals] : r = Rotation(triangles[at + 1])
  <2>1. at + 1 \in 1..m
    BY <1>1, <1>2
  <2>2. PICK t \in [1..3 -> Locals] : t = triangles[at + 1]
    BY <1>2, <2>1
  <2>3. Rotation(t) \in [1..3 -> Locals]
    BY RotationIs, TurnIs
  <2> QED
    BY <2>2, <2>3
<1>4. /\ triangles' \in Seq([1..3 -> Locals]) /\ Len(triangles') = m
      /\ \A j \in 1..m : triangles'[j] = IF j = at + 1 THEN r ELSE triangles[j]
  <2>1. at + 1 \in 1..Len(triangles)
    BY <1>1, <1>2
  <2>2. triangles' = [triangles EXCEPT ![at + 1] = r]
    BY <1>1, <1>3
  <2>3. PICK T : T = [1..3 -> Locals] /\ triangles \in Seq(T) /\ r \in T
    BY <1>1 DEF Whole
  <2>4. PICK i \in 1..Len(triangles) : i = at + 1
    BY <2>1
  <2> QED
    BY <1>2, <2>2, <2>3, <2>4, ExceptSeq
<1>5. Locals' = Locals
  BY <1>1 DEF Locals
<1>6. cache' \in [Locals' -> {0, 1}]
  BY <1>1, <1>5
<1>7. Whole' /\ FewVertices' /\ at' <= Len(triangles') /\ at' \in Nat
  BY <1>1, <1>2, <1>4, <1>5 DEF Whole, FewVertices
<1>8. OptimizerInv'
  BY <1>1, <1>6, <1>7 DEF OptimizerInv
<1> QED
  BY <1>1, <1>2, <1>3, <1>4, <1>8

-----------------------------------------------------------------------------
(* Renumbering *)

LEMMA CornerType ==
  ASSUME Whole
  PROVE  /\ \A i \in 0..3 * Len(triangles) - 1 :
              CornerAt(i) \in Locals /\ CornerAt(i) = triangles[i \div 3 + 1][(i % 3) + 1]
         /\ \A j \in 1..Len(triangles), n \in 1..3 :
              /\ 3 * (j - 1) + n - 1 \in 0..3 * Len(triangles) - 1
              /\ CornerAt(3 * (j - 1) + n - 1) = triangles[j][n]
<1>1. PICK m \in Nat : m = Len(triangles) /\ \A j \in 1..m : triangles[j] \in [1..3 -> Locals]
  BY WholeLen
<1>2. ASSUME NEW i \in 0..3 * m - 1
      PROVE  CornerAt(i) \in Locals /\ CornerAt(i) = triangles[i \div 3 + 1][(i % 3) + 1]
  <2>1. i \div 3 + 1 \in 1..m /\ (i % 3) + 1 \in 1..3 /\ (((i + 1) - 1) % 3) + 1 = (i % 3) + 1
    BY <1>1
  <2>2. CornerAt(i) = triangles[i \div 3 + 1][(i % 3) + 1]
    BY <2>1 DEF CornerAt, Corner
  <2>3. triangles[i \div 3 + 1] \in [1..3 -> Locals]
    BY <1>1, <2>1
  <2> QED
    BY <2>1, <2>2, <2>3
<1>3. ASSUME NEW j \in 1..m, NEW n \in 1..3
      PROVE  3 * (j - 1) + n - 1 \in 0..3 * m - 1 /\ CornerAt(3 * (j - 1) + n - 1) = triangles[j][n]
  <2>1. PICK i \in 0..3 * m - 1 : i = 3 * (j - 1) + n - 1 /\ i \div 3 + 1 = j /\ (i % 3) + 1 = n
    <3>1. /\ 3 * (j - 1) + n - 1 \in 0..3 * m - 1
          /\ (3 * (j - 1) + n - 1) \div 3 + 1 = j /\ ((3 * (j - 1) + n - 1) % 3) + 1 = n
      BY <1>1
    <3> QED
      BY <3>1
  <2>2. CornerAt(i) = triangles[i \div 3 + 1][(i % 3) + 1]
    BY <1>2
  <2> QED
    BY <2>1, <2>2
<1> QED
  BY <1>1, <1>2, <1>3

\* FirstUses, one corner at a time.
LEMMA FirstUsesSteps ==
  ASSUME Whole
  PROVE  /\ FirstUses \in [0..3 * Len(triangles) -> Seq(Locals)]
         /\ FirstUses[0] = <<>>
         /\ \A i \in 1..3 * Len(triangles) :
              FirstUses[i] = IF CornerAt(i - 1) \in ToSet(FirstUses[i - 1]) THEN FirstUses[i - 1]
                             ELSE Append(FirstUses[i - 1], CornerAt(i - 1))
<1> DEFINE X == Seq(Locals)
           N == 3 * Len(triangles)
           Step(i, x) == IF CornerAt(i - 1) \in ToSet(x) THEN x ELSE Append(x, CornerAt(i - 1))
           f == [p \in (1..N) \X X |-> Step(p[1], p[2])]
           Body(h) == [i \in 0..N |-> IF i = 0 THEN <<>> ELSE Step(i, h[i - 1])]
<1>1. N \in Nat /\ <<>> \in X
  BY WholeLen
<1>2. f \in [(1..N) \X X -> X]
  <2>1. ASSUME NEW p \in (1..N) \X X PROVE Step(p[1], p[2]) \in X
    <3>1. p[1] \in 1..N /\ p[2] \in Seq(Locals)
      OBVIOUS
    <3>2. p[1] - 1 \in 0..N - 1
      BY <1>1, <3>1
    <3>3. CornerAt(p[1] - 1) \in Locals
      BY <3>2, CornerType
    <3> QED
      BY <3>1, <3>3, AppendProperties
  <2> HIDE DEF Step, X, N
  <2> QED
    BY <2>1
<1>3. \A i \in 1..N, x \in X : f[<<i, x>>] = Step(i, x)
  <2> HIDE DEF Step, X, N
  <2> QED
    OBVIOUS
<1> HIDE DEF f, Step
<1>4. PICK g \in [0..N -> X] : g[0] = <<>> /\ \A i \in 1..N : g[i] = f[<<i, g[i - 1]>>]
  <2> HIDE DEF X, N
  <2>1. \E g \in [0..N -> X] : Recursive(g, N, <<>>, f)
    BY <1>1, <1>2, Recursion
  <2> QED
    BY <2>1 DEF Recursive
<1>5. g = Body(g)
  <2> HIDE DEF X, N
  <2>1. ASSUME NEW i \in 0..N PROVE Body(g)[i] = g[i]
    <3>1. CASE i = 0
      BY <1>4, <3>1
    <3>2. CASE i # 0
      <4>1. i \in 1..N /\ i - 1 \in 0..N
        BY <1>1, <3>2
      <4>2. g[i - 1] \in X
        BY <1>4, <4>1
      <4>3. g[i] = Step(i, g[i - 1])
        BY <1>3, <1>4, <4>1, <4>2
      <4> QED
        BY <3>2, <4>3
    <3> QED
      BY <3>1, <3>2
  <2> QED
    BY <1>4, <2>1
<1>6. FirstUses = CHOOSE h : h = Body(h)
  BY DEF FirstUses, Step
<1>7. FirstUses = Body(FirstUses)
  BY <1>5, <1>6
<1>8. \A i \in 0..N : FirstUses[i] \in X
  <2> HIDE DEF X, N
  <2>1. Follows(FirstUses, N, <<>>, f, X)
    <3>1. FirstUses[0] = <<>>
      BY <1>1, <1>7
    <3>2. ASSUME NEW i \in 1..N, FirstUses[i - 1] \in X PROVE FirstUses[i] = f[<<i, FirstUses[i - 1]>>]
      <4>1. FirstUses[i] = Step(i, FirstUses[i - 1])
        BY <1>1, <1>7
      <4> QED
        BY <1>3, <3>2, <4>1
    <3> QED
      BY <3>1, <3>2 DEF Follows
  <2> QED
    BY <1>1, <1>2, <2>1, StepByStep
<1>9. FirstUses \in [0..N -> X]
  <2>1. DOMAIN FirstUses = 0..N /\ FirstUses = [i \in 0..N |-> FirstUses[i]]
    BY <1>7
  <2> HIDE DEF X, N
  <2> QED
    BY <1>8, <2>1
<1>10. ASSUME NEW i \in 1..N
       PROVE  FirstUses[i] = IF CornerAt(i - 1) \in ToSet(FirstUses[i - 1]) THEN FirstUses[i - 1]
                             ELSE Append(FirstUses[i - 1], CornerAt(i - 1))
  <2>1. Body(FirstUses)[i] = Step(i, FirstUses[i - 1])
    BY <1>1
  <2> QED
    BY <1>7, <2>1 DEF Step
<1>11. FirstUses[0] = <<>>
  BY <1>1, <1>7
<1> QED
  BY <1>9, <1>10, <1>11

\* The order has each vertex that a corner uses, once.
OrderOf(s, n) ==
  /\ s \in Seq(Locals) /\ Distinct(s)
  /\ \A i \in 0..n - 1 : \E k \in 1..Len(s) : s[k] = CornerAt(i)
  /\ \A k \in 1..Len(s) : \E i \in 0..n - 1 : s[k] = CornerAt(i)

LEMMA OrderStepwise ==
  ASSUME NEW n \in Nat, NEW s, OrderOf(s, n), CornerAt(n) \in Locals
  PROVE  OrderOf(IF CornerAt(n) \in ToSet(s) THEN s ELSE Append(s, CornerAt(n)), n + 1)
<1>1. PICK m \in Nat : m = Len(s) /\ ToSet(s) = {s[k] : k \in 1..m}
  BY LenProperties DEF OrderOf, ToSet
<1>2. CASE CornerAt(n) \in ToSet(s)
  <2>1. PICK k \in 1..m : s[k] = CornerAt(n)
    BY <1>1, <1>2
  <2>2. \A i \in 0..n : i \in 0..n - 1 \/ i = n
    OBVIOUS
  <2>3. OrderOf(s, n + 1)
    <3>1. (n + 1) - 1 = n
      OBVIOUS
    <3>2. s \in Seq(Locals) /\ Distinct(s)
      BY DEF OrderOf
    <3>3. \A i \in 0..n : \E j \in 1..Len(s) : s[j] = CornerAt(i)
      <4> SUFFICES ASSUME NEW i \in 0..n PROVE \E j \in 1..Len(s) : s[j] = CornerAt(i)
        OBVIOUS
      <4>1. CASE i \in 0..n - 1
        BY <4>1 DEF OrderOf
      <4>2. CASE i = n
        BY <1>1, <2>1, <4>2
      <4> QED
        BY <2>2, <4>1, <4>2
    <3>4. \A j \in 1..Len(s) : \E i \in 0..n : s[j] = CornerAt(i)
      <4>1. \A i \in 0..n - 1 : i \in 0..n
        OBVIOUS
      <4> QED
        BY <4>1 DEF OrderOf
    <3> QED
      BY <3>1, <3>2, <3>3, <3>4 DEF OrderOf
  <2> QED
    BY <1>2, <2>3
<1>3. CASE CornerAt(n) \notin ToSet(s)
  <2>1. PICK x \in Locals : x = CornerAt(n)
    OBVIOUS
  <2>2. \A k \in 1..m : s[k] # x
    BY <1>1, <1>3, <2>1
  <2>3. PICK r : r = Append(s, x) /\ r \in Seq(Locals) /\ Len(r) = m + 1 /\ r[m + 1] = x
                 /\ \A k \in 1..m : r[k] = s[k]
    <3>1. s \in Seq(Locals)
      BY DEF OrderOf
    <3>2. /\ Append(s, x) \in Seq(Locals) /\ Len(Append(s, x)) = Len(s) + 1 /\ Append(s, x)[Len(s) + 1] = x
          /\ \A k \in 1..Len(s) : Append(s, x)[k] = s[k]
      BY <3>1, Enqueue
    <3> QED
      BY <1>1, <3>2
  <2>4. Distinct(r)
    <3> SUFFICES ASSUME NEW i \in 1..m + 1, NEW j \in 1..m + 1, r[i] = r[j] PROVE i = j
      BY <2>3 DEF Distinct
    <3>2. CASE i \in 1..m /\ j \in 1..m
      BY <1>1, <2>3, <3>2 DEF Distinct, OrderOf
    <3>3. CASE i = m + 1 \/ j = m + 1
      BY <2>2, <2>3, <3>3
    <3> QED
      BY <3>2, <3>3
  <2>5. \A i \in 0..n : \E k \in 1..m + 1 : r[k] = CornerAt(i)
    <3> SUFFICES ASSUME NEW i \in 0..n PROVE \E k \in 1..m + 1 : r[k] = CornerAt(i)
      OBVIOUS
    <3>1. CASE i = n
      BY <2>1, <2>3, <3>1
    <3>2. CASE i # n
      <4>1. i \in 0..n - 1
        BY <3>2
      <4>2. PICK k \in 1..m : s[k] = CornerAt(i)
        BY <1>1, <4>1 DEF OrderOf
      <4> QED
        BY <2>3, <4>2
    <3> QED
      BY <3>1, <3>2
  <2>6. \A k \in 1..m + 1 : \E i \in 0..n : r[k] = CornerAt(i)
    <3> SUFFICES ASSUME NEW k \in 1..m + 1 PROVE \E i \in 0..n : r[k] = CornerAt(i)
      OBVIOUS
    <3>1. CASE k = m + 1
      BY <2>1, <2>3, <3>1
    <3>2. CASE k # m + 1
      <4>1. k \in 1..m
        BY <3>2
      <4>2. PICK i \in 0..n - 1 : s[k] = CornerAt(i)
        BY <1>1, <4>1 DEF OrderOf
      <4> QED
        BY <2>3, <4>1, <4>2
    <3> QED
      BY <3>1, <3>2
  <2>7. OrderOf(r, n + 1)
    <3>1. (n + 1) - 1 = n
      OBVIOUS
    <3> QED
      BY <2>3, <2>4, <2>5, <2>6, <3>1 DEF OrderOf
  <2> QED
    BY <1>3, <2>1, <2>3, <2>7
<1> QED
  BY <1>2, <1>3

LEMMA FirstUsesOrder ==
  ASSUME Whole
  PROVE  \A n \in 0..3 * Len(triangles) : OrderOf(FirstUses[n], n)
<1>1. PICK N \in Nat : N = 3 * Len(triangles)
  BY WholeLen
<1> DEFINE T == {n \in Nat : n <= N => OrderOf(FirstUses[n], n)}
<1>2. 0 \in T
  <2>1. FirstUses[0] = <<>> /\ FirstUses[0] \in Seq(Locals)
    BY FirstUsesSteps
  <2>2. OrderOf(<<>>, 0)
    BY <2>1 DEF OrderOf, Distinct
  <2> QED
    BY <2>1, <2>2
<1>3. ASSUME NEW n \in Nat, n \in T PROVE n + 1 \in T
  <2> SUFFICES ASSUME n + 1 <= N PROVE OrderOf(FirstUses[n + 1], n + 1)
    OBVIOUS
  <2>1. OrderOf(FirstUses[n], n)
    BY <1>3
  <2>2. CornerAt(n) \in Locals
    BY <1>1, CornerType
  <2>3. n + 1 \in 1..N /\ (n + 1) - 1 = n
    BY <1>1
  <2>4. FirstUses[n + 1] = IF CornerAt(n) \in ToSet(FirstUses[n]) THEN FirstUses[n]
                           ELSE Append(FirstUses[n], CornerAt(n))
    BY <1>1, <2>3, FirstUsesSteps
  <2> QED
    BY <2>1, <2>2, <2>4, OrderStepwise
<1> HIDE DEF T
<1>4. Nat \subseteq T
  BY <1>2, <1>3, NatSetInduction
<1> QED
  BY <1>1, <1>4 DEF T

LEMMA LocalsCount ==
  ASSUME vertices \in Seq(Index)
  PROVE  IsFiniteSet(Locals) /\ Cardinality(Locals) = Len(vertices)
<1>1. PICK n \in Nat : n = Len(vertices)
  BY LenProperties
<1>2. IsFiniteSet(0..n - 1)
  BY FS_Interval
<1>3. Cardinality(0..n - 1) = IF 0 > n - 1 THEN 0 ELSE (n - 1) - 0 + 1
  BY FS_Interval
<1> QED
  BY <1>1, <1>2, <1>3 DEF Locals

\* An order that names local vertices once has not more than there are, and all that are used.
LEMMA OrderSize ==
  ASSUME Whole, vertices \in Seq(Index), NEW s, OrderOf(s, 3 * Len(triangles))
  PROVE  /\ Len(s) \in 0..Len(vertices)
         /\ AllUsed(triangles, Len(vertices)) => Len(s) = Len(vertices)
<1> DEFINE R == {s[k] : k \in 1..Len(s)}
<1>1. s \in Seq(Locals) /\ Len(s) \in Nat /\ \A i, j \in 1..Len(s) : s[i] = s[j] => i = j
  BY LenProperties DEF OrderOf, Distinct
<1>2. IsFiniteSet(R) /\ Cardinality(R) = Len(s)
  <2>1. IsFiniteSet(1..Len(s)) /\ Cardinality(1..Len(s)) = Len(s)
    BY <1>1, Indices
  <2> QED
    BY <1>1, <2>1, DistinctValues
<1>3. R \subseteq Locals
  BY <1>1, ElementOfSeq
<1>4. IsFiniteSet(Locals) /\ Cardinality(Locals) = Len(vertices) /\ Len(vertices) \in Nat
  BY LocalsCount, LenProperties
<1>5. Cardinality(R) <= Cardinality(Locals)
  BY <1>3, <1>4, FS_Subset
<1>6. ASSUME AllUsed(triangles, Len(vertices)) PROVE Locals \subseteq R
  <2> SUFFICES ASSUME NEW v \in Locals PROVE v \in R
    OBVIOUS
  <2>1. PICK j \in 1..Len(triangles) : \E n \in 1..Len(triangles[j]) : triangles[j][n] = v
    BY <1>6 DEF AllUsed, Locals
  <2>2. PICK n \in 1..3 : triangles[j][n] = v
    <3>1. triangles[j] \in [1..3 -> Locals]
      BY WholeLen
    <3>2. triangles[j] \in Seq(Locals)
      BY <3>1, SeqDef
    <3>3. 1..Len(triangles[j]) = DOMAIN triangles[j]
      BY <3>2, LenProperties
    <3>4. 1..Len(triangles[j]) = 1..3
      BY <3>1, <3>3
    <3> QED
      BY <2>1, <3>4
  <2>3. PICK i \in 0..3 * Len(triangles) - 1 : CornerAt(i) = v
    BY <2>2, CornerType
  <2>4. PICK k \in 1..Len(s) : s[k] = CornerAt(i)
    BY DEF OrderOf
  <2> QED
    BY <2>3, <2>4
<1>7. AllUsed(triangles, Len(vertices)) => R = Locals
  BY <1>3, <1>6
<1> HIDE DEF R
<1> QED
  BY <1>1, <1>2, <1>4, <1>5, <1>7

\* What Renumber does, with this order.
Renumbered(order) ==
  /\ OrderOf(order, 3 * Len(triangles)) /\ Len(order) \in 0..Len(vertices)
  /\ Len(triangles') = Len(triangles) /\ Len(vertices') = Len(vertices)
  /\ \A j \in 1..Len(triangles), n \in 1..3 :
       triangles'[j][n] \in 0..Len(order) - 1 /\ order[triangles'[j][n] + 1] = triangles[j][n]
  /\ \A k \in 1..Len(vertices) :
       vertices'[k] = IF k <= Len(order) THEN vertices[order[k] + 1] ELSE vertices[k]

LEMMA RenumberStep ==
  ASSUME OptimizerInv, Renumber
  PROVE  OptimizerInv' /\ Whole /\ \E order : Renumbered(order)
<1>1. /\ work \in {"rotate", "renumber"} /\ work' = "optimized"
      /\ UNCHANGED <<list, level, at>>
      /\ list \in Lists /\ level \in 0..9 /\ FewVertices /\ Whole /\ at \in Nat
  BY DEF OptimizerInv, Renumber
<1> DEFINE order == FirstUses[3 * Len(triangles)]
           place(v) == CHOOSE n \in DOMAIN order : order[n] = v
           remap == [v \in ToSet(order) |-> place(v) - 1]
<1>2. PICK m \in Nat, c \in Nat : m = Len(triangles) /\ c = Len(vertices) /\ Locals = 0..c - 1
                                  /\ DOMAIN triangles = 1..m /\ DOMAIN vertices = 1..c
                                  /\ \A j \in 1..m : triangles[j] \in [1..3 -> 0..c - 1]
  <2>1. Len(triangles) \in Nat /\ DOMAIN triangles = 1..Len(triangles)
        /\ \A j \in 1..Len(triangles) : triangles[j] \in [1..3 -> Locals]
    BY <1>1, WholeLen
  <2>2. Len(vertices) \in Nat /\ DOMAIN vertices = 1..Len(vertices)
    BY <1>1, LenProperties DEF FewVertices
  <2> QED
    BY <2>1, <2>2 DEF Locals
<1>3. OrderOf(order, 3 * m)
  <2>1. 3 * Len(triangles) \in 0..3 * Len(triangles)
    BY <1>2
  <2> QED
    BY <1>1, <1>2, <2>1, FirstUsesOrder
<1>4. PICK k \in 0..c : k = Len(order) /\ DOMAIN order = 1..k /\ ToSet(order) = {order[i] : i \in 1..k}
  <2>1. Len(order) \in 0..Len(vertices)
    BY <1>1, <1>2, <1>3, OrderSize DEF FewVertices
  <2>2. DOMAIN order = 1..Len(order)
    BY <1>3, LenProperties DEF OrderOf
  <2> QED
    BY <1>2, <2>1, <2>2 DEF ToSet
<1>5. \A i \in 1..k : order[i] \in 0..c - 1
  BY <1>2, <1>3, <1>4, ElementOfSeq DEF OrderOf
<1>6. triangles' = [j \in 1..m |-> [n \in 1..3 |-> remap[triangles[j][n]]]]
  BY <1>2 DEF Renumber
<1>7. vertices' = [n \in 1..c |-> IF n <= k THEN vertices[order[n] + 1] ELSE vertices[n]]
  BY <1>2, <1>4 DEF Renumber
<1> HIDE DEF order
<1>8. ASSUME NEW v \in ToSet(order) PROVE remap[v] \in 0..k - 1 /\ order[remap[v] + 1] = v
  <2>1. \E n \in DOMAIN order : order[n] = v
    BY <1>4
  <2>2. place(v) \in DOMAIN order /\ order[place(v)] = v
    BY <2>1
  <2>3. remap[v] = place(v) - 1
    OBVIOUS
  <2> HIDE DEF remap, place
  <2>4. PICK p \in 1..k : p = place(v)
    BY <1>4, <2>2
  <2>5. (p - 1) + 1 = p
    OBVIOUS
  <2> QED
    BY <1>4, <2>2, <2>3, <2>4, <2>5
<1> HIDE DEF remap
<1>9. \A j \in 1..m, n \in 1..3 : triangles[j][n] \in ToSet(order)
  <2> SUFFICES ASSUME NEW j \in 1..m, NEW n \in 1..3 PROVE triangles[j][n] \in ToSet(order)
    OBVIOUS
  <2>1. PICK i \in 0..3 * m - 1 : CornerAt(i) = triangles[j][n]
    BY <1>1, <1>2, CornerType
  <2>2. \E q \in 1..Len(order) : order[q] = CornerAt(i)
    BY <1>3 DEF OrderOf
  <2> QED
    BY <1>4, <2>1, <2>2
<1>10. ASSUME NEW j \in 1..m, NEW n \in 1..3
       PROVE  triangles'[j][n] \in 0..k - 1 /\ order[triangles'[j][n] + 1] = triangles[j][n]
  <2>1. triangles'[j][n] = remap[triangles[j][n]]
    BY <1>6
  <2> QED
    BY <1>8, <1>9, <2>1
<1>11. triangles' \in Seq([1..3 -> 0..c - 1]) /\ Len(triangles') = m
  <2>1. triangles' \in [1..m -> [1..3 -> 0..c - 1]]
    <3>1. \A j \in 1..m : triangles'[j] \in [1..3 -> 0..c - 1]
      <4> SUFFICES ASSUME NEW j \in 1..m PROVE triangles'[j] \in [1..3 -> 0..c - 1]
        OBVIOUS
      <4>1. triangles'[j] = [n \in 1..3 |-> remap[triangles[j][n]]]
        BY <1>6
      <4>2. \A n \in 1..3 : remap[triangles[j][n]] \in 0..c - 1
        <5>1. \A n \in 1..3 : remap[triangles[j][n]] \in 0..k - 1
          BY <1>8, <1>9
        <5>2. 0..k - 1 \subseteq 0..c - 1
          BY <1>4
        <5> QED
          BY <5>1, <5>2
      <4> QED
        BY <4>1, <4>2
    <3>2. DOMAIN triangles' = 1..m /\ triangles' = [j \in 1..m |-> triangles'[j]]
      BY <1>6
    <3> QED
      BY <3>1, <3>2
  <2> QED
    BY <2>1, SeqOfFunction
<1>12. vertices' \in Seq(Index) /\ Len(vertices') = c
  <2>1. \A n \in 1..c : vertices[n] \in Index
    BY <1>1, <1>2, ElementOfSeq DEF FewVertices
  <2>2. \A n \in 1..c : n <= k => order[n] + 1 \in 1..c
    BY <1>4, <1>5
  <2>3. vertices' \in [1..c -> Index]
    BY <1>4, <1>7, <2>1, <2>2
  <2> QED
    BY <2>3, SeqOfFunction
<1>13. Locals' = 0..c - 1 /\ Whole' /\ FewVertices'
  BY <1>1, <1>2, <1>11, <1>12 DEF Locals, Whole, FewVertices
<1>14. OptimizerInv'
  BY <1>1, <1>13 DEF OptimizerInv
<1>15. Renumbered(order)
  <2>1. \A n \in 1..c : vertices'[n] = IF n <= k THEN vertices[order[n] + 1] ELSE vertices[n]
    BY <1>7
  <2> QED
    BY <1>2, <1>3, <1>4, <1>10, <1>11, <1>12, <2>1 DEF Renumbered
<1> QED
  BY <1>1, <1>14, <1>15

LEMMA OptimizerInitially ==
  ASSUME OptimizerInit
  PROVE  OptimizerInv
<1>1. /\ list \in Lists /\ level \in 0..9 /\ work = "extract" /\ vertices = <<>> /\ triangles = <<>> /\ at = 0
      /\ cache = [key \in 0..CacheSize - 1 |-> -1]
  BY OptimizerAssumption DEF OptimizerInit
<1>2. Len(list) \in Nat /\ ByteValues \in Nat
  BY <1>1, ListType, Constants
<1>3. vertices \in Seq(Index) /\ Len(vertices) = 0 /\ triangles \in Seq(Seq(Locals)) /\ Len(triangles) = 0
  BY <1>1
<1>4. CacheFits(cache, vertices)
  BY <1>1, <1>3, Constants DEF CacheFits, Known
<1>5. Extracting
  <2>1. StandFor(triangles, vertices) /\ AllUsed(triangles, Len(vertices)) /\ Distinct(vertices)
    BY <1>3 DEF StandFor, AllUsed, Distinct
  <2> QED
    BY <1>1, <1>2, <1>3, <1>4, <2>1 DEF Extracting
<1> QED
  BY <1>1, <1>2, <1>3, <1>5 DEF OptimizerInv, FewVertices

LEMMA OptimizerKept ==
  ASSUME OptimizerInv, OptimizerNext
  PROVE  OptimizerInv'
<1>1. CASE ExtractCorner
  BY <1>1, ExtractStep
<1>2. CASE StartOrder
  BY <1>2, StartOrderStep
<1>3. CASE OrderTriangle
  BY <1>3, OrderStep
<1>4. CASE StartRotate
  BY <1>4, StartRotateStep
<1>5. CASE RotateTriangle
  BY <1>5, RotateStep
<1>6. CASE Renumber
  BY <1>6, RenumberStep
<1> QED
  BY <1>1, <1>2, <1>3, <1>4, <1>5, <1>6 DEF OptimizerNext

-----------------------------------------------------------------------------
(* The same triangles *)

LEMMA TurnsRelation ==
  ASSUME NEW L, NEW s \in [1..3 -> L], NEW t \in [1..3 -> L], NEW u \in [1..3 -> L]
  PROVE  /\ s \in Turns(s)
         /\ s \in Turns(t) => t \in Turns(s)
         /\ s \in Turns(t) /\ t \in Turns(u) => s \in Turns(u)
<1>1. ASSUME NEW x \in [1..3 -> L] PROVE Turns(x) = {x, Turn(x, 1), Turn(x, 2)}
  <2>1. 0..2 = {0, 1, 2}
    OBVIOUS
  <2>2. Turn(x, 0) = x
    BY TurnIs
  <2> QED
    BY <2>1, <2>2 DEF Turns
<1>2. ASSUME NEW x \in [1..3 -> L]
      PROVE  /\ Turn(Turn(x, 1), 1) = Turn(x, 2) /\ Turn(Turn(x, 1), 2) = x
             /\ Turn(Turn(x, 2), 1) = x /\ Turn(Turn(x, 2), 2) = Turn(x, 1)
  <2>1. PICK a \in [1..3 -> L] : a = Turn(x, 1) /\ a[1] = x[2] /\ a[2] = x[3] /\ a[3] = x[1]
    BY TurnIs
  <2>2. PICK b \in [1..3 -> L] : b = Turn(x, 2) /\ b[1] = x[3] /\ b[2] = x[1] /\ b[3] = x[2]
    BY TurnIs
  <2>3. \A y, z \in [1..3 -> L] : y[1] = z[1] /\ y[2] = z[2] /\ y[3] = z[3] => y = z
    <3> SUFFICES ASSUME NEW y \in [1..3 -> L], NEW z \in [1..3 -> L], y[1] = z[1], y[2] = z[2], y[3] = z[3]
                 PROVE  y = z
      OBVIOUS
    <3>1. \A n \in 1..3 : n = 1 \/ n = 2 \/ n = 3
      OBVIOUS
    <3>2. \A n \in 1..3 : y[n] = z[n]
      BY <3>1
    <3> QED
      BY <3>2
  <2>4. /\ Turn(a, 1) \in [1..3 -> L] /\ Turn(a, 1)[1] = a[2] /\ Turn(a, 1)[2] = a[3] /\ Turn(a, 1)[3] = a[1]
        /\ Turn(a, 2) \in [1..3 -> L] /\ Turn(a, 2)[1] = a[3] /\ Turn(a, 2)[2] = a[1] /\ Turn(a, 2)[3] = a[2]
    BY TurnIs
  <2>5. /\ Turn(b, 1) \in [1..3 -> L] /\ Turn(b, 1)[1] = b[2] /\ Turn(b, 1)[2] = b[3] /\ Turn(b, 1)[3] = b[1]
        /\ Turn(b, 2) \in [1..3 -> L] /\ Turn(b, 2)[1] = b[3] /\ Turn(b, 2)[2] = b[1] /\ Turn(b, 2)[3] = b[2]
    BY TurnIs
  <2>6. Turn(a, 1) = b /\ Turn(a, 2) = x
    BY <2>1, <2>2, <2>3, <2>4
  <2>7. Turn(b, 1) = x /\ Turn(b, 2) = a
    BY <2>1, <2>2, <2>3, <2>5
  <2> QED
    BY <2>1, <2>2, <2>6, <2>7
<1>3. \A x \in [1..3 -> L] : Turn(x, 1) \in [1..3 -> L] /\ Turn(x, 2) \in [1..3 -> L]
  BY TurnIs
<1> QED
  BY <1>1, <1>2, <1>3

\* An arrangement of m triangles.
Arrangement(p, m) ==
  /\ p \in [1..m -> 1..m]
  /\ \A i, j \in 1..m : p[i] = p[j] => i = j
  /\ \A k \in 1..m : \E j \in 1..m : p[j] = k

\* The triangle at each place is the one that p says, turned at most.
Arranged(p) ==
  /\ Arrangement(p, Len(list))
  /\ \A j \in 1..Len(list) : Meant(triangles[j]) \in Allowed(list[p[j]])

\* While triangles are reordered they are not turned, and those that wait keep their order.
Waiting(p) ==
  /\ \A j \in 1..Len(list) : Meant(triangles[j]) = list[p[j]]
  /\ \A i, j \in at + 1..Len(list) : i < j => p[i] < p[j]

AllNeeded == \A v \in Locals : \E j \in 1..Len(triangles) : \E n \in 1..3 : triangles[j][n] = v

SameInv ==
  /\ OptimizerInv
  /\ Distinct(vertices)
  /\ work = "rotate" => level >= 1
  /\ work \in {"order", "rotate", "renumber"} => AllNeeded
  /\ work # "extract" => /\ Len(triangles) = Len(list)
                         /\ \E p : Arranged(p) /\ (work = "order" => Waiting(p))

LEMMA OwnTurn ==
  ASSUME NEW t \in [1..3 -> Nat]
  PROVE  t \in Allowed(t)
  BY TurnsRelation DEF Allowed

LEMMA SameStartOrder ==
  ASSUME SameInv, StartOrder
  PROVE  SameInv'
<1>1. OptimizerInv' /\ Extracting /\ at = 3 * Len(list)
  BY StartOrderStep DEF SameInv
<1>2. /\ list \in Lists /\ work = "extract" /\ work' = "order" /\ at' = 0
      /\ UNCHANGED <<list, level, vertices, triangles>> /\ Distinct(vertices) /\ FewVertices
  BY DEF SameInv, OptimizerInv, StartOrder
<1>3. PICK m \in Nat : m = Len(list) /\ at = 3 * m
  BY <1>1, <1>2, ListType
<1>4. Len(triangles) = m /\ \A j \in 1..m : Len(triangles[j]) = 3
  <2>1. Len(triangles) = m
    BY <1>1, <1>3 DEF Extracting
  <2>2. \A j \in 1..m : Len(triangles[j]) = Smaller(3, at - 3 * (j - 1))
    BY <1>1, <2>1 DEF Extracting
  <2>3. \A j \in 1..m : Smaller(3, at - 3 * (j - 1)) = 3
    <3> SUFFICES ASSUME NEW j \in 1..m PROVE Smaller(3, 3 * m - 3 * (j - 1)) = 3
      BY <1>3
    <3>1. ~ (3 < 3 * m - 3 * (j - 1)) => 3 * m - 3 * (j - 1) = 3
      OBVIOUS
    <3> QED
      BY <3>1 DEF Smaller
  <2> QED
    BY <2>1, <2>2, <2>3
<1>5. \A j \in 1..m : Meant(triangles[j]) = list[j] /\ list[j] \in [1..3 -> Nat]
  <2> SUFFICES ASSUME NEW j \in 1..m PROVE Meant(triangles[j]) = list[j] /\ list[j] \in [1..3 -> Nat]
    OBVIOUS
  <2>1. list[j] \in [1..3 -> Nat]
    BY <1>2, <1>3, ListType
  <2>2. \A n \in 1..3 : vertices[triangles[j][n] + 1] = list[j][n]
    BY <1>1, <1>4 DEF Extracting, StandFor
  <2>3. Meant(triangles[j]) = [n \in 1..3 |-> list[j][n]]
    BY <2>2 DEF Meant
  <2> QED
    BY <2>1, <2>3
<1>6. AllNeeded'
  <2>1. AllUsed(triangles, Len(vertices))
    BY <1>1 DEF Extracting
  <2>2. AllNeeded
    BY <1>4, <2>1 DEF AllUsed, AllNeeded, Locals
  <2> QED
    BY <1>2, <2>2 DEF AllNeeded, Locals
<1> DEFINE p == [j \in 1..m |-> j]
<1>7. Arrangement(p, m)
  BY DEF Arrangement
<1>8. \A j \in 1..m : p[j] = j
  OBVIOUS
<1> HIDE DEF p
<1>9. Arranged(p)'
  <2>1. \A j \in 1..m : Meant(triangles[j]) \in Allowed(list[p[j]])
    BY <1>5, <1>8, OwnTurn
  <2>2. Arranged(p)
    BY <1>3, <1>7, <2>1 DEF Arranged
  <2> QED
    BY <1>2, <2>2 DEF Arranged, Meant, Allowed
<1>10. Waiting(p)'
  <2>1. \A j \in 1..m : Meant(triangles[j]) = list[p[j]]
    BY <1>5, <1>8
  <2>2. \A i, j \in 1..m : i < j => p[i] < p[j]
    BY <1>8
  <2>3. at' + 1 = 1 /\ Len(list') = m
    BY <1>2, <1>3
  <2>4. \A j \in 1..m : Meant(triangles[j])' = list'[p[j]]
    BY <1>2, <2>1 DEF Meant
  <2> QED
    BY <2>2, <2>3, <2>4 DEF Waiting
<1>11. Distinct(vertices') /\ Len(triangles') = Len(list')
  BY <1>2, <1>3, <1>4
<1> QED
  BY <1>1, <1>2, <1>6, <1>9, <1>10, <1>11 DEF SameInv

LEMMA SameOrder ==
  ASSUME SameInv, OrderTriangle
  PROVE  SameInv'
<1>1. OptimizerInv' /\ Chosen \in at + 1..Len(triangles) /\ triangles' = Moved(Chosen)
  BY OrderStep DEF SameInv
<1>2. /\ work = "order" /\ work' = "order" /\ at' = at + 1 /\ at \in Nat
      /\ UNCHANGED <<list, level, vertices>> /\ Distinct(vertices) /\ Whole
      /\ Len(triangles) = Len(list) /\ AllNeeded
  BY DEF SameInv, OptimizerInv, OrderTriangle
<1>3. PICK m \in Nat : m = Len(list) /\ m = Len(triangles)
  BY <1>2, WholeLen
<1>4. PICK p : Arranged(p) /\ Waiting(p)
  BY <1>2 DEF SameInv
<1>5. PICK c \in at + 1..m : triangles' = Moved(c)
  BY <1>1, <1>3
<1>6. /\ Len(triangles') = m
      /\ \A n \in 1..m : From(c, n) \in 1..m /\ triangles'[n] = triangles[From(c, n)]
  BY <1>2, <1>3, <1>5, MovedIs
<1> DEFINE back(n) == IF n = c THEN at + 1 ELSE IF n \in at + 1..c - 1 THEN n + 1 ELSE n
<1>7. \A n \in 1..m : back(n) \in 1..m /\ From(c, back(n)) = n
  BY <1>2 DEF From
<1>8. \A i, j \in 1..m : From(c, i) = From(c, j) => i = j
  BY <1>2 DEF From
<1>9. \A i, j \in at + 2..m : i < j => From(c, i) < From(c, j) /\ From(c, i) \in at + 1..m /\ From(c, j) \in at + 1..m
  BY <1>2 DEF From
<1> HIDE DEF back
<1> DEFINE w == [n \in 1..m |-> p[From(c, n)]]
<1>10. Arrangement(p, m)
  BY <1>3, <1>4 DEF Arranged
<1>11. Arrangement(w, m)
  <2>1. w \in [1..m -> 1..m]
    BY <1>6, <1>10 DEF Arrangement
  <2>2. ASSUME NEW i \in 1..m, NEW j \in 1..m, w[i] = w[j] PROVE i = j
    <3>1. p[From(c, i)] = p[From(c, j)] /\ From(c, i) \in 1..m /\ From(c, j) \in 1..m
      BY <1>6, <2>2
    <3>2. \A x, y \in 1..m : p[x] = p[y] => x = y
      BY <1>10 DEF Arrangement
    <3>3. From(c, i) = From(c, j)
      BY <3>1, <3>2
    <3> QED
      BY <1>8, <3>3
  <2>3. ASSUME NEW k \in 1..m PROVE \E j \in 1..m : w[j] = k
    <3>1. PICK i \in 1..m : p[i] = k
      BY <1>10 DEF Arrangement
    <3>2. back(i) \in 1..m /\ w[back(i)] = k
      BY <1>7, <3>1
    <3> QED
      BY <3>2
  <2> QED
    BY <2>1, <2>2, <2>3 DEF Arrangement
<1>12. PICK q : Arrangement(q, m) /\ \A n \in 1..m : q[n] = p[From(c, n)]
  <2>1. \A n \in 1..m : w[n] = p[From(c, n)]
    OBVIOUS
  <2> HIDE DEF w
  <2> QED
    BY <1>11, <2>1
<1> HIDE DEF w
<1>13. \A n \in 1..m : Meant(triangles'[n]) = list[q[n]]
  <2>1. \A j \in 1..m : Meant(triangles[j]) = list[p[j]]
    BY <1>3, <1>4 DEF Waiting
  <2> SUFFICES ASSUME NEW n \in 1..m PROVE Meant(triangles'[n]) = list[q[n]]
    OBVIOUS
  <2>2. PICK f \in 1..m : f = From(c, n) /\ triangles'[n] = triangles[f]
    BY <1>6
  <2>3. q[n] = p[f]
    BY <1>12, <2>2
  <2>4. Meant(triangles[f]) = list[p[f]]
    BY <2>1
  <2> QED
    BY <2>2, <2>3, <2>4
<1>14. \A n \in 1..m : Meant(triangles'[n]) \in Allowed(list[q[n]])
  <2>1. \A j \in 1..m : Meant(triangles[j]) \in Allowed(list[p[j]])
    BY <1>3, <1>4 DEF Arranged
  <2> QED
    BY <1>6, <1>12, <2>1
<1>15. Arranged(q)'
  <2>1. \A j \in 1..m : Meant(triangles[j])' = Meant(triangles'[j])
    BY <1>2 DEF Meant
  <2>2. \A t : Allowed(t)' = Allowed(t)
    BY <1>2 DEF Allowed
  <2>3. \A j \in 1..m : Meant(triangles[j])' \in Allowed(list[q[j]])
    BY <1>14, <2>1
  <2>4. Len(list') = m /\ list' = list /\ level' = level
    BY <1>2, <1>3
  <2> QED
    BY <1>12, <2>2, <2>3, <2>4 DEF Arranged, Allowed
<1>16. Waiting(q)'
  <2>1. \A i, j \in at + 2..m : i < j => q[i] < q[j]
    <3> SUFFICES ASSUME NEW i \in at + 2..m, NEW j \in at + 2..m, i < j PROVE q[i] < q[j]
      OBVIOUS
    <3>1. i \in 1..m /\ j \in 1..m
      BY <1>2
    <3>2. From(c, i) < From(c, j) /\ From(c, i) \in at + 1..m /\ From(c, j) \in at + 1..m
      BY <1>9
    <3>3. \A x, y \in at + 1..m : x < y => p[x] < p[y]
      BY <1>3, <1>4 DEF Waiting
    <3> QED
      BY <1>12, <3>1, <3>2, <3>3
  <2>2. at' + 1 = at + 2 /\ Len(list') = m
    BY <1>2, <1>3
  <2>3. \A j \in 1..m : Meant(triangles[j])' = list'[q[j]]
    BY <1>2, <1>13 DEF Meant
  <2>4. \A i, j \in at' + 1..Len(list') : i < j => q[i] < q[j]
    BY <2>1, <2>2
  <2> QED
    BY <2>2, <2>3, <2>4 DEF Waiting
<1>17. AllNeeded'
  <2> SUFFICES ASSUME NEW v \in Locals PROVE \E j \in 1..m : \E n \in 1..3 : triangles'[j][n] = v
    BY <1>2, <1>6 DEF AllNeeded, Locals
  <2>1. PICK i \in 1..m : \E n \in 1..3 : triangles[i][n] = v
    BY <1>2, <1>3 DEF AllNeeded
  <2>2. back(i) \in 1..m /\ triangles'[back(i)] = triangles[i]
    BY <1>6, <1>7
  <2> QED
    BY <2>1, <2>2
<1>18. Distinct(vertices') /\ Len(triangles') = Len(list')
  BY <1>2, <1>3, <1>6
<1> QED
  BY <1>1, <1>2, <1>15, <1>16, <1>17, <1>18 DEF SameInv

LEMMA SameStartRotate ==
  ASSUME SameInv, StartRotate
  PROVE  SameInv'
<1>1. OptimizerInv'
  BY StartRotateStep DEF SameInv
<1>2. /\ work = "order" /\ work' \in {"rotate", "renumber"} /\ (work' = "rotate" => level >= 1)
      /\ UNCHANGED <<list, level, vertices, triangles>> /\ Distinct(vertices)
      /\ Len(triangles) = Len(list) /\ AllNeeded
  BY DEF SameInv, OptimizerInv, StartRotate
<1>3. PICK p : Arranged(p)
  BY <1>2 DEF SameInv
<1>4. Arranged(p)' /\ AllNeeded'
  BY <1>2, <1>3 DEF Arranged, Meant, Allowed, AllNeeded, Locals
<1> QED
  BY <1>1, <1>2, <1>4 DEF SameInv

\* A turned triangle stands for a turned triangle.
LEMMA MeantTurn ==
  ASSUME NEW L, NEW t \in [1..3 -> L], NEW k \in 0..2
  PROVE  Meant(Turn(t, k)) = Turn(Meant(t), k)
<1>1. ASSUME NEW n \in 1..3 PROVE vertices[Turn(t, k)[n] + 1] = Turn(Meant(t), k)[n]
  <2>1. PICK i \in 1..3 : i = (((n + k) - 1) % 3) + 1
    OBVIOUS
  <2>2. Turn(t, k)[n] = t[i]
    BY <2>1 DEF Turn, Corner
  <2>3. Turn(Meant(t), k)[n] = Meant(t)[i]
    BY <2>1 DEF Turn, Corner
  <2>4. Meant(t)[i] = vertices[t[i] + 1]
    BY DEF Meant
  <2> QED
    BY <2>2, <2>3, <2>4
<1>2. Meant(Turn(t, k)) = [n \in 1..3 |-> vertices[Turn(t, k)[n] + 1]]
  BY DEF Meant
<1>3. Turn(Meant(t), k) = [n \in 1..3 |-> Turn(Meant(t), k)[n]]
  BY DEF Turn
<1> QED
  BY <1>1, <1>2, <1>3

LEMMA SameRotate ==
  ASSUME SameInv, RotateTriangle
  PROVE  SameInv'
<1>1. /\ OptimizerInv' /\ Len(triangles') = Len(triangles) /\ at + 1 \in 1..Len(triangles)
      /\ \A j \in 1..Len(triangles) :
           triangles'[j] = IF j = at + 1 THEN Rotation(triangles[j]) ELSE triangles[j]
  BY RotateStep DEF SameInv
<1>2. /\ work = "rotate" /\ work' = "rotate" /\ level >= 1 /\ level \in 0..9
      /\ UNCHANGED <<list, level, vertices>> /\ Distinct(vertices) /\ Whole /\ FewVertices /\ list \in Lists
      /\ Len(triangles) = Len(list) /\ AllNeeded
  BY DEF SameInv, OptimizerInv, RotateTriangle
<1>3. PICK m \in Nat : m = Len(list) /\ m = Len(triangles) /\ \A j \in 1..m : triangles[j] \in [1..3 -> Locals]
  BY <1>2, WholeLen
<1>4. PICK p : Arranged(p)
  BY <1>2 DEF SameInv
<1>5. Arrangement(p, m) /\ \A j \in 1..m : Meant(triangles[j]) \in Turns(list[p[j]])
  <2>1. level # 0
    BY <1>2
  <2> QED
    BY <1>3, <1>4, <2>1 DEF Arranged, Allowed
<1>6. \A j \in 1..m : triangles'[j] \in {triangles[j], Turn(triangles[j], 1), Turn(triangles[j], 2)}
  BY <1>1, <1>3, RotationIs
<1>7. ASSUME NEW j \in 1..m PROVE Meant(triangles'[j]) \in Turns(list[p[j]])
  <2>1. PICK t \in [1..3 -> Locals] : t = triangles[j]
    BY <1>3
  <2>2. PICK u \in [1..3 -> Nat] : u = list[p[j]]
    <3>1. p[j] \in 1..Len(list)
      BY <1>3, <1>5 DEF Arrangement
    <3> QED
      BY <1>2, <3>1, ListType
  <2>3. Meant(t) \in Turns(u)
    BY <1>5, <2>1, <2>2
  <2>4. Meant(t) \in [1..3 -> Nat]
    <3>1. \A n \in 1..3 : vertices[t[n] + 1] \in Nat
      <4> SUFFICES ASSUME NEW n \in 1..3 PROVE vertices[t[n] + 1] \in Nat
        OBVIOUS
      <4>1. PICK i \in 1..Len(vertices) : i = t[n] + 1
        <5>1. Len(vertices) \in Nat /\ t[n] \in 0..Len(vertices) - 1
          BY <1>2, LenProperties DEF FewVertices, Locals
        <5> QED
          BY <5>1
      <4>2. vertices[i] \in Index
        BY <1>2, ElementOfSeq DEF FewVertices
      <4> QED
        BY <4>1, <4>2 DEF Index
    <3> QED
      BY <3>1 DEF Meant
  <2>5. PICK k \in 0..2 : triangles'[j] = Turn(t, k)
    <3>1. Turn(t, 0) = t
      BY TurnIs
    <3> QED
      BY <1>6, <2>1, <3>1
  <2>6. Meant(triangles'[j]) = Turn(Meant(t), k)
    BY <2>5, MeantTurn
  <2>7. PICK w \in [1..3 -> Nat] : w = Meant(t)
    BY <2>4
  <2>8. Turn(w, k) \in [1..3 -> Nat]
    <3>1. k = 0 \/ k = 1 \/ k = 2
      OBVIOUS
    <3> QED
      BY <3>1, TurnIs
  <2>9. Turn(w, k) \in Turns(w)
    BY DEF Turns
  <2> QED
    BY <2>2, <2>3, <2>6, <2>7, <2>8, <2>9, TurnsRelation
<1>8. Arranged(p)'
  <2>1. level # 0
    BY <1>2
  <2>2. \A j \in 1..m : Meant(triangles'[j]) \in Allowed(list[p[j]])
    BY <1>7, <2>1 DEF Allowed
  <2> QED
    BY <1>2, <1>3, <1>5, <2>2 DEF Arranged, Meant, Allowed
<1>9. AllNeeded'
  <2>0. Locals' = Locals /\ Len(triangles') = m
    BY <1>1, <1>2, <1>3 DEF Locals
  <2> SUFFICES ASSUME NEW v \in Locals PROVE \E j \in 1..m : \E n \in 1..3 : triangles'[j][n] = v
    BY <2>0 DEF AllNeeded
  <2>1. PICK j \in 1..m : \E n \in 1..3 : triangles[j][n] = v
    BY <1>2, <1>3 DEF AllNeeded
  <2>2. PICK n \in 1..3 : triangles[j][n] = v
    BY <2>1
  <2>3. PICK t \in [1..3 -> Locals] : t = triangles[j]
    BY <1>3
  <2>4. /\ Turn(t, 1)[1] = t[2] /\ Turn(t, 1)[2] = t[3] /\ Turn(t, 1)[3] = t[1]
        /\ Turn(t, 2)[1] = t[3] /\ Turn(t, 2)[2] = t[1] /\ Turn(t, 2)[3] = t[2]
    BY TurnIs
  <2>5. n = 1 \/ n = 2 \/ n = 3
    OBVIOUS
  <2>6. \E i \in 1..3 : t[i] = v /\ \E j1 \in 1..3 : Turn(t, 1)[j1] = v /\ \E j2 \in 1..3 : Turn(t, 2)[j2] = v
    BY <2>2, <2>3, <2>4, <2>5
  <2> QED
    BY <1>6, <2>3, <2>6
<1>10. Distinct(vertices') /\ Len(triangles') = Len(list')
  BY <1>1, <1>2, <1>3
<1> QED
  BY <1>1, <1>2, <1>8, <1>9, <1>10 DEF SameInv

LEMMA SameRenumber ==
  ASSUME SameInv, Renumber
  PROVE  SameInv'
<1>1. OptimizerInv' /\ Whole /\ \E order : Renumbered(order)
  BY RenumberStep DEF SameInv
<1>2. /\ work \in {"rotate", "renumber"} /\ work' = "optimized" /\ UNCHANGED <<list, level>>
      /\ FewVertices /\ Distinct(vertices) /\ Len(triangles) = Len(list) /\ AllNeeded
  BY DEF SameInv, OptimizerInv, Renumber
<1>3. PICK m \in Nat : m = Len(list) /\ m = Len(triangles) /\ \A j \in 1..m : triangles[j] \in [1..3 -> Locals]
  BY <1>1, <1>2, WholeLen
<1>4. PICK p : Arranged(p)
  BY <1>2 DEF SameInv
<1>5. PICK order : Renumbered(order)
  BY <1>1
<1>6. PICK c \in Nat : c = Len(vertices)
  BY <1>2, LenProperties DEF FewVertices
<1>7. Len(order) = c /\ Len(vertices') = c
  <2>1. AllUsed(triangles, Len(vertices))
    <3> SUFFICES ASSUME NEW v \in 0..Len(vertices) - 1
                 PROVE  \E j \in 1..Len(triangles) : \E n \in 1..Len(triangles[j]) : triangles[j][n] = v
      BY DEF AllUsed
    <3>1. PICK j \in 1..m : \E n \in 1..3 : triangles[j][n] = v
      BY <1>2, <1>3 DEF AllNeeded, Locals
    <3>2. Len(triangles[j]) = 3
      <4>1. 3 \in Nat /\ triangles[j] \in [1..3 -> Locals]
        BY <1>3
      <4> QED
        BY <4>1, SeqOfFunction
    <3> QED
      BY <1>3, <3>1, <3>2
  <2>2. OrderOf(order, 3 * Len(triangles)) /\ vertices \in Seq(Index) /\ Len(vertices') = Len(vertices)
    BY <1>2, <1>5 DEF Renumbered, FewVertices
  <2> QED
    BY <1>1, <1>6, <2>1, <2>2, OrderSize
<1>8. /\ \A j \in 1..m, n \in 1..3 :
           triangles'[j][n] \in 0..c - 1 /\ order[triangles'[j][n] + 1] = triangles[j][n]
      /\ \A k \in 1..c : vertices'[k] = vertices[order[k] + 1]
      /\ Len(triangles') = m
  <2>1. /\ \A j \in 1..Len(triangles), n \in 1..3 :
             triangles'[j][n] \in 0..Len(order) - 1 /\ order[triangles'[j][n] + 1] = triangles[j][n]
        /\ \A k \in 1..Len(vertices) :
             vertices'[k] = IF k <= Len(order) THEN vertices[order[k] + 1] ELSE vertices[k]
        /\ Len(triangles') = Len(triangles)
    BY <1>5 DEF Renumbered
  <2> QED
    BY <1>3, <1>6, <1>7, <2>1
<1>9. \A j \in 1..m : Meant(triangles[j])' = Meant(triangles[j])
  <2> SUFFICES ASSUME NEW j \in 1..m PROVE Meant(triangles[j])' = Meant(triangles[j])
    OBVIOUS
  <2>1. \A n \in 1..3 : vertices'[triangles'[j][n] + 1] = vertices[triangles[j][n] + 1]
    <3> SUFFICES ASSUME NEW n \in 1..3 PROVE vertices'[triangles'[j][n] + 1] = vertices[triangles[j][n] + 1]
      OBVIOUS
    <3>1. PICK k \in 1..c : k = triangles'[j][n] + 1
      <4>1. triangles'[j][n] \in 0..c - 1
        BY <1>8
      <4> QED
        BY <4>1
    <3>2. vertices'[k] = vertices[order[k] + 1] /\ order[k] = triangles[j][n]
      BY <1>8, <3>1
    <3> QED
      BY <3>1, <3>2
  <2> QED
    BY <2>1 DEF Meant
<1>10. Arranged(p)'
  <2>1. \A j \in 1..m : Meant(triangles[j]) \in Allowed(list[p[j]])
    BY <1>3, <1>4 DEF Arranged
  <2>2. \A j \in 1..m : Meant(triangles[j])' \in Allowed(list[p[j]])
    BY <1>9, <2>1
  <2>3. Arrangement(p, Len(list))
    BY <1>4 DEF Arranged
  <2>4. \A t : Allowed(t)' = Allowed(t)
    BY <1>2 DEF Allowed
  <2> QED
    BY <1>2, <1>3, <2>2, <2>3, <2>4 DEF Arranged, Allowed
<1>11. Distinct(vertices')
  <2> SUFFICES ASSUME NEW i \in 1..c, NEW j \in 1..c, vertices'[i] = vertices'[j] PROVE i = j
    BY <1>7 DEF Distinct
  <2>1. order[i] \in 0..c - 1 /\ order[j] \in 0..c - 1 /\ (order[i] = order[j] => i = j)
    <3>1. order \in Seq(Locals) /\ Distinct(order)
      BY <1>5 DEF Renumbered, OrderOf
    <3> QED
      BY <1>6, <1>7, <3>1, ElementOfSeq DEF Distinct, Locals
  <2>2. vertices[order[i] + 1] = vertices[order[j] + 1]
    BY <1>8
  <2>3. order[i] + 1 = order[j] + 1
    <3>1. order[i] + 1 \in 1..c /\ order[j] + 1 \in 1..c
      BY <2>1
    <3> QED
      BY <1>2, <1>6, <2>2, <3>1 DEF Distinct
  <2> QED
    BY <2>1, <2>3
<1> QED
  BY <1>1, <1>2, <1>3, <1>8, <1>10, <1>11 DEF SameInv

LEMMA SameKept ==
  ASSUME SameInv, OptimizerNext
  PROVE  SameInv'
<1>1. CASE ExtractCorner
  <2>1. OptimizerInv' /\ work' = "extract"
    BY <1>1, ExtractStep DEF SameInv, ExtractCorner
  <2>2. Distinct(vertices')
    BY <2>1 DEF OptimizerInv, Extracting
  <2> QED
    BY <2>1, <2>2 DEF SameInv
<1>2. CASE StartOrder
  BY <1>2, SameStartOrder
<1>3. CASE OrderTriangle
  BY <1>3, SameOrder
<1>4. CASE StartRotate
  BY <1>4, SameStartRotate
<1>5. CASE RotateTriangle
  BY <1>5, SameRotate
<1>6. CASE Renumber
  BY <1>6, SameRenumber
<1> QED
  BY <1>1, <1>2, <1>3, <1>4, <1>5, <1>6 DEF OptimizerNext

\* s is found in u where e says.
Embedded(s, u, e) ==
  \A k \in 1..Len(s) : /\ e[k] \in 1..Len(u) /\ s[k] = u[e[k]]
                       /\ k > 1 => e[k - 1] < e[k]

LEMMA SubsequenceFound ==
  ASSUME NEW s, NEW u, Len(s) \in Nat, Len(u) \in Nat, NEW e, Embedded(s, u, e)
  PROVE  IsSubsequence(s, u)
<1> DEFINE N == Len(u)
           K == Len(s)
           X == 0..K
           Step(n, k) == IF k < Len(s) /\ s[k + 1] = u[n] THEN k + 1 ELSE k
           f == [x \in (1..N) \X X |-> Step(x[1], x[2])]
           Body(h) == [n \in 0..N |-> IF n = 0 THEN 0 ELSE Step(n, h[n - 1])]
           found == CHOOSE h : h = Body(h)
<1>1. 0 \in X /\ N \in Nat /\ K \in Nat
  OBVIOUS
<1>2. f \in [(1..N) \X X -> X]
  OBVIOUS
<1>3. \A n \in 1..N, k \in X : f[<<n, k>>] = Step(n, k)
  OBVIOUS
<1> HIDE DEF f, Step
<1>4. PICK g \in [0..N -> X] : g[0] = 0 /\ \A i \in 1..N : g[i] = f[<<i, g[i - 1]>>]
  <2> HIDE DEF X, N
  <2>1. \E g \in [0..N -> X] : Recursive(g, N, 0, f)
    BY <1>1, <1>2, Recursion
  <2> QED
    BY <2>1 DEF Recursive
<1>5. g = Body(g)
  <2> HIDE DEF X, N
  <2>1. ASSUME NEW i \in 0..N PROVE Body(g)[i] = g[i]
    <3>1. CASE i = 0
      BY <1>4, <3>1
    <3>2. CASE i # 0
      <4>1. i \in 1..N /\ i - 1 \in 0..N
        BY <1>1, <3>2
      <4>2. g[i - 1] \in X
        BY <1>4, <4>1
      <4>3. g[i] = Step(i, g[i - 1])
        BY <1>3, <1>4, <4>1, <4>2
      <4> QED
        BY <3>2, <4>3
    <3> QED
      BY <3>1, <3>2
  <2> QED
    BY <1>4, <2>1
<1>6. found = Body(found)
  BY <1>5
<1>7. IsSubsequence(s, u) <=> found[N] = K
  BY DEF IsSubsequence, Step
<1> HIDE DEF found
<1>8. found[0] = 0
  BY <1>1, <1>6
<1>9. \A i \in 1..N : found[i] = Step(i, found[i - 1])
  <2> SUFFICES ASSUME NEW i \in 1..N PROVE found[i] = Step(i, found[i - 1])
    OBVIOUS
  <2>1. Body(found)[i] = Step(i, found[i - 1])
    BY <1>1
  <2> QED
    BY <1>6, <2>1
<1>10. \A i \in 0..N : found[i] \in X
  <2> HIDE DEF X, N
  <2>1. Follows(found, N, 0, f, X)
    BY <1>3, <1>8, <1>9 DEF Follows
  <2> QED
    BY <1>1, <1>2, <2>1, StepByStep
<1> DEFINE T == {n \in Nat : n <= N => \A k \in 1..K : e[k] <= n => found[n] >= k}
<1>11. 0 \in T
  <2> SUFFICES ASSUME NEW k \in 1..K, e[k] <= 0 PROVE FALSE
    BY <1>1
  <2>1. e[k] \in 1..N
    BY DEF Embedded
  <2> QED
    BY <2>1
<1>12. ASSUME NEW n \in Nat, n \in T PROVE n + 1 \in T
  <2> SUFFICES ASSUME n + 1 <= N, NEW k \in 1..K, e[k] <= n + 1 PROVE found[n + 1] >= k
    OBVIOUS
  <2>1. PICK a \in X : a = found[n]
    <3>1. n \in 0..N
      BY <1>1
    <3>2. found[n] \in X
      BY <1>10, <3>1
    <3> QED
      BY <3>2
  <2>2. found[n + 1] = IF a < K /\ s[a + 1] = u[n + 1] THEN a + 1 ELSE a
    <3>1. n + 1 \in 1..N /\ (n + 1) - 1 = n
      OBVIOUS
    <3> QED
      BY <1>9, <2>1, <3>1 DEF Step
  <2>3. \A j \in 1..K : e[j] <= n => a >= j
    BY <1>12, <2>1
  <2>4. e[k] \in 1..N /\ s[k] = u[e[k]] /\ (k > 1 => e[k - 1] < e[k])
    BY DEF Embedded
  <2>5. a >= k - 1
    <3>1. CASE k = 1
      BY <3>1
    <3>2. CASE k > 1
      <4>1. k - 1 \in 1..K /\ e[k - 1] \in 1..N
        BY <3>2 DEF Embedded
      <4>2. e[k - 1] <= n
        BY <2>4, <3>2, <4>1
      <4> QED
        BY <2>3, <4>1, <4>2
    <3> QED
      BY <3>1, <3>2
  <2>6. CASE a >= k
    BY <2>2, <2>6
  <2>7. CASE a = k - 1
    <3>1. ~ (e[k] <= n)
      BY <2>3, <2>7
    <3>2. e[k] = n + 1
      BY <2>4, <3>1
    <3>3. a < K /\ a + 1 = k
      BY <2>7
    <3>4. found[n + 1] = a + 1
      BY <2>2, <2>4, <3>2, <3>3
    <3> QED
      BY <3>3, <3>4
  <2> QED
    BY <2>5, <2>6, <2>7
<1> HIDE DEF T
<1>13. N \in T
  BY <1>11, <1>12, NatSetInduction
<1>14. found[N] = K
  <2>1. found[N] \in 0..K
    BY <1>10
  <2>2. CASE K = 0
    BY <2>1, <2>2
  <2>3. CASE K > 0
    <3>1. K \in 1..K /\ e[K] \in 1..N
      BY <2>3 DEF Embedded
    <3>2. found[N] >= K
      BY <1>13, <3>1 DEF T
    <3> QED
      BY <2>1, <3>2
  <2> QED
    BY <2>2, <2>3
<1> QED
  BY <1>7, <1>14

\* Places of ts have values in C as often as the places of ls that p pairs them with.
Paired(f, g, p, m, C) == Arrangement(p, m) /\ \A j \in 1..m : f[j] \in C <=> g[p[j]] \in C

LEMMA PairedCount ==
  ASSUME NEW m \in Nat, NEW p, NEW f, NEW g, NEW C, Paired(f, g, p, m, C)
  PROVE  Cardinality({j \in 1..m : f[j] \in C}) = Cardinality({k \in 1..m : g[k] \in C})
<1> USE DEF Paired
<1> DEFINE D == {j \in 1..m : f[j] \in C}
           E == {k \in 1..m : g[k] \in C}
<1>1. IsFiniteSet(D)
  <2>1. IsFiniteSet(1..m) /\ D \subseteq 1..m
    BY Indices
  <2> QED
    BY <2>1, FS_Subset
<1>2. \A x, y \in D : p[x] = p[y] => x = y
  BY DEF Arrangement
<1>3. {p[x] : x \in D} = E
  <2>1. ASSUME NEW k \in E PROVE \E x \in D : p[x] = k
    <3>1. PICK j \in 1..m : p[j] = k
      BY DEF Arrangement
    <3> QED
      BY <3>1
  <2>2. \A x \in D : p[x] \in E
    BY DEF Arrangement
  <2> QED
    BY <2>1, <2>2
<1>4. Cardinality({p[x] : x \in D}) = Cardinality(D)
  <2> HIDE DEF D
  <2> QED
    BY <1>1, <1>2, DistinctValues
<1> QED
  BY <1>3, <1>4

LEMMA MeantType ==
  ASSUME FewVertices, NEW t \in [1..3 -> Locals]
  PROVE  Meant(t) \in [1..3 -> Nat]
<1>1. ASSUME NEW n \in 1..3 PROVE vertices[t[n] + 1] \in Nat
  <2>1. PICK i \in 1..Len(vertices) : i = t[n] + 1
    <3>1. Len(vertices) \in Nat /\ t[n] \in 0..Len(vertices) - 1
      BY LenProperties DEF FewVertices, Locals
    <3> QED
      BY <3>1
  <2>2. vertices[i] \in Index
    BY ElementOfSeq DEF FewVertices
  <2> QED
    BY <2>1, <2>2 DEF Index
<1> QED
  BY <1>1 DEF Meant

LEMMA SameConclusion ==
  ASSUME SameInv
  PROVE  SameTriangles
<1> DEFINE whole == IF work = "extract" THEN at \div 3 ELSE Len(list)
           given == SubSeq(list, 1, whole)
           now   == [j \in 1..whole |-> Meant(triangles[j])]
<1>1. list \in Lists /\ FewVertices /\ Distinct(vertices) /\ at \in Nat /\ level \in 0..9
      /\ work \in {"extract", "order", "rotate", "renumber", "optimized"}
  BY DEF SameInv, OptimizerInv
<1>2. PICK m \in Nat : m = Len(list) /\ \A j \in 1..m : list[j] \in [1..3 -> Nat]
  BY <1>1, ListType
<1>3. whole \in 0..m
  <2>1. CASE work = "extract"
    <3>1. at <= 3 * m
      BY <1>2, <2>1 DEF SameInv, OptimizerInv, Extracting
    <3> QED
      BY <1>1, <2>1, <3>1
  <2> QED
    BY <1>2, <2>1
<1>4. /\ DOMAIN given = 1..whole
      /\ \A j \in 1..whole : given[j] = list[j]
      /\ given = [j \in 1..whole |-> list[j]]
  BY <1>2, <1>3
<1>5. DOMAIN now = 1..whole /\ \A j \in 1..whole : now[j] = Meant(triangles[j])
  OBVIOUS
<1>6. work = "extract" => now = given
  <2> SUFFICES ASSUME work = "extract" PROVE now = given
    OBVIOUS
  <2>1. Extracting
    BY DEF SameInv, OptimizerInv
  <2>2. ASSUME NEW j \in 1..whole PROVE Meant(triangles[j]) = list[j]
    <3>1. j \in 1..Len(triangles) /\ 3 * j <= at
      <4>1. Len(triangles) = (at + 2) \div 3 /\ whole = at \div 3
        BY <2>1 DEF Extracting
      <4> QED
        BY <1>1, <4>1
    <3>2. Len(triangles[j]) = 3
      <4>1. Len(triangles[j]) = Smaller(3, at - 3 * (j - 1))
        BY <2>1, <3>1 DEF Extracting
      <4>2. ~ (3 < at - 3 * (j - 1)) => at - 3 * (j - 1) = 3
        BY <1>1, <1>3, <3>1
      <4> QED
        BY <4>1, <4>2 DEF Smaller
    <3>3. \A n \in 1..3 : vertices[triangles[j][n] + 1] = list[j][n]
      BY <2>1, <3>1, <3>2 DEF Extracting, StandFor
    <3>4. Meant(triangles[j]) = [n \in 1..3 |-> list[j][n]]
      BY <3>3 DEF Meant
    <3>5. list[j] \in [1..3 -> Nat]
      BY <1>2, <1>3
    <3> QED
      BY <3>4, <3>5
  <2> HIDE DEF whole, given
  <2> QED
    BY <1>4, <2>2
<1>7. IsInjective(vertices)
  <2>1. DOMAIN vertices = 1..Len(vertices)
    BY <1>1, LenProperties DEF FewVertices
  <2> QED
    BY <1>1, <2>1 DEF IsInjective, Distinct
<1>8. CASE work = "extract"
  <2>1. now = given
    BY <1>6, <1>8
  <2> HIDE DEF now, given, whole
  <2>2. /\ \A j \in 1..whole : CountOf(now, given[j]) = CountOf(given, given[j])
        /\ IsInjective(vertices)
        /\ work = "extract" => now = given
        /\ work = "order" => IsSubsequence(SubSeq(now, at + 1, whole), list)
    BY <1>7, <1>8, <2>1
  <2> QED
    BY <2>2 DEF SameTriangles, now, given, whole
<1>9. CASE work # "extract"
  <2>1. PICK p : Arranged(p) /\ (work = "order" => Waiting(p))
    BY <1>9 DEF SameInv
  <2>2. Len(triangles) = m /\ whole = m /\ \A j \in 1..m : triangles[j] \in [1..3 -> Locals]
    <3>1. Len(triangles) = Len(list) /\ Whole
      BY <1>9 DEF SameInv, OptimizerInv
    <3> QED
      BY <1>2, <1>9, <3>1, WholeLen
  <2>3. Arrangement(p, m) /\ \A j \in 1..m : Meant(triangles[j]) \in Allowed(list[p[j]])
    BY <1>2, <2>1 DEF Arranged
  <2> HIDE DEF now, given, whole
  <2>4. \A j \in 1..m : now[j] \in [1..3 -> Nat] /\ given[j] = list[j]
    BY <1>1, <1>4, <1>5, <2>2, MeantType
  <2>5. ASSUME NEW i \in 1..m PROVE CountOf(now, given[i]) = CountOf(given, given[i])
    <3>1. PICK t \in [1..3 -> Nat] : t = given[i]
      BY <1>2, <2>4
    <3> DEFINE C == Allowed(t)
    <3>2. ASSUME NEW j \in 1..m PROVE now[j] \in C <=> given[p[j]] \in C
      <4>1. p[j] \in 1..m
        BY <2>3 DEF Arrangement
      <4>2. PICK u \in [1..3 -> Nat] : u = given[p[j]] /\ u = list[p[j]]
        BY <1>2, <2>4, <4>1
      <4>3. PICK w \in [1..3 -> Nat] : w = now[j]
        BY <2>4
      <4>4. w \in Allowed(u)
        BY <1>5, <2>2, <2>3, <4>2, <4>3
      <4>5. CASE level = 0
        BY <4>2, <4>3, <4>4, <4>5 DEF Allowed
      <4>6. CASE level # 0
        <5>1. w \in Turns(u) /\ C = Turns(t)
          BY <4>4, <4>6 DEF Allowed
        <5>2. u \in Turns(w)
          BY <5>1, TurnsRelation
        <5>3. w \in Turns(t) <=> u \in Turns(t)
          BY <5>1, <5>2, TurnsRelation
        <5> QED
          BY <4>2, <4>3, <5>1, <5>3
      <4> QED
        BY <4>5, <4>6
    <3>3. CountOf(now, t) = Cardinality({j \in 1..m : now[j] \in C})
      BY <1>5, <2>2 DEF CountOf
    <3>4. CountOf(given, t) = Cardinality({j \in 1..m : given[j] \in C})
      BY <1>4, <2>2 DEF CountOf
    <3> HIDE DEF C
    <3>5. Cardinality({j \in 1..m : now[j] \in C}) = Cardinality({j \in 1..m : given[j] \in C})
      <4>1. Paired(now, given, p, m, C)
        BY <2>3, <3>2 DEF Paired
      <4> QED
        BY <4>1, PairedCount
    <3> QED
      BY <3>1, <3>3, <3>4, <3>5
  <2>6. ASSUME work = "order" PROVE IsSubsequence(SubSeq(now, at + 1, whole), list)
    <3>1. /\ \A j \in 1..m : Meant(triangles[j]) = list[p[j]]
          /\ \A i, j \in at + 1..m : i < j => p[i] < p[j]
      BY <1>2, <2>1, <2>6 DEF Waiting
    <3>2. at <= m
      BY <2>2, <2>6 DEF SameInv, OptimizerInv
    <3>3. PICK s : s = SubSeq(now, at + 1, m)
      OBVIOUS
    <3>4. Len(s) = m - at /\ \A k \in 1..m - at : s[k] = now[at + k]
      <4>1. \A i \in at + 1..m : now[i] \in [1..3 -> Nat]
        BY <1>1, <2>4
      <4>2. PICK T : T = [1..3 -> Nat]
        OBVIOUS
      <4>3. \A i \in at + 1..m : now[i] \in T
        BY <4>1, <4>2
      <4>4. Len(s) = (IF at + 1 <= m THEN m - (at + 1) + 1 ELSE 0)
            /\ \A k \in 1..m - (at + 1) + 1 : s[k] = now[(at + 1) + k - 1]
        <5>1. at + 1 \in Int /\ m \in Int
          BY <1>1
        <5> QED
          BY <3>3, <4>3, <5>1, SubSeqProperties
      <4> QED
        BY <1>1, <3>2, <4>4
    <3> DEFINE e == [k \in 1..m - at |-> p[at + k]]
    <3>5. ASSUME NEW k \in 1..m - at
          PROVE  e[k] \in 1..m /\ s[k] = list[e[k]] /\ (k > 1 => e[k - 1] < e[k])
      <4>1. at + k \in 1..m /\ at + k \in at + 1..m
        BY <1>1, <3>2
      <4>2. e[k] = p[at + k] /\ e[k] \in 1..m
        BY <2>3, <4>1 DEF Arrangement
      <4>3. s[k] = list[p[at + k]]
        BY <1>5, <2>2, <3>1, <3>4, <4>1
      <4>4. ASSUME k > 1 PROVE e[k - 1] < e[k]
        <5>1. k - 1 \in 1..m - at /\ at + (k - 1) \in at + 1..m /\ at + (k - 1) < at + k
          BY <1>1, <3>2, <4>4
        <5>2. e[k - 1] = p[at + (k - 1)]
          BY <5>1
        <5> QED
          BY <3>1, <4>1, <4>2, <5>1, <5>2
      <4> QED
        BY <4>2, <4>3, <4>4
    <3> HIDE DEF e
    <3>6. Embedded(s, list, e)
      BY <1>2, <3>4, <3>5 DEF Embedded
    <3>7. Len(s) \in Nat /\ Len(list) \in Nat
      BY <1>1, <1>2, <3>2, <3>4
    <3>8. IsSubsequence(s, list)
      BY <3>6, <3>7, SubsequenceFound
    <3> QED
      BY <2>2, <3>3, <3>8
  <2>7. /\ \A j \in 1..whole : CountOf(now, given[j]) = CountOf(given, given[j])
        /\ IsInjective(vertices)
        /\ work = "extract" => now = given
        /\ work = "order" => IsSubsequence(SubSeq(now, at + 1, whole), list)
    BY <1>7, <1>9, <2>2, <2>5, <2>6
  <2> QED
    BY <2>7 DEF SameTriangles, now, given, whole
<1> QED
  BY <1>8, <1>9

LEMMA SameStutters ==
  ASSUME SameInv, UNCHANGED optimizerVars
  PROVE  SameInv'
<1>1. UNCHANGED <<list, level, work, vertices, triangles, at, cache, valence>>
  BY DEF optimizerVars
<1>2. OptimizerInv'
  <2>1. OptimizerInv
    BY DEF SameInv
  <2> QED
    BY <1>1, <2>1 DEF OptimizerInv, FewVertices, Extracting, Whole, Locals, StandFor
<1>3. AllNeeded' <=> AllNeeded
  BY <1>1 DEF AllNeeded, Locals
<1>4. \A p : Arranged(p)' <=> Arranged(p)
  BY <1>1 DEF Arranged, Meant, Allowed
<1>5. \A p : Waiting(p)' <=> Waiting(p)
  BY <1>1 DEF Waiting, Meant
<1> QED
  BY <1>1, <1>2, <1>3, <1>4, <1>5 DEF SameInv

\* The optimizer keeps the triangles of a meshlet (SameTriangles): extraction numbers the vertices
\* so that every triangle can be found again, reordering permutes the triangles without passing
\* one that waits, rotation and renumbering change no more than the first corner and the numbers.
THEOREM OptimizerKeepsTriangles == Spec => []SameTriangles
<1>1. Init => SameInv
  <2> SUFFICES ASSUME Init PROVE SameInv
    OBVIOUS
  <2>1. OptimizerInv /\ work = "extract" /\ vertices = <<>>
    BY OptimizerInitially DEF Init, OptimizerInit
  <2>2. Distinct(vertices)
    BY <2>1 DEF Distinct
  <2> QED
    BY <2>1, <2>2 DEF SameInv
<1>2. SameInv /\ [Next]_vars => SameInv'
  <2> SUFFICES ASSUME SameInv, [Next]_vars PROVE SameInv'
    OBVIOUS
  <2>1. CASE OptimizerNext
    BY <2>1, SameKept
  <2>2. CASE UNCHANGED optimizerVars
    BY <2>2, SameStutters
  <2>3. OptimizerNext \/ UNCHANGED optimizerVars
    BY DEF Next, Optimize, Encode, vars
  <2> QED
    BY <2>1, <2>2, <2>3
<1>3. SameInv => SameTriangles
  BY SameConclusion
<1> QED
  BY <1>1, <1>2, <1>3, PTL DEF Spec

-----------------------------------------------------------------------------
(* The encoder's data *)

Byte == 0..ByteValues - 1

LEMMA PowerSum == \A a, b \in Nat : 2^(a + b) = 2^a * 2^b
<1> SUFFICES ASSUME NEW a \in Nat PROVE \A b \in Nat : 2^(a + b) = 2^a * 2^b
  OBVIOUS
<1> DEFINE T == {b \in Nat : 2^(a + b) = 2^a * 2^b}
<1>1. 0 \in T
  <2>1. 2^0 = 1 /\ a + 0 = a /\ 2^a \in Nat
    BY PowerType
  <2>2. 2^(a + 0) = 2^a * 2^0
    BY <2>1
  <2> QED
    BY <2>2
<1>2. ASSUME NEW b \in Nat, b \in T PROVE b + 1 \in T
  <2>1. PICK x \in Nat, y \in Nat : x = 2^a /\ y = 2^b
    BY PowerType
  <2>2. 2^(a + b) = x * y
    BY <1>2, <2>1
  <2>3. a + (b + 1) = (a + b) + 1 /\ a + b \in Nat
    OBVIOUS
  <2>4. 2^((a + b) + 1) = 2 * (x * y)
    BY <2>2, <2>3, PowerDouble
  <2>5. 2^(b + 1) = 2 * y
    BY <2>1, PowerDouble
  <2>6. 2 * (x * y) = x * (2 * y)
    OBVIOUS
  <2>7. 2^(a + (b + 1)) = 2^a * 2^(b + 1)
    BY <2>1, <2>3, <2>4, <2>5, <2>6
  <2> QED
    BY <2>7
<1> HIDE DEF T
<1>3. Nat \subseteq T
  BY <1>1, <1>2, NatSetInduction
<1> QED
  BY <1>3 DEF T

LEMMA ByteRange ==
  /\ ByteValues \in 2..256 /\ ByteValues % 2 = 0
  /\ Modulus \in Nat /\ Modulus % 2 = 0 /\ Modulus > 1
  /\ Modulus = ByteValues * (ByteValues * (ByteValues * ByteValues))
  /\ ShortModulus \in 1..Modulus
<1>1. PICK b \in 1..8 : b = ByteBits
  BY CodecAssumption
<1>2. PICK h \in Nat \ {0} : h = 2^(b - 1)
  <2>1. b - 1 \in Nat
    BY <1>1
  <2> QED
    BY <2>1, PowerPositive
<1>3. ByteValues = 2 * h
  <2>1. b - 1 \in Nat /\ (b - 1) + 1 = b
    BY <1>1
  <2>2. 2^((b - 1) + 1) = 2 * h
    BY <1>2, <2>1, PowerDouble
  <2> QED
    BY <1>1, <2>1, <2>2 DEF ByteValues
<1>4. ByteValues <= 256
  <2>1. 2^b <= 2^8
    <3>1. b \in Nat /\ 8 \in Nat /\ b <= 8
      BY <1>1
    <3> QED
      BY <3>1, PowerMonotone
  <2>2. 2^8 = 256
    <3>1. 2^0 = 1
      OBVIOUS
    <3>2. /\ 2^(0 + 1) = 2 * 2^0 /\ 2^(1 + 1) = 2 * 2^1 /\ 2^(2 + 1) = 2 * 2^2 /\ 2^(3 + 1) = 2 * 2^3
          /\ 2^(4 + 1) = 2 * 2^4 /\ 2^(5 + 1) = 2 * 2^5 /\ 2^(6 + 1) = 2 * 2^6 /\ 2^(7 + 1) = 2 * 2^7
      BY PowerDouble
    <3> QED
      BY <3>1, <3>2
  <2>3. 2^b \in Nat
    BY <1>1, PowerType
  <2> QED
    BY <1>1, <2>1, <2>2, <2>3 DEF ByteValues
<1>5. ByteValues \in 2..256 /\ ByteValues % 2 = 0
  BY <1>2, <1>3, <1>4
<1>6. Modulus = ByteValues * (ByteValues * (ByteValues * ByteValues))
  <2>1. Width = b + (b + (b + b))
    BY <1>1, CodecAssumption
  <2>2. PICK x \in Nat : x = 2^b /\ x = ByteValues
    BY <1>1, <1>5 DEF ByteValues
  <2>3. b \in Nat /\ b + b \in Nat /\ b + (b + b) \in Nat
    BY <1>1
  <2>4. /\ 2^(b + b) = 2^b * 2^b /\ 2^(b + (b + b)) = 2^b * 2^(b + b)
        /\ 2^(b + (b + (b + b))) = 2^b * 2^(b + (b + b))
    BY <2>3, PowerSum
  <2>5. 2^(b + (b + (b + b))) = x * (x * (x * x))
    BY <2>2, <2>4
  <2> QED
    BY <2>1, <2>2, <2>5 DEF Modulus
<1>7. Modulus \in Nat /\ Modulus % 2 = 0 /\ Modulus > 1 /\ ShortModulus \in 1..Modulus
  <2>1. Width - 1 \in Nat /\ ShortWidth \in Nat /\ Width \in Nat /\ ShortWidth <= Width
    BY <1>1, CodecAssumption
  <2>2. PICK g \in Nat \ {0} : g = 2^(Width - 1)
    BY <2>1, PowerPositive
  <2>3. (Width - 1) + 1 = Width
    BY <2>1
  <2>4. 2^((Width - 1) + 1) = 2 * g
    BY <2>1, <2>2, PowerDouble
  <2>5. Modulus = 2 * g
    BY <2>3, <2>4 DEF Modulus
  <2>6. 2^ShortWidth \in Nat \ {0} /\ 2^ShortWidth <= 2^Width
    BY <2>1, PowerPositive, PowerMonotone
  <2> QED
    BY <2>2, <2>5, <2>6 DEF Modulus, ShortModulus
<1> QED
  BY <1>5, <1>6, <1>7

\* A function on 1..n is a sequence.
LEMMA LenOf ==
  ASSUME NEW n \in Nat, NEW f, f = [i \in 1..n |-> f[i]]
  PROVE  Len(f) = n /\ DOMAIN f = 1..n
<1> DEFINE S == {f[i] : i \in 1..n}
<1>1. f \in [1..n -> S]
  <2>1. \A i \in 1..n : f[i] \in S
    OBVIOUS
  <2> HIDE DEF S
  <2> QED
    BY <2>1
<1>2. DOMAIN f = 1..n
  BY <1>1
<1> HIDE DEF S
<1> QED
  BY <1>1, <1>2, SeqOfFunction

MeshInv ==
  /\ mesh.vertices \in Seq(Index) /\ VertexCount <= ByteValues
  /\ mesh.triangles \in Seq([1..3 -> 0..VertexCount - 1])

EncoderType ==
  /\ codes \in Seq(0..15) /\ extra \in Seq(Byte) /\ fifo \in Seq(Byte \X Byte)
  /\ Len(codes) <= TriangleCount /\ Len(extra) <= 3 * Len(codes)

LEMMA MeshCounts ==
  ASSUME MeshInv
  PROVE  VertexCount \in 0..ByteValues /\ TriangleCount \in Nat
<1>1. VertexCount \in Nat /\ TriangleCount \in Nat
  BY LenProperties DEF MeshInv, VertexCount, TriangleCount
<1> QED
  BY <1>1, ByteRange DEF MeshInv

LEMMA MeshTriangle ==
  ASSUME MeshInv, NEW i \in 1..TriangleCount
  PROVE  mesh.triangles[i] \in [1..3 -> Byte]
<1>1. mesh.triangles[i] \in [1..3 -> 0..VertexCount - 1]
  BY ElementOfSeq DEF MeshInv, TriangleCount
<1>2. 0..VertexCount - 1 \subseteq Byte
  BY MeshCounts, ByteRange DEF Byte
<1> QED
  BY <1>1, <1>2

LEMMA RotatedIs ==
  ASSUME NEW L, NEW t \in [1..3 -> L], NEW k \in 0..2
  PROVE  Rotated(t, k) = Turn(t, k) /\ Rotated(t, k) \in [1..3 -> L]
<1>1. Rotated(t, k) = Turn(t, k)
  BY DEF Rotated, Turn, Corner
<1>2. k = 0 \/ k = 1 \/ k = 2
  OBVIOUS
<1> QED
  BY <1>1, <1>2, TurnIs

\* The encoder turned t to r.
IsTurned(t, r) == r \in [1..3 -> Byte] /\ \E k \in 0..2 : r = Rotated(t, k)

Reuse(t, age, r) ==
  /\ age \in 0..5 /\ age < Len(fifo) /\ IsTurned(t, r)
  /\ fifo[age + 1] = <<r[1], r[2]>>

LEMMA ReuseIs ==
  ASSUME NEW t \in [1..3 -> Byte], fifo \in Seq(Byte \X Byte), Reusable(t)
  PROVE  Reuse(t, EdgeAge(t), Rotated(t, EdgeCorner(t, EdgeAge(t))))
<1>1. EdgeAges(t) \subseteq Nat /\ EdgeAges(t) # {} /\ EdgeAge(t) < 6
  <2>1. Len(fifo) \in Nat
    BY LenProperties
  <2> QED
    BY <2>1 DEF EdgeAges, Reusable
<1>2. EdgeAge(t) \in EdgeAges(t)
  BY <1>1, MinIs DEF EdgeAge
<1>3. PICK age : age = EdgeAge(t)
  OBVIOUS
<1>4. age \in 0..Len(fifo) - 1 /\ age < 6 /\ \E k \in 0..2 : StartsWith(Rotated(t, k), fifo[age + 1])
  BY <1>1, <1>2, <1>3 DEF EdgeAges
<1> DEFINE K == {k \in 0..2 : StartsWith(Rotated(t, k), fifo[age + 1])}
<1>5. K \subseteq Nat /\ K # {}
  BY <1>4
<1>6. Min(K) \in K
  <2> HIDE DEF K
  <2> QED
    BY <1>5, MinIs
<1>7. EdgeCorner(t, age) = Min(K)
  BY DEF EdgeCorner
<1>8. PICK k \in 0..2 : k = EdgeCorner(t, age) /\ StartsWith(Rotated(t, k), fifo[age + 1])
  BY <1>6, <1>7
<1>9. IsTurned(t, Rotated(t, k))
  BY RotatedIs DEF IsTurned
<1>10. Len(fifo) \in Nat
  BY LenProperties
<1> QED
  BY <1>3, <1>4, <1>8, <1>9, <1>10 DEF Reuse, StartsWith

Restart(t, r, fresh) ==
  /\ IsTurned(t, r) /\ fresh \in 0..3
  /\ \A j \in 1..fresh : r[3 - fresh + j] = next + j - 1
  /\ SubSeq(r, 1, 3 - fresh) \in Seq(Byte) /\ Len(SubSeq(r, 1, 3 - fresh)) = 3 - fresh
  /\ \A j \in 1..3 - fresh : SubSeq(r, 1, 3 - fresh)[j] = r[j]

LEMMA RestartIs ==
  ASSUME NEW t \in [1..3 -> Byte]
  PROVE  Restart(t, Rotated(t, RestartTurn(t)), FreshCorners(Rotated(t, RestartTurn(t))))
<1>1. RestartTurn(t) \in 0..2
  BY DEF RestartTurn
<1>2. PICK r \in [1..3 -> Byte] : r = Rotated(t, RestartTurn(t)) /\ IsTurned(t, r)
  BY <1>1, RotatedIs DEF IsTurned
<1> DEFINE F == {n \in 0..3 : \A j \in 1..n : r[3 - n + j] = next + j - 1}
<1>3. Max(F) \in F
  <2>1. F \subseteq 0..3 /\ 0 \in F
    OBVIOUS
  <2>2. 3 \in Nat
    OBVIOUS
  <2> HIDE DEF F
  <2> QED
    BY <2>1, <2>2, MaxIs
<1>4. FreshCorners(r) = Max(F)
  BY DEF FreshCorners
<1>5. PICK fresh \in 0..3 : fresh = FreshCorners(r) /\ \A j \in 1..fresh : r[3 - fresh + j] = next + j - 1
  BY <1>3, <1>4
<1>6. /\ SubSeq(r, 1, 3 - fresh) \in Seq(Byte) /\ Len(SubSeq(r, 1, 3 - fresh)) = 3 - fresh
      /\ \A j \in 1..3 - fresh : SubSeq(r, 1, 3 - fresh)[j] = r[j]
  <2>1. PICK n \in 0..3 : n = 3 - fresh
    BY <1>5
  <2>2. \A j \in 1..n : r[j] \in Byte
    OBVIOUS
  <2>3. /\ SubSeq(r, 1, n) \in Seq(Byte) /\ Len(SubSeq(r, 1, n)) = (IF 1 <= n THEN n - 1 + 1 ELSE 0)
        /\ \A j \in 1..n - 1 + 1 : SubSeq(r, 1, n)[j] = r[1 + j - 1]
    <3>1. 1 \in Int /\ n \in Int
      OBVIOUS
    <3> QED
      BY <2>2, <3>1, SubSeqProperties
  <2>4. n - 1 + 1 = n /\ (IF 1 <= n THEN n - 1 + 1 ELSE 0) = n /\ \A j \in 1..n : 1 + j - 1 = j
    OBVIOUS
  <2>5. /\ SubSeq(r, 1, n) \in Seq(Byte) /\ Len(SubSeq(r, 1, n)) = n
        /\ \A j \in 1..n : SubSeq(r, 1, n)[j] = r[j]
    BY <2>3, <2>4
  <2> QED
    BY <2>1, <2>5
<1> QED
  BY <1>2, <1>5, <1>6 DEF Restart

\* The edges of r come first.
PushedTo(q, r) ==
  /\ q \in Seq(Byte \X Byte) /\ Len(q) = Smaller(8, Len(fifo) + 2)
  /\ q[1] = <<r[1], r[3]>> /\ q[2] = <<r[3], r[2]>>
  /\ \A i \in 3..Len(q) : q[i] = fifo[i - 2]

LEMMA PushedIs ==
  ASSUME NEW r \in [1..3 -> Byte], fifo \in Seq(Byte \X Byte)
  PROVE  PushedTo(Pushed(r), r)
<1> DEFINE S == Byte \X Byte
           e == <<<<r[1], r[3]>>, <<r[3], r[2]>>>>
<1>1. PICK n \in Nat : n = Len(fifo)
  BY LenProperties
<1>2. e \in Seq(S) /\ Len(e) = 2 /\ e[1] = <<r[1], r[3]>> /\ e[2] = <<r[3], r[2]>>
  OBVIOUS
<1> HIDE DEF e, S
<1>3. PICK all \in Seq(S) : /\ all = e \o fifo /\ Len(all) = n + 2
                            /\ \A i \in 1..n + 2 : all[i] = IF i <= 2 THEN e[i] ELSE fifo[i - 2]
  <2>1. fifo \in Seq(S)
    BY DEF S
  <2>2. /\ e \o fifo \in Seq(S) /\ Len(e \o fifo) = Len(e) + Len(fifo)
        /\ \A i \in 1..Len(e) + Len(fifo) : (e \o fifo)[i] = IF i <= Len(e) THEN e[i] ELSE fifo[i - Len(e)]
    BY <1>2, <2>1, ConcatProperties
  <2>3. Len(e) + Len(fifo) = n + 2
    BY <1>1, <1>2
  <2> QED
    BY <1>2, <2>2, <2>3
<1>4. PICK k \in 2..n + 2 : k = Smaller(8, n + 2)
  BY DEF Smaller
<1>5. PICK q : q = Pushed(r) /\ q = SubSeq(all, 1, k)
  BY <1>3, <1>4 DEF Pushed, e
<1>6. q \in Seq(S) /\ Len(q) = k /\ \A i \in 1..k : q[i] = all[i]
  <2>1. \A i \in 1..k : all[i] \in S
    BY <1>3, ElementOfSeq
  <2>2. 1 \in Int /\ k \in Int
    OBVIOUS
  <2>3. /\ q \in Seq(S) /\ Len(q) = (IF 1 <= k THEN k - 1 + 1 ELSE 0)
        /\ \A i \in 1..k - 1 + 1 : q[i] = all[1 + i - 1]
    BY <1>5, <2>1, <2>2, SubSeqProperties
  <2>4. k - 1 + 1 = k /\ 1 <= k /\ \A i \in 1..k : 1 + i - 1 = i
    OBVIOUS
  <2> QED
    BY <2>3, <2>4
<1>7. \A i \in 1..k : q[i] = IF i <= 2 THEN e[i] ELSE fifo[i - 2]
  <2> SUFFICES ASSUME NEW i \in 1..k PROVE q[i] = IF i <= 2 THEN e[i] ELSE fifo[i - 2]
    OBVIOUS
  <2>1. i \in 1..n + 2
    BY <1>1
  <2>2. all[i] = IF i <= 2 THEN e[i] ELSE fifo[i - 2]
    BY <1>3, <2>1
  <2> QED
    BY <1>6, <2>2
<1>8. q[1] = e[1] /\ q[2] = e[2] /\ \A i \in 3..k : q[i] = fifo[i - 2]
  <2>1. 1 \in 1..k /\ 2 \in 1..k
    OBVIOUS
  <2>2. q[1] = e[1] /\ q[2] = e[2]
    BY <1>7, <2>1
  <2>3. \A i \in 3..k : i \in 1..k /\ ~ (i <= 2)
    OBVIOUS
  <2> QED
    BY <1>7, <2>2, <2>3
<1> QED
  BY <1>1, <1>2, <1>4, <1>5, <1>6, <1>8 DEF PushedTo, S

LEMMA ReuseType ==
  ASSUME MeshInv, EncoderType, EncodeReuse
  PROVE  EncoderType' /\ phase = "encode" /\ UNCHANGED <<mesh, phase, stream, call, dec>>
<1>1. PICK m \in Nat : m = Len(codes) /\ m < TriangleCount
  BY LenProperties DEF EncoderType, EncodeReuse
<1>2. PICK t \in [1..3 -> Byte] : t = mesh.triangles[m + 1]
  <2>1. m + 1 \in 1..TriangleCount
    BY <1>1, MeshCounts
  <2> QED
    BY <2>1, MeshTriangle
<1> DEFINE age == EdgeAge(t)
           r == Rotated(t, EdgeCorner(t, age))
           fec == IF r[3] = next THEN 0 ELSE 1
<1>3. Reuse(t, age, r) /\ fifo \in Seq(Byte \X Byte)
  BY <1>1, <1>2, ReuseIs DEF EncoderType, EncodeReuse
<1>4. /\ codes' = Append(codes, age * 2 + fec)
      /\ extra' = IF fec = 1 THEN Append(extra, r[3]) ELSE extra
      /\ fifo' = Pushed(r)
      /\ phase = "encode" /\ UNCHANGED <<mesh, phase, stream, call, dec>>
  BY <1>1, <1>2 DEF EncodeReuse
<1>5. age \in 0..5 /\ r \in [1..3 -> Byte] /\ fec \in 0..1
  BY <1>3 DEF Reuse, IsTurned
<1> HIDE DEF age, r, fec
<1>6. codes' \in Seq(0..15) /\ Len(codes') = m + 1
  <2>1. PICK c \in 0..15 : c = age * 2 + fec
    BY <1>5
  <2> QED
    BY <1>1, <1>4, <2>1, Enqueue DEF EncoderType
<1>7. extra' \in Seq(Byte) /\ Len(extra') <= 3 * (m + 1)
  <2>1. PICK n \in Nat : n = Len(extra) /\ n <= 3 * m
    BY <1>1, LenProperties DEF EncoderType
  <2>2. r[3] \in Byte
    BY <1>5
  <2>3. Append(extra, r[3]) \in Seq(Byte) /\ Len(Append(extra, r[3])) = n + 1
    BY <2>1, <2>2, Enqueue DEF EncoderType
  <2>4. CASE fec = 1
    BY <1>4, <2>1, <2>3, <2>4
  <2>5. CASE fec # 1
    BY <1>4, <2>1, <2>5 DEF EncoderType
  <2> QED
    BY <2>4, <2>5
<1>8. fifo' \in Seq(Byte \X Byte)
  BY <1>3, <1>4, <1>5, PushedIs DEF PushedTo
<1>9. TriangleCount' = TriangleCount /\ TriangleCount \in Nat
  BY <1>4, MeshCounts DEF TriangleCount
<1> QED
  BY <1>1, <1>4, <1>6, <1>7, <1>8, <1>9 DEF EncoderType

LEMMA RestartType ==
  ASSUME MeshInv, EncoderType, EncodeRestart
  PROVE  EncoderType' /\ phase = "encode" /\ UNCHANGED <<mesh, phase, stream, call, dec>>
<1>1. PICK m \in Nat : m = Len(codes) /\ m < TriangleCount
  BY LenProperties DEF EncoderType, EncodeRestart
<1>2. PICK t \in [1..3 -> Byte] : t = mesh.triangles[m + 1]
  <2>1. m + 1 \in 1..TriangleCount
    BY <1>1, MeshCounts
  <2> QED
    BY <2>1, MeshTriangle
<1> DEFINE r == Rotated(t, RestartTurn(t))
           fresh == FreshCorners(r)
<1>3. Restart(t, r, fresh) /\ fifo \in Seq(Byte \X Byte)
  BY RestartIs DEF EncoderType
<1>4. /\ codes' = Append(codes, 12 + 3 - fresh)
      /\ extra' = extra \o SubSeq(r, 1, 3 - fresh)
      /\ fifo' = Pushed(r)
      /\ phase = "encode" /\ UNCHANGED <<mesh, phase, stream, call, dec>>
  BY <1>1, <1>2 DEF EncodeRestart
<1>5. /\ fresh \in 0..3 /\ r \in [1..3 -> Byte]
      /\ SubSeq(r, 1, 3 - fresh) \in Seq(Byte) /\ Len(SubSeq(r, 1, 3 - fresh)) = 3 - fresh
  BY <1>3 DEF Restart, IsTurned
<1> HIDE DEF r, fresh
<1>6. codes' \in Seq(0..15) /\ Len(codes') = m + 1
  <2>1. PICK c \in 0..15 : c = 12 + 3 - fresh
    BY <1>5
  <2> QED
    BY <1>1, <1>4, <2>1, Enqueue DEF EncoderType
<1>7. extra' \in Seq(Byte) /\ Len(extra') <= 3 * (m + 1)
  <2>1. PICK n \in Nat : n = Len(extra) /\ n <= 3 * m
    BY <1>1, LenProperties DEF EncoderType
  <2>2. PICK s \in Seq(Byte) : s = SubSeq(r, 1, 3 - fresh) /\ Len(s) = 3 - fresh
    BY <1>5
  <2>3. extra \o s \in Seq(Byte) /\ Len(extra \o s) = Len(extra) + Len(s)
    BY ConcatProperties DEF EncoderType
  <2> QED
    BY <1>4, <1>5, <2>1, <2>2, <2>3
<1>8. fifo' \in Seq(Byte \X Byte)
  BY <1>3, <1>4, <1>5, PushedIs DEF PushedTo
<1>9. TriangleCount' = TriangleCount /\ TriangleCount \in Nat
  BY <1>4, MeshCounts DEF TriangleCount
<1> QED
  BY <1>1, <1>4, <1>6, <1>7, <1>8, <1>9 DEF EncoderType

-----------------------------------------------------------------------------
(* References in groups *)

LEMMA ReferenceType ==
  ASSUME MeshInv, NEW i \in Nat \ {0}
  PROVE  /\ Reference(i) \in Index
         /\ i <= VertexCount => /\ mesh.vertices[i] \in Index /\ Before(i) \in Index
                                /\ UnZigZag(Reference(i)) = Minus(Minus(mesh.vertices[i], Before(i)), 1)
<1>1. Modulus \in Nat /\ Modulus % 2 = 0 /\ 0 \in Index /\ 1 \in Index /\ Modulus - 1 \in Index
  BY ByteRange DEF Index
<1>2. CASE i > VertexCount
  BY <1>1, <1>2, MeshCounts DEF Reference
<1>3. CASE i <= VertexCount
  <2>1. i \in 1..Len(mesh.vertices) /\ (i # 1 => i - 1 \in 1..Len(mesh.vertices))
    BY <1>3, MeshCounts DEF VertexCount
  <2>2. mesh.vertices[i] \in Index /\ Before(i) \in Index
    BY <1>1, <2>1, ElementOfSeq DEF MeshInv, Before
  <2>3. PICK d \in Index : d = Minus(mesh.vertices[i], Before(i))
    BY <1>1, <2>2, DifferenceInverse
  <2>4. PICK e \in Index : e = Minus(d, 1)
    BY <1>1, DifferenceInverse
  <2>5. Reference(i) = ZigZag(e)
    <3>1. ~ (i > VertexCount)
      BY <1>3, MeshCounts
    <3> QED
      BY <2>3, <2>4, <3>1 DEF Reference
  <2>6. ZigZag(e) \in Index /\ UnZigZag(ZigZag(e)) = e
    BY <1>1, ZigZagInverse
  <2> QED
    BY <2>2, <2>3, <2>4, <2>5, <2>6
<1> QED
  BY <1>2, <1>3, MeshCounts

\* Values of a group, and the bytes of each.
Values(vs) == vs \in [1..4 -> Index]
Size(vs, n) == IF Use4(vs) THEN 4 ELSE SizeCode(vs, n)

LEMMA GroupValuesType ==
  ASSUME MeshInv, NEW g \in Nat \ {0}
  PROVE  Values(GroupValues(g)) /\ \A n \in 1..4 : GroupValues(g)[n] = Reference(4 * (g - 1) + n)
<1>1. \A n \in 1..4 : 4 * (g - 1) + n \in Nat \ {0}
  OBVIOUS
<1>2. \A n \in 1..4 : Reference(4 * (g - 1) + n) \in Index
  BY <1>1, ReferenceType
<1> QED
  BY <1>2 DEF GroupValues, Values

LEMMA QuotientType == ASSUME NEW b \in Nat \ {0}, NEW v \in Nat PROVE v \div b \in Nat
  OBVIOUS

LEMMA BytesType ==
  ASSUME NEW v \in Nat
  PROVE  Bytes(v) \in Seq(Byte) /\ Len(Bytes(v)) = 4 /\ \A j \in 1..4 : Highs(v)[j] \in Nat /\ Bytes(v)[j] \in Byte
<1>1. PICK b \in Nat \ {0} : b = ByteValues
  BY ByteRange
<1>2. v \div b \in Nat /\ (v \div b) \div b \in Nat /\ ((v \div b) \div b) \div b \in Nat
  BY QuotientType
<1>3. \A j \in 1..4 : Highs(v)[j] \in Nat
  <2>1. Highs(v) = <<v, v \div b, (v \div b) \div b, ((v \div b) \div b) \div b>>
    BY <1>1 DEF Highs
  <2>2. \A j \in 1..4 : j = 1 \/ j = 2 \/ j = 3 \/ j = 4
    OBVIOUS
  <2>3. /\ Highs(v)[1] = v /\ Highs(v)[2] = v \div b /\ Highs(v)[3] = (v \div b) \div b
        /\ Highs(v)[4] = ((v \div b) \div b) \div b
    BY <2>1
  <2> QED
    BY <1>2, <2>2, <2>3
<1>4. \A j \in 1..4 : Highs(v)[j] % b \in Byte
  <2> SUFFICES ASSUME NEW j \in 1..4 PROVE Highs(v)[j] % b \in Byte
    OBVIOUS
  <2>1. PICK h \in Int : h = Highs(v)[j]
    BY <1>3
  <2> QED
    BY <1>1, <2>1, ModType DEF Byte
<1>5. Bytes(v) \in [1..4 -> Byte] /\ 4 \in Nat
  BY <1>1, <1>4 DEF Bytes
<1>6. Bytes(v) \in Seq(Byte) /\ Len(Bytes(v)) = 4
  <2>1. PICK n \in Nat : n = 4
    OBVIOUS
  <2>2. PICK s \in [1..n -> Byte] : s = Bytes(v)
    BY <1>5, <2>1
  <2>3. s \in Seq(Byte) /\ Len(s) = n
    BY SeqOfFunction
  <2> QED
    BY <2>1, <2>2, <2>3
<1> QED
  BY <1>3, <1>5, <1>6

LEMMA ValueDataIs ==
  ASSUME NEW vs, Values(vs), NEW n \in 1..4
  PROVE  /\ SizeCode(vs, n) \in 0..3 /\ Size(vs, n) \in 0..4
         /\ ValueData(vs, n) \in Seq(Byte) /\ Len(ValueData(vs, n)) = Size(vs, n)
         /\ \A j \in 1..Size(vs, n) : ValueData(vs, n)[j] = Bytes(vs[n])[j]
<1>1. SizeCode(vs, n) \in 0..3
  BY DEF SizeCode
<1>2. PICK k \in 0..4 : k = Size(vs, n)
  BY <1>1 DEF Size
<1>3. ValueData(vs, n) = SubSeq(Bytes(vs[n]), 1, k)
  BY <1>2 DEF ValueData, Size
<1>4. \A j \in 1..k : Bytes(vs[n])[j] \in Byte
  <2>1. vs[n] \in Nat
    BY DEF Values, Index
  <2> QED
    BY <2>1, BytesType
<1>5. PICK b : b = Bytes(vs[n])
  OBVIOUS
<1>6. /\ SubSeq(b, 1, k) \in Seq(Byte) /\ Len(SubSeq(b, 1, k)) = (IF 1 <= k THEN k - 1 + 1 ELSE 0)
      /\ \A j \in 1..k - 1 + 1 : SubSeq(b, 1, k)[j] = b[1 + j - 1]
  <2>1. 1 \in Int /\ k \in Int /\ \A j \in 1..k : b[j] \in Byte
    BY <1>4, <1>5
  <2> QED
    BY <2>1, SubSeqProperties
<1>7. (IF 1 <= k THEN k - 1 + 1 ELSE 0) = k /\ k - 1 + 1 = k /\ \A j \in 1..k : 1 + j - 1 = j
  OBVIOUS
<1> QED
  BY <1>1, <1>2, <1>3, <1>5, <1>6, <1>7

\* Four sequences, one after the other.
Joined(q, a, b, c, d) ==
  /\ Len(q) = Len(a) + Len(b) + Len(c) + Len(d)
  /\ \A i \in 1..Len(a) : q[i] = a[i]
  /\ \A i \in 1..Len(b) : q[Len(a) + i] = b[i]
  /\ \A i \in 1..Len(c) : q[Len(a) + Len(b) + i] = c[i]
  /\ \A i \in 1..Len(d) : q[Len(a) + Len(b) + Len(c) + i] = d[i]

LEMMA Concat ==
  ASSUME NEW S, NEW a \in Seq(S), NEW b \in Seq(S)
  PROVE  /\ a \o b \in Seq(S) /\ Len(a \o b) = Len(a) + Len(b)
         /\ \A i \in 1..Len(a) : (a \o b)[i] = a[i]
         /\ \A i \in 1..Len(b) : (a \o b)[Len(a) + i] = b[i]
<1>1. PICK n \in Nat, m \in Nat : n = Len(a) /\ m = Len(b)
  BY LenProperties
<1>2. /\ a \o b \in Seq(S) /\ Len(a \o b) = n + m
      /\ \A i \in 1..n + m : (a \o b)[i] = IF i <= n THEN a[i] ELSE b[i - n]
  BY <1>1, ConcatProperties
<1>3. PICK q : q = a \o b
  OBVIOUS
<1>4. \A i \in 1..n : q[i] = a[i]
  <2> SUFFICES ASSUME NEW i \in 1..n PROVE q[i] = a[i]
    OBVIOUS
  <2>1. i \in 1..n + m /\ i <= n
    OBVIOUS
  <2> QED
    BY <1>2, <1>3, <2>1
<1>5. \A i \in 1..m : q[n + i] = b[i]
  <2> SUFFICES ASSUME NEW i \in 1..m PROVE q[n + i] = b[i]
    OBVIOUS
  <2>1. n + i \in 1..n + m /\ ~ (n + i <= n) /\ (n + i) - n = i
    OBVIOUS
  <2>2. q[n + i] = b[(n + i) - n]
    BY <1>2, <1>3, <2>1
  <2> QED
    BY <2>1, <2>2
<1> QED
  BY <1>1, <1>2, <1>3, <1>4, <1>5

LEMMA FourJoined ==
  ASSUME NEW S, NEW a \in Seq(S), NEW b \in Seq(S), NEW c \in Seq(S), NEW d \in Seq(S)
  PROVE  ((a \o b) \o c) \o d \in Seq(S) /\ Joined(((a \o b) \o c) \o d, a, b, c, d)
<1>1. PICK k \in Nat, l \in Nat, m \in Nat, n \in Nat : k = Len(a) /\ l = Len(b) /\ m = Len(c) /\ n = Len(d)
  BY LenProperties
<1>2. PICK p \in Seq(S) : /\ p = a \o b /\ Len(p) = k + l
                          /\ \A i \in 1..k : p[i] = a[i]
                          /\ \A i \in 1..l : p[k + i] = b[i]
  <2>1. /\ a \o b \in Seq(S) /\ Len(a \o b) = Len(a) + Len(b)
        /\ \A i \in 1..Len(a) : (a \o b)[i] = a[i]
        /\ \A i \in 1..Len(b) : (a \o b)[Len(a) + i] = b[i]
    BY Concat
  <2> QED
    BY <1>1, <2>1
<1>3. PICK q \in Seq(S) : /\ q = p \o c /\ Len(q) = k + l + m
                          /\ \A i \in 1..k + l : q[i] = p[i]
                          /\ \A i \in 1..m : q[k + l + i] = c[i]
  <2>1. /\ p \o c \in Seq(S) /\ Len(p \o c) = Len(p) + Len(c)
        /\ \A i \in 1..Len(p) : (p \o c)[i] = p[i]
        /\ \A i \in 1..Len(c) : (p \o c)[Len(p) + i] = c[i]
    BY Concat
  <2>2. Len(p) = k + l /\ Len(c) = m
    BY <1>1, <1>2
  <2> QED
    BY <2>1, <2>2
<1>4. PICK r \in Seq(S) : /\ r = q \o d /\ Len(r) = k + l + m + n
                          /\ \A i \in 1..k + l + m : r[i] = q[i]
                          /\ \A i \in 1..n : r[k + l + m + i] = d[i]
  <2>1. /\ q \o d \in Seq(S) /\ Len(q \o d) = Len(q) + Len(d)
        /\ \A i \in 1..Len(q) : (q \o d)[i] = q[i]
        /\ \A i \in 1..Len(d) : (q \o d)[Len(q) + i] = d[i]
    BY Concat
  <2>2. Len(q) = k + l + m /\ Len(d) = n
    BY <1>1, <1>3
  <2>3. PICK r \in Seq(S) : r = q \o d
    BY <2>1
  <2>4. Len(r) = k + l + m + n /\ \A i \in 1..k + l + m : r[i] = q[i]
    BY <2>1, <2>2, <2>3
  <2>5. \A i \in 1..n : r[k + l + m + i] = d[i]
    BY <2>1, <2>2, <2>3
  <2> QED
    BY <2>3, <2>4, <2>5
<1>5. \A i \in 1..k : r[i] = a[i]
  <2> SUFFICES ASSUME NEW i \in 1..k PROVE r[i] = a[i]
    OBVIOUS
  <2>1. i \in 1..k + l /\ i \in 1..k + l + m
    OBVIOUS
  <2> QED
    BY <1>2, <1>3, <1>4, <2>1
<1>6. \A i \in 1..l : r[k + i] = b[i]
  <2> SUFFICES ASSUME NEW i \in 1..l PROVE r[k + i] = b[i]
    OBVIOUS
  <2>1. k + i \in 1..k + l /\ k + i \in 1..k + l + m
    OBVIOUS
  <2> QED
    BY <1>2, <1>3, <1>4, <2>1
<1>7. \A i \in 1..m : r[k + l + i] = c[i]
  <2> SUFFICES ASSUME NEW i \in 1..m PROVE r[k + l + i] = c[i]
    OBVIOUS
  <2>1. k + l + i \in 1..k + l + m
    OBVIOUS
  <2> QED
    BY <1>3, <1>4, <2>1
<1>8. Joined(r, a, b, c, d)
  BY <1>1, <1>4, <1>5, <1>6, <1>7 DEF Joined
<1> QED
  BY <1>2, <1>3, <1>4, <1>8

\* The data of a group.
Data(vs) == ((ValueData(vs, 1) \o ValueData(vs, 2)) \o ValueData(vs, 3)) \o ValueData(vs, 4)

LEMMA DataIs ==
  ASSUME NEW vs, Values(vs)
  PROVE  /\ Data(vs) \in Seq(Byte)
         /\ Len(Data(vs)) = Size(vs, 1) + Size(vs, 2) + Size(vs, 3) + Size(vs, 4)
         /\ Len(Data(vs)) \in 0..16
         /\ \A j \in 1..Size(vs, 1) : Data(vs)[j] = Bytes(vs[1])[j]
         /\ \A j \in 1..Size(vs, 2) : Data(vs)[Size(vs, 1) + j] = Bytes(vs[2])[j]
         /\ \A j \in 1..Size(vs, 3) : Data(vs)[Size(vs, 1) + Size(vs, 2) + j] = Bytes(vs[3])[j]
         /\ \A j \in 1..Size(vs, 4) : Data(vs)[Size(vs, 1) + Size(vs, 2) + Size(vs, 3) + j] = Bytes(vs[4])[j]
<1>1. \A n \in 1..4 : /\ Size(vs, n) \in 0..4
                      /\ ValueData(vs, n) \in Seq(Byte) /\ Len(ValueData(vs, n)) = Size(vs, n)
                      /\ \A j \in 1..Size(vs, n) : ValueData(vs, n)[j] = Bytes(vs[n])[j]
  BY ValueDataIs
<1>2. PICK a \in Seq(Byte), b \in Seq(Byte), c \in Seq(Byte), d \in Seq(Byte) :
        a = ValueData(vs, 1) /\ b = ValueData(vs, 2) /\ c = ValueData(vs, 3) /\ d = ValueData(vs, 4)
  BY <1>1
<1>3. /\ Len(a) = Size(vs, 1) /\ Len(b) = Size(vs, 2) /\ Len(c) = Size(vs, 3) /\ Len(d) = Size(vs, 4)
      /\ Size(vs, 1) \in 0..4 /\ Size(vs, 2) \in 0..4 /\ Size(vs, 3) \in 0..4 /\ Size(vs, 4) \in 0..4
      /\ \A j \in 1..Size(vs, 1) : a[j] = Bytes(vs[1])[j]
      /\ \A j \in 1..Size(vs, 2) : b[j] = Bytes(vs[2])[j]
      /\ \A j \in 1..Size(vs, 3) : c[j] = Bytes(vs[3])[j]
      /\ \A j \in 1..Size(vs, 4) : d[j] = Bytes(vs[4])[j]
  BY <1>1, <1>2
<1>4. PICK q \in Seq(Byte) : q = Data(vs) /\ Joined(q, a, b, c, d)
  BY <1>2, FourJoined DEF Data
<1> HIDE DEF Size
<1>5. PICK k \in 0..4, l \in 0..4, m \in 0..4, n \in 0..4 :
        k = Size(vs, 1) /\ l = Size(vs, 2) /\ m = Size(vs, 3) /\ n = Size(vs, 4)
  BY <1>3
<1>6. Len(q) = k + l + m + n
  BY <1>3, <1>4, <1>5 DEF Joined
<1>7. \A j \in 1..k : q[j] = Bytes(vs[1])[j]
  BY <1>3, <1>4, <1>5 DEF Joined
<1>8. \A j \in 1..l : q[k + j] = Bytes(vs[2])[j]
  BY <1>3, <1>4, <1>5 DEF Joined
<1>9. \A j \in 1..m : q[k + l + j] = Bytes(vs[3])[j]
  BY <1>3, <1>4, <1>5 DEF Joined
<1>10. \A j \in 1..n : q[k + l + m + j] = Bytes(vs[4])[j]
  BY <1>3, <1>4, <1>5 DEF Joined
<1>11. k + l + m + n \in 0..16
  OBVIOUS
<1> QED
  BY <1>4, <1>5, <1>6, <1>7, <1>8, <1>9, <1>10, <1>11

LEMMA GroupDataIs ==
  ASSUME MeshInv, NEW g \in Nat \ {0}
  PROVE  GroupData(g) = Data(GroupValues(g)) /\ Values(GroupValues(g))
         /\ GroupData(g) \in Seq(Byte) /\ Len(GroupData(g)) \in 0..16
<1>1. GroupData(g) = Data(GroupValues(g))
  BY DEF GroupData, Data
<1> QED
  BY <1>1, GroupValuesType, DataIs

\* The data, one group at a time.
LEMMA DataSteps ==
  ASSUME MeshInv
  PROVE  /\ CtrlSize \in Nat
         /\ DataUpTo \in [0..CtrlSize -> Seq(Byte)]
         /\ DataUpTo[0] = <<>>
         /\ \A g \in 1..CtrlSize : DataUpTo[g] = DataUpTo[g - 1] \o GroupData(g)
<1> DEFINE X == Seq(Byte)
           N == CtrlSize
           Step(i, x) == x \o GroupData(i)
           f == [p \in (1..N) \X X |-> Step(p[1], p[2])]
           Body(h) == [i \in 0..N |-> IF i = 0 THEN <<>> ELSE Step(i, h[i - 1])]
<1>1. N \in Nat /\ <<>> \in X
  BY MeshCounts DEF CtrlSize, Up
<1>2. f \in [(1..N) \X X -> X]
  <2>1. ASSUME NEW p \in (1..N) \X X PROVE Step(p[1], p[2]) \in X
    <3>1. p[1] \in Nat \ {0} /\ p[2] \in Seq(Byte)
      BY <1>1
    <3>2. GroupData(p[1]) \in Seq(Byte)
      BY <3>1, GroupDataIs
    <3> QED
      BY <3>1, <3>2, ConcatProperties
  <2> HIDE DEF Step, X, N
  <2> QED
    BY <2>1
<1>3. \A i \in 1..N, x \in X : f[<<i, x>>] = Step(i, x)
  <2> HIDE DEF Step, X, N
  <2> QED
    OBVIOUS
<1> HIDE DEF f, Step
<1>4. PICK h \in [0..N -> X] : h[0] = <<>> /\ \A i \in 1..N : h[i] = f[<<i, h[i - 1]>>]
  <2> HIDE DEF X, N
  <2>1. \E h \in [0..N -> X] : Recursive(h, N, <<>>, f)
    BY <1>1, <1>2, Recursion
  <2> QED
    BY <2>1 DEF Recursive
<1>5. h = Body(h)
  <2> HIDE DEF X, N
  <2>1. ASSUME NEW i \in 0..N PROVE Body(h)[i] = h[i]
    <3>1. CASE i = 0
      BY <1>4, <3>1
    <3>2. CASE i # 0
      <4>1. i \in 1..N /\ i - 1 \in 0..N
        BY <1>1, <3>2
      <4>2. h[i - 1] \in X
        BY <1>4, <4>1
      <4>3. h[i] = Step(i, h[i - 1])
        BY <1>3, <1>4, <4>1, <4>2
      <4> QED
        BY <3>2, <4>3
    <3> QED
      BY <3>1, <3>2
  <2> QED
    BY <1>4, <2>1
<1>6. DataUpTo = CHOOSE k : k = Body(k)
  BY DEF DataUpTo, Step
<1>7. DataUpTo = Body(DataUpTo)
  BY <1>5, <1>6
<1>8. DataUpTo[0] = <<>>
  BY <1>1, <1>7
<1>9. \A i \in 1..N : DataUpTo[i] = Step(i, DataUpTo[i - 1])
  <2> SUFFICES ASSUME NEW i \in 1..N PROVE DataUpTo[i] = Step(i, DataUpTo[i - 1])
    OBVIOUS
  <2>1. Body(DataUpTo)[i] = Step(i, DataUpTo[i - 1])
    BY <1>1
  <2> QED
    BY <1>7, <2>1
<1>10. \A i \in 0..N : DataUpTo[i] \in X
  <2> HIDE DEF X, N
  <2>1. Follows(DataUpTo, N, <<>>, f, X)
    BY <1>3, <1>8, <1>9 DEF Follows
  <2> QED
    BY <1>1, <1>2, <2>1, StepByStep
<1>11. DataUpTo \in [0..N -> X]
  <2>1. DOMAIN DataUpTo = 0..N /\ DataUpTo = [i \in 0..N |-> DataUpTo[i]]
    BY <1>7
  <2> HIDE DEF X, N
  <2> QED
    BY <1>10, <2>1
<1> QED
  BY <1>1, <1>8, <1>9, <1>11 DEF Step

LEMMA DataSize ==
  ASSUME MeshInv
  PROVE  \A g \in 0..CtrlSize : DataUpTo[g] \in Seq(Byte) /\ Len(DataUpTo[g]) \in 0..16 * g
<1>1. PICK N \in Nat : N = CtrlSize
  BY DataSteps
<1> DEFINE T == {g \in Nat : g <= N => Len(DataUpTo[g]) \in 0..16 * g}
<1>2. \A g \in 0..N : DataUpTo[g] \in Seq(Byte)
  BY <1>1, DataSteps
<1>3. 0 \in T
  <2>1. DataUpTo[0] = <<>>
    BY DataSteps
  <2>2. Len(DataUpTo[0]) = 0
    BY <2>1
  <2> QED
    BY <2>2
<1>4. ASSUME NEW g \in Nat, g \in T PROVE g + 1 \in T
  <2> SUFFICES ASSUME g + 1 <= N PROVE Len(DataUpTo[g + 1]) \in 0..16 * (g + 1)
    OBVIOUS
  <2>1. g + 1 \in 1..N /\ (g + 1) - 1 = g /\ g + 1 \in Nat \ {0}
    OBVIOUS
  <2>2. DataUpTo[g + 1] = DataUpTo[g] \o GroupData(g + 1)
    BY <1>1, <2>1, DataSteps
  <2>3. PICK d \in Seq(Byte) : d = GroupData(g + 1) /\ Len(d) \in 0..16
    BY <2>1, GroupDataIs
  <2>4. PICK s \in Seq(Byte) : s = DataUpTo[g] /\ Len(s) \in 0..16 * g
    BY <1>2, <1>4
  <2>5. Len(s \o d) = Len(s) + Len(d)
    BY ConcatProperties
  <2>6. Len(s) + Len(d) \in 0..16 * (g + 1)
    <3>1. PICK k \in Int, l \in Int : k = Len(s) /\ l = Len(d)
      BY <2>3, <2>4
    <3>c. Len(d) \in 0..16
      BY <2>3
    <3>d. l \in 0..16
      BY <3>1, <3>c
    <3>2. 0 <= l /\ l <= 16
      BY <3>d
    <3>a. k \in 0..16 * g
      BY <2>4, <3>1
    <3>b. 0 <= k /\ k <= 16 * g
      BY <3>a
    <3>3. 16 * (g + 1) = 16 * g + 16
      OBVIOUS
    <3>4. k + l \in 0..16 * (g + 1)
      BY <3>2, <3>3, <3>b
    <3> QED
      BY <3>1, <3>4
  <2>7. DataUpTo[g + 1] = s \o d
    BY <2>2, <2>3, <2>4
  <2> QED
    BY <2>5, <2>6, <2>7
<1> HIDE DEF T
<1>5. Nat \subseteq T
  BY <1>3, <1>4, NatSetInduction
<1>6. \A g \in 0..N : Len(DataUpTo[g]) \in 0..16 * g
  BY <1>5 DEF T
<1> QED
  BY <1>1, <1>2, <1>6

-----------------------------------------------------------------------------
(* Inside the stream and the memory *)

LEMMA CallType ==
  ASSUME call \in Calls
  PROVE  /\ call.kind \in {"scalar", "simd", "raw"} /\ call.vsize \in {2, 4} /\ call.tsize \in {3, 4}
         /\ call.head \in Nat /\ call.tail \in Nat /\ call.lacks \in Nat
         /\ call.kind = "raw" => call.vsize = 4 /\ call.tsize = 4
  BY CodecAssumption

LEMMA PartSizes ==
  ASSUME MeshInv
  PROVE  /\ CodesSize \in Nat /\ CtrlSize \in Nat /\ GapSize \in Nat /\ Bound \in Nat
         /\ CodesSize + CtrlSize + GapSize >= OverRead
<1>1. PICK v \in Nat, t \in Nat : v = VertexCount /\ t = TriangleCount
  BY MeshCounts, ByteRange
<1>2. CodesSize \in Nat /\ CtrlSize \in Nat
  BY <1>1 DEF CodesSize, CtrlSize, Up
<1>3. GapSize \in Nat /\ CodesSize + CtrlSize + GapSize >= OverRead
  BY <1>2 DEF GapSize, OverRead
<1>4. Bound \in Nat
  BY <1>1, <1>2, <1>3 DEF Bound
<1> QED
  BY <1>2, <1>3, <1>4

LEMMA StoredIs ==
  ASSUME NEW memory, NEW values, Len(memory) \in Nat, Len(values) \in Nat, NEW i \in Nat
  PROVE  /\ Len(Stored(memory, i, values)) = Larger(Len(memory), i + Len(values))
         /\ \A n \in 1..Larger(Len(memory), i + Len(values)) :
              Stored(memory, i, values)[n] = IF n \in i + 1..i + Len(values) THEN values[n - i] ELSE memory[n]
<1>1. PICK k \in Nat : k = Larger(Len(memory), i + Len(values))
  BY DEF Larger
<1>2. PICK s : s = Stored(memory, i, values)
  OBVIOUS
<1>3. s = [n \in 1..k |-> IF n \in i + 1..i + Len(values) THEN values[n - i] ELSE memory[n]]
  BY <1>1, <1>2 DEF Stored
<1>4. s = [n \in 1..k |-> s[n]]
  BY <1>3
<1>5. Len(s) = k
  BY <1>4, LenOf
<1> QED
  BY <1>1, <1>2, <1>3, <1>5

\* The elements of a group of references fit.
LEMMA VertexRoom ==
  ASSUME MeshInv, call \in Calls, NEW g \in 1..CtrlSize
  PROVE  /\ VertexStores(g) \in Nat
         /\ call.vsize * (4 * (g - 1) + VertexStores(g)) <= Room(VertexCount, call.vsize)
<1>1. PICK v \in Nat : v = VertexCount
  BY MeshCounts, ByteRange
<1>2. g \in 1..(v + 4 - 1) \div 4
  BY <1>1 DEF CtrlSize, Up
<1>3. CASE call.kind = "raw"
  <2>1. call.vsize = 4
    BY <1>3, CallType
  <2>2. VertexStores(g) = 4
    <3>1. VertexGroups = CtrlSize
      BY <1>3 DEF VertexGroups
    <3>2. g <= CtrlSize
      OBVIOUS
    <3> QED
      BY <3>1, <3>2 DEF VertexStores
  <2>3. Room(v, 4) = 16 * ((v * 4 + 16 - 1) \div 16)
    BY <1>3 DEF Room, Up
  <2>4. 4 * (4 * (g - 1) + 4) <= 16 * ((v * 4 + 16 - 1) \div 16)
    BY <1>2
  <2> QED
    BY <1>1, <2>1, <2>2, <2>3, <2>4
<1>4. CASE call.kind = "scalar" \/ (call.kind # "raw" /\ call.vsize = 4)
  <2>1. call.vsize \in {2, 4} /\ call.kind # "raw"
    BY <1>4, CallType
  <2>2. VertexStores(g) = IF g <= v \div 4 THEN 4 ELSE v % 4
    BY <1>1, <1>4 DEF VertexStores, VertexGroups
  <2>3. VertexStores(g) \in Nat /\ 4 * (g - 1) + VertexStores(g) <= v
    BY <1>2, <2>2
  <2>4. Room(v, call.vsize) = 4 * ((v * call.vsize + 4 - 1) \div 4)
    BY <2>1 DEF Room, Up
  <2>5. PICK n \in Nat : n = 4 * (g - 1) + VertexStores(g) /\ n <= v
    BY <2>3
  <2>6. 2 * n <= 4 * ((v * 2 + 4 - 1) \div 4) /\ 4 * n <= 4 * ((v * 4 + 4 - 1) \div 4)
    BY <2>5
  <2>7. call.vsize * n <= 4 * ((v * call.vsize + 4 - 1) \div 4)
    BY <2>1, <2>6
  <2> QED
    BY <1>1, <2>3, <2>4, <2>5, <2>7
<1>5. CASE call.kind = "simd" /\ call.vsize = 2
  <2>1. VertexStores(g) = IF g <= (v + 1) \div 4 THEN 4 ELSE 2
    BY <1>1, <1>5 DEF VertexStores, VertexGroups
  <2>2. Room(v, 2) = 4 * ((v * 2 + 4 - 1) \div 4)
    BY <1>5 DEF Room, Up
  <2>3. 2 * (4 * (g - 1) + VertexStores(g)) <= 4 * ((v * 2 + 4 - 1) \div 4)
    <3>1. CASE g <= (v + 1) \div 4
      BY <1>2, <2>1, <3>1
    <3>2. CASE ~ (g <= (v + 1) \div 4)
      BY <1>2, <2>1, <3>2
    <3> QED
      BY <3>1, <3>2
  <2> QED
    BY <1>1, <1>5, <2>1, <2>2, <2>3
<1> QED
  BY <1>3, <1>4, <1>5, CallType

LEMMA LengthsType ==
  ASSUME NEW ctrl \in Nat
  PROVE  \A n \in 1..4 : Lengths(ctrl)[n] \in 0..4
<1>1. ctrl % 16 \in Nat /\ ctrl \div 16 \in Nat
  OBVIOUS
<1>2. ASSUME NEW nibble \in Nat, NEW n \in 1..4 PROVE Bit(nibble, n) \in 0..1
  <2>1. PICK b \in Nat \ {0} : b = <<1, 2, 4, 8>>[n]
    <3>1. n = 1 \/ n = 2 \/ n = 3 \/ n = 4
      OBVIOUS
    <3> QED
      BY <3>1
  <2>2. PICK q \in Nat : q = nibble \div b
    BY QuotientType
  <2>3. q % 2 \in 0..1
    OBVIOUS
  <2> QED
    BY <2>1, <2>2, <2>3 DEF Bit
<1>3. ASSUME NEW n \in 1..4 PROVE Lengths(ctrl)[n] \in 0..4
  <2>1. Lengths(ctrl)[n] = IF ctrl = 255 THEN 4 ELSE Bit(ctrl % 16, n) + 2 * Bit(ctrl \div 16, n)
    BY DEF Lengths
  <2>2. PICK a \in 0..1, b \in 0..1 : a = Bit(ctrl % 16, n) /\ b = Bit(ctrl \div 16, n)
    BY <1>1, <1>2
  <2>3. a + 2 * b \in 0..4
    OBVIOUS
  <2> QED
    BY <2>1, <2>2, <2>3
<1> QED
  BY <1>3

DecFields == {"data", "vertices", "triangles", "last", "groups", "pairs", "state", "reach", "verdict"}

\* Bytes that a triangle in memory has beyond its elements.
Unit == IF call.tsize = 4 THEN 4 ELSE 1

MemoryFits ==
  /\ Len(dec.vertices) \in Nat /\ call.vsize * Len(dec.vertices) <= Room(VertexCount, call.vsize)
  /\ Len(dec.triangles) \in Nat /\ Unit * Len(dec.triangles) <= Room(TriangleCount, call.tsize)

Progress ==
  /\ dec.groups \in 0..CtrlSize
  /\ dec.pairs \in 0..(IF call.kind = "scalar" THEN TriangleCount ELSE CodesSize)
  /\ call.kind # "scalar" /\ call.tsize = 3 => dec.pairs % 2 = 0 \/ dec.pairs > 2 * Groups12

BoundsInv ==
  /\ MeshInv /\ EncoderType /\ call \in Calls
  /\ phase \in {"idle", "encode", "refused", "decode", "vertices", "triangles", "done"}
  /\ phase = "idle" => codes = <<>> /\ extra = <<>>
  /\ phase \notin {"idle", "encode"} => Len(codes) = TriangleCount
  /\ stream \in Seq(0..255)
  /\ phase \in {"vertices", "triangles"} => Len(stream) >= CodesSize + CtrlSize + GapSize
  /\ phase = "refused" => call.lacks > 0
  /\ DOMAIN dec = DecFields
  /\ phase \in {"idle", "encode", "refused", "decode"} => dec = NoDecoder
  /\ dec.data \in Nat /\ dec.reach \in 0..Len(stream)
  /\ Progress /\ MemoryFits

LEMMA BoundsConclusion ==
  ASSUME BoundsInv
  PROVE  InBounds
<1>1. Len(stream) \in Nat /\ dec.reach <= Len(stream)
  BY LenProperties DEF BoundsInv
<1>2. Len(extra) <= 3 * TriangleCount
  <2>1. PICK k \in Nat, m \in Nat, t \in Nat :
          k = Len(extra) /\ m = Len(codes) /\ t = TriangleCount /\ k <= 3 * m /\ m <= t
    BY LenProperties, MeshCounts DEF BoundsInv, EncoderType
  <2>2. k <= 3 * t
    BY <2>1
  <2> QED
    BY <2>1, <2>2
<1> QED
  BY <1>1, <1>2 DEF InBounds, BoundsInv, MemoryFits, Unit

\* Reading at the start of a check, and where the parts are.
LEMMA Places ==
  ASSUME BoundsInv, phase \in {"vertices", "triangles"}
  PROVE  /\ Len(stream) \in Nat /\ DataEnd \in Nat /\ DataEnd + OverRead <= Len(stream)
         /\ CtrlAt \in Nat /\ CtrlAt + CtrlSize = CodesAt /\ CodesAt \in Nat /\ CodesAt + CodesSize = Len(stream)
         /\ \A g \in 1..CtrlSize : CtrlByte(g) \in 0..255
         /\ \A i \in 1..2 * CodesSize : Nibble(i) \in 0..15
<1>1. PICK n \in Nat, a \in Nat, b \in Nat, c \in Nat :
        /\ n = Len(stream) /\ a = CodesSize /\ b = CtrlSize /\ c = GapSize /\ n >= a + b + c
        /\ a + b + c >= 16
  BY PartSizes, LenProperties DEF BoundsInv, OverRead
<1>2. CodesAt = n - a /\ CtrlAt = n - a - b /\ DataEnd = n - a - b - c
  BY <1>1 DEF CodesAt, CtrlAt, DataEnd
<1>3. ASSUME NEW g \in 1..b PROVE CtrlByte(g) \in 0..255
  <2>1. PICK k \in 1..n : k = CtrlAt + g
    <3>1. (n - a - b) + g \in 1..n
      BY <1>1
    <3> QED
      BY <1>2, <3>1
  <2>2. stream[k] \in 0..255
    BY <1>1, ElementOfSeq DEF BoundsInv
  <2> QED
    BY <2>1, <2>2 DEF CtrlByte
<1>4. ASSUME NEW i \in 1..2 * a PROVE Nibble(i) \in 0..15
  <2>1. PICK k \in 1..n : k = CodesAt + (i - 1) \div 2 + 1
    <3>1. (n - a) + (i - 1) \div 2 + 1 \in 1..n
      BY <1>1
    <3> QED
      BY <1>2, <3>1
  <2>2. PICK x \in 0..255 : x = stream[k]
    BY <1>1, ElementOfSeq DEF BoundsInv
  <2>3. x % 16 \in 0..15 /\ x \div 16 \in 0..15
    OBVIOUS
  <2> QED
    BY <2>1, <2>2, <2>3 DEF Nibble
<1> QED
  BY <1>1, <1>2, <1>3, <1>4 DEF OverRead

LEMMA BoundsStartDecode ==
  ASSUME BoundsInv, StartDecode
  PROVE  BoundsInv'
<1>1. /\ phase = "decode" /\ UNCHANGED <<mesh, encoderVars, stream, call>>
      /\ dec = NoDecoder
      /\ dec'.data = dec.data /\ dec'.reach = dec.reach /\ dec'.groups = dec.groups /\ dec'.pairs = dec.pairs
      /\ dec'.vertices = dec.vertices /\ dec'.triangles = dec.triangles /\ DOMAIN dec' = DecFields
      /\ phase' \in {"vertices", "done"}
      /\ phase' = "vertices" => Len(stream) >= CodesSize + CtrlSize + GapSize
  <2>1. Len(stream) \in Nat /\ CodesSize + CtrlSize + GapSize \in Nat
    BY LenProperties, PartSizes DEF BoundsInv
  <2>2. /\ phase = "decode" /\ UNCHANGED <<mesh, encoderVars, stream, call>>
        /\ dec = NoDecoder /\ DOMAIN dec = DecFields
    BY DEF BoundsInv, StartDecode
  <2>3. CASE Len(stream) < CodesSize + CtrlSize + GapSize
    <3>1. dec' = [dec EXCEPT !.verdict = -2] /\ phase' = "done"
      BY <2>3 DEF StartDecode
    <3> QED
      BY <2>2, <3>1 DEF DecFields
  <2>4. CASE ~ (Len(stream) < CodesSize + CtrlSize + GapSize)
    <3>1. PICK s : dec' = [dec EXCEPT !.last = Modulus - 1, !.state = s] /\ phase' = "vertices"
      BY <2>4 DEF StartDecode
    <3> QED
      BY <2>1, <2>2, <2>4, <3>1 DEF DecFields
  <2> QED
    BY <2>3, <2>4
<1>2. MeshInv' /\ EncoderType'
  BY <1>1 DEF BoundsInv, MeshInv, EncoderType, VertexCount, TriangleCount, encoderVars
<1>3. Progress' /\ MemoryFits'
  BY <1>1 DEF BoundsInv, Progress, MemoryFits, Unit, Room, CtrlSize, CodesSize, Groups12, VertexCount, TriangleCount
<1>4. /\ phase' \in {"vertices", "triangles"} => Len(stream') >= CodesSize' + CtrlSize' + GapSize'
      /\ Len(codes') = TriangleCount'
  BY <1>1 DEF BoundsInv, CodesSize, CtrlSize, GapSize, VertexCount, TriangleCount, encoderVars
<1> QED
  BY <1>1, <1>2, <1>3, <1>4 DEF BoundsInv

\* What a step of a decoder has to keep.
LEMMA BoundsStep ==
  ASSUME BoundsInv, UNCHANGED <<mesh, encoderVars, stream, call>>,
         phase \in {"vertices", "triangles"}, phase' \in {"vertices", "triangles", "done"},
         DOMAIN dec' = DecFields, dec'.data \in Nat, dec'.reach \in 0..Len(stream),
         Progress', MemoryFits'
  PROVE  BoundsInv'
<1>1. MeshInv' /\ EncoderType'
  BY DEF BoundsInv, MeshInv, EncoderType, VertexCount, TriangleCount, encoderVars
<1>2. /\ phase' \in {"vertices", "triangles"} => Len(stream') >= CodesSize' + CtrlSize' + GapSize'
      /\ Len(codes') = TriangleCount'
  BY DEF BoundsInv, CodesSize, CtrlSize, GapSize, VertexCount, TriangleCount, encoderVars
<1> QED
  BY <1>1, <1>2 DEF BoundsInv

\* A decoder that stops.
LEMMA BoundsStop ==
  ASSUME BoundsInv, UNCHANGED <<mesh, encoderVars, stream, call>>,
         phase \in {"vertices", "triangles"}, phase' = "done",
         NEW x, dec' = [dec EXCEPT !.verdict = x]
  PROVE  BoundsInv'
<1>1. /\ DOMAIN dec' = DecFields /\ dec'.data = dec.data /\ dec'.reach = dec.reach
      /\ dec'.groups = dec.groups /\ dec'.pairs = dec.pairs
      /\ dec'.vertices = dec.vertices /\ dec'.triangles = dec.triangles
  BY DEF BoundsInv, DecFields
<1>2. Progress' /\ MemoryFits'
  BY <1>1 DEF BoundsInv, Progress, MemoryFits, Unit, Room, CtrlSize, CodesSize, Groups12, VertexCount, TriangleCount
<1>3. dec'.data \in Nat /\ dec'.reach \in 0..Len(stream)
  BY <1>1 DEF BoundsInv
<1> QED
  BY <1>1, <1>2, <1>3, BoundsStep

LEMMA LargerIs ==
  ASSUME NEW m \in Nat, NEW n \in Nat
  PROVE  Larger(m, n) \in Nat /\ Larger(m, n) \in {m, n}
  BY DEF Larger

LEMMA BoundsVertices ==
  ASSUME BoundsInv, DecodeVertices
  PROVE  BoundsInv'
<1> DEFINE g == dec.groups + 1
           lengths == Lengths(CtrlByte(g))
           values == GroupVertices(dec.data, lengths, dec.last)
           size == Total(lengths)
           read == IF call.kind = "scalar" THEN dec.data + size - lengths[4] + 4 ELSE dec.data + OverRead
           stored == [n \in 1..VertexStores(g) |-> Narrow(values[n], call.vsize)]
<1>1. phase = "vertices" /\ UNCHANGED <<mesh, encoderVars, stream, call>>
  BY DEF DecodeVertices
<1>2. CASE dec.data > DataEnd
  <2>1. dec' = [dec EXCEPT !.verdict = -2] /\ phase' = "done"
    BY <1>2 DEF DecodeVertices
  <2> QED
    BY <1>1, <2>1, BoundsStop
<1>3. CASE ~ (dec.data > DataEnd)
  <2>1. /\ dec' = [dec EXCEPT !.data = @ + size, !.last = values[4], !.groups = g,
                              !.reach = Larger(@, read), !.vertices = Stored(@, 4 * (g - 1), stored)]
        /\ phase' = phase
    BY <1>3 DEF DecodeVertices
  <2>2. g \in 1..CtrlSize /\ call \in Calls /\ MeshInv /\ dec.groups \in Nat
    <3>1. call \in Calls /\ MeshInv /\ dec.groups \in 0..CtrlSize /\ dec.groups < CtrlSize
      BY DEF BoundsInv, Progress, DecodeVertices
    <3>2. CtrlSize \in Nat
      BY <3>1, PartSizes
    <3>3. PICK c \in Nat, i \in Nat : c = CtrlSize /\ i = dec.groups /\ i < c
      BY <3>1, <3>2
    <3>4. i + 1 \in 1..c
      BY <3>3
    <3> QED
      BY <3>1, <3>3, <3>4
  <2>3. PICK k \in Nat, d \in Nat, e \in Nat, r \in Nat :
          k = Len(stream) /\ d = dec.data /\ e = DataEnd /\ r = dec.reach /\ e + 16 <= k /\ d <= e /\ r <= k
    BY <1>1, <1>3, Places DEF BoundsInv, OverRead
  <2> HIDE DEF g
  <2>4. CtrlByte(g) \in 0..255 /\ CtrlByte(g) \in Nat
    <3>1. CtrlByte(g) \in 0..255
      BY <1>1, <2>2, Places
    <3> QED
      BY <3>1
  <2>5. PICK a \in 0..4, b \in 0..4, c \in 0..4, f \in 0..4 :
          a = lengths[1] /\ b = lengths[2] /\ c = lengths[3] /\ f = lengths[4]
    <3>1. \A n \in 1..4 : lengths[n] \in 0..4
      BY <2>4, LengthsType
    <3> HIDE DEF lengths
    <3>2. lengths[1] \in 0..4 /\ lengths[2] \in 0..4 /\ lengths[3] \in 0..4 /\ lengths[4] \in 0..4
      BY <3>1
    <3> QED
      BY <3>2
  <2>6. size = a + b + c + f
    BY <2>5 DEF Total
  <2>7. read \in 0..k
    <3>1. /\ a \in Int /\ b \in Int /\ c \in Int /\ f \in Int
          /\ 0 <= a /\ a <= 4 /\ 0 <= b /\ b <= 4 /\ 0 <= c /\ c <= 4
      OBVIOUS
    <3>2. d + (a + b + c + f) - f + 4 \in 0..k
      BY <2>3, <3>1
    <3>3. d + 16 \in 0..k
      BY <2>3
    <3> QED
      BY <2>3, <2>5, <2>6, <3>2, <3>3 DEF OverRead
  <2>8. VertexStores(g) \in Nat /\ call.vsize * (4 * (g - 1) + VertexStores(g)) <= Room(VertexCount, call.vsize)
    BY <2>2, VertexRoom
  <2>9. Len(stored) = VertexStores(g)
    BY <2>8, LenOf
  <2> HIDE DEF g, lengths, values, size, read, stored
  <2>10. /\ DOMAIN dec' = DecFields /\ dec'.data = d + size /\ dec'.reach = Larger(r, read)
         /\ dec'.groups = g /\ dec'.pairs = dec.pairs
         /\ dec'.vertices = Stored(dec.vertices, 4 * (g - 1), stored) /\ dec'.triangles = dec.triangles
    BY <2>1, <2>3 DEF BoundsInv, DecFields
  <2>11. dec'.data \in Nat /\ dec'.reach \in 0..Len(stream)
    <3>1. d + size \in Nat
      <4>1. a \in Nat /\ b \in Nat /\ c \in Nat /\ f \in Nat
        OBVIOUS
      <4>2. d + (a + b + c + f) \in Nat
        BY <4>1
      <4> QED
        BY <2>6, <4>2
    <3>2. read \in Nat /\ r \in Nat
      BY <2>7
    <3>3. Larger(r, read) \in {r, read}
      BY <3>2, LargerIs
    <3>4. r \in 0..k
      BY <2>3
    <3>5. Larger(r, read) \in 0..k
      BY <2>7, <3>3, <3>4
    <3> QED
      BY <2>3, <2>10, <3>1, <3>5
  <2>12. Progress'
    <3>1. /\ CtrlSize' = CtrlSize /\ CodesSize' = CodesSize /\ Groups12' = Groups12
          /\ TriangleCount' = TriangleCount /\ call' = call
      BY <1>1 DEF CtrlSize, CodesSize, Groups12, VertexCount, TriangleCount
    <3>2. CtrlSize \in Nat
      BY <2>2, PartSizes
    <3>3. dec'.groups \in 0..CtrlSize
      BY <2>2, <2>10, <3>2
    <3> QED
      BY <2>10, <3>1, <3>3 DEF BoundsInv, Progress
  <2>13. MemoryFits'
    <3>1. PICK m \in Nat, n \in Nat : m = Len(dec.vertices) /\ n = 4 * (g - 1) + VertexStores(g)
      BY <2>2, <2>8 DEF BoundsInv, MemoryFits
    <3>2. Len(dec'.vertices) = Larger(m, n)
      <4>1. Len(dec.vertices) \in Nat /\ Len(stored) \in Nat /\ 4 * (g - 1) \in Nat
        BY <2>2, <2>8, <2>9, <3>1
      <4>2. Len(Stored(dec.vertices, 4 * (g - 1), stored)) = Larger(Len(dec.vertices), 4 * (g - 1) + Len(stored))
        BY <4>1, StoredIs
      <4> QED
        BY <2>9, <2>10, <3>1, <4>2
    <3>3. Larger(m, n) \in Nat /\ Larger(m, n) \in {m, n}
      BY <3>1, LargerIs
    <3>4. call.vsize * Larger(m, n) <= Room(VertexCount, call.vsize)
      BY <2>8, <3>1, <3>3 DEF BoundsInv, MemoryFits
    <3>5. VertexCount' = VertexCount /\ TriangleCount' = TriangleCount /\ Unit' = Unit /\ call' = call
      BY <1>1 DEF VertexCount, TriangleCount, Unit
    <3> QED
      BY <2>10, <3>2, <3>3, <3>4, <3>5 DEF BoundsInv, MemoryFits, Room
  <2> QED
    BY <1>1, <2>1, <2>10, <2>11, <2>12, <2>13, BoundsStep
<1> QED
  BY <1>2, <1>3

LEMMA BoundsStartTriangles ==
  ASSUME BoundsInv, StartTriangles
  PROVE  BoundsInv'
<1>1. /\ phase = "vertices" /\ phase' = "triangles" /\ dec' = dec
      /\ UNCHANGED <<mesh, encoderVars, stream, call>>
  BY DEF StartTriangles
<1>2. Progress' /\ MemoryFits'
  BY <1>1 DEF BoundsInv, Progress, MemoryFits, Unit, Room, CtrlSize, CodesSize, Groups12, VertexCount, TriangleCount
<1>3. DOMAIN dec' = DecFields /\ dec'.data \in Nat /\ dec'.reach \in 0..Len(stream)
  BY <1>1 DEF BoundsInv
<1> QED
  BY <1>1, <1>2, <1>3, BoundsStep

LEMMA BoundsVerdict ==
  ASSUME BoundsInv, Verdict
  PROVE  BoundsInv'
<1>1. /\ phase = "triangles" /\ phase' = "done" /\ UNCHANGED <<mesh, encoderVars, stream, call>>
      /\ \E x : dec' = [dec EXCEPT !.verdict = x]
  BY DEF Verdict
<1> QED
  BY <1>1, BoundsStop

\* What a step of the decoded triangles has to keep.
LEMMA BoundsTriangles ==
  ASSUME BoundsInv, UNCHANGED <<mesh, encoderVars, stream, call>>, phase = "triangles", phase' = phase,
         DOMAIN dec' = DecFields, dec'.groups = dec.groups, dec'.vertices = dec.vertices,
         dec'.data \in Nat, dec'.reach \in 0..Len(stream),
         dec'.pairs \in 0..(IF call.kind = "scalar" THEN TriangleCount ELSE CodesSize),
         call.kind # "scalar" /\ call.tsize = 3 => dec'.pairs % 2 = 0 \/ dec'.pairs > 2 * Groups12,
         Len(dec'.triangles) \in Nat, Unit * Len(dec'.triangles) <= Room(TriangleCount, call.tsize)
  PROVE  BoundsInv'
<1>1. /\ CtrlSize' = CtrlSize /\ CodesSize' = CodesSize /\ Groups12' = Groups12
      /\ TriangleCount' = TriangleCount /\ VertexCount' = VertexCount /\ call' = call /\ Unit' = Unit
  BY DEF CtrlSize, CodesSize, Groups12, VertexCount, TriangleCount, Unit
<1>2. Progress'
  BY <1>1 DEF BoundsInv, Progress
<1>3. MemoryFits'
  BY <1>1 DEF BoundsInv, MemoryFits, Room
<1> QED
  BY <1>2, <1>3, BoundsStep

\* The bytes that are read at once.
LEMMA ReachFits ==
  ASSUME BoundsInv, phase \in {"vertices", "triangles"}, ~ (dec.data > DataEnd), NEW n \in 0..OverRead
  PROVE  Larger(dec.reach, dec.data + n) \in 0..Len(stream)
<1>1. PICK k \in Nat, d \in Nat, e \in Nat, r \in Nat :
        k = Len(stream) /\ d = dec.data /\ e = DataEnd /\ r = dec.reach /\ e + 16 <= k /\ d <= e /\ r <= k
  BY Places DEF BoundsInv, OverRead
<1>2. n \in 0..16
  BY DEF OverRead
<1>3. d + n \in 0..k /\ r \in 0..k /\ d + n \in Nat
  BY <1>1, <1>2
<1>4. Larger(r, d + n) \in {r, d + n}
  BY <1>3, LargerIs
<1>5. Larger(r, d + n) \in 0..k
  BY <1>3, <1>4
<1> QED
  BY <1>1, <1>5

\* The memory of the triangles after a write.
LEMMA WriteFits ==
  ASSUME NEW memory, Len(memory) \in Nat, Unit * Len(memory) <= Room(TriangleCount, call.tsize),
         NEW i \in Nat, NEW values, NEW n \in Nat, Len(values) = n,
         Unit * (i + n) <= Room(TriangleCount, call.tsize)
  PROVE  /\ Len(Stored(memory, i, values)) \in Nat
         /\ Unit * Len(Stored(memory, i, values)) <= Room(TriangleCount, call.tsize)
<1>1. PICK m \in Nat : m = Len(memory)
  OBVIOUS
<1>2. Len(Stored(memory, i, values)) = Larger(Len(memory), i + Len(values))
  BY <1>1, StoredIs
<1>3. i + n \in Nat
  OBVIOUS
<1>4. Larger(m, i + n) \in Nat /\ Larger(m, i + n) \in {m, i + n}
  BY <1>3, LargerIs
<1>5. Unit * Larger(m, i + n) <= Room(TriangleCount, call.tsize)
  BY <1>1, <1>4
<1> QED
  BY <1>1, <1>2, <1>4, <1>5

LEMMA ExtraCountType ==
  ASSUME NEW code \in 0..15
  PROVE  ExtraCount(code) \in 0..3 /\ NewCorners(code) \in {1, 3} /\ NextCount(code) \in 0..3
         /\ Smaller(ExtraCount(code), NewCorners(code) - 1) \in 0..2
  BY DEF ExtraCount, NewCorners, NextCount, Smaller

LEMMA PairExtraType ==
  ASSUME BoundsInv, phase = "triangles", NEW p \in 1..CodesSize
  PROVE  PairExtra(p) \in 0..6 /\ Nibble(2 * p - 1) \in 0..15 /\ Nibble(2 * p) \in 0..15
<1>1. 2 * p - 1 \in 1..2 * CodesSize /\ 2 * p \in 1..2 * CodesSize
  BY PartSizes DEF BoundsInv
<1>2. PICK a \in 0..15, b \in 0..15 : a = Nibble(2 * p - 1) /\ b = Nibble(2 * p)
  BY <1>1, Places
<1>3. PICK x \in 0..3, y \in 0..3 : x = ExtraCount(a) /\ y = ExtraCount(b)
  BY ExtraCountType
<1>4. x + y \in 0..6
  OBVIOUS
<1> QED
  BY <1>2, <1>3, <1>4 DEF PairExtra, TableExtra

\* A group of triangles in memory, in words or bytes.
LEMMA ScalarRoom ==
  ASSUME NEW n \in Nat, NEW k \in 1..n, call \in Calls, call.kind = "scalar", TriangleCount = n
  PROVE  Unit * (WordAt(k - 1) + (IF call.tsize = 4 THEN 1 ELSE 3)) <= Room(TriangleCount, call.tsize)
<1>1. call.tsize = 3 \/ call.tsize = 4
  BY CallType
<1>2. Room(TriangleCount, call.tsize) = 4 * ((n * call.tsize + 4 - 1) \div 4)
  BY DEF Room, Up
<1>3. 4 * (k - 1 + 1) <= 4 * ((n * 4 + 4 - 1) \div 4)
  OBVIOUS
<1>4. 1 * (3 * (k - 1) + 3) <= 4 * ((n * 3 + 4 - 1) \div 4)
  OBVIOUS
<1> QED
  BY <1>1, <1>2, <1>3, <1>4 DEF Unit, WordAt

LEMMA AssembledIs ==
  ASSUME NEW code \in 0..15, NEW old, NEW corner, corner = [j \in 1..3 |-> corner[j]]
  PROVE  Len(Assembled(code, old, corner)) = 3
<1>1. CASE code < 12
  BY <1>1 DEF Assembled
<1>2. CASE ~ (code < 12)
  <2>1. Len(corner) = 3
    BY LenOf
  <2> QED
    BY <1>2, <2>1 DEF Assembled
<1> QED
  BY <1>1, <1>2

LEMMA BoundsScalar ==
  ASSUME BoundsInv, DecodeScalar
  PROVE  BoundsInv'
<1>1. /\ phase = "triangles" /\ UNCHANGED <<mesh, encoderVars, stream, call>>
      /\ call.kind = "scalar" /\ dec.pairs < TriangleCount
  BY DEF DecodeScalar
<1>2. CASE dec.data > DataEnd
  <2>1. dec' = [dec EXCEPT !.verdict = -2] /\ phase' = "done"
    BY <1>2 DEF DecodeScalar
  <2> QED
    BY <1>1, <2>1, BoundsStop
<1>3. CASE ~ (dec.data > DataEnd)
  <2>1. PICK k \in Nat, d \in Nat, n \in Nat :
          k = dec.pairs + 1 /\ d = dec.data /\ n = TriangleCount /\ k \in 1..n /\ dec.pairs = k - 1
    BY <1>1, MeshCounts DEF BoundsInv, Progress
  <2>2. PICK code \in 0..15 : code = Nibble(k)
    <3>1. k \in 1..2 * CodesSize
      BY <2>1 DEF CodesSize, Up
    <3> QED
      BY <1>1, <3>1, Places
  <2>3. PICK t : t = ScalarTriangle(code)
    OBVIOUS
  <2>4. Len(t) = 3
    <3> DEFINE corner == [j \in 1..3 |-> IF j <= ExtraCount(code) THEN ByteAt(dec.data + j - 1)
                           ELSE (dec.state.next + j - 1 - ExtraCount(code)) % ByteValues]
    <3>1. t = Assembled(code, dec.state.tris[code \div 4 + 1], corner)
      BY <2>3 DEF ScalarTriangle
    <3>2. corner = [j \in 1..3 |-> corner[j]]
      OBVIOUS
    <3> HIDE DEF corner
    <3> QED
      BY <3>1, <3>2, AssembledIs
  <2>5. PICK x \in 0..3, y \in 0..2 : x = ExtraCount(code) /\ y = Smaller(ExtraCount(code), NewCorners(code) - 1)
    BY ExtraCountType
  <2>6. /\ dec' = [dec EXCEPT !.data = @ + x, !.pairs = @ + 1,
                          !.reach = Larger(@, d + y + 1),
                          !.triangles = Stored(@, WordAt(dec.pairs), Words(t)),
                          !.state = [next |-> @.next + NextCount(code),
                                     tris |-> <<t, @.tris[1], @.tris[2]>>]]
        /\ phase' = phase
    BY <1>3, <2>1, <2>2, <2>3, <2>5 DEF DecodeScalar
  <2>7. /\ DOMAIN dec' = DecFields /\ dec'.groups = dec.groups /\ dec'.vertices = dec.vertices
        /\ dec'.data = d + x /\ dec'.pairs = k /\ dec'.reach = Larger(dec.reach, d + y + 1)
        /\ dec'.triangles = Stored(dec.triangles, WordAt(k - 1), Words(t))
    BY <2>1, <2>6 DEF BoundsInv, DecFields
  <2>8. dec'.data \in Nat /\ dec'.reach \in 0..Len(stream)
    <3>1. d + x \in Nat /\ y + 1 \in 0..16 /\ d + (y + 1) = d + y + 1
      OBVIOUS
    <3>2. Larger(dec.reach, dec.data + (y + 1)) \in 0..Len(stream)
      BY <1>1, <1>3, <3>1, ReachFits DEF OverRead
    <3> QED
      BY <2>1, <2>7, <3>1, <3>2
  <2>9. Len(dec'.triangles) \in Nat /\ Unit * Len(dec'.triangles) <= Room(TriangleCount, call.tsize)
    <3>1. PICK l \in 1..3 : l = IF call.tsize = 4 THEN 1 ELSE 3
      OBVIOUS
    <3>2. Len(Words(t)) = l
      BY <2>4, <3>1 DEF Words
    <3>3. Unit * (WordAt(k - 1) + l) <= Room(TriangleCount, call.tsize)
      BY <1>1, <2>1, <3>1, ScalarRoom DEF BoundsInv
    <3>4. WordAt(k - 1) \in Nat /\ l \in Nat
      BY <2>1 DEF WordAt
    <3> QED
      BY <2>7, <3>2, <3>3, <3>4, WriteFits DEF BoundsInv, MemoryFits
  <2>10. dec'.pairs \in 0..TriangleCount
    <3>1. k \in 0..n
      BY <2>1
    <3> QED
      BY <2>1, <2>7, <3>1
  <2> QED
    BY <1>1, <2>6, <2>7, <2>8, <2>9, <2>10, BoundsTriangles
<1> QED
  BY <1>2, <1>3

LEMMA SlotsIs ==
  ASSUME NEW state, NEW from \in Nat, NEW k \in Nat, NEW to, to = from + k - 1
  PROVE  Len(Slots(state, from, to)) = k
<1>1. to - from + 1 = k
  OBVIOUS
<1>2. PICK s : s = Slots(state, from, to)
  OBVIOUS
<1>3. s = [n \in 1..k |-> IF from + n - 1 > 15 THEN 0 ELSE state[from + n - 1]]
  BY <1>1, <1>2 DEF Slots
<1>4. s = [n \in 1..k |-> s[n]]
  BY <1>3
<1>5. Len(s) = k
  BY <1>4, LenOf
<1> QED
  BY <1>1, <1>2, <1>5

LEMMA SlotsLengths ==
  ASSUME NEW state
  PROVE  /\ Len(Slots(state, 9, 12)) = 4 /\ Len(Slots(state, 7, 14)) = 8 /\ Len(Slots(state, 9, 16)) = 8
<1>1. PICK a \in Nat, b \in Nat, c \in Nat, k \in Nat, l \in Nat :
        a = 9 /\ b = 12 /\ c = 16 /\ k = 4 /\ l = 8
  OBVIOUS
<1>2. PICK d \in Nat, e \in Nat : d = 7 /\ e = 14
  OBVIOUS
<1>3. b = a + k - 1 /\ c = a + l - 1 /\ e = d + l - 1
  BY <1>1, <1>2
<1>4. Len(Slots(state, a, b)) = k
  BY <1>3, SlotsIs
<1>5. Len(Slots(state, a, c)) = l
  BY <1>3, SlotsIs
<1>6. Len(Slots(state, d, e)) = l
  BY <1>3, SlotsIs
<1> QED
  BY <1>1, <1>2, <1>4, <1>5, <1>6

LEMMA PairRoom ==
  ASSUME NEW n \in Nat, TriangleCount = n, NEW p \in 1..CodesSize, call \in Calls, call.tsize = 4
  PROVE  /\ call.kind = "raw" \/ 2 * p <= n => Unit * (2 * (p - 1) + 2) <= Room(TriangleCount, call.tsize)
         /\ call.kind # "raw" => Unit * (2 * (p - 1) + 1) <= Room(TriangleCount, call.tsize)
<1>1. p \in 1..(n + 2 - 1) \div 2
  BY DEF CodesSize, Up
<1>2. Room(n, 4) = IF call.kind = "raw" THEN 16 * ((n * 4 + 16 - 1) \div 16) ELSE 4 * ((n * 4 + 4 - 1) \div 4)
  BY DEF Room, Up
<1>3. 4 * (2 * (p - 1) + 2) <= 16 * ((n * 4 + 16 - 1) \div 16)
  BY <1>1
<1>4. 4 * (2 * (p - 1) + 1) <= 4 * ((n * 4 + 4 - 1) \div 4)
  BY <1>1
<1>5. 2 * p <= n => 4 * (2 * (p - 1) + 2) <= 4 * ((n * 4 + 4 - 1) \div 4)
  BY <1>1
<1> QED
  BY <1>2, <1>3, <1>4, <1>5 DEF Unit

LEMMA BoundsPair ==
  ASSUME BoundsInv, DecodePair
  PROVE  BoundsInv'
<1>1. /\ phase = "triangles" /\ UNCHANGED <<mesh, encoderVars, stream, call>>
      /\ call.kind # "scalar" /\ call.tsize = 4 /\ dec.pairs < CodesSize
  BY DEF DecodePair
<1>2. CASE dec.data > DataEnd
  <2>1. dec' = [dec EXCEPT !.verdict = -2] /\ phase' = "done"
    BY <1>2 DEF DecodePair
  <2> QED
    BY <1>1, <2>1, BoundsStop
<1>3. CASE ~ (dec.data > DataEnd)
  <2>1. PICK p \in Nat, d \in Nat, n \in Nat :
          /\ p = dec.pairs + 1 /\ d = dec.data /\ n = TriangleCount
          /\ p \in 1..CodesSize /\ p \in 0..CodesSize /\ dec.pairs = p - 1
    <3>1. PICK c \in Nat, d \in Nat, n \in Nat : c = CodesSize /\ d = dec.data /\ n = TriangleCount
      BY MeshCounts, PartSizes DEF BoundsInv
    <3>2. PICK q \in Nat : q = dec.pairs /\ q < c
      BY <1>1, <3>1 DEF BoundsInv, Progress
    <3>3. q + 1 \in 1..c /\ q + 1 \in 0..c /\ q = (q + 1) - 1 /\ q + 1 \in Nat
      BY <3>2
    <3> QED
      BY <3>1, <3>2, <3>3
  <2> DEFINE both == call.kind = "raw" \/ 2 * p <= n
  <2> DEFINE state == StateAfter(dec.state, p, dec.data)
             tris == <<Slots(state, 9, 11)>> \o (IF both THEN <<Slots(state, 12, 14)>> ELSE <<>>)
  <2>a. PICK x \in 0..6 : x = PairExtra(p)
    BY <1>1, <2>1, PairExtraType
  <2>2. /\ dec' = [dec EXCEPT !.data = @ + x, !.pairs = p, !.state = state,
                              !.reach = Larger(@, dec.data + 8), !.triangles = Stored(@, 2 * (p - 1), tris)]
        /\ phase' = phase
    <3>1. dec.pairs + 1 = p
      BY <2>1
    <3> QED
      BY <1>3, <2>1, <2>a, <3>1 DEF DecodePair
  <2>b. \E s : tris = <<Slots(s, 9, 11)>> \o (IF both THEN <<Slots(s, 12, 14)>> ELSE <<>>)
    OBVIOUS
  <2> HIDE DEF state, tris
  <2>3. /\ DOMAIN dec' = DecFields /\ dec'.groups = dec.groups /\ dec'.vertices = dec.vertices
        /\ dec'.data = d + x /\ dec'.pairs = p /\ dec'.reach = Larger(dec.reach, dec.data + 8)
        /\ dec'.triangles = Stored(dec.triangles, 2 * (p - 1), tris)
    BY <2>1, <2>2 DEF BoundsInv, DecFields
  <2>4. dec'.data \in Nat /\ dec'.reach \in 0..Len(stream)
    <3>1. d + x \in Nat /\ 8 \in 0..16
      OBVIOUS
    <3>2. Larger(dec.reach, dec.data + 8) \in 0..Len(stream)
      BY <1>1, <1>3, <3>1, ReachFits DEF OverRead
    <3> QED
      BY <2>3, <3>1, <3>2
  <2>5. Len(dec'.triangles) \in Nat /\ Unit * Len(dec'.triangles) <= Room(TriangleCount, call.tsize)
    <3>1. PICK l \in 1..2 : l = IF both THEN 2 ELSE 1
      OBVIOUS
    <3>2. Len(tris) = l
      <4>1. PICK a, b : tris = <<a>> \o (IF both THEN <<b>> ELSE <<>>)
        BY <2>b
      <4>2. CASE both
        BY <3>1, <4>1, <4>2
      <4>3. CASE ~ both
        BY <3>1, <4>1, <4>3
      <4> QED
        BY <4>2, <4>3
    <3>3. Unit * (2 * (p - 1) + l) <= Room(TriangleCount, call.tsize)
      BY <1>1, <2>1, <3>1, PairRoom DEF BoundsInv
    <3>4. 2 * (p - 1) \in Nat /\ l \in Nat
      BY <2>1
    <3> QED
      BY <2>3, <3>2, <3>3, <3>4, WriteFits DEF BoundsInv, MemoryFits
  <2>6. dec'.pairs \in 0..CodesSize
    BY <2>1, <2>3
  <2> QED
    BY <1>1, <2>2, <2>3, <2>4, <2>5, <2>6, BoundsTriangles
<1> QED
  BY <1>2, <1>3

LEMMA TwoPairsRoom ==
  ASSUME NEW n \in Nat, TriangleCount = n, NEW p \in Nat, p % 2 = 1, p < 2 * Groups12,
         call.kind # "raw", call.tsize = 3
  PROVE  /\ p + 1 <= 2 * Groups12 /\ p + 1 <= CodesSize
         /\ Unit * (6 * (p - 1) + 12) <= Room(TriangleCount, call.tsize)
         /\ Unit * (6 * (p - 1) + 4) <= Room(TriangleCount, call.tsize)
<1>1. p < 2 * ((n + 1) \div 4)
  BY DEF Groups12
<1>2. Room(n, 3) = 4 * ((n * 3 + 4 - 1) \div 4)
  BY DEF Room, Up
<1>3. p + 1 <= 2 * ((n + 1) \div 4)
  BY <1>1
<1>4. p + 1 <= (n + 2 - 1) \div 2
  BY <1>1
<1>5. 6 * (p - 1) + 12 <= 12 * ((n + 1) \div 4)
  BY <1>3
<1>6. 12 * ((n + 1) \div 4) <= 4 * ((n * 3 + 4 - 1) \div 4)
  OBVIOUS
<1>7. 6 * (p - 1) + 12 <= 4 * ((n * 3 + 4 - 1) \div 4) /\ 6 * (p - 1) + 4 <= 4 * ((n * 3 + 4 - 1) \div 4)
  BY <1>5, <1>6
<1>8. Unit = 1
  BY DEF Unit
<1> QED
  BY <1>2, <1>3, <1>4, <1>7, <1>8 DEF Groups12, CodesSize, Up

LEMMA BoundsTwoPairs ==
  ASSUME BoundsInv, DecodeTwoPairs
  PROVE  BoundsInv'
<1>1. /\ phase = "triangles" /\ UNCHANGED <<mesh, encoderVars, stream, call>>
      /\ call.kind = "simd" /\ call.tsize = 3 /\ dec.pairs < 2 * Groups12
  BY DEF DecodeTwoPairs
<1>2. CASE dec.data > DataEnd
  <2>1. dec' = [dec EXCEPT !.verdict = -2] /\ phase' = "done"
    BY <1>2 DEF DecodeTwoPairs
  <2> QED
    BY <1>1, <2>1, BoundsStop
<1>3. CASE ~ (dec.data > DataEnd)
  <2>1. PICK p \in Nat, d \in Nat, n \in Nat :
          p = dec.pairs + 1 /\ d = dec.data /\ n = TriangleCount /\ dec.pairs = p - 1
    BY MeshCounts DEF BoundsInv, Progress
  <2>2. PICK g \in Nat : g = Groups12
    BY <2>1 DEF Groups12
  <2>3. p % 2 = 1 /\ p < 2 * Groups12 /\ p >= 1 /\ dec.pairs \in Nat
    <3>1. dec.pairs \in Nat
      BY <1>1 DEF BoundsInv, Progress
    <3>2. dec.pairs % 2 = 0 /\ dec.pairs < 2 * g
      BY <1>1, <2>2, <3>1 DEF BoundsInv, Progress
    <3> QED
      BY <2>1, <2>2, <3>1, <3>2
  <2>4. /\ p + 1 <= 2 * Groups12 /\ p + 1 <= CodesSize
        /\ Unit * (6 * (p - 1) + 12) <= Room(TriangleCount, call.tsize)
        /\ Unit * (6 * (p - 1) + 4) <= Room(TriangleCount, call.tsize)
    BY <1>1, <2>1, <2>3, TwoPairsRoom
  <2>5. p \in 1..CodesSize /\ p + 1 \in 1..CodesSize /\ p + 1 \in 0..CodesSize
    <3>1. PICK c \in Nat : c = CodesSize
      BY PartSizes DEF BoundsInv
    <3> QED
      BY <2>3, <2>4, <3>1
  <2>a. PICK x \in 0..6, y \in 0..6 : x = PairExtra(p) /\ y = PairExtra(p + 1)
    <3>1. PairExtra(p) \in 0..6 /\ PairExtra(p + 1) \in 0..6
      BY <1>1, <2>5, PairExtraType
    <3> QED
      BY <3>1
  <2> DEFINE first == StateAfter(dec.state, p, d)
             second == StateAfter(first, p + 1, d + x)
             v == Slots(first, 9, 12)
             w == Slots(second, 7, 14)
             m == Stored(dec.triangles, 6 * (p - 1), v)
  <2>6. /\ dec' = [dec EXCEPT !.data = d + x + y, !.pairs = p + 1, !.state = second,
                              !.reach = Larger(@, d + x + 8), !.triangles = Stored(m, 6 * (p - 1) + 4, w)]
        /\ phase' = phase
    <3>1. dec.pairs + 1 = p /\ dec.data = d
      BY <2>1
    <3>2. /\ dec' = [dec EXCEPT !.data = d + x + y, !.pairs = p + 1, !.state = second,
                                !.reach = Larger(@, d + x + 8),
                                !.triangles = Stored(Stored(@, 6 * (p - 1), v), 6 * (p - 1) + 4, w)]
          /\ phase' = phase
      BY <1>3, <2>a, <3>1 DEF DecodeTwoPairs
    <3> HIDE DEF first, second, v, w
    <3> QED
      BY <3>2
  <2>b. Len(v) = 4 /\ Len(w) = 8
    <3> HIDE DEF first, second
    <3> QED
      BY SlotsLengths
  <2>c. m = Stored(dec.triangles, 6 * (p - 1), v)
    OBVIOUS
  <2> HIDE DEF first, second, v, w, m
  <2>7. /\ DOMAIN dec' = DecFields /\ dec'.groups = dec.groups /\ dec'.vertices = dec.vertices
        /\ dec'.data = d + x + y /\ dec'.pairs = p + 1 /\ dec'.reach = Larger(dec.reach, d + x + 8)
        /\ dec'.triangles = Stored(m, 6 * (p - 1) + 4, w)
    BY <2>6 DEF BoundsInv, DecFields
  <2>8. dec'.data \in Nat /\ dec'.reach \in 0..Len(stream)
    <3>1. d + x + y \in Nat /\ x + 8 \in 0..16 /\ d + (x + 8) = d + x + 8
      OBVIOUS
    <3>2. Larger(dec.reach, dec.data + (x + 8)) \in 0..Len(stream)
      BY <1>1, <1>3, <3>1, ReachFits DEF OverRead
    <3> QED
      BY <2>1, <2>7, <3>1, <3>2
  <2>9. Len(dec'.triangles) \in Nat /\ Unit * Len(dec'.triangles) <= Room(TriangleCount, call.tsize)
    <3>2. 6 * (p - 1) \in Nat /\ 6 * (p - 1) + 4 \in Nat /\ 6 * (p - 1) + 4 + 8 = 6 * (p - 1) + 12
      BY <2>3
    <3>3. Len(m) \in Nat /\ Unit * Len(m) <= Room(TriangleCount, call.tsize)
      BY <2>4, <2>b, <2>c, <3>2, WriteFits DEF BoundsInv, MemoryFits
    <3>4. Unit * (6 * (p - 1) + 4 + 8) <= Room(TriangleCount, call.tsize)
      BY <2>4, <3>2
    <3>5. /\ Len(Stored(m, 6 * (p - 1) + 4, w)) \in Nat
          /\ Unit * Len(Stored(m, 6 * (p - 1) + 4, w)) <= Room(TriangleCount, call.tsize)
      BY <2>b, <3>2, <3>3, <3>4, WriteFits
    <3> QED
      BY <2>7, <3>5
  <2>10. dec'.pairs \in 0..CodesSize
    BY <2>5, <2>7
  <2>11. dec'.pairs % 2 = 0
    BY <2>3, <2>7
  <2> QED
    BY <1>1, <2>6, <2>7, <2>8, <2>9, <2>10, <2>11, BoundsTriangles
<1> QED
  BY <1>2, <1>3

LEMMA LastPairRoom ==
  ASSUME NEW n \in Nat, TriangleCount = n, 2 * Groups12 < CodesSize,
         call.kind # "raw", call.tsize = 3, NEW l \in Nat, l = IF n % 4 > 1 THEN 8 ELSE 4
  PROVE  Unit * (12 * (n \div 4) + l) <= Room(TriangleCount, call.tsize)
<1>1. 2 * ((n + 1) \div 4) < (n + 2 - 1) \div 2
  BY DEF Groups12, CodesSize, Up
<1>2. Room(n, 3) = 4 * ((n * 3 + 4 - 1) \div 4)
  BY DEF Room, Up
<1>3. 12 * (n \div 4) + l <= 4 * ((n * 3 + 4 - 1) \div 4)
  <2>1. n % 4 = 1 \/ n % 4 = 2
    BY <1>1
  <2> QED
    BY <2>1
<1>4. Unit = 1
  BY DEF Unit
<1> QED
  BY <1>2, <1>3, <1>4

LEMMA BoundsLastPair ==
  ASSUME BoundsInv, DecodeLastPair
  PROVE  BoundsInv'
<1>1. /\ phase = "triangles" /\ UNCHANGED <<mesh, encoderVars, stream, call>>
      /\ call.kind = "simd" /\ call.tsize = 3 /\ dec.pairs = 2 * Groups12 /\ dec.pairs < CodesSize
  BY DEF DecodeLastPair
<1>2. CASE dec.data > DataEnd
  <2>1. dec' = [dec EXCEPT !.verdict = -2] /\ phase' = "done"
    BY <1>2 DEF DecodeLastPair
  <2> QED
    BY <1>1, <2>1, BoundsStop
<1>3. CASE ~ (dec.data > DataEnd)
  <2>1. PICK p \in Nat, d \in Nat, n \in Nat :
          /\ p = dec.pairs + 1 /\ d = dec.data /\ n = TriangleCount
          /\ p \in 1..CodesSize /\ p \in 0..CodesSize /\ dec.pairs = p - 1
    <3>1. PICK c \in Nat, d \in Nat, n \in Nat : c = CodesSize /\ d = dec.data /\ n = TriangleCount
      BY MeshCounts, PartSizes DEF BoundsInv
    <3>2. PICK q \in Nat : q = dec.pairs /\ q < c
      BY <1>1, <3>1 DEF BoundsInv, Progress
    <3>3. q + 1 \in 1..c /\ q + 1 \in 0..c /\ q = (q + 1) - 1 /\ q + 1 \in Nat
      BY <3>2
    <3> QED
      BY <3>1, <3>2, <3>3
  <2>2. PICK l \in Nat : l = IF n % 4 > 1 THEN 8 ELSE 4
    OBVIOUS
  <2>a. PICK x \in 0..6 : x = PairExtra(p)
    BY <1>1, <2>1, PairExtraType
  <2> DEFINE state == StateAfter(dec.state, p, dec.data)
             v == Slots(state, 9, IF n % 4 > 1 THEN 16 ELSE 12)
  <2>3. /\ dec' = [dec EXCEPT !.data = @ + x, !.pairs = p, !.state = state,
                              !.reach = Larger(@, dec.data + 8), !.triangles = Stored(@, 12 * (n \div 4), v)]
        /\ phase' = phase
    BY <1>3, <2>1, <2>a DEF DecodeLastPair
  <2>b. v = Slots(state, 9, IF n % 4 > 1 THEN 16 ELSE 12)
    OBVIOUS
  <2> HIDE DEF state, v
  <2>4. /\ DOMAIN dec' = DecFields /\ dec'.groups = dec.groups /\ dec'.vertices = dec.vertices
        /\ dec'.data = d + x /\ dec'.pairs = p /\ dec'.reach = Larger(dec.reach, dec.data + 8)
        /\ dec'.triangles = Stored(dec.triangles, 12 * (n \div 4), v)
    BY <2>1, <2>3 DEF BoundsInv, DecFields
  <2>5. dec'.data \in Nat /\ dec'.reach \in 0..Len(stream)
    <3>1. d + x \in Nat /\ 8 \in 0..16
      OBVIOUS
    <3>2. Larger(dec.reach, dec.data + 8) \in 0..Len(stream)
      BY <1>1, <1>3, <3>1, ReachFits DEF OverRead
    <3> QED
      BY <2>4, <3>1, <3>2
  <2>6. Len(dec'.triangles) \in Nat /\ Unit * Len(dec'.triangles) <= Room(TriangleCount, call.tsize)
    <3>1. Len(v) = l
      <4>1. CASE n % 4 > 1
        <5>1. Len(Slots(state, 9, 16)) = 8
          BY SlotsLengths
        <5> QED
          BY <2>2, <2>b, <4>1, <5>1
      <4>2. CASE ~ (n % 4 > 1)
        <5>1. Len(Slots(state, 9, 12)) = 4
          BY SlotsLengths
        <5> QED
          BY <2>2, <2>b, <4>2, <5>1
      <4> QED
        BY <4>1, <4>2
    <3>2. Unit * (12 * (n \div 4) + l) <= Room(TriangleCount, call.tsize)
      BY <1>1, <2>1, <2>2, LastPairRoom
    <3>3. 12 * (n \div 4) \in Nat
      OBVIOUS
    <3> QED
      BY <2>4, <3>1, <3>2, <3>3, WriteFits DEF BoundsInv, MemoryFits
  <2>7. dec'.pairs \in 0..CodesSize
    BY <2>1, <2>4
  <2>8. dec'.pairs > 2 * Groups12
    <3>1. PICK g \in Nat : g = Groups12
      BY <2>1 DEF Groups12
    <3> QED
      BY <1>1, <2>1, <2>4, <3>1
  <2> QED
    BY <1>1, <2>3, <2>4, <2>5, <2>6, <2>7, <2>8, BoundsTriangles
<1> QED
  BY <1>2, <1>3

-----------------------------------------------------------------------------
(* The stream *)

\* The parts of the stream.
CtrlPart == [g \in 1..CtrlSize |-> GroupCtrl(g)]
DataPart == (DataUpTo[CtrlSize] \o extra) \o Zeros(GapSize)
Encoded  == (DataPart \o CtrlPart) \o PackedCodes

\* Where the parts of s are.
Layout(s) ==
  LET data == Len(DataUpTo[CtrlSize])
  IN  /\ s \in Seq(0..255)
      /\ Len(s) = data + Len(extra) + GapSize + CtrlSize + CodesSize
      /\ \A i \in 1..data : s[i] = DataUpTo[CtrlSize][i]
      /\ \A i \in 1..Len(extra) : s[data + i] = extra[i]
      /\ \A i \in 1..CtrlSize : s[data + Len(extra) + GapSize + i] = GroupCtrl(i)
      /\ \A i \in 1..CodesSize : s[data + Len(extra) + GapSize + CtrlSize + i] = PackedCodes[i]

LEMMA SizeCodeType == \A vs, n : SizeCode(vs, n) \in 0..3
  BY DEF SizeCode

LEMMA CtrlType == \A g : GroupCtrl(g) \in 0..255
<1> SUFFICES ASSUME NEW g PROVE GroupCtrl(g) \in 0..255
  OBVIOUS
<1> DEFINE s == [n \in 1..4 |-> SizeCode(GroupValues(g), n)]
<1>1. s \in [1..4 -> 0..3]
  BY SizeCodeType
<1>2. GroupCtrl(g) = CtrlOf(s)
  BY DEF GroupCtrl
<1> HIDE DEF s
<1>3. s[1] \in 0..3 /\ s[2] \in 0..3 /\ s[3] \in 0..3 /\ s[4] \in 0..3
  BY <1>1
<1>4. CtrlOf(s) = (s[1] % 2) + 2 * (s[2] % 2) + 4 * (s[3] % 2) + 8 * (s[4] % 2)
                  + 16 * (s[1] \div 2 + 2 * (s[2] \div 2) + 4 * (s[3] \div 2) + 8 * (s[4] \div 2))
  BY DEF CtrlOf, Nibble4
<1>5. \A a \in 0..3 : a % 2 \in 0..1 /\ a \div 2 \in 0..1
  OBVIOUS
<1>6. PICK a \in 0..1, b \in 0..1, c \in 0..1, d \in 0..1 :
        a = s[1] % 2 /\ b = s[2] % 2 /\ c = s[3] % 2 /\ d = s[4] % 2
  BY <1>3, <1>5
<1>7. PICK e \in 0..1, f \in 0..1, h \in 0..1, i \in 0..1 :
        e = s[1] \div 2 /\ f = s[2] \div 2 /\ h = s[3] \div 2 /\ i = s[4] \div 2
  BY <1>3, <1>5
<1>8. a + 2 * b + 4 * c + 8 * d \in 0..15 /\ e + 2 * f + 4 * h + 8 * i \in 0..15
  OBVIOUS
<1>9. \A x, y \in 0..15 : x + 16 * y \in 0..255
  OBVIOUS
<1>10. CtrlOf(s) = (a + 2 * b + 4 * c + 8 * d) + 16 * (e + 2 * f + 4 * h + 8 * i)
  BY <1>4, <1>6, <1>7
<1> QED
  BY <1>2, <1>8, <1>9, <1>10

\* A byte of two codes; an odd last one is paired with 0.
LEMMA PackedType ==
  ASSUME MeshInv, codes \in Seq(0..15), Len(codes) = TriangleCount
  PROVE  PackedCodes \in Seq(0..255) /\ Len(PackedCodes) = CodesSize
<1>1. PICK t \in Nat : t = TriangleCount
  BY MeshCounts
<1>2. PICK k \in Nat : k = CodesSize /\ k = (t + 2 - 1) \div 2
  BY <1>1 DEF CodesSize, Up
<1> DEFINE P(n) == codes[2 * n - 1] + 16 * (IF 2 * n <= TriangleCount THEN codes[2 * n] ELSE 0)
<1>3. ASSUME NEW n \in 1..k PROVE P(n) \in 0..255
  <2>1. 2 * n - 1 \in 1..t
    BY <1>2
  <2>2. 2 * n <= t => 2 * n \in 1..t
    OBVIOUS
  <2>3. \A i \in 1..t : codes[i] \in 0..15
    BY <1>1, ElementOfSeq
  <2>4. PICK a \in 0..15, b \in 0..15 : a = codes[2 * n - 1] /\ b = IF 2 * n <= t THEN codes[2 * n] ELSE 0
    <3>1. codes[2 * n - 1] \in 0..15 /\ (2 * n <= t => codes[2 * n] \in 0..15)
      BY <2>1, <2>2, <2>3
    <3>2. (IF 2 * n <= t THEN codes[2 * n] ELSE 0) \in 0..15
      BY <3>1
    <3> QED
      BY <3>1, <3>2
  <2>5. a + 16 * b \in 0..255
    <3>1. a \in Int /\ b \in Int /\ 0 <= a /\ a <= 15 /\ 0 <= b /\ b <= 15
      OBVIOUS
    <3> QED
      BY <3>1
  <2> QED
    BY <1>1, <2>4, <2>5
<1>4. PICK q : q = PackedCodes
  OBVIOUS
<1>5. q = [n \in 1..k |-> P(n)]
  BY <1>2, <1>4 DEF PackedCodes
<1>6. q \in [1..k -> 0..255]
  <2> HIDE DEF P
  <2> QED
    BY <1>3, <1>5
<1>7. q \in Seq(0..255) /\ Len(q) = k
  BY <1>6, SeqOfFunction
<1> QED
  BY <1>2, <1>4, <1>7

LEMMA EncodedIs ==
  ASSUME MeshInv, EncoderType, Len(codes) = TriangleCount
  PROVE  Layout(Encoded)
<1> DEFINE S == 0..255
           D == DataUpTo[CtrlSize]
           Z == Zeros(GapSize)
<1>1. D \in Seq(S) /\ extra \in Seq(S)
  <2>1. Byte \subseteq S
    BY ByteRange DEF Byte
  <2>2. CtrlSize \in 0..CtrlSize
    BY PartSizes
  <2>3. D \in Seq(Byte) /\ extra \in Seq(Byte)
    BY <2>2, DataSteps DEF EncoderType
  <2> QED
    <3> HIDE DEF D, S
    <3>1. Seq(Byte) \subseteq Seq(S)
      BY <2>1, SeqMonotonic
    <3>2. D \in Seq(S) /\ extra \in Seq(S)
      BY <2>3, <3>1
    <3> QED
      BY <3>1, <3>2
<1>2. Z \in Seq(S) /\ Len(Z) = GapSize
  <2>1. PICK n \in Nat : n = GapSize
    BY PartSizes
  <2>2. Z = [i \in 1..n |-> 0]
    BY <2>1 DEF Zeros
  <2>3. Z \in [1..n -> S]
    BY <2>2
  <2> QED
    BY <2>1, <2>3, SeqOfFunction
<1>3. CtrlPart \in Seq(S) /\ Len(CtrlPart) = CtrlSize /\ \A i \in 1..CtrlSize : CtrlPart[i] = GroupCtrl(i)
  <2>1. PICK n \in Nat : n = CtrlSize
    BY PartSizes
  <2>2. CtrlPart \in [1..n -> S]
    BY <2>1, CtrlType DEF CtrlPart
  <2>3. CtrlPart \in Seq(S) /\ Len(CtrlPart) = n
    BY <2>2, SeqOfFunction
  <2> QED
    BY <2>1, <2>3 DEF CtrlPart
<1>4. PackedCodes \in Seq(S) /\ Len(PackedCodes) = CodesSize
  BY PackedType DEF EncoderType
<1> HIDE DEF D, Z, S
<1>5. DataPart \in Seq(S) /\ DataPart = (D \o extra) \o Z
  <2>1. D \o extra \in Seq(S)
    BY <1>1, ConcatProperties
  <2>2. (D \o extra) \o Z \in Seq(S)
    BY <1>2, <2>1, ConcatProperties
  <2> QED
    BY <2>2 DEF DataPart, D, Z
<1>6. PICK a \in Nat, b \in Nat, g \in Nat, c \in Nat, k \in Nat :
        a = Len(D) /\ b = Len(extra) /\ g = GapSize /\ c = CtrlSize /\ k = CodesSize
  BY <1>1, LenProperties, PartSizes
<1>7. /\ Len(DataPart) = a + b + g
      /\ \A i \in 1..a : DataPart[i] = D[i]
      /\ \A i \in 1..b : DataPart[a + i] = extra[i]
  <2>1. PICK p \in Seq(S) : /\ p = D \o extra /\ Len(p) = a + b
                            /\ \A i \in 1..a : p[i] = D[i]
                            /\ \A i \in 1..b : p[a + i] = extra[i]
    <3>1. /\ D \o extra \in Seq(S) /\ Len(D \o extra) = Len(D) + Len(extra)
          /\ \A i \in 1..Len(D) : (D \o extra)[i] = D[i]
          /\ \A i \in 1..Len(extra) : (D \o extra)[Len(D) + i] = extra[i]
      BY <1>1, Concat
    <3> QED
      BY <1>6, <3>1
  <2>2. /\ Len(p \o Z) = Len(p) + Len(Z)
        /\ \A i \in 1..Len(p) : (p \o Z)[i] = p[i]
    BY <1>2, Concat
  <2>3. DataPart = p \o Z /\ Len(p) = a + b /\ Len(Z) = g
    BY <1>2, <1>5, <1>6, <2>1
  <2>4. Len(DataPart) = a + b + g /\ \A i \in 1..a + b : DataPart[i] = p[i]
    BY <2>2, <2>3
  <2>5. \A i \in 1..a : i \in 1..a + b
    OBVIOUS
  <2>6. \A i \in 1..b : a + i \in 1..a + b
    OBVIOUS
  <2> QED
    BY <2>1, <2>4, <2>5, <2>6
<1>8. /\ Encoded \in Seq(S) /\ Len(Encoded) = a + b + g + c + k
      /\ \A i \in 1..a + b + g : Encoded[i] = DataPart[i]
      /\ \A i \in 1..c : Encoded[a + b + g + i] = GroupCtrl(i)
      /\ \A i \in 1..k : Encoded[a + b + g + c + i] = PackedCodes[i]
  <2>1. PICK p \in Seq(S) : /\ p = DataPart \o CtrlPart /\ Len(p) = a + b + g + c
                            /\ \A i \in 1..a + b + g : p[i] = DataPart[i]
                            /\ \A i \in 1..c : p[a + b + g + i] = GroupCtrl(i)
    <3>1. /\ DataPart \o CtrlPart \in Seq(S) /\ Len(DataPart \o CtrlPart) = Len(DataPart) + Len(CtrlPart)
          /\ \A i \in 1..Len(DataPart) : (DataPart \o CtrlPart)[i] = DataPart[i]
          /\ \A i \in 1..Len(CtrlPart) : (DataPart \o CtrlPart)[Len(DataPart) + i] = CtrlPart[i]
      <4>1. PICK x \in Seq(S), y \in Seq(S) : x = DataPart /\ y = CtrlPart
        BY <1>3, <1>5
      <4>2. /\ x \o y \in Seq(S) /\ Len(x \o y) = Len(x) + Len(y)
            /\ \A i \in 1..Len(x) : (x \o y)[i] = x[i]
            /\ \A i \in 1..Len(y) : (x \o y)[Len(x) + i] = y[i]
        BY Concat
      <4> QED
        BY <4>1, <4>2
    <3>2. Len(DataPart) = a + b + g /\ Len(CtrlPart) = c /\ \A i \in 1..c : CtrlPart[i] = GroupCtrl(i)
      BY <1>3, <1>6, <1>7
    <3> QED
      BY <3>1, <3>2
  <2>2. /\ p \o PackedCodes \in Seq(S) /\ Len(p \o PackedCodes) = Len(p) + Len(PackedCodes)
        /\ \A i \in 1..Len(p) : (p \o PackedCodes)[i] = p[i]
        /\ \A i \in 1..Len(PackedCodes) : (p \o PackedCodes)[Len(p) + i] = PackedCodes[i]
    <3>1. PICK y \in Seq(S) : y = PackedCodes
      BY <1>4
    <3>2. /\ p \o y \in Seq(S) /\ Len(p \o y) = Len(p) + Len(y)
          /\ \A i \in 1..Len(p) : (p \o y)[i] = p[i]
          /\ \A i \in 1..Len(y) : (p \o y)[Len(p) + i] = y[i]
      BY Concat
    <3> QED
      BY <3>1, <3>2
  <2>3. Encoded = p \o PackedCodes /\ Len(p) = a + b + g + c /\ Len(PackedCodes) = k
    BY <1>4, <1>6, <2>1 DEF Encoded
  <2>4. /\ Encoded \in Seq(S) /\ Len(Encoded) = a + b + g + c + k
        /\ \A i \in 1..a + b + g + c : Encoded[i] = p[i]
        /\ \A i \in 1..k : Encoded[a + b + g + c + i] = PackedCodes[i]
    BY <2>2, <2>3
  <2>5. \A i \in 1..a + b + g : i \in 1..a + b + g + c
    OBVIOUS
  <2>6. \A i \in 1..c : a + b + g + i \in 1..a + b + g + c
    OBVIOUS
  <2> QED
    BY <2>1, <2>4, <2>5, <2>6
<1>9. (\A i \in 1..a : i \in 1..a + b + g) /\ \A i \in 1..b : a + i \in 1..a + b + g
  OBVIOUS
<1>10. (\A i \in 1..a : Encoded[i] = D[i]) /\ \A i \in 1..b : Encoded[a + i] = extra[i]
  BY <1>7, <1>8, <1>9
<1> QED
  BY <1>6, <1>8, <1>10 DEF Layout, D, S

\* A buffer of the worst case size is large enough.
LEMMA EncodedFits ==
  ASSUME MeshInv, EncoderType, Len(codes) = TriangleCount
  PROVE  Len(Encoded) \in Nat /\ Len(Encoded) <= Bound
<1>1. Len(Encoded) = Len(DataUpTo[CtrlSize]) + Len(extra) + GapSize + CtrlSize + CodesSize
  BY EncodedIs DEF Layout
<1>2. PICK c \in Nat, k \in Nat, g \in Nat, t \in Nat, e \in Nat :
        c = CtrlSize /\ k = CodesSize /\ g = GapSize /\ t = TriangleCount /\ e = Len(extra) /\ e <= 3 * t
  BY PartSizes, MeshCounts, LenProperties DEF EncoderType
<1>3. PICK a \in Nat : a = Len(DataUpTo[CtrlSize]) /\ a <= 16 * c
  <2>1. c \in 0..CtrlSize
    BY <1>2
  <2>2. Len(DataUpTo[c]) \in 0..16 * c
    BY <2>1, DataSize
  <2> QED
    BY <1>2, <2>2
<1>4. Bound = k + 3 * t + c + 16 * c + g
  BY <1>2 DEF Bound
<1>5. a + e + g + c + k \in Nat /\ a + e + g + c + k <= k + 3 * t + c + 16 * c + g
  BY <1>2, <1>3
<1> QED
  BY <1>1, <1>2, <1>3, <1>4, <1>5

LEMMA FinishIs ==
  ASSUME MeshInv, EncoderType, FinishEncode, call \in Calls
  PROVE  /\ phase = "encode" /\ UNCHANGED <<mesh, encoderVars, call, dec>> /\ Len(codes) = TriangleCount
         /\ stream' \in Seq(0..255) /\ phase' \in {"decode", "refused"}
         /\ phase' = "refused" => call.lacks > 0
         /\ Own => stream' = Encoded \/ phase' = "refused"
<1>1. phase = "encode" /\ UNCHANGED <<mesh, encoderVars, call, dec>> /\ Len(codes) = TriangleCount
  BY DEF FinishEncode
<1>2. PICK n \in Nat : n = Len(Encoded) /\ n <= Bound
  BY <1>1, EncodedFits
<1> DEFINE got == SubSeq(Encoded, call.head + 1, n - call.tail)
           fits == n + call.lacks <= Bound
<1>3. IF fits /\ call.head + call.tail <= n
      THEN stream' = got /\ phase' = "decode"
      ELSE stream' = <<>> /\ phase' = (IF fits THEN "decode" ELSE "refused")
  BY <1>2 DEF FinishEncode, Encoded, DataPart, CtrlPart
<1>4. call.head \in Nat /\ call.tail \in Nat /\ call.lacks \in Nat /\ Bound \in Nat
  BY CallType, PartSizes
<1>5. Encoded \in Seq(0..255)
  BY <1>1, EncodedIs DEF Layout
<1>6. fits /\ call.head + call.tail <= n => got \in Seq(0..255)
  <2> SUFFICES ASSUME call.head + call.tail <= n PROVE got \in Seq(0..255)
    OBVIOUS
  <2>1. PICK a \in Int, b \in Int : a = call.head + 1 /\ b = n - call.tail /\ 1 <= a /\ b <= n
    BY <1>4
  <2>2. \A i \in a..b : Encoded[i] \in 0..255
    <3>1. \A i \in a..b : i \in 1..n
      BY <2>1
    <3>2. \A i \in 1..n : Encoded[i] \in 0..255
      BY <1>2, <1>5, ElementOfSeq
    <3> QED
      BY <3>1, <3>2
  <2>3. SubSeq(Encoded, a, b) \in Seq(0..255)
    BY <2>2, SubSeqProperties
  <2> QED
    BY <2>1, <2>3
<1>7. ~ fits => call.lacks > 0
  BY <1>2, <1>4
<1>8. call.head = 0 /\ call.tail = 0 => got = Encoded
  <2> SUFFICES ASSUME call.head = 0, call.tail = 0 PROVE SubSeq(Encoded, 0 + 1, n - 0) = Encoded
    OBVIOUS
  <2>1. 0 + 1 = 1 /\ n - 0 = n
    OBVIOUS
  <2> QED
    BY <1>2, <1>5, <2>1
<1>9. stream' \in Seq(0..255) /\ phase' \in {"decode", "refused"}
  <2>1. CASE fits /\ call.head + call.tail <= n
    BY <1>3, <1>6, <2>1
  <2>2. CASE ~ (fits /\ call.head + call.tail <= n)
    <3>1. stream' = <<>> /\ phase' = (IF fits THEN "decode" ELSE "refused")
      BY <1>3, <2>2
    <3> HIDE DEF fits
    <3> QED
      BY <3>1
  <2> QED
    BY <2>1, <2>2
<1>10. phase' = "refused" => call.lacks > 0
  BY <1>3, <1>7
<1>11. Own => stream' = Encoded \/ phase' = "refused"
  <2> SUFFICES ASSUME call.head = 0, call.tail = 0, fits PROVE stream' = Encoded
    BY <1>3 DEF Own
  <2>1. call.head + call.tail <= n
    OBVIOUS
  <2> QED
    BY <1>3, <1>8, <2>1
<1> QED
  BY <1>1, <1>9, <1>10, <1>11

-----------------------------------------------------------------------------
(* The encoder keeps the bounds *)

LEMMA NothingDecoded ==
  ASSUME MeshInv, dec = NoDecoder, call \in Calls
  PROVE  /\ DOMAIN dec = DecFields /\ dec.data \in Nat /\ dec.reach = 0 /\ Progress /\ MemoryFits
<1>1. /\ DOMAIN dec = DecFields /\ dec.data = 0 /\ dec.reach = 0 /\ dec.groups = 0 /\ dec.pairs = 0
      /\ dec.vertices = <<>> /\ dec.triangles = <<>>
  BY DEF NoDecoder, DecFields
<1>2. PICK v \in Nat, t \in Nat : v = VertexCount /\ t = TriangleCount
  BY MeshCounts, ByteRange
<1>3. Progress
  <2>1. CtrlSize \in Nat /\ CodesSize \in Nat
    BY PartSizes
  <2> QED
    BY <1>1, <1>2, <2>1 DEF Progress
<1>4. \A n \in Nat, s \in {2, 3, 4} : 0 <= Room(n, s)
  <2> SUFFICES ASSUME NEW n \in Nat, NEW s \in {2, 3, 4} PROVE 0 <= Room(n, s)
    OBVIOUS
  <2>1. n * s \in Nat
    OBVIOUS
  <2>2. PICK m \in Nat : m = n * s
    BY <2>1
  <2>3. 0 <= 16 * ((m + 16 - 1) \div 16) /\ 0 <= 4 * ((m + 4 - 1) \div 4)
    OBVIOUS
  <2> QED
    BY <2>2, <2>3 DEF Room, Up
<1>5. 0 <= Room(VertexCount, call.vsize) /\ 0 <= Room(TriangleCount, call.tsize)
  <2>1. call.vsize \in {2, 3, 4} /\ call.tsize \in {2, 3, 4}
    BY CallType
  <2> QED
    BY <1>2, <1>4, <2>1
<1>6. MemoryFits
  <2>1. Len(dec.vertices) = 0 /\ Len(dec.triangles) = 0
    BY <1>1
  <2>2. call.vsize * 0 = 0 /\ Unit * 0 = 0
    BY CallType DEF Unit
  <2> QED
    BY <1>5, <2>1, <2>2 DEF MemoryFits
<1> QED
  BY <1>1, <1>3, <1>6

LEMMA BoundsReuse ==
  ASSUME BoundsInv, EncodeReuse \/ EncodeRestart
  PROVE  BoundsInv'
<1>1. EncoderType' /\ phase = "encode" /\ UNCHANGED <<mesh, phase, stream, call, dec>>
  BY ReuseType, RestartType DEF BoundsInv
<1>2. MeshInv' /\ Progress' /\ MemoryFits'
  BY <1>1 DEF BoundsInv, MeshInv, Progress, MemoryFits, Unit, Room, CtrlSize, CodesSize, Groups12,
              VertexCount, TriangleCount
<1> QED
  BY <1>1, <1>2 DEF BoundsInv

LEMMA BoundsFinish ==
  ASSUME BoundsInv, FinishEncode
  PROVE  BoundsInv'
<1>1. /\ phase = "encode" /\ UNCHANGED <<mesh, encoderVars, call, dec>> /\ Len(codes) = TriangleCount
      /\ stream' \in Seq(0..255) /\ phase' \in {"decode", "refused"}
      /\ phase' = "refused" => call.lacks > 0
  BY FinishIs DEF BoundsInv
<1>2. MeshInv' /\ EncoderType' /\ Progress' /\ MemoryFits' /\ TriangleCount' = TriangleCount
  BY <1>1 DEF BoundsInv, MeshInv, EncoderType, Progress, MemoryFits, Unit, Room, CtrlSize, CodesSize, Groups12,
              VertexCount, TriangleCount, encoderVars
<1>3. dec'.reach \in 0..Len(stream')
  <2>1. dec.reach = 0
    BY <1>1 DEF BoundsInv, NoDecoder
  <2>2. Len(stream') \in Nat
    BY <1>1, LenProperties
  <2> QED
    BY <1>1, <2>1, <2>2
<1> QED
  BY <1>1, <1>2, <1>3 DEF BoundsInv, encoderVars

LEMMA BoundsEncode ==
  ASSUME OptimizerInv, BoundsInv, Encode
  PROVE  BoundsInv'
<1>1. /\ phase = "idle" /\ phase' = "encode" /\ mesh'.vertices = vertices /\ mesh'.triangles = triangles
      /\ UNCHANGED <<encoderVars, stream, call, dec>> /\ work = "optimized"
  BY DEF Encode, StartEncode
<1>2. MeshInv'
  <2>1. Whole /\ FewVertices
    BY <1>1 DEF OptimizerInv
  <2> QED
    BY <1>1, <2>1 DEF MeshInv, Whole, FewVertices, Locals, VertexCount
<1>3. codes' = <<>> /\ extra' = <<>> /\ fifo' \in Seq(Byte \X Byte)
  BY <1>1 DEF BoundsInv, EncoderType, encoderVars
<1>4. Len(codes') = 0 /\ Len(extra') = 0 /\ codes' \in Seq(0..15) /\ extra' \in Seq(Byte)
  BY <1>3
<1>5. TriangleCount' \in Nat
  BY <1>2, LenProperties DEF MeshInv, TriangleCount
<1>6. EncoderType'
  BY <1>3, <1>4, <1>5 DEF EncoderType
<1>7. dec = NoDecoder /\ call \in Calls /\ dec.reach \in 0..Len(stream)
  BY <1>1 DEF BoundsInv
<1>8. (DOMAIN dec = DecFields /\ dec.data \in Nat /\ Progress /\ MemoryFits)'
  <2>1. (MeshInv /\ dec = NoDecoder /\ call \in Calls)'
    BY <1>1, <1>2, <1>7
  <2> QED
    BY <2>1, NothingDecoded, PTL
<1> QED
  BY <1>1, <1>2, <1>6, <1>7, <1>8 DEF BoundsInv

-----------------------------------------------------------------------------
(* Theorem *)

LEMMA BoundsInitially ==
  ASSUME Init
  PROVE  BoundsInv
<1>1. /\ mesh.vertices = <<>> /\ mesh.triangles = <<>> /\ phase = "idle" /\ call \in Calls
      /\ fifo = <<>> /\ codes = <<>> /\ extra = <<>> /\ stream = <<>> /\ dec = NoDecoder
  BY DEF Init, CodecIdle
<1>2. MeshInv
  <2>1. VertexCount = 0 /\ TriangleCount = 0
    BY <1>1 DEF VertexCount, TriangleCount
  <2>2. ByteValues \in Nat
    BY ByteRange
  <2> QED
    BY <1>1, <2>1, <2>2 DEF MeshInv
<1>3. EncoderType
  <2>1. Len(codes) = 0 /\ Len(extra) = 0 /\ TriangleCount = 0
    BY <1>1 DEF TriangleCount
  <2> QED
    BY <1>1, <2>1 DEF EncoderType
<1>4. DOMAIN dec = DecFields /\ dec.data \in Nat /\ dec.reach = 0 /\ Progress /\ MemoryFits
  BY <1>1, <1>2, NothingDecoded
<1>5. dec.reach \in 0..Len(stream)
  <2>1. Len(stream) = 0
    BY <1>1
  <2> QED
    BY <1>4, <2>1
<1> QED
  BY <1>1, <1>2, <1>3, <1>4, <1>5 DEF BoundsInv

LEMMA BoundsSame ==
  ASSUME BoundsInv, UNCHANGED codecVars
  PROVE  BoundsInv'
  BY DEF BoundsInv, codecVars, encoderVars, MeshInv, EncoderType, Progress, MemoryFits, Unit, Room, CtrlSize, CodesSize,
         GapSize, Groups12, VertexCount, TriangleCount

LEMMA BoundsCodec ==
  ASSUME BoundsInv, CodecNext
  PROVE  BoundsInv'
<1>1. CASE EncodeReuse \/ EncodeRestart
  BY <1>1, BoundsReuse
<1>2. CASE FinishEncode
  BY <1>2, BoundsFinish
<1>3. CASE StartDecode
  BY <1>3, BoundsStartDecode
<1>4. CASE DecodeVertices
  BY <1>4, BoundsVertices
<1>5. CASE StartTriangles
  BY <1>5, BoundsStartTriangles
<1>6. CASE DecodeScalar
  BY <1>6, BoundsScalar
<1>7. CASE DecodePair
  BY <1>7, BoundsPair
<1>8. CASE DecodeTwoPairs
  BY <1>8, BoundsTwoPairs
<1>9. CASE DecodeLastPair
  BY <1>9, BoundsLastPair
<1>10. CASE Verdict
  BY <1>10, BoundsVerdict
<1>11. CASE CodecDone
  BY <1>11, BoundsSame DEF CodecDone
<1> QED
  BY <1>1, <1>2, <1>3, <1>4, <1>5, <1>6, <1>7, <1>8, <1>9, <1>10, <1>11 DEF CodecNext

LEMMA OptimizerSame ==
  ASSUME OptimizerInv, UNCHANGED optimizerVars
  PROVE  OptimizerInv'
<1>1. UNCHANGED <<list, level, work, vertices, triangles, at, cache, valence>>
  BY DEF optimizerVars
<1> QED
  BY <1>1 DEF OptimizerInv, FewVertices, Extracting, Whole, Locals, StandFor

LEMMA CodecKept ==
  ASSUME OptimizerInv, BoundsInv, [Next]_vars
  PROVE  OptimizerInv' /\ BoundsInv'
<1>1. CASE OptimizerNext /\ UNCHANGED codecVars
  BY <1>1, OptimizerKept, BoundsSame
<1>2. CASE Encode
  BY <1>2, OptimizerSame, BoundsEncode DEF Encode
<1>3. CASE CodecNext /\ UNCHANGED optimizerVars
  BY <1>3, OptimizerSame, BoundsCodec
<1>4. CASE UNCHANGED vars
  BY <1>4, OptimizerSame, BoundsSame DEF vars
<1> QED
  BY <1>1, <1>2, <1>3, <1>4 DEF Next, Optimize

\* For all lists of triangles and all decoders, and streams cut at either end: nothing is read
\* outside the stream nor written outside the memory that meshoptimizer.h:340-347 demands, and a
\* buffer of the documented worst-case size is never too small (meshletcodec.cpp:927).
THEOREM MeshletInBounds == Spec => []InBounds
<1>1. Init => OptimizerInv /\ BoundsInv
  BY OptimizerInitially, BoundsInitially DEF Init
<1>2. OptimizerInv /\ BoundsInv /\ [Next]_vars => OptimizerInv' /\ BoundsInv'
  BY CodecKept
<1>3. OptimizerInv /\ BoundsInv => InBounds
  BY BoundsConclusion
<1> QED
  BY <1>1, <1>2, <1>3, PTL DEF Spec

-----------------------------------------------------------------------------
(* What the encoder did *)

\* Encoded triangle k, and next and the extra vertices before it.
Triangle(k) == history[k].t
NextAt(k)   == IF k <= Len(history) THEN history[k].next ELSE next
ExtraAt(k)  == IF k <= Len(history) THEN history[k].at ELSE Len(extra)

\* The corners that code c adds: extra vertices from position i of s on, then n, n + 1, ...
Added(c, s, i, n) ==
  [j \in 1..3 |-> IF j <= ExtraCount(c) THEN s[i + j] ELSE n + j - 1 - ExtraCount(c)]

HistoryType == history \in Seq([t : [1..3 -> Byte], next : Nat, at : Nat])

\* Code k, an earlier triangle and the corners it adds make triangle k.
Coded(k) ==
  /\ IsTurned(mesh.triangles[k], Triangle(k))
  /\ codes[k] < 12 => codes[k] \div 4 < k - 1
  /\ Triangle(k) = Assembled(codes[k], Triangle(k - 1 - codes[k] \div 4), Added(codes[k], extra, ExtraAt(k), NextAt(k)))
  /\ NextAt(k + 1) = NextAt(k) + NextCount(codes[k])
  /\ ExtraAt(k + 1) = ExtraAt(k) + ExtraCount(codes[k])
  /\ ExtraAt(k + 1) <= Len(extra)

\* The FIFO holds the edges of the last triangles.
Recalled ==
  /\ Len(fifo) = Smaller(8, 2 * Len(codes))
  /\ \A a \in 0..Len(fifo) - 1 : fifo[a + 1] = Edge(Triangle(Len(codes) - a \div 2), 2 * a)

HistoryInv ==
  /\ HistoryType /\ Len(history) = Len(codes) /\ next \in Nat
  /\ NextAt(1) = 0 /\ ExtraAt(1) = 0
  /\ \A k \in 1..Len(codes) : Coded(k)
  /\ Recalled

\* Assembled depends on the earlier triangle and on the corners that the code needs.
LEMMA AssembledSame ==
  ASSUME NEW c \in 0..15, NEW old, NEW new, NEW f, NEW g,
         c < 12 => old = new, c < 12 => f[1] = g[1], ~ (c < 12) => f = g
  PROVE  Assembled(c, old, f) = Assembled(c, new, g)
<1>1. CASE c < 12
  BY <1>1 DEF Assembled
<1>2. CASE ~ (c < 12)
  BY <1>2 DEF Assembled
<1> QED
  BY <1>1, <1>2

LEMMA CountsType ==
  ASSUME NEW c \in 0..15
  PROVE  /\ ExtraCount(c) \in 0..3 /\ NextCount(c) \in 0..3 /\ c \div 4 \in 0..3
         /\ c < 12 => ExtraCount(c) \in 0..1 /\ c \div 4 \in 0..2
  BY DEF ExtraCount, NextCount, NewCorners

LEMMA TripleIs ==
  ASSUME NEW S, NEW r \in [1..3 -> S]
  PROVE  r = <<r[1], r[2], r[3]>>
<1>1. r = [j \in 1..3 |-> r[j]]
  OBVIOUS
<1>2. <<r[1], r[2], r[3]>> = [j \in 1..3 |-> r[j]]
  <2>1. \A j \in 1..3 : j = 1 \/ j = 2 \/ j = 3
    OBVIOUS
  <2>2. DOMAIN <<r[1], r[2], r[3]>> = 1..3
    OBVIOUS
  <2> QED
    BY <2>1, <2>2
<1> QED
  BY <1>1, <1>2

LEMMA HalfLess ==
  ASSUME NEW q \in Nat, NEW m \in Nat, NEW a \in Int, a - 2 < 2 * m, 2 * q <= a
  PROVE  q < m + 1
  OBVIOUS

\* A code c and a triangle r are appended to m codes and e extra vertices.
Appends(m, c, r, e) ==
  /\ m = Len(codes) /\ codes' = Append(codes, c)
  /\ mesh' = mesh /\ IsTurned(mesh.triangles[m + 1], r)
  /\ history' = Append(history, [t |-> r, next |-> next, at |-> Len(extra)])
  /\ next' = next + NextCount(c)
  /\ e = Len(extra) /\ Len(extra') = e + ExtraCount(c) /\ (\A i \in 1..e : extra'[i] = extra[i])
  /\ c < 12 => c \div 4 < m
  /\ r = Assembled(c, Triangle(m - c \div 4), Added(c, extra', e, next))
  /\ PushedTo(fifo', r)

\* A triangle is added.
LEMMA HistoryStep ==
  ASSUME MeshInv, EncoderType, HistoryInv, NEW m \in Nat, NEW c \in 0..15, NEW r, NEW e \in Nat,
         Appends(m, c, r, e)
  PROVE  HistoryInv'
<1> DEFINE R == [t : [1..3 -> Byte], next : Nat, at : Nat]
           h == [t |-> r, next |-> next, at |-> Len(extra)]
<1>a. m = Len(codes) /\ codes' = Append(codes, c) /\ history' = Append(history, h)
  BY DEF Appends
<1>b. mesh' = mesh /\ IsTurned(mesh.triangles[m + 1], r)
  BY DEF Appends
<1>c. e = Len(extra) /\ Len(extra') = e + ExtraCount(c) /\ next' = next + NextCount(c)
  BY DEF Appends
<1>d. \A i \in 1..e : extra'[i] = extra[i]
  BY DEF Appends
<1>e. c < 12 => c \div 4 < m
  BY DEF Appends
<1>f. r = Assembled(c, Triangle(m - c \div 4), Added(c, extra', e, next))
  BY DEF Appends
<1>g. PushedTo(fifo', r)
  BY DEF Appends
<1>1. h \in R /\ h.t = r /\ h.next = next /\ h.at = e
  BY <1>b, <1>c DEF HistoryInv, IsTurned
<1>2. history \in Seq(R) /\ Len(history) = m
  BY <1>a DEF HistoryInv, HistoryType
<1> HIDE DEF h, R
<1>3. /\ history' \in Seq(R) /\ Len(history') = m + 1
      /\ \A k \in 1..m : history'[k] = history[k]
      /\ history'[m + 1] = h
  BY <1>1, <1>2, <1>a, Enqueue
<1>4. codes \in Seq(0..15)
  BY DEF EncoderType
<1>5. codes' \in Seq(0..15) /\ Len(codes') = m + 1 /\ codes'[m + 1] = c /\ \A k \in 1..m : codes'[k] = codes[k]
  BY <1>4, <1>a, Enqueue
<1>6. PICK x \in 0..3, y \in 0..3 : x = ExtraCount(c) /\ y = NextCount(c) /\ c \div 4 \in 0..3
  BY CountsType
<1>7. /\ \A k \in 1..m : Triangle(k)' = Triangle(k) /\ NextAt(k)' = NextAt(k) /\ ExtraAt(k)' = ExtraAt(k)
      /\ Triangle(m + 1)' = r /\ NextAt(m + 1)' = next /\ ExtraAt(m + 1)' = e
      /\ NextAt(m + 2)' = next' /\ ExtraAt(m + 2)' = e + x
      /\ NextAt(m + 1) = next /\ ExtraAt(m + 1) = e
  <2>1. \A k \in 1..m : k <= m /\ k <= m + 1
    OBVIOUS
  <2>2. ~ (m + 2 <= m + 1) /\ m + 1 <= m + 1 /\ ~ (m + 1 <= m)
    OBVIOUS
  <2>3. \A k \in 1..m : Triangle(k)' = Triangle(k) /\ NextAt(k)' = NextAt(k) /\ ExtraAt(k)' = ExtraAt(k)
    BY <1>2, <1>3, <2>1 DEF Triangle, NextAt, ExtraAt
  <2>4. Triangle(m + 1)' = r /\ NextAt(m + 1)' = next /\ ExtraAt(m + 1)' = e
    BY <1>1, <1>3, <2>2 DEF Triangle, NextAt, ExtraAt
  <2>5. NextAt(m + 2)' = next' /\ ExtraAt(m + 2)' = e + x /\ NextAt(m + 1) = next /\ ExtraAt(m + 1) = e
    BY <1>2, <1>3, <1>6, <1>c, <2>2 DEF NextAt, ExtraAt
  <2> QED
    BY <2>3, <2>4, <2>5
<1>8. \A k \in 1..m + 1 : NextAt(k)' = NextAt(k) /\ ExtraAt(k)' = ExtraAt(k)
  <2>1. \A k \in 1..m + 1 : k \in 1..m \/ k = m + 1
    OBVIOUS
  <2> QED
    BY <1>7, <2>1
<1>9. ASSUME NEW k \in 1..m PROVE Coded(k)'
  <2>1. Coded(k) /\ codes[k] \in 0..15 /\ codes'[k] = codes[k] /\ history[k] \in R
    BY <1>2, <1>4, <1>5, <1>a, ElementOfSeq DEF HistoryInv
  <2>2. PICK b \in 0..15 : b = codes[k] /\ b = codes'[k]
    BY <2>1
  <2>3. PICK i \in Nat, n \in Nat : i = ExtraAt(k) /\ n = NextAt(k)
    <3>1. history[k].at \in Nat /\ history[k].next \in Nat
      BY <2>1 DEF R
    <3>2. k <= Len(history)
      BY <1>2
    <3> QED
      BY <3>1, <3>2 DEF ExtraAt, NextAt
  <2>4. i + ExtraCount(b) \in Nat /\ i + ExtraCount(b) <= e /\ b \div 4 \in 0..3
    <3>1. ExtraAt(k + 1) = i + ExtraCount(b) /\ ExtraAt(k + 1) <= e
      BY <1>c, <2>1, <2>2, <2>3 DEF Coded
    <3>2. PICK z \in 0..3 : z = ExtraCount(b) /\ b \div 4 \in 0..3
      BY <2>2, CountsType
    <3>3. i + z <= e
      BY <3>1, <3>2
    <3>4. i + z \in Nat
      BY <2>3, <3>2
    <3> QED
      BY <3>2, <3>3, <3>4
  <2>5. \A j \in 1..i + ExtraCount(b) : extra'[j] = extra[j]
    <3>1. PICK z \in Nat : z = i + ExtraCount(b) /\ z <= e
      BY <2>4
    <3> QED
      BY <1>d, <3>1
  <2>6. Added(b, extra', i, n) = Added(b, extra, i, n)
    <3>1. PICK z \in 0..3 : z = ExtraCount(b)
      BY <2>2, CountsType
    <3>2. \A j \in 1..3 : j <= z => i + j \in 1..i + z
      OBVIOUS
    <3>3. \A j \in 1..3 : j <= z => extra'[i + j] = extra[i + j]
      BY <2>5, <3>1, <3>2
    <3> QED
      BY <3>1, <3>3 DEF Added
  <2>7. b < 12 => k - 1 - b \div 4 \in 1..m
    <3>1. b < 12 => b \div 4 < k - 1
      BY <2>1, <2>2 DEF Coded
    <3>2. PICK q \in 0..3 : q = b \div 4
      BY <2>4
    <3> QED
      BY <3>1, <3>2
  <2>8. Assembled(b, Triangle(k - 1 - b \div 4)', Added(b, extra', i, n))
        = Assembled(b, Triangle(k - 1 - b \div 4), Added(b, extra, i, n))
    <3>1. b < 12 => Triangle(k - 1 - b \div 4)' = Triangle(k - 1 - b \div 4)
      BY <1>7, <2>7
    <3>2. CASE b < 12
      BY <2>6, <3>1, <3>2
    <3>3. CASE ~ (b < 12)
      BY <2>6, <3>3 DEF Assembled
    <3> QED
      BY <3>2, <3>3
  <2>9. Triangle(k)' = Triangle(k) /\ ExtraAt(k)' = i /\ NextAt(k)' = n
    BY <1>7, <2>3
  <2>10. ExtraAt(k + 1)' = ExtraAt(k + 1) /\ NextAt(k + 1)' = NextAt(k + 1)
    BY <1>8
  <2>11. ExtraAt(k + 1) <= e /\ ExtraAt(k + 1) = i + ExtraCount(b)
    BY <1>c, <2>1, <2>2, <2>3 DEF Coded
  <2>12. Len(extra') = e + x /\ i + ExtraCount(b) <= e + x
    BY <1>6, <1>c, <2>4
  <2>13. Triangle(k)' = Assembled(b, Triangle(k - 1 - b \div 4)', Added(b, extra', i, n))
    BY <2>1, <2>2, <2>3, <2>8, <2>9 DEF Coded
  <2>14. IsTurned(mesh.triangles[k], Triangle(k)) /\ (b < 12 => b \div 4 < k - 1)
         /\ NextAt(k + 1) = n + NextCount(b)
    BY <2>1, <2>2, <2>3 DEF Coded
  <2>15. (IsTurned(mesh.triangles[k], Triangle(k)))'
    BY <1>b, <2>9, <2>14 DEF IsTurned
  <2> QED
    BY <2>2, <2>9, <2>10, <2>11, <2>12, <2>13, <2>14, <2>15 DEF Coded
<1>10. Coded(m + 1)'
  <2>1. m + 1 - 1 - c \div 4 = m - c \div 4 /\ (m + 1) + 1 = m + 2 /\ m + 1 - 1 = m
    BY <1>6
  <2>2. c < 12 => Triangle(m - c \div 4)' = Triangle(m - c \div 4)
    <3>1. c < 12 => m - c \div 4 \in 1..m
      BY <1>6, <1>e
    <3> QED
      BY <1>7, <3>1
  <2>3. r = Assembled(c, Triangle(m - c \div 4)', Added(c, extra', e, next))
    BY <1>f, <2>2, AssembledSame
  <2>4. (IsTurned(mesh.triangles[m + 1], Triangle(m + 1)))'
    BY <1>7, <1>b DEF IsTurned
  <2>5. e + x <= Len(extra')
    BY <1>6, <1>c
  <2>6. PICK k \in Nat : k = m + 1 /\ k + 1 = m + 2 /\ k - 1 - c \div 4 = m - c \div 4 /\ k - 1 = m
    BY <2>1
  <2>7. /\ codes'[k] = c /\ Triangle(k)' = r /\ NextAt(k)' = next /\ ExtraAt(k)' = e
        /\ NextAt(k + 1)' = next + NextCount(c) /\ ExtraAt(k + 1)' = e + ExtraCount(c)
        /\ ExtraAt(k + 1)' <= Len(extra')
    BY <1>5, <1>6, <1>7, <1>c, <2>5, <2>6
  <2>8. c < 12 => c \div 4 < k - 1
    BY <1>e, <2>6
  <2>9. r = Assembled(c, Triangle(k - 1 - c \div 4)', Added(c, extra', e, next))
    BY <2>3, <2>6
  <2>10. (IsTurned(mesh.triangles[k], Triangle(k)))'
    BY <2>4, <2>6
  <2>11. Coded(k)'
    BY <2>7, <2>8, <2>9, <2>10 DEF Coded
  <2> QED
    BY <2>6, <2>11
<1>11. \A k \in 1..m + 1 : Coded(k)'
  <2>1. \A k \in 1..m + 1 : k \in 1..m \/ k = m + 1
    OBVIOUS
  <2> QED
    BY <1>9, <1>10, <2>1
<1>12. NextAt(1)' = 0 /\ ExtraAt(1)' = 0
  BY <1>8 DEF HistoryInv
<1>13. Recalled'
  <2>1. PICK l \in Nat : l = Len(fifo) /\ l = Smaller(8, 2 * m)
    <3>1. Smaller(8, 2 * m) \in Nat
      BY DEF Smaller
    <3> QED
      BY <1>a, <3>1 DEF HistoryInv, Recalled
  <2>2. PICK k \in Nat : k = Smaller(8, l + 2) /\ k = Len(fifo') /\ k = Smaller(8, 2 * (m + 1)) /\ k <= l + 2
    <3>1. Smaller(8, l + 2) = Smaller(8, 2 * (m + 1)) /\ Smaller(8, l + 2) \in Nat /\ Smaller(8, l + 2) <= l + 2
      BY <2>1 DEF Smaller
    <3> QED
      BY <1>g, <2>1, <3>1 DEF PushedTo
  <2>3. ASSUME NEW a \in 0..k - 1 PROVE fifo'[a + 1] = Edge(Triangle((m + 1) - a \div 2)', 2 * a)
    <3>1. CASE a = 0
      <4>1. fifo'[a + 1] = <<r[1], r[3]>>
        BY <1>g, <2>2, <3>1 DEF PushedTo
      <4>2. (m + 1) - a \div 2 = m + 1
        BY <3>1
      <4>3. Edge(r, 2 * a) = <<r[1], r[3]>>
        BY <3>1 DEF Edge
      <4> QED
        BY <1>7, <4>1, <4>2, <4>3
    <3>2. CASE a = 1
      <4>1. fifo'[a + 1] = <<r[3], r[2]>>
        BY <1>g, <2>2, <3>2 DEF PushedTo
      <4>2. (m + 1) - a \div 2 = m + 1
        BY <3>2
      <4>3. Edge(r, 2 * a) = <<r[3], r[2]>>
        BY <3>2 DEF Edge
      <4> QED
        BY <1>7, <4>1, <4>2, <4>3
    <3>3. CASE a >= 2
      <4>1. a + 1 \in 3..k /\ (a + 1) - 2 = (a - 2) + 1 /\ a - 2 \in 0..l - 1
        BY <2>2, <3>3
      <4>2. fifo'[a + 1] = fifo[(a - 2) + 1]
        <5>1. fifo'[a + 1] = fifo[(a + 1) - 2]
          BY <1>g, <2>2, <4>1 DEF PushedTo
        <5> QED
          BY <4>1, <5>1
      <4>3. fifo[(a - 2) + 1] = Edge(Triangle(m - (a - 2) \div 2), 2 * (a - 2))
        BY <1>a, <2>1, <4>1 DEF HistoryInv, Recalled
      <4>4. m - (a - 2) \div 2 = (m + 1) - a \div 2 /\ (m + 1) - a \div 2 \in 1..m
        <5>1. l <= 2 * m
          BY <2>1 DEF Smaller
        <5>2. a - 2 < 2 * m
          BY <2>1, <4>1, <5>1
        <5>3. PICK q \in Nat : q = a \div 2 /\ (a - 2) \div 2 = q - 1 /\ 2 * q <= a /\ 1 <= q
          BY <3>3
        <5>4. a \in Int
          OBVIOUS
        <5>5. q < m + 1
          BY <5>2, <5>3, <5>4, HalfLess
        <5>6. m - (q - 1) = (m + 1) - q /\ (m + 1) - q \in 1..m
          BY <5>3, <5>5
        <5> QED
          BY <5>3, <5>6
      <4>5. \A t : Edge(t, 2 * (a - 2)) = Edge(t, 2 * a)
        <5>1. (2 * (a - 2)) \div 2 = a - 2 /\ (2 * a) \div 2 = a /\ (a - 2) % 2 = a % 2
          BY <3>3
        <5> QED
          BY <5>1 DEF Edge
      <4>6. Triangle((m + 1) - a \div 2)' = Triangle((m + 1) - a \div 2)
        BY <1>7, <4>4
      <4> QED
        BY <4>2, <4>3, <4>4, <4>5, <4>6
    <3> QED
      BY <3>1, <3>2, <3>3
  <2> QED
    BY <1>5, <2>2, <2>3 DEF Recalled
<1>14. next' \in Nat
  <2>1. next \in Nat
    BY DEF HistoryInv
  <2> QED
    BY <1>6, <1>c, <2>1
<1> QED
  BY <1>3, <1>5, <1>11, <1>12, <1>13, <1>14 DEF HistoryInv, HistoryType, R

\* A triangle shares an edge with an earlier one.
LEMMA ReuseCode ==
  ASSUME MeshInv, EncoderType, HistoryInv, EncodeReuse
  PROVE  HistoryInv'
<1>1. PICK m \in Nat : m = Len(codes) /\ m < TriangleCount
  BY LenProperties DEF EncoderType, EncodeReuse
<1>2. PICK t \in [1..3 -> Byte] : t = mesh.triangles[m + 1]
  <2>1. m + 1 \in 1..TriangleCount
    BY <1>1, MeshCounts
  <2> QED
    BY <2>1, MeshTriangle
<1> DEFINE age == EdgeAge(t)
           r == Rotated(t, EdgeCorner(t, age))
           fec == IF r[3] = next THEN 0 ELSE 1
<1>3. Reuse(t, age, r) /\ fifo \in Seq(Byte \X Byte)
  BY <1>1, <1>2, ReuseIs DEF EncoderType, EncodeReuse
<1>4. /\ codes' = Append(codes, age * 2 + fec)
      /\ extra' = IF fec = 1 THEN Append(extra, r[3]) ELSE extra
      /\ next' = next + 1 - fec
      /\ fifo' = Pushed(r)
      /\ history' = Append(history, [t |-> r, next |-> next, at |-> Len(extra)])
      /\ mesh' = mesh
  BY <1>1, <1>2 DEF EncodeReuse, Noted
<1>5. /\ age \in 0..5 /\ age < Len(fifo) /\ r \in [1..3 -> Byte] /\ fec \in 0..1 /\ IsTurned(t, r)
      /\ fec = 0 => r[3] = next
      /\ fifo[age + 1] = <<r[1], r[2]>>
  BY <1>3 DEF Reuse, IsTurned
<1> HIDE DEF age, r, fec
<1>6. PICK c \in 0..15 : /\ c = age * 2 + fec /\ c < 12 /\ c % 2 = fec /\ c \div 4 = age \div 2
                         /\ (c \div 2) % 2 = ((2 * age) \div 2) % 2
  BY <1>5
<1>7. ExtraCount(c) = fec /\ NextCount(c) = 1 - fec
  BY <1>6 DEF ExtraCount, NextCount, NewCorners
<1>8. PICK e \in Nat : e = Len(extra) /\ Len(extra') = e + fec /\ (\A i \in 1..e : extra'[i] = extra[i])
                       /\ (fec = 1 => extra'[e + 1] = r[3])
  <2>1. r[3] \in Byte
    BY <1>5
  <2>2. PICK e \in Nat : /\ e = Len(extra) /\ Len(Append(extra, r[3])) = e + 1
                         /\ Append(extra, r[3])[e + 1] = r[3]
                         /\ \A i \in 1..e : Append(extra, r[3])[i] = extra[i]
    BY <2>1, Enqueue DEF EncoderType
  <2>3. CASE fec = 1
    BY <1>4, <2>2, <2>3
  <2>4. CASE fec = 0
    <3>1. extra' = extra
      BY <1>4, <2>4
    <3>2. e + fec = e /\ ~ (fec = 1)
      BY <2>2, <2>4
    <3>3. e \in Nat /\ e = Len(extra)
      BY <2>2
    <3> QED
      BY <3>1, <3>2, <3>3
  <2> QED
    BY <1>5, <2>3, <2>4
<1>9. next' = next + NextCount(c)
  <2>1. next \in Nat
    BY DEF HistoryInv
  <2> QED
    BY <1>4, <1>5, <1>7, <2>1
<1>10. c \div 4 < m
  <2>1. PICK l \in Nat : l = Len(fifo) /\ l <= 2 * m
    <3>1. Len(fifo) = Smaller(8, 2 * m)
      BY <1>1 DEF HistoryInv, Recalled
    <3>2. Smaller(8, 2 * m) \in Nat /\ Smaller(8, 2 * m) <= 2 * m
      BY DEF Smaller
    <3> QED
      BY <3>1, <3>2
  <2>2. age < l
    BY <1>5, <2>1
  <2>3. age \div 2 < m
    BY <1>5, <2>1, <2>2
  <2> QED
    BY <1>6, <2>3
<1>11. r = Assembled(c, Triangle(m - c \div 4), Added(c, extra', e, next))
  <2>1. age \in 0..Len(fifo) - 1
    <3>1. Len(fifo) \in Nat
      BY <1>3, LenProperties
    <3> QED
      BY <1>5, <3>1
  <2>2. fifo[age + 1] = Edge(Triangle(m - age \div 2), 2 * age)
    BY <1>1, <2>1 DEF HistoryInv, Recalled
  <2>3. Edge(Triangle(m - age \div 2), 2 * age) = Edge(Triangle(m - c \div 4), c)
    BY <1>6 DEF Edge
  <2>4. Edge(Triangle(m - c \div 4), c) = <<r[1], r[2]>>
    BY <1>5, <2>2, <2>3
  <2>5. Added(c, extra', e, next)[1] = r[3]
    <3>1. next + 1 - 1 - 0 = next
      BY DEF HistoryInv
    <3>2. CASE fec = 0
      BY <1>5, <1>7, <3>1, <3>2 DEF Added
    <3>3. CASE fec = 1
      BY <1>7, <1>8, <3>3 DEF Added
    <3> QED
      BY <1>5, <3>2, <3>3
  <2>6. Assembled(c, Triangle(m - c \div 4), Added(c, extra', e, next)) = <<r[1], r[2], r[3]>>
    <3>1. <<r[1], r[2]>>[1] = r[1] /\ <<r[1], r[2]>>[2] = r[2]
      OBVIOUS
    <3>2. PICK old, f : old = Triangle(m - c \div 4) /\ f = Added(c, extra', e, next)
      OBVIOUS
    <3>3. Edge(old, c)[1] = r[1] /\ Edge(old, c)[2] = r[2] /\ f[1] = r[3]
      BY <2>4, <2>5, <3>1, <3>2
    <3>4. Assembled(c, old, f) = <<r[1], r[2], r[3]>>
      BY <1>6, <3>3 DEF Assembled
    <3> QED
      BY <3>2, <3>4
  <2>7. r = <<r[1], r[2], r[3]>>
    BY <1>5, TripleIs
  <2> QED
    BY <2>6, <2>7
<1>12. PushedTo(fifo', r)
  BY <1>3, <1>4, <1>5, PushedIs
<1>13. codes' = Append(codes, c) /\ IsTurned(mesh.triangles[m + 1], r) /\ Len(extra') = e + ExtraCount(c)
  BY <1>2, <1>4, <1>5, <1>6, <1>7, <1>8
<1>14. Appends(m, c, r, e)
  BY <1>1, <1>4, <1>8, <1>9, <1>10, <1>11, <1>12, <1>13 DEF Appends
<1> QED
  BY <1>14, HistoryStep

\* A triangle shares no edge with the ones before.
LEMMA RestartCode ==
  ASSUME MeshInv, EncoderType, HistoryInv, EncodeRestart
  PROVE  HistoryInv'
<1>1. PICK m \in Nat : m = Len(codes) /\ m < TriangleCount
  BY LenProperties DEF EncoderType, EncodeRestart
<1>2. PICK t \in [1..3 -> Byte] : t = mesh.triangles[m + 1]
  <2>1. m + 1 \in 1..TriangleCount
    BY <1>1, MeshCounts
  <2> QED
    BY <2>1, MeshTriangle
<1> DEFINE r == Rotated(t, RestartTurn(t))
           fresh == FreshCorners(r)
           s == SubSeq(r, 1, 3 - fresh)
<1>3. Restart(t, r, fresh) /\ fifo \in Seq(Byte \X Byte)
  BY RestartIs DEF EncoderType
<1>4. /\ codes' = Append(codes, 12 + 3 - fresh)
      /\ extra' = extra \o s
      /\ next' = next + fresh
      /\ fifo' = Pushed(r)
      /\ history' = Append(history, [t |-> r, next |-> next, at |-> Len(extra)])
      /\ mesh' = mesh
  BY <1>1, <1>2 DEF EncodeRestart, Noted
<1>5. /\ fresh \in 0..3 /\ r \in [1..3 -> Byte] /\ IsTurned(t, r)
      /\ \A j \in 1..fresh : r[3 - fresh + j] = next + j - 1
      /\ s \in Seq(Byte) /\ Len(s) = 3 - fresh
      /\ \A j \in 1..3 - fresh : s[j] = r[j]
  BY <1>3 DEF Restart, IsTurned
<1> HIDE DEF r, fresh, s
<1>6. PICK c \in 0..15, x \in 0..3 : c = 12 + 3 - fresh /\ ~ (c < 12) /\ x = 3 - fresh /\ x = c - 12 /\ fresh = 3 - x
  BY <1>5
<1>7. ExtraCount(c) = x /\ NextCount(c) = fresh
  BY <1>6 DEF ExtraCount, NextCount, NewCorners
<1>8. PICK e \in Nat : e = Len(extra) /\ Len(extra') = e + x /\ (\A i \in 1..e : extra'[i] = extra[i])
                       /\ (\A j \in 1..x : extra'[e + j] = r[j])
  <2>1. PICK e \in Nat : e = Len(extra)
    BY LenProperties DEF EncoderType
  <2>2. /\ Len(extra') = e + x
        /\ \A i \in 1..e + x : extra'[i] = IF i <= e THEN extra[i] ELSE s[i - e]
    <3>1. s \in Seq(Byte) /\ Len(s) = x
      BY <1>5, <1>6
    <3>2. extra \in Seq(Byte)
      BY DEF EncoderType
    <3>3. /\ Len(extra \o s) = e + x
          /\ \A i \in 1..e + x : (extra \o s)[i] = IF i <= e THEN extra[i] ELSE s[i - e]
      BY <2>1, <3>1, <3>2, ConcatProperties
    <3> QED
      BY <1>4, <3>3
  <2>3. \A i \in 1..e : i \in 1..e + x /\ i <= e
    OBVIOUS
  <2>4. \A j \in 1..x : e + j \in 1..e + x /\ ~ (e + j <= e) /\ (e + j) - e = j
    OBVIOUS
  <2>5. \A j \in 1..x : s[j] = r[j]
    BY <1>5, <1>6
  <2> QED
    BY <2>1, <2>2, <2>3, <2>4, <2>5
<1>9. r = Assembled(c, Triangle(m - c \div 4), Added(c, extra', e, next))
  <2>1. PICK n \in Nat : n = next
    BY DEF HistoryInv
  <2>2. ASSUME NEW j \in 1..3 PROVE r[j] = IF j <= x THEN extra'[e + j] ELSE n + j - 1 - x
    <3>1. CASE j <= x
      BY <1>8, <3>1
    <3>2. CASE ~ (j <= x)
      <4>1. PICK i \in 1..fresh : i = j - x /\ 3 - fresh + i = j /\ n + i - 1 = n + j - 1 - x
        BY <1>5, <1>6, <3>2
      <4>2. r[3 - fresh + i] = n + i - 1
        BY <1>5, <2>1
      <4> QED
        BY <3>2, <4>1, <4>2
    <3> QED
      BY <3>1, <3>2
  <2>3. Added(c, extra', e, next) = [j \in 1..3 |-> r[j]]
    BY <1>7, <2>1, <2>2 DEF Added
  <2>4. r = [j \in 1..3 |-> r[j]]
    BY <1>5
  <2> QED
    BY <1>6, <2>3, <2>4 DEF Assembled
<1>10. PushedTo(fifo', r)
  BY <1>3, <1>4, <1>5, PushedIs
<1>11. /\ codes' = Append(codes, c) /\ IsTurned(mesh.triangles[m + 1], r) /\ Len(extra') = e + ExtraCount(c)
       /\ next' = next + NextCount(c)
  BY <1>2, <1>4, <1>5, <1>6, <1>7, <1>8
<1>12. c < 12 => c \div 4 < m
  BY <1>6
<1>13. c \in 0..15 /\ m \in Nat /\ e \in Nat /\ m = Len(codes) /\ e = Len(extra) /\ mesh' = mesh
       /\ history' = Append(history, [t |-> r, next |-> next, at |-> Len(extra)])
       /\ \A i \in 1..e : extra'[i] = extra[i]
  BY <1>1, <1>4, <1>6, <1>8
<1>14. Appends(m, c, r, e)
  BY <1>9, <1>10, <1>11, <1>12, <1>13 DEF Appends
<1> QED
  BY <1>14, HistoryStep

LEMMA HistoryStart ==
  ASSUME codes = <<>>, history = <<>>, fifo = <<>>, extra = <<>>, next = 0
  PROVE  HistoryInv
<1>1. Len(history) = 0 /\ Len(codes) = 0 /\ Len(fifo) = 0 /\ Len(extra) = 0 /\ Smaller(8, 2 * 0) = 0
  BY DEF Smaller
<1>2. HistoryType
  BY DEF HistoryType
<1>3. NextAt(1) = 0 /\ ExtraAt(1) = 0
  BY <1>1 DEF NextAt, ExtraAt
<1>4. \A k \in 1..0 : FALSE
  OBVIOUS
<1>5. \A a \in 0..0 - 1 : FALSE
  OBVIOUS
<1> QED
  BY <1>1, <1>2, <1>3, <1>4, <1>5 DEF HistoryInv, Recalled

LEMMA HistorySame ==
  ASSUME HistoryInv, UNCHANGED <<encoderVars, mesh>>
  PROVE  HistoryInv'
<1>1. UNCHANGED <<fifo, next, codes, extra, history, mesh>>
  BY DEF encoderVars
<1>2. \A k : Triangle(k)' = Triangle(k) /\ NextAt(k)' = NextAt(k) /\ ExtraAt(k)' = ExtraAt(k)
  BY <1>1 DEF Triangle, NextAt, ExtraAt
<1>3. \A k : Coded(k)' <=> Coded(k)
  BY <1>1, <1>2 DEF Coded, IsTurned
<1> QED
  BY <1>1, <1>2, <1>3 DEF HistoryInv, HistoryType, Recalled

-----------------------------------------------------------------------------
(* What the decoder reads *)

\* The encoder is done and its stream is whole.
StreamWhole == MeshInv /\ EncoderType /\ Len(codes) = TriangleCount /\ stream = Encoded

LEMMA SmallMod == ASSUME NEW b \in Nat \ {0}, NEW v \in Nat, v < b PROVE v % b = v
  OBVIOUS

\* Byte i of the stream, from the reader's point of view.
LEMMA ByteAtIs ==
  ASSUME stream \in Seq(0..255), NEW i \in Nat, i < Len(stream), stream[i + 1] \in Byte
  PROVE  ByteAt(i) = stream[i + 1]
<1>1. PICK b \in Nat \ {0} : b = ByteValues
  BY ByteRange
<1>2. PICK v \in Nat : v = stream[i + 1] /\ v < b
  BY <1>1 DEF Byte
<1>3. v % b = v
  BY <1>2, SmallMod
<1> QED
  BY <1>1, <1>2, <1>3 DEF ByteAt

\* The parts of the encoder's stream are where the decoder looks for them.
LEMMA ReadParts ==
  ASSUME StreamWhole, NEW d, d = Len(DataUpTo[CtrlSize])
  PROVE  /\ d \in Nat /\ Len(extra) \in Nat /\ Len(stream) \in Nat
         /\ Len(stream) >= CodesSize + CtrlSize + GapSize
         /\ DataEnd = d + Len(extra)
         /\ \A g \in 1..CtrlSize : CtrlByte(g) = GroupCtrl(g)
         /\ \A i \in 1..CodesSize : stream[CodesAt + i] = PackedCodes[i]
         /\ \A i \in 1..d : ByteAt(i - 1) = DataUpTo[CtrlSize][i]
         /\ \A i \in 1..Len(extra) : ByteAt(d + i - 1) = extra[i]
<1>1. Layout(stream)
  BY EncodedIs DEF StreamWhole
<1>2. PICK c \in Nat, g \in Nat, p \in Nat, x \in Nat :
        c = CodesSize /\ g = CtrlSize /\ p = GapSize /\ x = Len(extra)
  BY PartSizes, LenProperties DEF StreamWhole, EncoderType
<1>3. d \in Nat /\ DataUpTo[CtrlSize] \in Seq(Byte)
  <2>1. g \in 0..g
    BY <1>2
  <2>2. DataUpTo[CtrlSize] \in Seq(Byte)
    BY <1>2, <2>1, DataSize DEF StreamWhole
  <2> QED
    BY <2>2, LenProperties
<1>4. /\ stream \in Seq(0..255)
      /\ Len(stream) = d + x + p + g + c
      /\ \A i \in 1..d : stream[i] = DataUpTo[CtrlSize][i]
      /\ \A i \in 1..x : stream[d + i] = extra[i]
      /\ \A i \in 1..g : stream[d + x + p + i] = GroupCtrl(i)
      /\ \A i \in 1..c : stream[d + x + p + g + i] = PackedCodes[i]
  BY <1>1, <1>2 DEF Layout
<1>5. CodesAt = d + x + p + g /\ CtrlAt = d + x + p /\ DataEnd = d + x
  <2>1. PICK n \in Nat : n = Len(stream) /\ n = d + x + p + g + c
    BY <1>2, <1>3, <1>4
  <2>2. n - c = d + x + p + g /\ n - c - g = d + x + p /\ n - c - g - p = d + x
    BY <1>2, <1>3, <2>1
  <2> QED
    BY <1>2, <2>1, <2>2 DEF CodesAt, CtrlAt, DataEnd
<1>6. \A i \in 1..g : CtrlByte(i) = GroupCtrl(i)
  BY <1>4, <1>5 DEF CtrlByte
<1>7. ASSUME NEW i \in 1..d PROVE ByteAt(i - 1) = DataUpTo[CtrlSize][i]
  <2>1. stream[i] \in Byte /\ stream[i] = DataUpTo[CtrlSize][i]
    BY <1>3, <1>4, ElementOfSeq
  <2>2. PICK k \in Nat : k = i - 1 /\ k + 1 = i /\ k < Len(stream)
    BY <1>2, <1>3, <1>4
  <2>3. ByteAt(k) = stream[k + 1]
    BY <1>4, <2>1, <2>2, ByteAtIs
  <2> QED
    BY <2>1, <2>2, <2>3
<1>8. ASSUME NEW i \in 1..x PROVE ByteAt(d + i - 1) = extra[i]
  <2>1. stream[d + i] \in Byte /\ stream[d + i] = extra[i]
    BY <1>2, <1>4, ElementOfSeq DEF StreamWhole, EncoderType
  <2>2. PICK k \in Nat : k = d + i - 1 /\ k + 1 = d + i /\ k < Len(stream)
    <3>1. PICK f \in Nat : f = d
      BY <1>3
    <3>2. i \in Int /\ 1 <= i /\ i <= x
      OBVIOUS
    <3>3. f + i - 1 \in Nat /\ (f + i - 1) + 1 = f + i /\ f + i - 1 < f + x + p + g + c
      BY <3>2
    <3> QED
      BY <1>4, <3>1, <3>3
  <2>3. ByteAt(k) = stream[k + 1]
    BY <1>4, <2>1, <2>2, ByteAtIs
  <2> QED
    BY <2>1, <2>2, <2>3
<1>9. Len(stream) \in Nat /\ Len(stream) >= c + g + p
  BY <1>2, <1>3, <1>4
<1> QED
  BY <1>2, <1>3, <1>4, <1>5, <1>6, <1>7, <1>8, <1>9

\* Code k, and no edge and no extra byte for a missing last triangle.
LEMMA NibbleIs ==
  ASSUME StreamWhole, NEW k \in 1..2 * CodesSize
  PROVE  Nibble(k) = IF k <= TriangleCount THEN codes[k] ELSE 0
<1>1. PICK t \in Nat, c \in Nat : t = TriangleCount /\ c = CodesSize /\ c = (t + 2 - 1) \div 2
  BY MeshCounts DEF StreamWhole, CodesSize, Up
<1>2. PICK n \in 1..c : n = (k - 1) \div 2 + 1 /\ (k = 2 * n - 1 \/ k = 2 * n)
  BY <1>1
<1>3. 2 * n - 1 \in 1..t /\ (2 * n <= t => 2 * n \in 1..t)
  BY <1>1
<1>4. \A i \in 1..t : codes[i] \in 0..15
  BY <1>1, ElementOfSeq DEF StreamWhole, EncoderType
<1>5. PICK a \in 0..15, b \in 0..15 : a = codes[2 * n - 1] /\ b = IF 2 * n <= t THEN codes[2 * n] ELSE 0
  <2>1. (IF 2 * n <= t THEN codes[2 * n] ELSE 0) \in 0..15
    BY <1>3, <1>4
  <2> QED
    BY <1>3, <1>4, <2>1
<1>6. PackedCodes[n] = a + 16 * b
  BY <1>1, <1>5 DEF PackedCodes
<1>7. stream[CodesAt + (k - 1) \div 2 + 1] = a + 16 * b
  <2>1. stream[CodesAt + n] = a + 16 * b
    BY <1>1, <1>6, ReadParts
  <2>2. CodesAt + (k - 1) \div 2 + 1 = CodesAt + n
    <3>1. CodesAt \in Int
      BY <1>1, ReadParts DEF CodesAt
    <3>2. PICK q \in Int, o \in Int : q = (k - 1) \div 2 /\ o = CodesAt /\ n = q + 1
      BY <1>2, <3>1
    <3>3. o + q + 1 = o + (q + 1)
      BY <3>2
    <3> QED
      BY <3>2, <3>3
  <2> QED
    BY <2>1, <2>2
<1>8. (a + 16 * b) % 16 = a /\ (a + 16 * b) \div 16 = b
  <2>1. a \in Int /\ b \in Int /\ 0 <= a /\ a <= 15 /\ 0 <= b /\ b <= 15
    OBVIOUS
  <2> QED
    BY <2>1
<1>9. CASE k = 2 * n - 1
  <2>1. k % 2 = 1 /\ k <= t
    BY <1>3, <1>9
  <2> QED
    BY <1>1, <1>5, <1>7, <1>8, <1>9, <2>1 DEF Nibble
<1>10. CASE k = 2 * n
  <2>1. ~ (k % 2 = 1)
    BY <1>10
  <2> QED
    BY <1>1, <1>5, <1>7, <1>8, <1>10, <2>1 DEF Nibble
<1> QED
  BY <1>2, <1>9, <1>10

\* The bytes of a group follow those of the groups before and stay where they are.
LEMMA GroupPlace ==
  ASSUME MeshInv
  PROVE  /\ \A g \in 1..CtrlSize : Len(DataUpTo[g]) = Len(DataUpTo[g - 1]) + Len(GroupData(g))
         /\ \A n \in 0..CtrlSize : \A g \in 0..n :
              /\ Len(DataUpTo[g]) <= Len(DataUpTo[n])
              /\ \A i \in 1..Len(DataUpTo[g]) : DataUpTo[n][i] = DataUpTo[g][i]
<1>1. PICK N \in Nat : N = CtrlSize
  BY DataSteps
<1>2. \A g \in 0..N : DataUpTo[g] \in Seq(Byte) /\ Len(DataUpTo[g]) \in Nat
  BY <1>1, DataSize, LenProperties
<1>3. ASSUME NEW g \in 1..N
      PROVE  /\ Len(DataUpTo[g]) = Len(DataUpTo[g - 1]) + Len(GroupData(g))
             /\ Len(DataUpTo[g - 1]) <= Len(DataUpTo[g])
             /\ \A i \in 1..Len(DataUpTo[g - 1]) : DataUpTo[g][i] = DataUpTo[g - 1][i]
  <2>1. g - 1 \in 0..N /\ g \in Nat \ {0}
    OBVIOUS
  <2>2. PICK s \in Seq(Byte), d \in Seq(Byte) : /\ s = DataUpTo[g - 1] /\ d = GroupData(g) /\ Len(s) \in Nat
                                                /\ Len(d) \in 0..16
    BY <1>2, <2>1, GroupDataIs
  <2>3. DataUpTo[g] = s \o d
    BY <1>1, <2>2, DataSteps
  <2>4. Len(s \o d) = Len(s) + Len(d) /\ \A i \in 1..Len(s) : (s \o d)[i] = s[i]
    BY Concat
  <2>5. Len(s) <= Len(s) + Len(d)
    BY <2>2
  <2> QED
    BY <2>2, <2>3, <2>4, <2>5
<1> DEFINE Kept(g, n) == /\ Len(DataUpTo[g]) <= Len(DataUpTo[n])
                         /\ \A i \in 1..Len(DataUpTo[g]) : DataUpTo[n][i] = DataUpTo[g][i]
           T == {n \in Nat : n <= N => \A g \in 0..n : Kept(g, n)}
<1>4. 0 \in T
  <2>1. \A g \in 0..0 : g = 0
    OBVIOUS
  <2>2. Len(DataUpTo[0]) <= Len(DataUpTo[0])
    BY <1>2
  <2> QED
    BY <2>1, <2>2
<1>5. ASSUME NEW n \in Nat, n \in T PROVE n + 1 \in T
  <2> SUFFICES ASSUME n + 1 <= N, NEW g \in 0..n + 1 PROVE Kept(g, n + 1)
    OBVIOUS
  <2>1. n + 1 \in 1..N /\ (n + 1) - 1 = n /\ n \in 0..N /\ n + 1 \in 0..N
    OBVIOUS
  <2>2. CASE g = n + 1
    <3>1. Len(DataUpTo[n + 1]) <= Len(DataUpTo[n + 1])
      BY <1>2, <2>1
    <3> QED
      BY <2>2, <3>1
  <2>3. CASE g # n + 1
    <3>1. g \in 0..n /\ g \in 0..N
      BY <2>1, <2>3
    <3>2. Kept(g, n)
      BY <1>5, <2>1, <3>1
    <3>3. Kept(n, n + 1)
      BY <1>3, <2>1
    <3>4. PICK a \in Nat, b \in Nat, c \in Nat :
            a = Len(DataUpTo[g]) /\ b = Len(DataUpTo[n]) /\ c = Len(DataUpTo[n + 1])
      BY <1>2, <2>1, <3>1
    <3>5. a <= b /\ b <= c /\ a <= c /\ 1..a \subseteq 1..b
      BY <3>2, <3>3, <3>4
    <3> QED
      BY <3>2, <3>3, <3>4, <3>5
  <2> QED
    BY <2>2, <2>3
<1>6. Nat \subseteq T
  <2> HIDE DEF T
  <2> QED
    BY <1>4, <1>5, NatSetInduction
<1>7. \A n \in 0..N : \A g \in 0..n : Kept(g, n)
  <2>1. \A n \in 0..N : n \in T /\ n <= N
    BY <1>6
  <2> HIDE DEF Kept
  <2> QED
    BY <2>1
<1> QED
  BY <1>1, <1>3, <1>7

-----------------------------------------------------------------------------
(* A value and its bytes *)

LEMMA DigitIs ==
  ASSUME NEW b \in Nat \ {0}, NEW v \in Nat
  PROVE  v = (v % b) + b * (v \div b) /\ v \div b \in Nat /\ v % b \in Nat
  OBVIOUS

LEMMA SmallerQuotient ==
  ASSUME NEW b \in Nat \ {0}, NEW v \in Nat, NEW m \in Nat, v < b * m
  PROVE  v \div b < m
<1>1. PICK q \in Nat, r \in Nat : q = v \div b /\ v = r + b * q
  BY DigitIs
<1>2. CASE q >= m
  <2>1. PICK k \in Nat : q = m + k
    <3>1. q - m \in Nat /\ q = m + (q - m)
      BY <1>2
    <3> QED
      BY <3>1
  <2>2. b * (m + k) = b * m + b * k /\ b * k \in Nat /\ b * m \in Nat
    OBVIOUS
  <2> QED
    BY <1>1, <2>1, <2>2
<1> QED
  BY <1>1, <1>2

\* Four bytes give the value back.
LEMMA WordIs ==
  ASSUME NEW v \in Index
  PROVE  Word(Bytes(v)) = v
<1>1. PICK b \in Nat \ {0} : b = ByteValues
  BY ByteRange
<1>2. v \in Nat /\ v < b * (b * (b * b))
  BY <1>1, ByteRange DEF Index
<1>3. PICK x \in Nat, y \in Nat, z \in Nat :
        x = v \div b /\ y = x \div b /\ z = y \div b
  BY <1>2, QuotientType
<1>4. x < b * (b * b) /\ y < b * b /\ z < b
  <2>1. b * (b * b) \in Nat /\ b * b \in Nat
    OBVIOUS
  <2>2. x < b * (b * b)
    BY <1>2, <1>3, <2>1, SmallerQuotient
  <2>3. y < b * b
    BY <1>3, <2>1, <2>2, SmallerQuotient
  <2>4. z < b
    BY <1>3, <2>3, SmallerQuotient
  <2> QED
    BY <2>2, <2>3, <2>4
<1>5. z % b = z
  BY <1>4
<1>6. v = (v % b) + b * x /\ x = (x % b) + b * y /\ y = (y % b) + b * z
  BY <1>2, <1>3, DigitIs
<1>7. Bytes(v)[1] = v % b /\ Bytes(v)[2] = x % b /\ Bytes(v)[3] = y % b /\ Bytes(v)[4] = z % b
  BY <1>1, <1>3 DEF Bytes, Highs
<1>8. Word(Bytes(v)) = (v % b) + b * ((x % b) + b * ((y % b) + b * (z % b)))
  BY <1>1, <1>7 DEF Word
<1> QED
  BY <1>5, <1>6, <1>8

\* Bytes that are not stored are zero.
LEMMA BytesBeyond ==
  ASSUME NEW vs, Values(vs), NEW n \in 1..4, NEW j \in 1..4, j > Size(vs, n)
  PROVE  Bytes(vs[n])[j] = 0
<1>1. PICK b \in Nat \ {0}, v \in Nat : b = ByteValues /\ v = vs[n]
  BY ByteRange DEF Values, Index
<1>2. PICK x \in Nat, y \in Nat, z \in Nat : x = v \div b /\ y = x \div b /\ z = y \div b
  BY <1>1, QuotientType
<1>3. Highs(vs[n]) = <<v, x, y, z>>
  BY <1>1, <1>2 DEF Highs
<1>4. 0 \div b = 0 /\ 0 % b = 0
  BY <1>1
<1>5. v = 0 => x = 0
  BY <1>2, <1>4
<1>6. x = 0 => y = 0
  BY <1>2, <1>4
<1>7. y = 0 => z = 0
  BY <1>2, <1>4
<1>8. ~ Use4(vs)
  BY DEF Size
<1>9. ~ (z > 0)
  BY <1>3, <1>8 DEF Use4
<1>10. z = 0
  BY <1>9
<1>11. Size(vs, n) = IF v = 0 THEN 0 ELSE IF x = 0 THEN 1 ELSE IF y = 0 THEN 2 ELSE 3
  BY <1>3, <1>8 DEF Size, SizeCode
<1>12. <<v, x, y, z>>[j] = 0
  <2>1. j = 1 \/ j = 2 \/ j = 3 \/ j = 4
    OBVIOUS
  <2> QED
    BY <1>5, <1>6, <1>7, <1>10, <1>11, <2>1
<1>13. Bytes(vs[n])[j] = <<v, x, y, z>>[j] % b
  BY <1>1, <1>3 DEF Bytes
<1> QED
  BY <1>4, <1>12, <1>13

-----------------------------------------------------------------------------
(* Control bytes *)

LEMMA BitsOf ==
  ASSUME NEW a \in 0..1, NEW b \in 0..1, NEW c \in 0..1, NEW d \in 0..1,
         NEW m, m = a + 2 * b + 4 * c + 8 * d
  PROVE  /\ m \in 0..15
         /\ Bit(m, 1) = a /\ Bit(m, 2) = b /\ Bit(m, 3) = c /\ Bit(m, 4) = d
         /\ m = 15 <=> a = 1 /\ b = 1 /\ c = 1 /\ d = 1
<1>1. /\ m \in 0..15
      /\ (m \div 1) % 2 = a /\ (m \div 2) % 2 = b /\ (m \div 4) % 2 = c /\ (m \div 8) % 2 = d
      /\ m = 15 <=> a = 1 /\ b = 1 /\ c = 1 /\ d = 1
  OBVIOUS
<1> QED
  BY <1>1 DEF Bit

LEMMA SizeParts ==
  ASSUME NEW s \in 0..3
  PROVE  s % 2 \in 0..1 /\ s \div 2 \in 0..1 /\ (s % 2) + 2 * (s \div 2) = s /\ (s = 3 <=> s % 2 = 1 /\ s \div 2 = 1)
  OBVIOUS

\* A control byte gives the sizes back, and is 255 if all of them are 3.
LEMMA CtrlSizes ==
  ASSUME NEW f \in [1..4 -> 0..3]
  PROVE  /\ CtrlOf(f) = 255 <=> \A n \in 1..4 : f[n] = 3
         /\ \A n \in 1..4 : Bit(CtrlOf(f) % 16, n) + 2 * Bit(CtrlOf(f) \div 16, n) = f[n]
<1>1. PICK s1 \in 0..3, s2 \in 0..3, s3 \in 0..3, s4 \in 0..3 : s1 = f[1] /\ s2 = f[2] /\ s3 = f[3] /\ s4 = f[4]
  <2>1. f[1] \in 0..3 /\ f[2] \in 0..3 /\ f[3] \in 0..3 /\ f[4] \in 0..3
    OBVIOUS
  <2> QED
    BY <2>1
<1>2. PICK a1 \in 0..1, a2 \in 0..1, a3 \in 0..1, a4 \in 0..1 :
        a1 = s1 % 2 /\ a2 = s2 % 2 /\ a3 = s3 % 2 /\ a4 = s4 % 2
  <2>1. s1 % 2 \in 0..1 /\ s2 % 2 \in 0..1 /\ s3 % 2 \in 0..1 /\ s4 % 2 \in 0..1
    BY SizeParts
  <2> QED
    BY <2>1
<1>3. PICK b1 \in 0..1, b2 \in 0..1, b3 \in 0..1, b4 \in 0..1 :
        b1 = s1 \div 2 /\ b2 = s2 \div 2 /\ b3 = s3 \div 2 /\ b4 = s4 \div 2
  <2>1. s1 \div 2 \in 0..1 /\ s2 \div 2 \in 0..1 /\ s3 \div 2 \in 0..1 /\ s4 \div 2 \in 0..1
    BY SizeParts
  <2> QED
    BY <2>1
<1>4. /\ s1 = a1 + 2 * b1 /\ s2 = a2 + 2 * b2 /\ s3 = a3 + 2 * b3 /\ s4 = a4 + 2 * b4
      /\ s1 = 3 <=> a1 = 1 /\ b1 = 1
      /\ s2 = 3 <=> a2 = 1 /\ b2 = 1
      /\ s3 = 3 <=> a3 = 1 /\ b3 = 1
      /\ s4 = 3 <=> a4 = 1 /\ b4 = 1
  BY <1>2, <1>3, SizeParts
<1>5. PICK l \in 0..15 : l = a1 + 2 * a2 + 4 * a3 + 8 * a4
  OBVIOUS
<1>6. PICK h \in 0..15 : h = b1 + 2 * b2 + 4 * b3 + 8 * b4
  OBVIOUS
<1>7. /\ Bit(l, 1) = a1 /\ Bit(l, 2) = a2 /\ Bit(l, 3) = a3 /\ Bit(l, 4) = a4
      /\ l = 15 <=> a1 = 1 /\ a2 = 1 /\ a3 = 1 /\ a4 = 1
  BY <1>5, BitsOf
<1>8. /\ Bit(h, 1) = b1 /\ Bit(h, 2) = b2 /\ Bit(h, 3) = b3 /\ Bit(h, 4) = b4
      /\ h = 15 <=> b1 = 1 /\ b2 = 1 /\ b3 = 1 /\ b4 = 1
  BY <1>6, BitsOf
<1>9. CtrlOf(f) = l + 16 * h
  <2>1. Nibble4([n \in 1..4 |-> f[n] % 2]) = l
    BY <1>1, <1>2, <1>5 DEF Nibble4
  <2>2. Nibble4([n \in 1..4 |-> f[n] \div 2]) = h
    BY <1>1, <1>3, <1>6 DEF Nibble4
  <2> QED
    BY <2>1, <2>2 DEF CtrlOf
<1>10. /\ (l + 16 * h) % 16 = l /\ (l + 16 * h) \div 16 = h
       /\ l + 16 * h = 255 <=> l = 15 /\ h = 15
  OBVIOUS
<1>11. \A n \in 1..4 : n = 1 \/ n = 2 \/ n = 3 \/ n = 4
  OBVIOUS
<1>12. CtrlOf(f) = 255 <=> s1 = 3 /\ s2 = 3 /\ s3 = 3 /\ s4 = 3
  BY <1>4, <1>7, <1>8, <1>9, <1>10
<1>13. CtrlOf(f) = 255 <=> \A n \in 1..4 : f[n] = 3
  BY <1>1, <1>11, <1>12
<1>14. CtrlOf(f) % 16 = l /\ CtrlOf(f) \div 16 = h
  BY <1>9, <1>10
<1>15. ASSUME NEW n \in 1..4 PROVE Bit(l, n) + 2 * Bit(h, n) = f[n]
  BY <1>1, <1>4, <1>7, <1>8, <1>11
<1> QED
  BY <1>13, <1>14, <1>15

\* The decoder finds the sizes that the encoder chose.
LEMMA LengthsIs ==
  ASSUME MeshInv, NEW g \in Nat \ {0}
  PROVE  \A n \in 1..4 : Lengths(GroupCtrl(g))[n] = Size(GroupValues(g), n)
<1> DEFINE vs == GroupValues(g)
           f == [n \in 1..4 |-> SizeCode(vs, n)]
<1>1. f \in [1..4 -> 0..3]
  BY SizeCodeType
<1>2. GroupCtrl(g) = CtrlOf(f)
  BY DEF GroupCtrl
<1>3. Use4(vs) <=> \A n \in 1..4 : SizeCode(vs, n) = 3
  <2>1. CASE Use4(vs)
    BY <2>1 DEF SizeCode
  <2>2. CASE ~ Use4(vs)
    <3>1. PICK n \in 1..4 : ~ (Highs(vs[n])[3] > 0)
      BY <2>2 DEF Use4
    <3>2. Highs(vs[n])[3] = 0
      <4>1. vs \in [1..4 -> Index]
        BY GroupValuesType DEF Values
      <4>2. vs[n] \in Nat
        BY <4>1, ByteRange DEF Index
      <4>3. Highs(vs[n])[3] \in Nat
        <5>1. PICK i \in 1..4 : i = 3
          OBVIOUS
        <5>2. Highs(vs[n])[i] \in Nat
          BY <4>2, BytesType
        <5> QED
          BY <5>1, <5>2
      <4> QED
        BY <3>1, <4>3
    <3>3. SizeCode(vs, n) # 3
      BY <2>2, <3>2 DEF SizeCode
    <3> QED
      BY <2>2, <3>3
  <2> QED
    BY <2>1, <2>2
<1> HIDE DEF vs, f
<1>4. f = [n \in 1..4 |-> SizeCode(vs, n)]
  BY DEF f
<1>5. CtrlOf(f) = 255 <=> Use4(vs)
  BY <1>1, <1>3, <1>4, CtrlSizes
<1>6. \A n \in 1..4 : Bit(CtrlOf(f) % 16, n) + 2 * Bit(CtrlOf(f) \div 16, n) = SizeCode(vs, n)
  BY <1>1, <1>4, CtrlSizes
<1>7. ASSUME NEW n \in 1..4 PROVE Lengths(GroupCtrl(g))[n] = Size(vs, n)
  <2>1. Lengths(CtrlOf(f))[n] = IF CtrlOf(f) = 255 THEN 4 ELSE Bit(CtrlOf(f) % 16, n) + 2 * Bit(CtrlOf(f) \div 16, n)
    BY DEF Lengths
  <2> QED
    BY <1>2, <1>5, <1>6, <2>1 DEF Size
<1> QED
  BY <1>7 DEF vs

-----------------------------------------------------------------------------
(* References *)

\* Where value n of a group starts.
StartOf(i, lengths, n) ==
  CASE n = 1 -> i
    [] n = 2 -> i + lengths[1]
    [] n = 3 -> i + lengths[1] + lengths[2]
    [] OTHER -> i + lengths[1] + lengths[2] + lengths[3]

LEMMA DifferenceIs ==
  ASSUME StreamWhole, NEW g \in 1..CtrlSize, NEW n \in 1..4
  PROVE  Difference(StartOf(Len(DataUpTo[g - 1]), Lengths(CtrlByte(g)), n), Lengths(CtrlByte(g))[n])
         = Plus(UnZigZag(GroupValues(g)[n]), 1)
<1>1. PICK N \in Nat : N = CtrlSize
  BY DataSteps DEF StreamWhole
<1>2. g \in Nat \ {0} /\ g \in 0..N /\ g - 1 \in 0..N /\ N \in 0..N
  BY <1>1
<1> DEFINE vs == GroupValues(g)
           lengths == Lengths(CtrlByte(g))
<1>3. Values(vs) /\ GroupData(g) = Data(vs)
  BY <1>2, GroupDataIs DEF StreamWhole
<1>4. \A k \in 1..4 : lengths[k] = Size(vs, k)
  <2>1. CtrlByte(g) = GroupCtrl(g)
    BY ReadParts
  <2> QED
    BY <1>2, <2>1, LengthsIs DEF StreamWhole
<1> HIDE DEF vs, lengths
<1>5. PICK l1 \in 0..4, l2 \in 0..4, l3 \in 0..4, l4 \in 0..4 :
        /\ l1 = Size(vs, 1) /\ l2 = Size(vs, 2) /\ l3 = Size(vs, 3) /\ l4 = Size(vs, 4)
        /\ l1 = lengths[1] /\ l2 = lengths[2] /\ l3 = lengths[3] /\ l4 = lengths[4]
  <2>1. \A k \in 1..4 : Size(vs, k) \in 0..4
    BY <1>3, ValueDataIs
  <2>2. Size(vs, 1) \in 0..4 /\ Size(vs, 2) \in 0..4 /\ Size(vs, 3) \in 0..4 /\ Size(vs, 4) \in 0..4
    BY <2>1
  <2>3. lengths[1] = Size(vs, 1) /\ lengths[2] = Size(vs, 2) /\ lengths[3] = Size(vs, 3) /\ lengths[4] = Size(vs, 4)
    BY <1>4
  <2> QED
    BY <2>2, <2>3
<1>6. PICK i \in Nat, m \in Nat, d \in Nat :
        /\ i = Len(DataUpTo[g - 1]) /\ m = l1 + l2 + l3 + l4 /\ m = Len(Data(vs)) /\ d = Len(DataUpTo[N])
        /\ i + m <= d /\ i + m = Len(DataUpTo[g])
  <2>1. Len(Data(vs)) = l1 + l2 + l3 + l4 /\ Len(Data(vs)) \in 0..16
    BY <1>3, <1>5, DataIs
  <2>2. Len(DataUpTo[g]) = Len(DataUpTo[g - 1]) + Len(Data(vs))
    BY <1>3, GroupPlace DEF StreamWhole
  <2>3. Len(DataUpTo[g]) <= Len(DataUpTo[N])
    BY <1>1, <1>2, GroupPlace DEF StreamWhole
  <2>4. Len(DataUpTo[g - 1]) \in Nat /\ Len(DataUpTo[N]) \in Nat
    BY <1>1, <1>2, DataSize, LenProperties DEF StreamWhole
  <2>5. l1 + l2 + l3 + l4 \in Nat
    <3>1. l1 \in Nat /\ l2 \in Nat /\ l3 \in Nat /\ l4 \in Nat
      BY <1>5
    <3> QED
      BY <3>1
  <2>6. PICK i \in Nat, m \in Nat, d \in Nat :
          i = Len(DataUpTo[g - 1]) /\ m = l1 + l2 + l3 + l4 /\ d = Len(DataUpTo[N])
    BY <2>4, <2>5
  <2>7. m = Len(Data(vs)) /\ i + m = Len(DataUpTo[g]) /\ i + m <= d
    BY <2>1, <2>2, <2>3, <2>6
  <2> QED
    BY <2>6, <2>7
<1>7. ASSUME NEW j \in 1..m PROVE ByteAt(i + j - 1) = Data(vs)[j]
  <2>1. i + j \in 1..d /\ (i + j) - 1 = i + j - 1 /\ i + j \in 1..i + m
    <3>1. i + m <= d /\ i \in Nat /\ m \in Nat /\ d \in Nat
      BY <1>6
    <3>2. j \in Int /\ 1 <= j /\ j <= m
      OBVIOUS
    <3> QED
      BY <3>1, <3>2
  <2>2. ByteAt((i + j) - 1) = DataUpTo[N][i + j]
    BY <1>1, <1>6, <2>1, ReadParts
  <2>3. DataUpTo[N][i + j] = DataUpTo[g][i + j]
    BY <1>1, <1>2, <1>6, <2>1, GroupPlace DEF StreamWhole
  <2>4. DataUpTo[g][i + j] = Data(vs)[j]
    <3>1. PICK s \in Seq(Byte), t \in Seq(Byte) : s = DataUpTo[g - 1] /\ t = Data(vs)
      BY <1>1, <1>2, <1>3, DataSize, DataIs DEF StreamWhole
    <3>2. DataUpTo[g] = s \o t
      BY <1>1, <1>3, <3>1, DataSteps DEF StreamWhole
    <3>3. \A k \in 1..Len(t) : (s \o t)[Len(s) + k] = t[k]
      BY Concat
    <3> QED
      BY <1>6, <3>1, <3>2, <3>3
  <2> QED
    BY <2>1, <2>2, <2>3, <2>4
<1>8. PICK o \in Nat : /\ StartOf(i, lengths, n) = i + o
                       /\ \A j \in 1..lengths[n] : o + j \in 1..m /\ Data(vs)[o + j] = Bytes(vs[n])[j]
  <2>1. CASE n = 1
    <3>1. \A j \in 1..l1 : 0 + j = j /\ 0 + j \in 1..m
      BY <1>6
    <3>2. \A j \in 1..l1 : Data(vs)[j] = Bytes(vs[1])[j]
      BY <1>3, <1>5, DataIs
    <3>3. StartOf(i, lengths, n) = i + 0
      BY <2>1 DEF StartOf
    <3> QED
      BY <1>5, <2>1, <3>1, <3>2, <3>3
  <2>2. CASE n = 2
    <3>1. \A j \in 1..l2 : l1 + j \in 1..m
      BY <1>6
    <3>2. \A j \in 1..l2 : Data(vs)[l1 + j] = Bytes(vs[2])[j]
      BY <1>3, <1>5, DataIs
    <3>3. StartOf(i, lengths, n) = i + l1
      BY <1>5, <2>2 DEF StartOf
    <3> QED
      BY <1>5, <2>2, <3>1, <3>2, <3>3
  <2>3. CASE n = 3
    <3>1. \A j \in 1..l3 : (l1 + l2) + j \in 1..m /\ (l1 + l2) + j = l1 + l2 + j
      BY <1>6
    <3>2. \A j \in 1..l3 : Data(vs)[l1 + l2 + j] = Bytes(vs[3])[j]
      BY <1>3, <1>5, DataIs
    <3>3. StartOf(i, lengths, n) = i + (l1 + l2) /\ l1 + l2 \in Nat
      BY <1>5, <2>3 DEF StartOf
    <3> QED
      BY <1>5, <2>3, <3>1, <3>2, <3>3
  <2>4. CASE n = 4
    <3>1. \A j \in 1..l4 : (l1 + l2 + l3) + j \in 1..m /\ (l1 + l2 + l3) + j = l1 + l2 + l3 + j
      BY <1>6
    <3>2. \A j \in 1..l4 : Data(vs)[l1 + l2 + l3 + j] = Bytes(vs[4])[j]
      BY <1>3, <1>5, DataIs
    <3>3. StartOf(i, lengths, n) = i + (l1 + l2 + l3) /\ l1 + l2 + l3 \in Nat
      BY <1>5, <2>4 DEF StartOf
    <3> QED
      BY <1>5, <2>4, <3>1, <3>2, <3>3
  <2> QED
    BY <2>1, <2>2, <2>3, <2>4
<1> DEFINE b(s, l) == [j \in 1..4 |-> IF j <= l THEN ByteAt(s + j - 1) ELSE 0]
<1>9. PICK k \in 0..4 : k = lengths[n] /\ k = Size(vs, n)
  BY <1>4, <1>5
<1>10. ASSUME NEW j \in 1..4 PROVE b(i + o, k)[j] = Bytes(vs[n])[j]
  <2>1. CASE j <= k
    <3>1. j \in 1..lengths[n]
      BY <1>9, <2>1
    <3>2. o + j \in 1..m /\ Data(vs)[o + j] = Bytes(vs[n])[j]
      BY <1>8, <3>1
    <3>3. ByteAt(i + (o + j) - 1) = Data(vs)[o + j]
      BY <1>7, <3>2
    <3>4. i + (o + j) - 1 = (i + o) + j - 1
      OBVIOUS
    <3> QED
      BY <2>1, <3>2, <3>3, <3>4
  <2>2. CASE ~ (j <= k)
    <3>1. j > Size(vs, n)
      BY <1>9, <2>2
    <3>2. Bytes(vs[n])[j] = 0
      BY <1>3, <3>1, BytesBeyond
    <3> QED
      BY <2>2, <3>2
  <2> QED
    BY <2>1, <2>2
<1>11. Word(b(i + o, k)) = Word(Bytes(vs[n]))
  <2> HIDE DEF b
  <2>1. b(i + o, k)[1] = Bytes(vs[n])[1] /\ b(i + o, k)[2] = Bytes(vs[n])[2]
        /\ b(i + o, k)[3] = Bytes(vs[n])[3] /\ b(i + o, k)[4] = Bytes(vs[n])[4]
    BY <1>10
  <2> QED
    BY <2>1 DEF Word
<1>12. Word(Bytes(vs[n])) = vs[n]
  BY <1>3, WordIs DEF Values
<1>13. Difference(i + o, k) = Plus(UnZigZag(vs[n]), 1)
  BY <1>11, <1>12 DEF Difference
<1> QED
  BY <1>6, <1>8, <1>9, <1>13 DEF vs, lengths

LEMMA PlusSame ==
  ASSUME Modulus \in Nat, NEW a \in Index, NEW b \in Index, NEW c \in Index
  PROVE  /\ Plus(a, b) = Plus(b, a)
         /\ Plus(Plus(a, b), c) = Plus(a, Plus(b, c))
  BY DEF Plus, Index

\* Prefix sums are the sums one after the other.
LEMMA PrefixSums ==
  ASSUME Modulus \in Nat, NEW p \in Index, NEW d1 \in Index, NEW d2 \in Index, NEW d3 \in Index, NEW d4 \in Index
  PROVE  /\ Plus(d1, p) = Plus(p, d1)
         /\ Plus(Plus(d2, d1), p) = Plus(Plus(p, d1), d2)
         /\ Plus(Plus(Plus(d3, d1), d2), p) = Plus(Plus(Plus(p, d1), d2), d3)
         /\ Plus(Plus(Plus(d4, d2), Plus(d3, d1)), p) = Plus(Plus(Plus(Plus(p, d1), d2), d3), d4)
<1>1. PICK a \in Index : a = Plus(p, d1) /\ a = Plus(d1, p)
  BY PlusType, PlusSame
<1>2. PICK b \in Index : b = Plus(d2, d1) /\ Plus(b, p) = Plus(a, d2)
  <2>1. Plus(d2, d1) \in Index /\ Plus(Plus(d2, d1), p) = Plus(d2, Plus(d1, p)) /\ Plus(d2, a) = Plus(a, d2)
    BY <1>1, PlusType, PlusSame
  <2> QED
    BY <1>1, <2>1
<1>3. PICK c \in Index : c = Plus(a, d2) /\ c = Plus(b, p)
  BY <1>2, PlusType
<1>4. PICK e \in Index : e = Plus(d3, d1)
  BY PlusType
<1>5. PICK f \in Index : f = Plus(e, d2) /\ f = Plus(d3, b)
  <2>1. Plus(e, d2) \in Index /\ Plus(Plus(d3, d1), d2) = Plus(d3, Plus(d1, d2)) /\ Plus(d1, d2) = Plus(d2, d1)
    BY <1>4, PlusType, PlusSame
  <2> QED
    BY <1>2, <1>4, <2>1
<1>6. Plus(f, p) = Plus(c, d3)
  <2>1. Plus(Plus(d3, b), p) = Plus(d3, Plus(b, p)) /\ Plus(d3, c) = Plus(c, d3)
    BY <1>2, <1>3, PlusSame
  <2> QED
    BY <1>3, <1>5, <2>1
<1>7. PICK h \in Index : h = Plus(d4, d2)
  BY PlusType
<1>8. PICK i \in Index : i = Plus(h, e) /\ i = Plus(d4, f)
  <2>1. Plus(h, e) \in Index /\ Plus(Plus(d4, d2), e) = Plus(d4, Plus(d2, e)) /\ Plus(d2, e) = Plus(e, d2)
    BY <1>4, <1>7, PlusType, PlusSame
  <2> QED
    BY <1>5, <1>7, <2>1
<1>9. Plus(i, p) = Plus(Plus(c, d3), d4)
  <2>1. Plus(Plus(d4, f), p) = Plus(d4, Plus(f, p))
    BY <1>5, PlusSame
  <2>2. PICK k \in Index : k = Plus(c, d3)
    BY <1>3, PlusType
  <2>3. Plus(d4, k) = Plus(k, d4)
    BY PlusSame
  <2> QED
    BY <1>6, <1>8, <2>1, <2>2, <2>3
<1> QED
  BY <1>1, <1>2, <1>3, <1>4, <1>5, <1>6, <1>7, <1>8, <1>9

\* The references of a group, however they are summed up.
LEMMA GroupVerticesIs ==
  ASSUME StreamWhole, NEW g \in 1..CtrlSize
  PROVE  \A n \in 1..4 : 4 * (g - 1) + n <= VertexCount =>
           GroupVertices(Len(DataUpTo[g - 1]), Lengths(CtrlByte(g)), Before(4 * (g - 1) + 1))[n]
           = mesh.vertices[4 * (g - 1) + n]
<1>1. PICK v \in Nat, k \in Nat : v = VertexCount /\ k = 4 * (g - 1) /\ k + 1 <= v /\ g \in Nat \ {0}
  <2>1. PICK v \in Nat, c \in Nat : v = VertexCount /\ c = CtrlSize /\ c = (v + 4 - 1) \div 4
    BY MeshCounts, DataSteps DEF StreamWhole, CtrlSize, Up
  <2>2. g \in 1..(v + 4 - 1) \div 4
    BY <2>1
  <2>3. 4 * (g - 1) + 1 <= v /\ 4 * (g - 1) \in Nat /\ g \in Nat \ {0}
    BY <2>2
  <2> QED
    BY <2>1, <2>3
<1>2. Modulus \in Nat /\ Modulus % 2 = 0 /\ 1 \in Index /\ MeshInv
  BY ByteRange DEF Index, StreamWhole
<1> DEFINE i == Len(DataUpTo[g - 1])
           lengths == Lengths(CtrlByte(g))
           p == Before(k + 1)
           D(n) == Plus(UnZigZag(GroupValues(g)[n]), 1)
           w(n) == mesh.vertices[k + n]
<1>3. ASSUME NEW n \in 1..4 PROVE D(n) \in Index /\ (k + n <= v => w(n) \in Index /\ Before(k + n) \in Index
                                                                   /\ Plus(Before(k + n), D(n)) = w(n))
  <2>1. k + n \in Nat \ {0}
    OBVIOUS
  <2>2. GroupValues(g)[n] = Reference(k + n)
    BY <1>1, <1>2, GroupValuesType
  <2>3. /\ Reference(k + n) \in Index
        /\ k + n <= v => /\ mesh.vertices[k + n] \in Index /\ Before(k + n) \in Index
                         /\ UnZigZag(Reference(k + n)) = Minus(Minus(mesh.vertices[k + n], Before(k + n)), 1)
    BY <1>1, <1>2, <2>1, ReferenceType
  <2>4. PICK u \in Index : u = UnZigZag(Reference(k + n))
    BY <1>2, <2>3, UnZigZagType
  <2>5. D(n) = Plus(u, 1) /\ Plus(u, 1) \in Index
    BY <1>2, <2>2, <2>4, PlusType
  <2>6. ASSUME k + n <= v PROVE Plus(Before(k + n), D(n)) = w(n)
    <3>1. PICK x \in Index : /\ x = Minus(mesh.vertices[k + n], Before(k + n))
                             /\ Plus(Before(k + n), x) = mesh.vertices[k + n]
      BY <1>2, <2>3, <2>6, DifferenceInverse
    <3>2. u = Minus(x, 1)
      BY <2>3, <2>4, <2>6, <3>1
    <3>3. Plus(1, u) = x
      BY <1>2, <3>2, DifferenceInverse
    <3>4. Plus(u, 1) = Plus(1, u)
      BY <1>2, PlusSame
    <3> QED
      BY <2>5, <3>1, <3>3, <3>4
  <2> QED
    BY <2>3, <2>5, <2>6
<1>4. /\ p \in Index /\ (k + 2 <= v => Before(k + 2) = w(1)) /\ (k + 3 <= v => Before(k + 3) = w(2))
      /\ (k + 4 <= v => Before(k + 4) = w(3))
  <2>1. p \in Index
    <3>1. 1 \in 1..4
      OBVIOUS
    <3> QED
      BY <1>1, <1>3, <3>1
  <2>2. k + 2 # 1 /\ k + 3 # 1 /\ k + 4 # 1 /\ (k + 2) - 1 = k + 1 /\ (k + 3) - 1 = k + 2 /\ (k + 4) - 1 = k + 3
    OBVIOUS
  <2> QED
    BY <2>1, <2>2 DEF Before
<1>5. PICK d1 \in Index, d2 \in Index, d3 \in Index, d4 \in Index : d1 = D(1) /\ d2 = D(2) /\ d3 = D(3) /\ d4 = D(4)
  <2>1. D(1) \in Index /\ D(2) \in Index /\ D(3) \in Index /\ D(4) \in Index
    BY <1>3
  <2> QED
    BY <2>1
<1> DEFINE S1 == Plus(p, d1)
           S2 == Plus(S1, d2)
           S3 == Plus(S2, d3)
           S4 == Plus(S3, d4)
<1>6. /\ k + 1 <= v => S1 = w(1)
      /\ k + 2 <= v => S2 = w(2)
      /\ k + 3 <= v => S3 = w(3)
      /\ k + 4 <= v => S4 = w(4)
  <2>1. /\ k + 1 <= v => Plus(Before(k + 1), D(1)) = w(1)
        /\ k + 2 <= v => Plus(Before(k + 2), D(2)) = w(2)
        /\ k + 3 <= v => Plus(Before(k + 3), D(3)) = w(3)
        /\ k + 4 <= v => Plus(Before(k + 4), D(4)) = w(4)
    BY <1>3
  <2>2. (k + 4 <= v => k + 3 <= v) /\ (k + 3 <= v => k + 2 <= v) /\ (k + 2 <= v => k + 1 <= v)
    BY <1>1
  <2> HIDE DEF D, w
  <2> QED
    BY <1>4, <1>5, <2>1, <2>2
<1> HIDE DEF D, w
<1> DEFINE start == <<i, i + lengths[1], i + lengths[1] + lengths[2], i + lengths[1] + lengths[2] + lengths[3]>>
           d == [n \in 1..4 |-> Difference(start[n], lengths[n])]
           shifted(x, by) == [n \in 1..4 |-> IF n > by THEN Plus(x[n], x[n - by]) ELSE x[n]]
           total == shifted(shifted(d, 2), 1)
           values == GroupVertices(i, lengths, p)
<1>7. values = IF call.kind = "scalar"
               THEN <<Plus(p, d[1]), Plus(Plus(p, d[1]), d[2]), Plus(Plus(Plus(p, d[1]), d[2]), d[3]),
                      Plus(Plus(Plus(Plus(p, d[1]), d[2]), d[3]), d[4])>>
               ELSE [n \in 1..4 |-> Plus(total[n], p)]
  BY DEF GroupVertices
<1>8. d[1] = d1 /\ d[2] = d2 /\ d[3] = d3 /\ d[4] = d4
  <2>1. \A n \in 1..4 : Difference(StartOf(i, lengths, n), lengths[n]) = D(n)
    BY DifferenceIs DEF D
  <2>2. \A n \in 1..4 : start[n] = StartOf(i, lengths, n)
    <3>1. \A n \in 1..4 : n = 1 \/ n = 2 \/ n = 3 \/ n = 4
      OBVIOUS
    <3> QED
      BY <3>1 DEF StartOf
  <2>3. \A n \in 1..4 : d[n] = D(n)
    <3> HIDE DEF start, i, lengths
    <3> QED
      BY <2>1, <2>2
  <2> HIDE DEF d
  <2>4. d[1] = D(1) /\ d[2] = D(2) /\ d[3] = D(3) /\ d[4] = D(4)
    BY <2>3
  <2> QED
    BY <1>5, <2>4
<1> HIDE DEF i, lengths, start, d
<1>9. /\ total[1] = d1 /\ total[2] = Plus(d2, d1) /\ total[3] = Plus(Plus(d3, d1), d2)
      /\ total[4] = Plus(Plus(d4, d2), Plus(d3, d1))
  <2> DEFINE x == shifted(d, 2)
  <2>1. x[1] = d1 /\ x[2] = d2 /\ x[3] = Plus(d3, d1) /\ x[4] = Plus(d4, d2)
    <3>1. x[1] = d[1] /\ x[2] = d[2] /\ x[3] = Plus(d[3], d[3 - 2]) /\ x[4] = Plus(d[4], d[4 - 2])
      OBVIOUS
    <3>2. 3 - 2 = 1 /\ 4 - 2 = 2
      OBVIOUS
    <3> HIDE DEF x
    <3> QED
      BY <1>8, <3>1, <3>2
  <2> HIDE DEF x
  <2>2. /\ shifted(x, 1)[1] = x[1] /\ shifted(x, 1)[2] = Plus(x[2], x[1])
        /\ shifted(x, 1)[3] = Plus(x[3], x[2]) /\ shifted(x, 1)[4] = Plus(x[4], x[3])
    OBVIOUS
  <2>3. total = shifted(x, 1)
    BY DEF x
  <2> HIDE DEF shifted
  <2> QED
    BY <2>1, <2>2, <2>3
<1> HIDE DEF total, p
<1>10. values[1] = S1 /\ values[2] = S2 /\ values[3] = S3 /\ values[4] = S4
  <2>1. CASE call.kind = "scalar"
    BY <1>7, <1>8, <2>1
  <2>2. CASE call.kind # "scalar"
    <3>1. /\ values[1] = Plus(total[1], p) /\ values[2] = Plus(total[2], p)
          /\ values[3] = Plus(total[3], p) /\ values[4] = Plus(total[4], p)
      <4> HIDE DEF values
      <4> QED
        BY <1>7, <2>2
    <3> HIDE DEF values
    <3>2. /\ Plus(d1, p) = S1 /\ Plus(Plus(d2, d1), p) = S2 /\ Plus(Plus(Plus(d3, d1), d2), p) = S3
          /\ Plus(Plus(Plus(d4, d2), Plus(d3, d1)), p) = S4
      BY <1>2, <1>4, PrefixSums
    <3> QED
      BY <1>9, <3>1, <3>2
  <2> QED
    BY <2>1, <2>2
<1> HIDE DEF values, S1, S2, S3, S4
<1>11. \A n \in 1..4 : k + n <= v => values[n] = w(n)
  <2>1. \A n \in 1..4 : n = 1 \/ n = 2 \/ n = 3 \/ n = 4
    OBVIOUS
  <2> QED
    BY <1>6, <1>10, <2>1
<1> QED
  BY <1>1, <1>11 DEF values, w, i, lengths, p

-----------------------------------------------------------------------------
(* The decoders give back what was encoded *)

\* Triangles in the first pairs, or the triangles that the portable decoder counts as pairs.
Passed(pairs) == IF call.kind = "scalar" THEN pairs ELSE Smaller(TriangleCount, 2 * pairs)

VerticesIn(vs, groups) ==
  \A n \in 1..Smaller(4 * groups, VertexCount) : vs[n] = Narrow(mesh.vertices[n], call.vsize)

TriangleIn(ts, n) ==
  IF call.tsize = 4 THEN ts[n] = Triangle(n) ELSE \A j \in 1..3 : ts[3 * (n - 1) + j] = Triangle(n)[j]

TrianglesIn(ts, count) == \A n \in 1..count : TriangleIn(ts, n)

\* The state of a decoder after k triangles: next, and the last three of them.
ScalarIs(s, k) == s.next = NextAt(k + 1) /\ \A j \in 1..3 : j <= k => s.tris[j] = Triangle(k + 1 - j)
VectorIs(s, k) ==
  /\ s[15] = NextAt(k + 1) % ByteValues
  /\ \A b \in 0..2, j \in 1..3 : b < k => s[12 - 3 * b + j - 1] = Triangle(k - b)[j]

StateIs(s, pairs) ==
  IF call.kind = "scalar" THEN ScalarIs(s, pairs)
  ELSE 2 * pairs <= TriangleCount => VectorIs(s, 2 * pairs)

VerticesPhase(d) ==
  /\ d.verdict = 1 /\ d.pairs = 0
  /\ d.data = Len(DataUpTo[d.groups])
  /\ d.groups < CtrlSize => d.last = Before(4 * d.groups + 1)
  /\ VerticesIn(d.vertices, d.groups)
  /\ StateIs(d.state, 0)

TrianglesPhase(d) ==
  /\ d.verdict = 1 /\ d.groups = CtrlSize
  /\ d.data = Len(DataUpTo[CtrlSize]) + ExtraAt(Passed(d.pairs) + 1)
  /\ VerticesIn(d.vertices, CtrlSize)
  /\ TrianglesIn(d.triangles, Passed(d.pairs))
  /\ StateIs(d.state, d.pairs)

DonePhase(d) ==
  /\ d.verdict = 0 /\ d.groups = CtrlSize /\ Passed(d.pairs) = TriangleCount
  /\ VerticesIn(d.vertices, CtrlSize)
  /\ TrianglesIn(d.triangles, TriangleCount)

Back ==
  Own => /\ phase \in {"decode", "vertices", "triangles", "done"} => stream = Encoded
         /\ phase = "vertices" => VerticesPhase(dec)
         /\ phase = "triangles" => TrianglesPhase(dec)
         /\ phase = "done" => DonePhase(dec)

\* What does not change while a decoder is at work.
LEMMA EncodedKept ==
  ASSUME UNCHANGED <<mesh, encoderVars>>
  PROVE  /\ VertexCount' = VertexCount /\ TriangleCount' = TriangleCount
         /\ CtrlSize' = CtrlSize /\ CodesSize' = CodesSize /\ GapSize' = GapSize
         /\ DataUpTo' = DataUpTo /\ Encoded' = Encoded
         /\ \A i : Before(i)' = Before(i)
         /\ \A k : Triangle(k)' = Triangle(k) /\ NextAt(k)' = NextAt(k) /\ ExtraAt(k)' = ExtraAt(k)
<1>1. UNCHANGED <<mesh, fifo, next, codes, extra, history>>
  BY DEF encoderVars
<1>2. VertexCount' = VertexCount /\ TriangleCount' = TriangleCount
  BY <1>1 DEF VertexCount, TriangleCount
<1>3. CtrlSize' = CtrlSize /\ CodesSize' = CodesSize
  BY <1>2 DEF CtrlSize, CodesSize
<1>4. GapSize' = GapSize
  BY <1>3 DEF GapSize
<1>5. \A i : Before(i)' = Before(i) /\ Reference(i)' = Reference(i)
  BY <1>1, <1>2 DEF Before, Reference
<1>6. \A g : GroupData(g)' = GroupData(g) /\ GroupCtrl(g)' = GroupCtrl(g)
  BY <1>5 DEF GroupData, GroupCtrl, GroupValues
<1>7. DataUpTo' = DataUpTo
  BY <1>3, <1>6 DEF DataUpTo
<1>8. CtrlPart' = CtrlPart
  BY <1>3, <1>6 DEF CtrlPart
<1>9. DataPart' = DataPart
  BY <1>1, <1>3, <1>4, <1>7 DEF DataPart
<1>10. PackedCodes' = PackedCodes
  BY <1>1, <1>2, <1>3 DEF PackedCodes
<1>11. Encoded' = Encoded
  BY <1>8, <1>9, <1>10 DEF Encoded
<1>12. \A k : Triangle(k)' = Triangle(k) /\ NextAt(k)' = NextAt(k) /\ ExtraAt(k)' = ExtraAt(k)
  BY <1>1 DEF Triangle, NextAt, ExtraAt
<1> QED
  BY <1>2, <1>3, <1>4, <1>5, <1>7, <1>11, <1>12

LEMMA PhasesKept ==
  ASSUME UNCHANGED <<mesh, encoderVars, call>>
  PROVE  /\ VerticesPhase(dec)' <=> VerticesPhase(dec')
         /\ TrianglesPhase(dec)' <=> TrianglesPhase(dec')
         /\ DonePhase(dec)' <=> DonePhase(dec')
         /\ Own' <=> Own
         /\ Encoded' = Encoded
<1>1. call' = call /\ mesh' = mesh
  OBVIOUS
<1>2. \A p : Passed(p)' = Passed(p)
  BY <1>1, EncodedKept DEF Passed
<1>3. \A vs, g : VerticesIn(vs, g)' <=> VerticesIn(vs, g)
  BY <1>1, EncodedKept DEF VerticesIn
<1>4. \A ts, n : TrianglesIn(ts, n)' <=> TrianglesIn(ts, n)
  BY <1>1, EncodedKept DEF TrianglesIn, TriangleIn
<1>5. \A s, p : StateIs(s, p)' <=> StateIs(s, p)
  BY <1>1, EncodedKept DEF StateIs, ScalarIs, VectorIs
<1>6. Own' <=> Own
  BY <1>1 DEF Own
<1>7. VerticesPhase(dec)' <=> VerticesPhase(dec')
  BY <1>3, <1>5, EncodedKept DEF VerticesPhase
<1>8. TrianglesPhase(dec)' <=> TrianglesPhase(dec')
  BY <1>2, <1>3, <1>4, <1>5, EncodedKept DEF TrianglesPhase
<1>9. DonePhase(dec)' <=> DonePhase(dec')
  BY <1>2, <1>3, <1>4, EncodedKept DEF DonePhase
<1> QED
  BY <1>6, <1>7, <1>8, <1>9, EncodedKept

\* What a step of a decoder has to show.
LEMMA BackStep ==
  ASSUME Own => stream = Encoded, UNCHANGED <<mesh, encoderVars, stream, call>>,
         Own => /\ phase' = "vertices" => VerticesPhase(dec')
                /\ phase' = "triangles" => TrianglesPhase(dec')
                /\ phase' = "done" => DonePhase(dec')
  PROVE  Back'
<1>1. /\ VerticesPhase(dec)' <=> VerticesPhase(dec')
      /\ TrianglesPhase(dec)' <=> TrianglesPhase(dec')
      /\ DonePhase(dec)' <=> DonePhase(dec')
      /\ Own' <=> Own
      /\ Encoded' = Encoded
  BY PhasesKept
<1> QED
  BY <1>1 DEF Back

LEMMA BackSame ==
  ASSUME Back, UNCHANGED codecVars
  PROVE  Back'
<1>1. UNCHANGED <<mesh, encoderVars, call>> /\ phase' = phase /\ stream' = stream /\ dec' = dec
  BY DEF codecVars
<1>2. /\ VerticesPhase(dec)' <=> VerticesPhase(dec')
      /\ TrianglesPhase(dec)' <=> TrianglesPhase(dec')
      /\ DonePhase(dec)' <=> DonePhase(dec')
      /\ Own' <=> Own
      /\ Encoded' = Encoded
  BY <1>1, PhasesKept
<1>3. /\ VerticesPhase(dec') <=> VerticesPhase(dec)
      /\ TrianglesPhase(dec') <=> TrianglesPhase(dec)
      /\ DonePhase(dec') <=> DonePhase(dec)
  BY <1>1
<1> QED
  BY <1>1, <1>2, <1>3 DEF Back

LEMMA BackFinish ==
  ASSUME BoundsInv, FinishEncode
  PROVE  Back'
<1>1. /\ UNCHANGED <<mesh, encoderVars, call, dec>>
      /\ phase' \in {"decode", "refused"}
      /\ Own => stream' = Encoded \/ phase' = "refused"
  BY FinishIs DEF BoundsInv
<1>2. (Own' <=> Own) /\ Encoded' = Encoded
  BY <1>1, PhasesKept
<1> QED
  BY <1>1, <1>2 DEF Back

LEMMA BackStart ==
  ASSUME BoundsInv, HistoryInv, Back, StartDecode
  PROVE  Back'
<1>1. UNCHANGED <<mesh, encoderVars, stream, call>> /\ phase = "decode" /\ dec = NoDecoder
  BY DEF StartDecode, BoundsInv
<1>2. Own => stream = Encoded
  BY <1>1 DEF Back
<1>3. ASSUME Own PROVE phase' = "vertices" /\ VerticesPhase(dec')
  <2>1. StreamWhole
    BY <1>1, <1>2, <1>3 DEF BoundsInv, StreamWhole
  <2>2. Len(stream) \in Nat /\ CodesSize + CtrlSize + GapSize \in Nat /\ Len(stream) >= CodesSize + CtrlSize + GapSize
    <3>1. CodesSize \in Nat /\ CtrlSize \in Nat /\ GapSize \in Nat
      BY PartSizes DEF BoundsInv
    <3>2. PICK d : d = Len(DataUpTo[CtrlSize])
      OBVIOUS
    <3>3. Len(stream) \in Nat /\ Len(stream) >= CodesSize + CtrlSize + GapSize
      BY <2>1, <3>2, ReadParts
    <3> QED
      BY <3>1, <3>3
  <2>3. ~ (Len(stream) < CodesSize + CtrlSize + GapSize)
    BY <2>2
  <2> DEFINE s == IF call.kind = "scalar"
                  THEN [next |-> 0, tris |-> <<Zeros(3), Zeros(3), Zeros(3)>>] ELSE [slot \in 0..15 |-> 0]
  <2>4. dec' = [dec EXCEPT !.last = Modulus - 1, !.state = s] /\ phase' = "vertices"
    BY <2>3 DEF StartDecode
  <2>5. StateIs(s, 0)
    <3>1. NextAt(0 + 1) = 0
      BY DEF HistoryInv
    <3>2. 0 % ByteValues = 0
      BY ByteRange, SmallMod
    <3>3. CASE call.kind = "scalar"
      BY <3>1, <3>3 DEF StateIs, ScalarIs
    <3>4. CASE call.kind # "scalar"
      <4>1. s[15] = 0
        BY <3>4
      <4>2. 2 * 0 = 0 /\ \A b \in 0..2 : ~ (b < 0)
        OBVIOUS
      <4> HIDE DEF s
      <4> QED
        BY <3>1, <3>2, <3>4, <4>1, <4>2 DEF StateIs, VectorIs
    <3> QED
      BY <3>3, <3>4
  <2> HIDE DEF s
  <2>6. /\ dec'.verdict = 1 /\ dec'.pairs = 0 /\ dec'.data = 0 /\ dec'.groups = 0 /\ dec'.last = Modulus - 1
        /\ dec'.state = s
    BY <1>1, <2>4 DEF NoDecoder
  <2>7. Len(DataUpTo[0]) = 0
    <3>1. DataUpTo[0] = <<>>
      BY DataSteps DEF BoundsInv
    <3> QED
      BY <3>1
  <2>8. Before(4 * 0 + 1) = Modulus - 1
    BY DEF Before
  <2>9. VerticesIn(dec'.vertices, 0)
    <3>1. Smaller(4 * 0, VertexCount) = 0
      BY MeshCounts, ByteRange DEF BoundsInv, Smaller
    <3>2. \A n \in 1..0 : FALSE
      OBVIOUS
    <3> QED
      BY <3>1, <3>2 DEF VerticesIn
  <2> QED
    BY <2>4, <2>5, <2>6, <2>7, <2>8, <2>9 DEF VerticesPhase
<1>4. Own => /\ phase' = "vertices" => VerticesPhase(dec')
             /\ phase' = "triangles" => TrianglesPhase(dec')
             /\ phase' = "done" => DonePhase(dec')
  BY <1>3
<1> QED
  BY <1>1, <1>2, <1>4, BackStep

\* Every reference is written.
LEMMA StoresCover ==
  ASSUME MeshInv, call \in Calls, NEW g \in 1..CtrlSize, NEW n \in 1..4, 4 * (g - 1) + n <= VertexCount
  PROVE  n <= VertexStores(g) /\ VertexStores(g) \in 0..4
<1>1. PICK v \in Nat : v = VertexCount /\ 4 * (g - 1) + n <= v
  BY MeshCounts, ByteRange
<1>2. g \in 1..(v + 4 - 1) \div 4
  BY <1>1 DEF CtrlSize, Up
<1>3. CASE call.kind = "raw"
  <2>1. VertexGroups = CtrlSize /\ g <= CtrlSize
    BY <1>3 DEF VertexGroups
  <2> QED
    BY <2>1 DEF VertexStores
<1>4. CASE call.kind = "scalar" \/ (call.kind # "raw" /\ call.vsize = 4)
  <2>1. call.kind # "raw"
    BY <1>4
  <2>2. VertexStores(g) = IF g <= v \div 4 THEN 4 ELSE v % 4
    BY <1>1, <1>4 DEF VertexStores, VertexGroups
  <2>3. CASE g <= v \div 4
    BY <2>2, <2>3
  <2>4. CASE ~ (g <= v \div 4)
    <3>1. n <= v % 4 /\ v % 4 \in 0..4
      BY <1>1, <1>2, <2>4
    <3> QED
      BY <2>2, <2>4, <3>1
  <2> QED
    BY <2>3, <2>4
<1>5. CASE call.kind = "simd" /\ call.vsize = 2
  <2>1. VertexStores(g) = IF g <= (v + 1) \div 4 THEN 4 ELSE 2
    BY <1>1, <1>5 DEF VertexStores, VertexGroups
  <2>2. CASE g <= (v + 1) \div 4
    BY <2>1, <2>2
  <2>3. CASE ~ (g <= (v + 1) \div 4)
    <3>1. n <= 2
      BY <1>1, <1>2, <2>3
    <3> QED
      BY <2>1, <2>3, <3>1
  <2> QED
    BY <2>2, <2>3
<1> QED
  BY <1>3, <1>4, <1>5, CallType

\* A write to element i on keeps what is before it.
Written(out, memory, i, values) ==
  /\ \A n \in 1..i : out[n] = memory[n]
  /\ \A j \in 1..Len(values) : out[i + j] = values[j]

LEMMA StoredWrites ==
  ASSUME NEW memory, NEW values, Len(memory) \in Nat, Len(values) \in Nat, NEW i \in Nat
  PROVE  Written(Stored(memory, i, values), memory, i, values)
<1>1. PICK k \in Nat, l \in Nat, m \in Nat :
        l = Len(memory) /\ m = Len(values) /\ k = Larger(l, i + m) /\ k >= i + m
  <2>1. PICK l \in Nat, m \in Nat : l = Len(memory) /\ m = Len(values)
    OBVIOUS
  <2>2. Larger(l, i + m) \in Nat /\ Larger(l, i + m) >= i + m
    BY DEF Larger
  <2> QED
    BY <2>1, <2>2
<1>2. \A n \in 1..k : Stored(memory, i, values)[n] = IF n \in i + 1..i + m THEN values[n - i] ELSE memory[n]
  <2>1. \A n \in 1..Larger(Len(memory), i + Len(values)) :
          Stored(memory, i, values)[n] = IF n \in i + 1..i + Len(values) THEN values[n - i] ELSE memory[n]
    BY StoredIs
  <2> QED
    BY <1>1, <2>1
<1>3. ASSUME NEW n \in 1..i PROVE Stored(memory, i, values)[n] = memory[n]
  <2>1. n \in 1..k /\ n \notin i + 1..i + m
    BY <1>1
  <2> QED
    BY <1>2, <2>1
<1>4. ASSUME NEW j \in 1..m PROVE Stored(memory, i, values)[i + j] = values[j]
  <2>1. i + j \in 1..k /\ i + j \in i + 1..i + m /\ (i + j) - i = j
    BY <1>1
  <2> QED
    BY <1>2, <2>1
<1> QED
  BY <1>1, <1>3, <1>4 DEF Written

LEMMA ReachedIs ==
  ASSUME NEW v \in Nat, NEW g \in Nat \ {0}, NEW n \in 1..Smaller(4 * g, v)
  PROVE  n <= v /\ ((n \in 1..Smaller(4 * (g - 1), v) /\ n \in 1..4 * (g - 1)) \/ \E j \in 1..4 : n = 4 * (g - 1) + j)
<1>1. n \in Nat /\ 1 <= n /\ n <= 4 * g /\ n <= v
  BY DEF Smaller
<1>2. CASE n <= 4 * (g - 1)
  <2>1. n \in 1..Smaller(4 * (g - 1), v) /\ n \in 1..4 * (g - 1)
    BY <1>1, <1>2 DEF Smaller
  <2> QED
    BY <1>1, <2>1
<1>3. CASE ~ (n <= 4 * (g - 1))
  <2>1. n - 4 * (g - 1) \in 1..4 /\ n = 4 * (g - 1) + (n - 4 * (g - 1))
    BY <1>1, <1>3
  <2> QED
    BY <1>1, <2>1
<1> QED
  BY <1>2, <1>3

\* A group of references is written.
LEMMA VerticesGrow ==
  ASSUME MeshInv, call \in Calls, NEW g \in 1..CtrlSize, g \in Nat \ {0},
         NEW vs, Len(vs) \in Nat, VerticesIn(vs, g - 1), NEW values, NEW stored,
         \A n \in 1..4 : 4 * (g - 1) + n <= VertexCount => values[n] = mesh.vertices[4 * (g - 1) + n],
         Len(stored) = VertexStores(g), VertexStores(g) \in Nat,
         \A n \in 1..VertexStores(g) : stored[n] = Narrow(values[n], call.vsize)
  PROVE  VerticesIn(Stored(vs, 4 * (g - 1), stored), g)
<1>1. PICK v \in Nat, k \in Nat : v = VertexCount /\ k = 4 * (g - 1)
  BY MeshCounts, ByteRange
<1>3. k \in Nat /\ Len(stored) \in Nat
  BY <1>1
<1>4. /\ \A i \in 1..k : Stored(vs, k, stored)[i] = vs[i]
      /\ \A j \in 1..Len(stored) : Stored(vs, k, stored)[k + j] = stored[j]
  <2>1. Written(Stored(vs, k, stored), vs, k, stored)
    BY <1>3, StoredWrites
  <2> QED
    BY <2>1 DEF Written
<1> SUFFICES ASSUME NEW n \in 1..Smaller(4 * g, VertexCount)
             PROVE  Stored(vs, 4 * (g - 1), stored)[n] = Narrow(mesh.vertices[n], call.vsize)
  BY DEF VerticesIn
<1>2. n <= v /\ ((n \in 1..Smaller(4 * (g - 1), v) /\ n \in 1..4 * (g - 1)) \/ \E j \in 1..4 : n = 4 * (g - 1) + j)
  BY <1>1, ReachedIs
<1>5. CASE n \in 1..Smaller(4 * (g - 1), v) /\ n \in 1..4 * (g - 1)
  <2>1. vs[n] = Narrow(mesh.vertices[n], call.vsize)
    BY <1>1, <1>5 DEF VerticesIn
  <2> QED
    BY <1>1, <1>4, <1>5, <2>1
<1>6. CASE \E j \in 1..4 : n = 4 * (g - 1) + j
  <2>1. PICK j \in 1..4 : n = 4 * (g - 1) + j /\ 4 * (g - 1) + j <= VertexCount
    BY <1>1, <1>2, <1>6
  <2>2. j <= VertexStores(g) /\ j \in 1..4
    BY <2>1, StoresCover
  <2>3. j \in 1..VertexStores(g)
    <3>1. PICK m \in Nat : m = VertexStores(g)
      OBVIOUS
    <3> QED
      BY <2>2, <3>1
  <2>4. stored[j] = Narrow(values[j], call.vsize) /\ values[j] = mesh.vertices[n]
    BY <2>1, <2>3
  <2> QED
    BY <1>1, <1>4, <2>1, <2>3, <2>4
<1> QED
  BY <1>2, <1>5, <1>6

LEMMA BackVertices ==
  ASSUME BoundsInv, Back, DecodeVertices
  PROVE  Back'
<1> DEFINE g == dec.groups + 1
           lengths == Lengths(CtrlByte(g))
           values == GroupVertices(dec.data, lengths, dec.last)
           size == Total(lengths)
           read == IF call.kind = "scalar" THEN dec.data + size - lengths[4] + 4 ELSE dec.data + OverRead
           stored == [n \in 1..VertexStores(g) |-> Narrow(values[n], call.vsize)]
<1>1. phase = "vertices" /\ UNCHANGED <<mesh, encoderVars, stream, call>>
  BY DEF DecodeVertices
<1>2. Own => stream = Encoded
  BY <1>1 DEF Back
<1>3. ASSUME Own PROVE phase' = "vertices" /\ VerticesPhase(dec')
  <2>1. StreamWhole /\ VerticesPhase(dec)
    BY <1>1, <1>2, <1>3 DEF Back, BoundsInv, StreamWhole
  <2>2. g \in 1..CtrlSize /\ call \in Calls /\ MeshInv /\ dec.groups = g - 1 /\ g \in Nat \ {0} /\ CtrlSize \in Nat
    <3>1. call \in Calls /\ MeshInv /\ dec.groups \in 0..CtrlSize /\ dec.groups < CtrlSize
      BY DEF BoundsInv, Progress, DecodeVertices
    <3>2. CtrlSize \in Nat
      BY <3>1, PartSizes
    <3>3. PICK c \in Nat, i \in Nat : c = CtrlSize /\ i = dec.groups /\ i < c
      BY <3>1, <3>2
    <3>4. i + 1 \in 1..c
      BY <3>3
    <3> QED
      BY <3>1, <3>3, <3>4
  <2>3. PICK N \in Nat : N = CtrlSize /\ g \in 1..N
    BY <2>2
  <2>4. dec.data = Len(DataUpTo[g - 1]) /\ dec.last = Before(4 * (g - 1) + 1)
    <3>1. dec.groups < CtrlSize
      BY DEF DecodeVertices
    <3> HIDE DEF g
    <3> QED
      BY <2>1, <2>2, <3>1 DEF VerticesPhase
  <2>5. ~ (dec.data > DataEnd)
    <3> HIDE DEF g
    <3>1. PICK d : d = Len(DataUpTo[CtrlSize])
      OBVIOUS
    <3>2. PICK x \in Nat : x = Len(extra) /\ d \in Nat /\ DataEnd = d + x
      BY <2>1, <3>1, ReadParts
    <3>3. g - 1 \in 0..N /\ N \in 0..N
      BY <2>3
    <3>4. Len(DataUpTo[g - 1]) <= d
      BY <2>2, <2>3, <3>1, <3>3, GroupPlace
    <3>5. Len(DataUpTo[g - 1]) \in Nat
      <4>1. Len(DataUpTo[g - 1]) \in 0..16 * (g - 1)
        BY <2>2, <2>3, <3>3, DataSize
      <4> QED
        BY <4>1
    <3>6. PICK y \in Nat : y = Len(DataUpTo[g - 1]) /\ y <= d
      BY <3>4, <3>5
    <3> QED
      BY <2>4, <3>2, <3>6
  <2>6. /\ dec' = [dec EXCEPT !.data = @ + size, !.last = values[4], !.groups = g,
                              !.reach = Larger(@, read), !.vertices = Stored(@, 4 * (g - 1), stored)]
        /\ phase' = phase
    BY <2>5 DEF DecodeVertices
  <2> HIDE DEF g
  <2>7. values = GroupVertices(Len(DataUpTo[g - 1]), Lengths(CtrlByte(g)), Before(4 * (g - 1) + 1))
    BY <2>4
  <2>8. \A n \in 1..4 : 4 * (g - 1) + n <= VertexCount => values[n] = mesh.vertices[4 * (g - 1) + n]
    BY <2>1, <2>2, <2>7, GroupVerticesIs
  <2>9. Len(DataUpTo[g]) = Len(DataUpTo[g - 1]) + size
    <3>1. CtrlByte(g) = GroupCtrl(g)
      <4>1. PICK d : d = Len(DataUpTo[CtrlSize])
        OBVIOUS
      <4> QED
        BY <2>1, <2>2, <4>1, ReadParts
    <3>2. \A n \in 1..4 : lengths[n] = Size(GroupValues(g), n)
      BY <2>2, <3>1, LengthsIs
    <3>3. GroupData(g) = Data(GroupValues(g)) /\ Values(GroupValues(g))
      BY <2>2, GroupDataIs
    <3>4. Len(GroupData(g)) = Size(GroupValues(g), 1) + Size(GroupValues(g), 2) + Size(GroupValues(g), 3)
                                + Size(GroupValues(g), 4)
      BY <3>3, DataIs
    <3> HIDE DEF lengths
    <3>5. lengths[1] = Size(GroupValues(g), 1) /\ lengths[2] = Size(GroupValues(g), 2)
          /\ lengths[3] = Size(GroupValues(g), 3) /\ lengths[4] = Size(GroupValues(g), 4)
      BY <3>2
    <3>6. Len(GroupData(g)) = Total(lengths)
      BY <3>4, <3>5 DEF Total
    <3>7. Len(DataUpTo[g]) = Len(DataUpTo[g - 1]) + Len(GroupData(g))
      BY <2>2, GroupPlace
    <3> QED
      BY <3>6, <3>7
  <2>10. Len(stored) = VertexStores(g) /\ VertexStores(g) \in Nat
    <3>1. VertexStores(g) \in Nat
      BY <2>2, VertexRoom
    <3> QED
      BY <3>1, LenOf
  <2>11. \A n \in 1..VertexStores(g) : stored[n] = Narrow(values[n], call.vsize)
    OBVIOUS
  <2> HIDE DEF lengths, values, size, read, stored
  <2>12. /\ dec'.data = dec.data + size /\ dec'.last = values[4] /\ dec'.groups = g
         /\ dec'.vertices = Stored(dec.vertices, 4 * (g - 1), stored)
         /\ dec'.pairs = dec.pairs /\ dec'.state = dec.state /\ dec'.verdict = dec.verdict
    BY <2>6 DEF BoundsInv, DecFields
  <2>13. VerticesIn(dec'.vertices, g)
    <3>1. VerticesIn(dec.vertices, g - 1) /\ Len(dec.vertices) \in Nat
      BY <2>1, <2>2 DEF BoundsInv, MemoryFits, VerticesPhase
    <3>2. PICK vs : vs = dec.vertices
      OBVIOUS
    <3>3. VerticesIn(Stored(vs, 4 * (g - 1), stored), g)
      BY <2>2, <2>8, <2>10, <2>11, <3>1, <3>2, VerticesGrow
    <3> QED
      BY <2>12, <3>2, <3>3
  <2>14. g < CtrlSize => dec'.last = Before(4 * g + 1)
    <3> SUFFICES ASSUME g < CtrlSize PROVE values[4] = Before(4 * g + 1)
      BY <2>12
    <3>1. PICK v \in Nat : v = VertexCount /\ g < (v + 4 - 1) \div 4
      BY <2>2, MeshCounts, ByteRange DEF CtrlSize, Up
    <3>2. 4 * g <= v /\ 4 * (g - 1) + 4 = 4 * g /\ 4 * g + 1 # 1 /\ (4 * g + 1) - 1 = 4 * g
      BY <2>2, <3>1
    <3>3. values[4] = mesh.vertices[4 * g]
      BY <2>8, <3>1, <3>2
    <3> QED
      BY <3>2, <3>3 DEF Before
  <2> QED
    BY <1>1, <2>1, <2>4, <2>6, <2>9, <2>12, <2>13, <2>14 DEF VerticesPhase
<1>4. Own => /\ phase' = "vertices" => VerticesPhase(dec')
             /\ phase' = "triangles" => TrianglesPhase(dec')
             /\ phase' = "done" => DonePhase(dec')
  <2> HIDE DEF g, lengths, values, size, read, stored
  <2> QED
    BY <1>3
<1> QED
  BY <1>1, <1>2, <1>4, BackStep

LEMMA BackStartTriangles ==
  ASSUME BoundsInv, HistoryInv, Back, StartTriangles
  PROVE  Back'
<1>1. /\ phase = "vertices" /\ phase' = "triangles" /\ dec' = dec /\ dec.groups = CtrlSize
      /\ UNCHANGED <<mesh, encoderVars, stream, call>>
  BY DEF StartTriangles
<1>2. Own => stream = Encoded /\ VerticesPhase(dec)
  BY <1>1 DEF Back
<1>3. VerticesPhase(dec) => TrianglesPhase(dec)
  <2> SUFFICES ASSUME VerticesPhase(dec) PROVE TrianglesPhase(dec)
    OBVIOUS
  <2>1. dec.pairs = 0 /\ dec.verdict = 1 /\ dec.data = Len(DataUpTo[CtrlSize]) /\ VerticesIn(dec.vertices, CtrlSize)
        /\ StateIs(dec.state, 0)
    BY <1>1 DEF VerticesPhase
  <2>2. Passed(0) = 0
    <3>1. PICK t \in Nat : t = TriangleCount
      BY MeshCounts DEF BoundsInv
    <3>2. Smaller(t, 2 * 0) = 0
      BY DEF Smaller
    <3> QED
      BY <3>1, <3>2 DEF Passed
  <2>3. ExtraAt(Passed(0) + 1) = 0
    BY <2>2 DEF HistoryInv
  <2>4. Len(DataUpTo[CtrlSize]) \in Nat
    <3>1. CtrlSize \in 0..CtrlSize /\ MeshInv
      BY PartSizes DEF BoundsInv
    <3>2. DataUpTo[CtrlSize] \in Seq(Byte)
      BY <3>1, DataSize
    <3> QED
      BY <3>2, LenProperties
  <2>5. TrianglesIn(dec.triangles, Passed(0))
    <3>1. \A n \in 1..0 : FALSE
      OBVIOUS
    <3> QED
      BY <2>2, <3>1 DEF TrianglesIn
  <2> QED
    BY <1>1, <2>1, <2>3, <2>4, <2>5 DEF TrianglesPhase
<1>4. Own => /\ phase' = "vertices" => VerticesPhase(dec')
             /\ phase' = "triangles" => TrianglesPhase(dec')
             /\ phase' = "done" => DonePhase(dec')
  BY <1>1, <1>2, <1>3
<1> QED
  BY <1>1, <1>2, <1>4, BackStep

\* The whole history of a stream that is decoded.
StreamRecorded == StreamWhole /\ HistoryInv


LEMMA CodeIs ==
  ASSUME StreamRecorded, NEW k \in 1..TriangleCount
  PROVE  /\ codes[k] \in 0..15 /\ Coded(k) /\ Triangle(k) \in [1..3 -> Byte]
         /\ NextAt(k) \in Nat /\ ExtraAt(k) \in Nat
<1>1. PICK t \in Nat : t = TriangleCount /\ t = Len(codes) /\ t = Len(history)
  BY MeshCounts DEF StreamRecorded, StreamWhole, HistoryInv
<1>2. k \in 1..t
  BY <1>1
<1>3. codes[k] \in 0..15
  BY <1>1, <1>2, ElementOfSeq DEF StreamRecorded, StreamWhole, EncoderType
<1>4. Coded(k)
  BY <1>1, <1>2 DEF StreamRecorded, HistoryInv
<1>5. Triangle(k) \in [1..3 -> Byte]
  BY <1>4 DEF Coded, IsTurned
<1>6. history[k] \in [t : [1..3 -> Byte], next : Nat, at : Nat]
  <2> DEFINE R == [t : [1..3 -> Byte], next : Nat, at : Nat]
  <2>1. history \in Seq(R)
    BY DEF StreamRecorded, HistoryInv, HistoryType
  <2> HIDE DEF R
  <2>2. history[k] \in R
    BY <1>1, <1>2, <2>1, ElementOfSeq
  <2> QED
    BY <2>2 DEF R
<1>7. k <= Len(history)
  BY <1>1, <1>2
<1> QED
  BY <1>3, <1>4, <1>5, <1>6, <1>7 DEF NextAt, ExtraAt

\* The data of the triangles, and where the decoder is in it.
LEMMA ExtraPlace ==
  ASSUME StreamRecorded, NEW d, d = Len(DataUpTo[CtrlSize]), NEW k \in 1..TriangleCount + 1
  PROVE  /\ NextAt(k) \in Nat /\ ExtraAt(k) \in Nat /\ d \in Nat
         /\ ~ (d + ExtraAt(k) > DataEnd)
         /\ k = TriangleCount + 1 => d + ExtraAt(k) = DataEnd
<1>1. PICK t \in Nat, x \in Nat : /\ t = TriangleCount /\ t = Len(codes) /\ t = Len(history)
                                  /\ x = Len(extra) /\ d \in Nat /\ DataEnd = d + x
  <2>1. TriangleCount \in Nat /\ TriangleCount = Len(codes) /\ TriangleCount = Len(history)
    BY MeshCounts DEF StreamRecorded, StreamWhole, HistoryInv
  <2>2. d \in Nat /\ Len(extra) \in Nat /\ DataEnd = d + Len(extra)
    BY ReadParts DEF StreamRecorded
  <2> QED
    BY <2>1, <2>2
<1>2. CASE k = t + 1
  <2>1. ~ (k <= Len(history))
    BY <1>1, <1>2
  <2>2. NextAt(k) = next /\ ExtraAt(k) = x /\ next \in Nat
    BY <1>1, <2>1 DEF NextAt, ExtraAt, StreamRecorded, HistoryInv
  <2> QED
    BY <1>1, <2>2
<1>3. CASE k # t + 1
  <2>1. k \in 1..t
    BY <1>1, <1>3
  <2>2. /\ codes[k] \in 0..15 /\ Coded(k) /\ NextAt(k) \in Nat /\ ExtraAt(k) \in Nat
    BY <1>1, <2>1, CodeIs
  <2>3. PICK e \in 0..3, a \in Nat : e = ExtraCount(codes[k]) /\ a = ExtraAt(k)
    BY <2>2, CountsType
  <2>4. a + e <= x
    BY <1>1, <2>2, <2>3 DEF Coded
  <2>5. ~ (d + a > d + x)
    BY <1>1, <2>4
  <2> QED
    BY <1>1, <1>3, <2>2, <2>3, <2>5
<1> QED
  BY <1>2, <1>3

\* The extra vertices of a triangle are where the decoder reads them.
LEMMA ExtraBytes ==
  ASSUME StreamRecorded, NEW d, d = Len(DataUpTo[CtrlSize]), NEW k \in 1..TriangleCount
  PROVE  \A j \in 1..3 : j <= ExtraCount(codes[k]) => ByteAt(d + ExtraAt(k) + j - 1) = extra[ExtraAt(k) + j]
<1> SUFFICES ASSUME NEW j \in 1..3, j <= ExtraCount(codes[k])
             PROVE  ByteAt(d + ExtraAt(k) + j - 1) = extra[ExtraAt(k) + j]
  OBVIOUS
<1>1. PICK x \in Nat : x = Len(extra) /\ d \in Nat /\ \A i \in 1..x : ByteAt(d + i - 1) = extra[i]
  <2>1. d \in Nat /\ Len(extra) \in Nat /\ \A i \in 1..Len(extra) : ByteAt(d + i - 1) = extra[i]
    BY ReadParts DEF StreamRecorded
  <2> QED
    BY <2>1
<1>2. codes[k] \in 0..15 /\ Coded(k) /\ ExtraAt(k) \in Nat
  BY CodeIs
<1>3. PICK e \in 0..3, a \in Nat : e = ExtraCount(codes[k]) /\ a = ExtraAt(k)
  BY <1>2, CountsType
<1>4. a + e <= x
  BY <1>1, <1>2, <1>3 DEF Coded
<1>a. PICK i \in Nat : i = j /\ 1 <= i /\ i <= e
  BY <1>3
<1>b. a + i \in 1..x /\ d + (a + i) - 1 = d + a + i - 1
  <2>1. d \in Nat
    BY <1>1
  <2>2. d + (a + i) - 1 = d + a + i - 1
    BY <1>3, <1>a, <2>1
  <2>3. a + i \in 1..x
    BY <1>1, <1>3, <1>4, <1>a
  <2> QED
    BY <2>2, <2>3
<1>5. a + j \in 1..x /\ d + (a + j) - 1 = d + a + j - 1
  BY <1>a, <1>b
<1>6. ByteAt(d + (a + j) - 1) = extra[a + j]
  BY <1>1, <1>5
<1> QED
  BY <1>3, <1>5, <1>6

\* What the code and the corners make is the triangle: its corners are bytes.
LEMMA CornersAre ==
  ASSUME StreamRecorded, NEW k \in 1..TriangleCount, NEW corner,
         \A j \in 1..3 : j <= NewCorners(codes[k]) =>
           \E v : v = Added(codes[k], extra, ExtraAt(k), NextAt(k))[j] /\ corner[j] \in {v, v % ByteValues},
         corner = [j \in 1..3 |-> corner[j]], NEW old, codes[k] < 12 => old = Triangle(k - 1 - codes[k] \div 4)
  PROVE  Assembled(codes[k], old, corner) = Triangle(k)
<1>1. codes[k] \in 0..15 /\ Coded(k) /\ Triangle(k) \in [1..3 -> Byte]
  BY CodeIs
<1>2. PICK c \in 0..15, t \in [1..3 -> Byte] : c = codes[k] /\ t = Triangle(k)
  BY <1>1
<1>3. PICK new : new = Added(codes[k], extra, ExtraAt(k), NextAt(k))
  OBVIOUS
<1>4. t = Assembled(c, Triangle(k - 1 - c \div 4), new)
  BY <1>1, <1>2, <1>3 DEF Coded
<1>5. PICK b \in Nat \ {0} : b = ByteValues /\ \A v \in Byte : v % b = v
  <2>1. PICK b \in Nat \ {0} : b = ByteValues
    BY ByteRange
  <2>2. \A v \in Byte : v \in Nat /\ v < b
    BY <2>1 DEF Byte
  <2> QED
    BY <2>1, <2>2, SmallMod
<1>6. CASE c < 12
  <2>1. NewCorners(c) = 1
    BY <1>6 DEF NewCorners
  <2>2. t[3] = new[1]
    BY <1>4, <1>6 DEF Assembled
  <2>3. corner[1] = new[1]
    <3>1. corner[1] \in {new[1], new[1] % b}
      BY <1>2, <1>3, <1>5, <2>1
    <3>2. t[3] \in Byte
      OBVIOUS
    <3> QED
      BY <1>5, <2>2, <3>1, <3>2
  <2> QED
    BY <1>2, <1>4, <1>6, <2>3 DEF Assembled
<1>7. CASE ~ (c < 12)
  <2>1. NewCorners(c) = 3
    BY <1>7 DEF NewCorners
  <2>2. t = new
    BY <1>4, <1>7 DEF Assembled
  <2>3. \A j \in 1..3 : corner[j] = t[j]
    <3> SUFFICES ASSUME NEW j \in 1..3 PROVE corner[j] = t[j]
      OBVIOUS
    <3>1. corner[j] \in {t[j], t[j] % b}
      <4>1. j <= 3
        OBVIOUS
      <4> QED
        BY <1>2, <1>3, <1>5, <2>1, <2>2, <4>1
    <3>2. t[j] \in Byte
      OBVIOUS
    <3> QED
      BY <1>5, <3>1, <3>2
  <2>4. corner = t
    <3>1. t = [j \in 1..3 |-> t[j]]
      OBVIOUS
    <3> QED
      BY <2>3, <3>1
  <2> QED
    BY <1>2, <1>7, <2>4 DEF Assembled
<1> QED
  BY <1>6, <1>7

\* Triangles that are written after those that are there.
LEMMA TrianglesGrow ==
  ASSUME NEW ts, NEW out, NEW c \in Nat, NEW m \in Nat, TrianglesIn(ts, c),
         \A n \in 1..(IF call.tsize = 4 THEN c ELSE 3 * c) : out[n] = ts[n],
         \A i \in 1..m : TriangleIn(out, c + i)
  PROVE  TrianglesIn(out, c + m)
<1> SUFFICES ASSUME NEW n \in 1..c + m PROVE TriangleIn(out, n)
  BY DEF TrianglesIn
<1>1. CASE n <= c
  <2>1. n \in 1..c /\ TriangleIn(ts, n)
    BY <1>1 DEF TrianglesIn
  <2>2. CASE call.tsize = 4
    BY <2>1, <2>2 DEF TriangleIn
  <2>3. CASE call.tsize # 4
    <3>1. \A j \in 1..3 : 3 * (n - 1) + j \in 1..3 * c
      BY <2>1
    <3>2. \A j \in 1..3 : out[3 * (n - 1) + j] = ts[3 * (n - 1) + j]
      BY <2>3, <3>1
    <3> QED
      BY <2>1, <2>3, <3>2 DEF TriangleIn
  <2> QED
    BY <2>2, <2>3
<1>2. CASE ~ (n <= c)
  <2>1. n - c \in 1..m /\ c + (n - c) = n
    BY <1>2
  <2>2. TriangleIn(out, c + (n - c))
    BY <2>1
  <2> QED
    BY <2>1, <2>2
<1> QED
  BY <1>1, <1>2

\* The decoder is at triangle k.
LEMMA ScalarCode ==
  ASSUME BoundsInv, HistoryInv, Back, Own, phase = "triangles", call.kind = "scalar",
         NEW k \in 1..TriangleCount, dec.pairs = k - 1
  PROVE  /\ StreamRecorded /\ dec.data = Len(DataUpTo[CtrlSize]) + ExtraAt(k) /\ ~ (dec.data > DataEnd)
         /\ Nibble(k) = codes[k] /\ codes[k] \in 0..15
         /\ ScalarTriangle(codes[k]) = Triangle(k)
<1>1. StreamRecorded /\ TrianglesPhase(dec)
  BY DEF Back, BoundsInv, StreamWhole, StreamRecorded
<1>2. PICK t \in Nat, c \in Nat : t = TriangleCount /\ c = CodesSize /\ k \in 1..t /\ c = (t + 2 - 1) \div 2
  BY MeshCounts DEF BoundsInv, CodesSize, Up
<1>3. k \in 1..2 * c /\ k <= t /\ k \in 1..t + 1 /\ (k - 1) + 1 = k
  BY <1>2
<1>4. Nibble(k) = codes[k]
  <2>1. k \in 1..2 * CodesSize
    BY <1>2, <1>3
  <2> QED
    BY <1>1, <1>2, <1>3, <2>1, NibbleIs DEF StreamRecorded
<1>5. codes[k] \in 0..15 /\ Coded(k)
  BY <1>1, CodeIs
<1>6. PICK d : d = Len(DataUpTo[CtrlSize])
  OBVIOUS
<1>7. dec.data = d + ExtraAt(k) /\ ScalarIs(dec.state, k - 1)
  BY <1>1, <1>3, <1>6 DEF TrianglesPhase, Passed, StateIs
<1>8. ~ (d + ExtraAt(k) > DataEnd) /\ d \in Nat /\ ExtraAt(k) \in Nat /\ NextAt(k) \in Nat
  BY <1>1, <1>2, <1>3, <1>6, ExtraPlace
<1>9. PICK code \in 0..15, used \in 0..3 : code = codes[k] /\ used = ExtraCount(code)
  BY <1>5, CountsType
<1> DEFINE corner == [j \in 1..3 |-> IF j <= used THEN ByteAt(dec.data + j - 1)
                                     ELSE (dec.state.next + j - 1 - used) % ByteValues]
<1>10. ScalarTriangle(code) = Assembled(code, dec.state.tris[code \div 4 + 1], corner)
  BY <1>9 DEF ScalarTriangle
<1>11. code < 12 => dec.state.tris[code \div 4 + 1] = Triangle(k - 1 - code \div 4)
  <2> SUFFICES ASSUME code < 12 PROVE dec.state.tris[code \div 4 + 1] = Triangle(k - 1 - code \div 4)
    OBVIOUS
  <2>1. PICK q \in 0..2 : q = code \div 4 /\ q < k - 1
    BY <1>5, <1>9, CountsType DEF Coded
  <2>2. q + 1 \in 1..3 /\ q + 1 <= k - 1 /\ (k - 1) + 1 - (q + 1) = k - 1 - q
    BY <1>2, <2>1
  <2>3. dec.state.tris[q + 1] = Triangle((k - 1) + 1 - (q + 1))
    BY <1>7, <2>2 DEF ScalarIs
  <2> QED
    BY <2>1, <2>2, <2>3
<1>12. \A j \in 1..3 : \E v : v = Added(code, extra, ExtraAt(k), NextAt(k))[j] /\ corner[j] \in {v, v % ByteValues}
  <2> SUFFICES ASSUME NEW j \in 1..3
               PROVE  \E v : v = Added(code, extra, ExtraAt(k), NextAt(k))[j] /\ corner[j] \in {v, v % ByteValues}
    OBVIOUS
  <2>1. Added(code, extra, ExtraAt(k), NextAt(k))[j] =
          IF j <= used THEN extra[ExtraAt(k) + j] ELSE NextAt(k) + j - 1 - used
    BY <1>9 DEF Added
  <2>2. corner[j] = IF j <= used THEN ByteAt(d + ExtraAt(k) + j - 1) ELSE (NextAt(k) + j - 1 - used) % ByteValues
    <3>1. dec.state.next = NextAt(k)
      BY <1>3, <1>7 DEF ScalarIs
    <3> QED
      BY <1>7, <3>1
  <2>3. j <= used => ByteAt(d + ExtraAt(k) + j - 1) = extra[ExtraAt(k) + j]
    BY <1>1, <1>6, <1>9, ExtraBytes
  <2> HIDE DEF corner
  <2> QED
    BY <2>1, <2>2, <2>3
<1>13. corner = [j \in 1..3 |-> corner[j]]
  OBVIOUS
<1> HIDE DEF corner
<1>14. Assembled(code, dec.state.tris[code \div 4 + 1], corner) = Triangle(k)
  BY <1>1, <1>9, <1>11, <1>12, <1>13, CornersAre
<1> QED
  BY <1>1, <1>4, <1>5, <1>6, <1>7, <1>8, <1>9, <1>10, <1>14

\* The decoder has passed triangle k.
LEMMA ScalarNext ==
  ASSUME StreamRecorded, NEW k \in 1..TriangleCount, NEW s, ScalarIs(s, k - 1),
         NEW r, r = [next |-> s.next + NextCount(codes[k]), tris |-> <<Triangle(k), s.tris[1], s.tris[2]>>]
  PROVE  ScalarIs(r, k)
<1>1. PICK t \in Nat : t = TriangleCount /\ k \in 1..t
  BY MeshCounts DEF StreamRecorded, StreamWhole
<1>2. (k - 1) + 1 = k /\ k + 1 - 1 = k
  BY <1>1
<1>3. r.next = NextAt(k + 1)
  <2>1. Coded(k)
    BY CodeIs
  <2>2. s.next = NextAt(k)
    BY <1>2 DEF ScalarIs
  <2> QED
    BY <2>1, <2>2 DEF Coded
<1>4. ASSUME NEW j \in 1..3, j <= k PROVE r.tris[j] = Triangle(k + 1 - j)
  <2>1. j = 1 \/ j = 2 \/ j = 3
    OBVIOUS
  <2>2. CASE j = 1
    BY <1>2, <2>2
  <2>3. CASE j = 2
    <3>1. 1 <= k - 1 /\ 1 \in 1..3 /\ (k - 1) + 1 - 1 = k + 1 - 2
      BY <1>1, <1>4, <2>3
    <3>2. s.tris[1] = Triangle((k - 1) + 1 - 1)
      BY <3>1 DEF ScalarIs
    <3> QED
      BY <2>3, <3>1, <3>2
  <2>4. CASE j = 3
    <3>1. 2 <= k - 1 /\ 2 \in 1..3 /\ (k - 1) + 1 - 2 = k + 1 - 3
      BY <1>1, <1>4, <2>4
    <3>2. s.tris[2] = Triangle((k - 1) + 1 - 2)
      BY <3>1 DEF ScalarIs
    <3> QED
      BY <2>4, <3>1, <3>2
  <2> QED
    BY <2>1, <2>2, <2>3, <2>4
<1> QED
  BY <1>3, <1>4 DEF ScalarIs

LEMMA BackScalar ==
  ASSUME BoundsInv, HistoryInv, Back, DecodeScalar
  PROVE  Back'
<1>1. /\ phase = "triangles" /\ UNCHANGED <<mesh, encoderVars, stream, call>>
      /\ call.kind = "scalar" /\ dec.pairs < TriangleCount
  BY DEF DecodeScalar
<1>2. Own => stream = Encoded
  BY <1>1 DEF Back
<1>3. ASSUME Own PROVE phase' = "triangles" /\ TrianglesPhase(dec')
  <2>1. PICK k \in Nat, N \in Nat :
          k = dec.pairs + 1 /\ N = TriangleCount /\ k \in 1..N /\ dec.pairs = k - 1
    BY <1>1, MeshCounts DEF BoundsInv, Progress
  <2>2. /\ StreamRecorded /\ dec.data = Len(DataUpTo[CtrlSize]) + ExtraAt(k) /\ ~ (dec.data > DataEnd)
        /\ Nibble(k) = codes[k] /\ codes[k] \in 0..15
        /\ ScalarTriangle(codes[k]) = Triangle(k)
    BY <1>1, <1>3, <2>1, ScalarCode
  <2>3. PICK t, code, x : t = Triangle(k) /\ code = codes[k] /\ x = ExtraCount(code) /\ x \in 0..3
    BY <2>2, CountsType
  <2>4. /\ dec' = [dec EXCEPT !.data = @ + x, !.pairs = @ + 1,
                          !.reach = Larger(@, dec.data + Smaller(x, NewCorners(code) - 1) + 1),
                          !.triangles = Stored(@, WordAt(dec.pairs), Words(t)),
                          !.state = [next |-> @.next + NextCount(code),
                                     tris |-> <<t, @.tris[1], @.tris[2]>>]]
        /\ phase' = phase
    BY <2>1, <2>2, <2>3 DEF DecodeScalar
  <2>5. /\ dec'.data = dec.data + x /\ dec'.pairs = k /\ dec'.verdict = dec.verdict /\ dec'.groups = dec.groups
        /\ dec'.vertices = dec.vertices /\ dec'.triangles = Stored(dec.triangles, WordAt(k - 1), Words(t))
        /\ dec'.state = [next |-> dec.state.next + NextCount(code),
                         tris |-> <<t, dec.state.tris[1], dec.state.tris[2]>>]
    BY <2>1, <2>4 DEF BoundsInv, DecFields
  <2>6. TrianglesPhase(dec)
    BY <1>1, <1>3 DEF Back
  <2>7. ScalarIs(dec.state, k - 1) /\ TrianglesIn(dec.triangles, k - 1)
    BY <1>1, <2>1, <2>6 DEF TrianglesPhase, StateIs, Passed
  <2>8. ScalarIs(dec'.state, k)
    BY <2>1, <2>2, <2>3, <2>5, <2>7, ScalarNext
  <2>9. dec'.data = Len(DataUpTo[CtrlSize]) + ExtraAt(k + 1)
    <3>1. PICK d : d = Len(DataUpTo[CtrlSize])
      OBVIOUS
    <3>2. Coded(k) /\ ExtraAt(k) \in Nat
      BY <2>1, <2>2, CodeIs
    <3>3. d \in Nat
      BY <2>2, <3>1, ReadParts DEF StreamRecorded
    <3>4. PICK a \in Nat : a = ExtraAt(k) /\ ExtraAt(k + 1) = a + x
      BY <2>3, <3>2 DEF Coded
    <3>5. d + a + x = d + (a + x)
      BY <2>3, <3>3
    <3> QED
      BY <2>2, <2>5, <3>1, <3>4, <3>5
  <2>10. TrianglesIn(dec'.triangles, k)
    <3>1. PICK ts, out : ts = dec.triangles /\ out = dec'.triangles
      OBVIOUS
    <3>2. t \in [1..3 -> Byte]
      BY <2>1, <2>2, <2>3, CodeIs
    <3>3. PICK l \in 1..3 : l = (IF call.tsize = 4 THEN 1 ELSE 3) /\ l = Len(Words(t))
      <4>1. Len(t) = 3
        <5>1. t = [j \in 1..3 |-> t[j]]
          BY <3>2
        <5>2. PICK m \in Nat : m = 3
          OBVIOUS
        <5> QED
          BY <5>1, <5>2, LenOf
      <4>2. Len(Words(t)) = IF call.tsize = 4 THEN 1 ELSE 3
        BY <4>1 DEF Words
      <4> QED
        BY <4>2
    <3>4. PICK i \in Nat : i = WordAt(k - 1)
      BY <2>1 DEF WordAt
    <3>5. Len(ts) \in Nat /\ Len(Words(t)) \in Nat
      BY <3>1, <3>3 DEF BoundsInv, MemoryFits
    <3>6. Written(out, ts, i, Words(t))
      <4>1. Written(Stored(ts, i, Words(t)), ts, i, Words(t))
        BY <3>5, StoredWrites
      <4> QED
        BY <2>5, <3>1, <3>4, <4>1
    <3>7. \A n \in 1..(IF call.tsize = 4 THEN k - 1 ELSE 3 * (k - 1)) : out[n] = ts[n]
      BY <3>4, <3>6 DEF Written, WordAt
    <3>8. TriangleIn(out, (k - 1) + 1)
      <4>1. (k - 1) + 1 = k /\ 3 * (k - 1) \in Nat
        BY <2>1
      <4>2. CASE call.tsize = 4
        <5>1. Words(t) = <<t>> /\ i = k - 1 /\ 1 \in 1..Len(Words(t))
          BY <3>3, <3>4, <4>2 DEF Words, WordAt
        <5>2. out[i + 1] = t
          BY <3>6, <5>1 DEF Written
        <5> QED
          BY <2>3, <4>1, <4>2, <5>1, <5>2 DEF TriangleIn
      <4>3. CASE call.tsize # 4
        <5>1. Words(t) = t /\ i = 3 * (k - 1) /\ 1..Len(Words(t)) = 1..3
          BY <3>3, <3>4, <4>3 DEF Words, WordAt
        <5>2. \A j \in 1..3 : out[i + j] = t[j]
          BY <3>6, <5>1 DEF Written
        <5> QED
          BY <2>3, <4>1, <4>3, <5>1, <5>2 DEF TriangleIn
      <4> QED
        BY <4>2, <4>3
    <3>9. \A m \in 1..1 : TriangleIn(out, (k - 1) + m)
      BY <3>8
    <3>10. TrianglesIn(ts, k - 1) /\ k - 1 \in Nat /\ (k - 1) + 1 = k
      BY <2>1, <2>7, <3>1
    <3>11. PICK c \in Nat, m \in Nat : c = k - 1 /\ m = 1 /\ c + m = k
      BY <3>10
    <3>12. /\ TrianglesIn(ts, c)
           /\ \A n \in 1..(IF call.tsize = 4 THEN c ELSE 3 * c) : out[n] = ts[n]
           /\ \A j \in 1..m : TriangleIn(out, c + j)
      BY <3>7, <3>9, <3>10, <3>11
    <3>13. TrianglesIn(out, c + m)
      BY <3>12, TrianglesGrow
    <3> QED
      BY <3>1, <3>11, <3>13
  <2>11. Passed(k) = k
    BY <1>1 DEF Passed
  <2> QED
    BY <1>1, <2>4, <2>5, <2>6, <2>8, <2>9, <2>10, <2>11 DEF TrianglesPhase, StateIs
<1>4. Own => /\ phase' = "vertices" => VerticesPhase(dec')
             /\ phase' = "triangles" => TrianglesPhase(dec')
             /\ phase' = "done" => DonePhase(dec')
  BY <1>3
<1> QED
  BY <1>1, <1>2, <1>4, BackStep

-----------------------------------------------------------------------------
(* The decoder for vector units *)

\* What a source stands for when the slots hold q.
Value(q, source) == (q[source[1]] + source[2]) % ByteValues

Stands(q, sources, t) == \A j \in 1..3 : Value(q, sources[j]) = t[j]

Sources == Int \X Int

LEMMA RemainderIs ==
  ASSUME NEW b \in Nat \ {0}, NEW y \in Nat, NEW q \in Nat
  PROVE  (y + b * q) % b = y % b
<1>1. PICK k \in Nat, r \in Nat : k = y \div b /\ r = y % b /\ y = r + b * k /\ r < b
  <2>1. y % b < b
    OBVIOUS
  <2> QED
    BY <2>1, DigitIs
<1>2. b * q \in Nat /\ y + b * q \in Nat
  OBVIOUS
<1>3. PICK v \in Nat : v = y + b * q
  BY <1>2
<1>4. PICK l \in Nat, s \in Nat : l = v \div b /\ s = v % b /\ v = s + b * l /\ s < b
  <2>1. v % b < b
    OBVIOUS
  <2> QED
    BY <2>1, DigitIs
<1>5. b * (k + q) = b * k + b * q
  OBVIOUS
<1>6. PICK p \in Nat : p = k + q
  OBVIOUS
<1>7. s + b * l = r + b * p
  <2>1. b * k \in Nat /\ b * l \in Nat
    OBVIOUS
  <2> QED
    BY <1>1, <1>2, <1>3, <1>4, <1>5, <1>6, <2>1
<1>8. l = p
  <2>1. ASSUME l < p PROVE FALSE
    <3>1. PICK i \in Nat : p = l + 1 + i
      <4>1. p - l - 1 \in Nat /\ p = l + 1 + (p - l - 1)
        BY <2>1
      <4> QED
        BY <4>1
    <3>2. b * p = b * l + b + b * i /\ b * i \in Nat /\ b * l \in Nat
      BY <3>1
    <3> QED
      BY <1>4, <1>7, <3>2
  <2>2. ASSUME p < l PROVE FALSE
    <3>1. PICK i \in Nat : l = p + 1 + i
      <4>1. l - p - 1 \in Nat /\ l = p + 1 + (l - p - 1)
        BY <2>2
      <4> QED
        BY <4>1
    <3>2. b * l = b * p + b + b * i /\ b * i \in Nat /\ b * p \in Nat
      BY <3>1
    <3> QED
      BY <1>1, <1>7, <3>2
  <2> QED
    BY <2>1, <2>2
<1>9. b * l = b * p /\ b * l \in Nat
  BY <1>8
<1>10. s = r
  BY <1>7, <1>9
<1> QED
  BY <1>1, <1>3, <1>4, <1>10

LEMMA ModSum ==
  ASSUME NEW b \in Nat \ {0}, NEW x \in Nat, NEW m \in Nat
  PROVE  ((x % b) + m) % b = (x + m) % b
<1>1. PICK q \in Nat, r \in Nat : q = x \div b /\ r = x % b /\ x = r + b * q
  BY DigitIs
<1>2. PICK y \in Nat : y = r + m
  OBVIOUS
<1>3. (y + b * q) % b = y % b
  BY RemainderIs
<1>4. x + m = y + b * q
  <2>1. b * q \in Nat
    OBVIOUS
  <2> QED
    BY <1>1, <1>2, <2>1
<1> QED
  BY <1>1, <1>2, <1>3, <1>4

\* Triangles that are put together from values and from sources.
LEMMA AssembledValues ==
  ASSUME NEW code \in 0..15, NEW q, NEW old, NEW from, NEW corner, NEW fresh,
         code < 12 => Stands(q, from, old), Stands(q, fresh, corner)
  PROVE  Stands(q, Assembled(code, from, fresh), Assembled(code, old, corner))
<1> SUFFICES ASSUME NEW j \in 1..3
             PROVE  Value(q, Assembled(code, from, fresh)[j]) = Assembled(code, old, corner)[j]
  BY DEF Stands
<1>1. j = 1 \/ j = 2 \/ j = 3
  OBVIOUS
<1>2. CASE code < 12
  <2>1. Assembled(code, from, fresh) = <<Edge(from, code)[1], Edge(from, code)[2], fresh[1]>>
    BY <1>2 DEF Assembled
  <2>2. Assembled(code, old, corner) = <<Edge(old, code)[1], Edge(old, code)[2], corner[1]>>
    BY <1>2 DEF Assembled
  <2>3. Value(q, from[1]) = old[1] /\ Value(q, from[2]) = old[2] /\ Value(q, from[3]) = old[3]
    BY <1>2 DEF Stands
  <2>4. Value(q, Edge(from, code)[1]) = Edge(old, code)[1] /\ Value(q, Edge(from, code)[2]) = Edge(old, code)[2]
    BY <2>3 DEF Edge
  <2>5. Value(q, fresh[1]) = corner[1]
    BY DEF Stands
  <2> QED
    BY <1>1, <2>1, <2>2, <2>4, <2>5
<1>3. CASE ~ (code < 12)
  BY <1>3 DEF Assembled, Stands
<1> QED
  BY <1>2, <1>3

\* The extra vertices of triangle k are in the slots from e on.
HasBytes(q, e, k) == \A j \in 1..3 : j <= ExtraCount(codes[k]) => q[e + j - 1] = extra[ExtraAt(k) + j]

\* Code k, the slots of an earlier triangle and those of the extra bytes and of next give triangle k.
LEMMA SourcesGive ==
  ASSUME StreamRecorded, NEW k \in 1..TriangleCount, NEW code, code = codes[k], NEW q, NEW from,
         NEW e \in Nat, NEW n \in Nat, NEW x \in Nat,
         code < 12 => Stands(q, from, Triangle(k - 1 - code \div 4)),
         HasBytes(q, e, k),
         q[15] = x % ByteValues, NextAt(k) = x + n
  PROVE  Stands(q, Assembled(code, from, FreshSources(code, e, n)), Triangle(k))
<1>1. code \in 0..15 /\ Coded(k) /\ NextAt(k) \in Nat /\ ExtraAt(k) \in Nat
  BY CodeIs
<1>2. PICK used \in 0..3 : used = ExtraCount(code)
  BY <1>1, CountsType
<1>3. PICK b \in Nat \ {0} : b = ByteValues
  BY ByteRange
<1> DEFINE fresh == FreshSources(code, e, n)
           corner == [j \in 1..3 |-> Value(q, fresh[j])]
<1>4. \A j \in 1..3 : j <= NewCorners(code) =>
        \E v : v = Added(code, extra, ExtraAt(k), NextAt(k))[j] /\ corner[j] \in {v, v % ByteValues}
  <2> SUFFICES ASSUME NEW j \in 1..3
               PROVE  \E v : v = Added(code, extra, ExtraAt(k), NextAt(k))[j] /\ corner[j] \in {v, v % ByteValues}
    OBVIOUS
  <2>1. corner[j] = Value(q, fresh[j])
    OBVIOUS
  <2>2. CASE j <= used
    <3>1. Added(code, extra, ExtraAt(k), NextAt(k))[j] = extra[ExtraAt(k) + j]
      BY <1>2, <2>2 DEF Added
    <3>2. fresh[j] = <<e + j - 1, 0>>
      BY <1>2, <2>2 DEF FreshSources
    <3>3. q[e + j - 1] = extra[ExtraAt(k) + j]
      BY <1>2, <2>2 DEF HasBytes
    <3>4. PICK v : v = extra[ExtraAt(k) + j] /\ v \in Byte
      <4>1. PICK l \in Nat, a \in Nat : l = Len(extra) /\ a = ExtraAt(k) /\ a + used <= l
        <5>1. Len(extra) \in Nat
          BY LenProperties DEF StreamRecorded, StreamWhole, EncoderType
        <5> QED
          BY <1>1, <1>2, <5>1 DEF Coded
      <4>2. a + j \in 1..l
        BY <2>2, <4>1
      <4>3. extra[a + j] \in Byte
        BY <4>1, <4>2, ElementOfSeq DEF StreamRecorded, StreamWhole, EncoderType
      <4> QED
        BY <4>1, <4>3
    <3>5. v \in Nat /\ v + 0 = v
      BY <3>4, ByteRange DEF Byte
    <3>6. Value(q, fresh[j]) = (v + 0) % ByteValues
      BY <3>2, <3>3, <3>4 DEF Value
    <3> HIDE DEF corner, fresh
    <3>7. corner[j] = v % ByteValues
      BY <2>1, <3>5, <3>6
    <3> QED
      BY <3>1, <3>4, <3>7
  <2>3. CASE ~ (j <= used)
    <3>1. PICK m \in Nat : m = j - 1 - used
      <4>1. j - 1 - used \in Nat
        BY <2>3
      <4> QED
        BY <4>1
    <3>2. Added(code, extra, ExtraAt(k), NextAt(k))[j] = NextAt(k) + j - 1 - used
      BY <1>2, <2>3 DEF Added
    <3>3. NextAt(k) + j - 1 - used = x + (n + m)
      BY <3>1
    <3>4. fresh[j] = <<15, n + j - 1 - used>>
      BY <1>2, <2>3 DEF FreshSources
    <3>5. n + j - 1 - used = n + m /\ n + m \in Nat
      BY <3>1
    <3>6. Value(q, fresh[j]) = ((x % b) + (n + m)) % b
      <4> HIDE DEF fresh
      <4>1. PICK y \in Nat : y = n + m /\ fresh[j] = <<15, y>>
        BY <3>4, <3>5
      <4>2. PICK w \in Nat : w = x % b /\ w = q[15]
        BY <1>3
      <4>3. Value(q, fresh[j]) = (w + y) % ByteValues
        BY <4>1, <4>2 DEF Value
      <4> QED
        BY <1>3, <4>1, <4>2, <4>3
    <3>7. ((x % b) + (n + m)) % b = (x + (n + m)) % b
      BY <3>5, ModSum
    <3> HIDE DEF corner, fresh
    <3>8. corner[j] = (x + (n + m)) % b
      BY <2>1, <3>6, <3>7
    <3> QED
      BY <1>3, <3>2, <3>3, <3>8
  <2> HIDE DEF corner, fresh
  <2> QED
    BY <2>2, <2>3
<1>5. corner = [j \in 1..3 |-> corner[j]] /\ Stands(q, fresh, corner)
  BY DEF Stands
<1> HIDE DEF corner, fresh
<1>6. PICK old : old = Triangle(k - 1 - code \div 4)
  OBVIOUS
<1>7. Assembled(code, old, corner) = Triangle(k)
  BY <1>4, <1>5, <1>6, CornersAre
<1>8. code < 12 => Stands(q, from, old)
  BY <1>6
<1>9. Stands(q, Assembled(code, from, fresh), Assembled(code, old, corner))
  BY <1>1, <1>5, <1>8, AssembledValues
<1> QED
  BY <1>7, <1>9 DEF fresh

LEMMA RecentType ==
  ASSUME NEW back \in Int
  PROVE  Recent(back) \in [1..3 -> Sources] /\ \A j \in 1..3 : Recent(back)[j] = <<12 - 3 * back + j - 1, 0>>
<1>1. \A j \in 1..3 : <<12 - 3 * back + j - 1, 0>> \in Sources
  BY DEF Sources
<1> QED
  BY <1>1 DEF Recent

LEMMA SourcesType ==
  ASSUME NEW code \in 0..15, NEW from \in [1..3 -> Sources], NEW e \in Int, NEW n \in Int
  PROVE  Assembled(code, from, FreshSources(code, e, n)) \in [1..3 -> Sources]
<1>1. PICK used \in Int : used = ExtraCount(code)
  BY CountsType
<1>2. FreshSources(code, e, n) = [j \in 1..3 |-> IF j <= used THEN <<e + j - 1, 0>> ELSE <<15, n + j - 1 - used>>]
  BY <1>1 DEF FreshSources
<1>3. \A j \in 1..3 : <<e + j - 1, 0>> \in Sources /\ <<15, n + j - 1 - used>> \in Sources
  BY DEF Sources
<1>4. PICK fresh \in [1..3 -> Sources] : fresh = FreshSources(code, e, n)
  BY <1>2, <1>3
<1>5. CASE code < 12
  <2>1. PICK x \in Sources, y \in Sources, z \in Sources :
          x = Edge(from, code)[1] /\ y = Edge(from, code)[2] /\ z = fresh[1]
    <3>1. from[1] \in Sources /\ from[2] \in Sources /\ from[3] \in Sources /\ fresh[1] \in Sources
      OBVIOUS
    <3> QED
      BY <3>1 DEF Edge
  <2>2. Assembled(code, from, fresh) = <<x, y, z>>
    BY <1>5, <2>1 DEF Assembled
  <2>3. <<x, y, z>> \in [1..3 -> Sources]
    OBVIOUS
  <2> QED
    BY <1>4, <2>2, <2>3
<1>6. CASE ~ (code < 12)
  BY <1>4, <1>6 DEF Assembled
<1> QED
  BY <1>5, <1>6

\* The rows of a table.
Rows(table, first, second, n) ==
  /\ \A j \in 1..3 : table[j] = Recent(0)[j]
  /\ \A j \in 1..3 : table[3 + j] = first[j]
  /\ \A j \in 1..3 : table[6 + j] = second[j]
  /\ table[10] = <<15, n>>

SecondOf(a, b) == SecondSources(b, FirstSources(a), ExtraCount(a), NextCount(a))

LEMMA TableIs ==
  ASSUME NEW a \in 0..15, NEW b \in 0..15
  PROVE  Rows(Table(a, b), FirstSources(a), SecondOf(a, b), NextCount(a) + NextCount(b))
<1>0. PICK first, second : first = FirstSources(a) /\ second = SecondOf(a, b)
  OBVIOUS
<1>1. /\ ExtraCount(a) \in Int /\ NextCount(a) \in Int /\ NextCount(b) \in Int
      /\ a \div 4 \in Int /\ b \div 4 - 1 \in Int /\ 0 \in Int
  BY CountsType
<1>2. first \in [1..3 -> Sources]
  BY <1>0, <1>1, RecentType, SourcesType DEF FirstSources
<1>3. second \in [1..3 -> Sources]
  <2>1. PICK from \in [1..3 -> Sources] : from = IF b < 4 THEN first ELSE Recent(b \div 4 - 1)
    BY <1>1, <1>2, RecentType
  <2> QED
    BY <1>0, <1>1, <2>1, SourcesType DEF SecondSources, SecondOf
<1>4. PICK t \in Nat : t = 3
  OBVIOUS
<1>5. \A f \in [1..3 -> Sources] : f \in Seq(Sources) /\ Len(f) = 3
  BY <1>4, SeqOfFunction
<1>6. PICK r \in Seq(Sources) : r = Recent(0) /\ Len(r) = 3
  BY <1>1, <1>5, RecentType
<1>7. PICK s \in Seq(Sources), u \in Seq(Sources) : s = first /\ u = second /\ Len(s) = 3 /\ Len(u) = 3
  BY <1>2, <1>3, <1>5
<1>8. PICK m : m = <<15, NextCount(a) + NextCount(b)>> /\ m \in Sources
  <2>1. PICK x \in Int : x = NextCount(a) + NextCount(b)
    BY <1>1
  <2>2. <<15, x>> \in Sources
    BY DEF Sources
  <2> QED
    BY <2>1, <2>2
<1>9. PICK v \in Seq(Sources) : v = <<m>> /\ Len(v) = 1 /\ v[1] = m
  BY <1>8, OneSeq
<1>10. Table(a, b) = ((r \o s) \o u) \o v
  BY <1>0, <1>6, <1>7, <1>8, <1>9 DEF Table, SecondOf
<1>11. PICK q : q = Table(a, b) /\ Joined(q, r, s, u, v)
  BY <1>10, FourJoined
<1>12. PICK k \in Nat, l \in Nat, n \in Nat : k = Len(r) /\ l = Len(s) /\ n = Len(u) /\ k = 3 /\ l = 3 /\ n = 3
  BY <1>6, <1>7
<1>13. \A i \in 1..k : q[i] = r[i]
  BY <1>11, <1>12 DEF Joined
<1>14. \A i \in 1..l : q[k + i] = s[i]
  BY <1>11, <1>12 DEF Joined
<1>15. \A i \in 1..n : q[k + l + i] = u[i]
  BY <1>11, <1>12 DEF Joined
<1>16. q[k + l + n + 1] = m
  <2>1. PICK o \in Nat : o = Len(v) /\ 1 \in 1..o
    BY <1>9
  <2>2. \A i \in 1..o : q[k + l + n + i] = v[i]
    BY <1>11, <1>12, <2>1 DEF Joined
  <2> QED
    BY <1>9, <2>1, <2>2
<1>17. k + l = 6 /\ k + l + n + 1 = 10
  BY <1>12
<1>18. \A j \in 1..3 : q[j] = r[j] /\ q[3 + j] = s[j] /\ q[6 + j] = u[j]
  BY <1>12, <1>13, <1>14, <1>15, <1>17
<1>19. q[10] = m
  BY <1>16, <1>17
<1> QED
  BY <1>0, <1>6, <1>7, <1>8, <1>11, <1>18, <1>19 DEF Rows

\* The slots that the sources refer to.
Patched(s, i) == [slot \in 0..15 |-> IF slot < 6 THEN ByteAt(i + slot) ELSE s[slot]]

\* The slots after the sources of table are taken from q.
Shuffled(table, q) ==
  [slot \in 0..15 |-> IF slot < 6 THEN 0 ELSE (q[table[slot - 5][1]] + table[slot - 5][2]) % ByteValues]

LEMMA ShuffledIs ==
  ASSUME NEW s, NEW p, NEW i
  PROVE  StateAfter(s, p, i) = Shuffled(Table(Nibble(2 * p - 1), Nibble(2 * p)), Patched(s, i))
  BY DEF StateAfter, Shuffled, Patched

\* What the slots hold after two triangles.
AfterIs(r, q, first, second, n) ==
  /\ \A j \in 1..3 : r[5 + j] = Value(q, Recent(0)[j])
  /\ \A j \in 1..3 : r[8 + j] = Value(q, first[j])
  /\ \A j \in 1..3 : r[11 + j] = Value(q, second[j])
  /\ r[15] = Value(q, <<15, n>>)

LEMMA SlotsAfter ==
  ASSUME NEW s, NEW p, NEW i, NEW r, r = StateAfter(s, p, i), NEW q, q = Patched(s, i),
         NEW a \in 0..15, a = Nibble(2 * p - 1), NEW b \in 0..15, b = Nibble(2 * p),
         NEW first, first = FirstSources(a), NEW second, second = SecondOf(a, b)
  PROVE  AfterIs(r, q, first, second, NextCount(a) + NextCount(b))
<1>1. PICK t : t = Table(a, b)
  OBVIOUS
<1>2. r = [slot \in 0..15 |-> IF slot < 6 THEN 0 ELSE (q[t[slot - 5][1]] + t[slot - 5][2]) % ByteValues]
  <2>1. t = Table(Nibble(2 * p - 1), Nibble(2 * p))
    BY <1>1
  <2>2. r = Shuffled(t, q)
    BY <2>1, ShuffledIs
  <2> QED
    BY <2>2 DEF Shuffled
<1>3. \A slot \in 6..15 : r[slot] = Value(q, t[slot - 5])
  BY <1>2 DEF Value
<1>4. /\ \A j \in 1..3 : t[j] = Recent(0)[j]
      /\ \A j \in 1..3 : t[3 + j] = first[j]
      /\ \A j \in 1..3 : t[6 + j] = second[j]
      /\ t[10] = <<15, NextCount(a) + NextCount(b)>>
  <2>1. Rows(Table(a, b), FirstSources(a), SecondOf(a, b), NextCount(a) + NextCount(b))
    BY TableIs
  <2> QED
    BY <1>1, <2>1 DEF Rows
<1>5. \A j \in 1..3 : r[5 + j] = Value(q, Recent(0)[j])
  <2> SUFFICES ASSUME NEW j \in 1..3 PROVE r[5 + j] = Value(q, Recent(0)[j])
    OBVIOUS
  <2>1. 5 + j \in 6..15 /\ (5 + j) - 5 = j
    OBVIOUS
  <2> QED
    BY <1>3, <1>4, <2>1
<1>6. \A j \in 1..3 : r[8 + j] = Value(q, first[j])
  <2> SUFFICES ASSUME NEW j \in 1..3 PROVE r[8 + j] = Value(q, first[j])
    OBVIOUS
  <2>1. 8 + j \in 6..15 /\ (8 + j) - 5 = 3 + j
    OBVIOUS
  <2> QED
    BY <1>3, <1>4, <2>1
<1>7. \A j \in 1..3 : r[11 + j] = Value(q, second[j])
  <2> SUFFICES ASSUME NEW j \in 1..3 PROVE r[11 + j] = Value(q, second[j])
    OBVIOUS
  <2>1. 11 + j \in 6..15 /\ (11 + j) - 5 = 6 + j
    OBVIOUS
  <2> QED
    BY <1>3, <1>4, <2>1
<1>8. r[15] = Value(q, <<15, NextCount(a) + NextCount(b)>>)
  <2>1. 15 \in 6..15 /\ 15 - 5 = 10
    OBVIOUS
  <2> QED
    BY <1>3, <1>4, <2>1
<1> QED
  BY <1>5, <1>6, <1>7, <1>8 DEF AfterIs

\* The slots of an earlier triangle.
LEMMA RecentStands ==
  ASSUME NEW s, NEW i, NEW q, q = Patched(s, i), NEW k \in Nat, VectorIs(s, k),
         NEW back \in 0..2, back < k, Triangle(k - back) \in [1..3 -> Byte]
  PROVE  Stands(q, Recent(back), Triangle(k - back))
<1> SUFFICES ASSUME NEW j \in 1..3 PROVE Value(q, Recent(back)[j]) = Triangle(k - back)[j]
  BY DEF Stands
<1>1. PICK n \in 6..14 : n = 12 - 3 * back + j - 1
  <2>1. back = 0 \/ back = 1 \/ back = 2
    OBVIOUS
  <2>2. 12 - 3 * back + j - 1 \in 6..14
    BY <2>1
  <2> QED
    BY <2>2
<1>2. Recent(back)[j] = <<n, 0>>
  <2>1. back \in Int
    OBVIOUS
  <2>2. \A l \in 1..3 : Recent(back)[l] = <<12 - 3 * back + l - 1, 0>>
    BY <2>1, RecentType
  <2> QED
    BY <1>1, <2>2
<1>3. q[n] = s[n]
  <2>1. n \in 0..15 /\ ~ (n < 6)
    BY <1>1
  <2> QED
    BY <2>1 DEF Patched
<1>4. s[n] = Triangle(k - back)[j]
  BY <1>1 DEF VectorIs
<1>5. PICK b \in Nat \ {0}, v \in Nat : b = ByteValues /\ v = Triangle(k - back)[j] /\ v < b
  <2>1. PICK b \in Nat \ {0} : b = ByteValues
    BY ByteRange
  <2>2. Triangle(k - back)[j] \in Byte
    OBVIOUS
  <2> QED
    BY <2>1, <2>2 DEF Byte
<1>6. Value(q, <<n, 0>>) = (v + 0) % b
  BY <1>3, <1>4, <1>5 DEF Value
<1>7. (v + 0) % b = v
  BY <1>5, SmallMod
<1> QED
  BY <1>2, <1>5, <1>6, <1>7

\* A pair: code k + 1 and code k + 2, or no second one.
LEMMA PairCodes ==
  ASSUME StreamRecorded, NEW p \in 1..CodesSize, NEW k, k = 2 * (p - 1)
  PROVE  /\ k \in Nat /\ k + 1 \in 1..TriangleCount
         /\ Nibble(2 * p - 1) = codes[k + 1] /\ codes[k + 1] \in 0..15
         /\ Nibble(2 * p) = (IF k + 2 <= TriangleCount THEN codes[k + 2] ELSE 0)
         /\ k + 2 <= TriangleCount => k + 2 \in 1..TriangleCount /\ codes[k + 2] \in 0..15
<1>1. PICK t \in Nat, c \in Nat : t = TriangleCount /\ c = CodesSize /\ c = (t + 2 - 1) \div 2
  BY MeshCounts DEF StreamRecorded, StreamWhole, CodesSize, Up
<1>2. PICK m \in Nat : m = p /\ 1 <= m /\ m <= c /\ 2 * m <= t + 1
  <2>1. p \in 1..c
    BY <1>1
  <2>2. p \in Nat /\ 1 <= p /\ p <= c /\ 2 * p <= t + 1
    BY <1>1, <2>1
  <2> QED
    BY <2>2
<1>3. /\ k \in Nat /\ k + 1 \in 1..t /\ 2 * p - 1 = k + 1 /\ 2 * p = k + 2
      /\ k + 1 \in 1..2 * c /\ k + 2 \in 1..2 * c /\ k + 2 \in Nat \ {0}
  BY <1>2
<1>4. k + 2 <= t => k + 2 \in 1..t
  BY <1>3
<1>5. \A j \in 1..t : codes[j] \in 0..15
  BY <1>1, CodeIs
<1>6. k + 1 <= t
  BY <1>3
<1>7. Nibble(k + 1) = codes[k + 1]
  <2>1. k + 1 \in 1..2 * CodesSize
    BY <1>1, <1>3
  <2> QED
    BY <1>1, <1>6, <2>1, NibbleIs DEF StreamRecorded
<1>8. Nibble(k + 2) = IF k + 2 <= TriangleCount THEN codes[k + 2] ELSE 0
  <2>1. k + 2 \in 1..2 * CodesSize
    BY <1>1, <1>3
  <2> QED
    BY <2>1, NibbleIs DEF StreamRecorded
<1> QED
  BY <1>1, <1>3, <1>4, <1>5, <1>7, <1>8

\* Extra bytes in the slots.
LEMMA BytesPatched ==
  ASSUME StreamRecorded, NEW d, d = Len(DataUpTo[CtrlSize]), NEW k \in 1..TriangleCount, NEW e \in 0..3,
         NEW i \in Nat, i + e = d + ExtraAt(k), NEW s, NEW q, q = Patched(s, i)
  PROVE  HasBytes(q, e, k)
<1> SUFFICES ASSUME NEW j \in 1..3, j <= ExtraCount(codes[k]) PROVE q[e + j - 1] = extra[ExtraAt(k) + j]
  BY DEF HasBytes
<1>1. ByteAt(d + ExtraAt(k) + j - 1) = extra[ExtraAt(k) + j]
  BY ExtraBytes
<1>2. PICK n \in 0..5 : n = e + j - 1
  <2>1. e + j - 1 \in 0..5
    OBVIOUS
  <2> QED
    BY <2>1
<1>3. q[n] = ByteAt(i + n)
  <2>1. n \in 0..15 /\ n < 6
    BY <1>2
  <2> QED
    BY <2>1 DEF Patched
<1>4. i + n = d + ExtraAt(k) + j - 1
  <2>1. PICK x \in Nat : x = d + ExtraAt(k) /\ x = i + e
    OBVIOUS
  <2>2. i + n = x + j - 1
    BY <1>2, <2>1
  <2> QED
    BY <2>1, <2>2
<1> QED
  BY <1>1, <1>2, <1>3, <1>4

\* The first triangle of a pair.
LEMMA FirstGives ==
  ASSUME StreamRecorded, NEW d, d = Len(DataUpTo[CtrlSize]), NEW k \in Nat, k + 1 \in 1..TriangleCount,
         NEW s, VectorIs(s, k), NEW i \in Nat, i = d + ExtraAt(k + 1), NEW q, q = Patched(s, i)
  PROVE  Stands(q, FirstSources(codes[k + 1]), Triangle(k + 1))
<1>1. PICK t \in Nat : t = TriangleCount /\ k + 1 \in 1..t
  BY MeshCounts DEF StreamRecorded, StreamWhole
<1>2. codes[k + 1] \in 0..15 /\ Coded(k + 1) /\ NextAt(k + 1) \in Nat
  BY CodeIs
<1>3. PICK a \in 0..15, x \in Nat : a = codes[k + 1] /\ x = NextAt(k + 1) /\ NextAt(k + 1) = x + 0
  BY <1>2
<1>4. q[15] = x % ByteValues
  <2>1. q[15] = s[15]
    BY DEF Patched
  <2> QED
    BY <1>3, <2>1 DEF VectorIs
<1>5. a < 12 => Stands(q, Recent(a \div 4), Triangle(k + 1 - 1 - a \div 4))
  <2> SUFFICES ASSUME a < 12 PROVE Stands(q, Recent(a \div 4), Triangle(k + 1 - 1 - a \div 4))
    OBVIOUS
  <2>1. PICK back \in 0..2 : back = a \div 4 /\ back < k + 1 - 1
    <3>1. a \div 4 \in 0..2
      BY CountsType
    <3>2. a \div 4 < k + 1 - 1
      BY <1>2, <1>3 DEF Coded
    <3> QED
      BY <3>1, <3>2
  <2>2. back < k /\ k - back \in 1..t /\ k + 1 - 1 - back = k - back
    BY <1>1, <2>1
  <2>3. Triangle(k - back) \in [1..3 -> Byte]
    BY <1>1, <2>2, CodeIs
  <2>4. Stands(q, Recent(back), Triangle(k - back))
    BY <2>2, <2>3, RecentStands
  <2> QED
    BY <2>1, <2>2, <2>4
<1>6. PICK m \in 1..TriangleCount, e \in Nat : m = k + 1 /\ e = 0
  OBVIOUS
<1>7. /\ a = codes[m] /\ NextAt(m) = x + e
      /\ a < 12 => Stands(q, Recent(a \div 4), Triangle(m - 1 - a \div 4))
  BY <1>3, <1>5, <1>6
<1>8. HasBytes(q, e, m)
  <2>1. e \in 0..3 /\ i + e = d + ExtraAt(m)
    BY <1>6
  <2> QED
    BY <1>6, <2>1, BytesPatched
<1>9. Stands(q, Assembled(a, Recent(a \div 4), FreshSources(a, e, e)), Triangle(m))
  BY <1>4, <1>8, <1>6, <1>7, SourcesGive
<1> QED
  BY <1>3, <1>6, <1>9 DEF FirstSources

\* The second one.
LEMMA SecondGives ==
  ASSUME StreamRecorded, NEW d, d = Len(DataUpTo[CtrlSize]), NEW k \in Nat, k + 1 \in 1..TriangleCount,
         k + 2 \in 1..TriangleCount,
         NEW s, VectorIs(s, k), NEW i \in Nat, i = d + ExtraAt(k + 1), NEW q, q = Patched(s, i)
  PROVE  Stands(q, SecondOf(codes[k + 1], codes[k + 2]), Triangle(k + 2))
<1>1. PICK t \in Nat : t = TriangleCount /\ k + 1 \in 1..t /\ k + 2 \in 1..t
  BY MeshCounts DEF StreamRecorded, StreamWhole
<1>2. /\ codes[k + 1] \in 0..15 /\ Coded(k + 1) /\ NextAt(k + 1) \in Nat /\ ExtraAt(k + 1) \in Nat
      /\ codes[k + 2] \in 0..15 /\ Coded(k + 2)
  BY CodeIs
<1>3. PICK a \in 0..15, b \in 0..15, x \in Nat : a = codes[k + 1] /\ b = codes[k + 2] /\ x = NextAt(k + 1)
  BY <1>2
<1>4. PICK e \in 0..3, n \in 0..3 : e = ExtraCount(a) /\ n = NextCount(a)
  BY CountsType
<1>5. (k + 1) + 1 = k + 2
  OBVIOUS
<1>6. NextAt(k + 2) = x + n /\ ExtraAt(k + 2) = ExtraAt(k + 1) + e
  BY <1>2, <1>3, <1>4, <1>5 DEF Coded
<1>7. q[15] = x % ByteValues
  <2>1. q[15] = s[15]
    BY DEF Patched
  <2> QED
    BY <1>3, <2>1 DEF VectorIs
<1>8. PICK from : from = IF b < 4 THEN FirstSources(a) ELSE Recent(b \div 4 - 1)
  OBVIOUS
<1>9. b < 12 => Stands(q, from, Triangle(k + 2 - 1 - b \div 4))
  <2> SUFFICES ASSUME b < 12 PROVE Stands(q, from, Triangle(k + 2 - 1 - b \div 4))
    OBVIOUS
  <2>1. PICK far \in 0..2 : far = b \div 4 /\ far < k + 2 - 1 /\ (b < 4 <=> far = 0)
    <3>1. b \div 4 \in 0..2 /\ b \div 4 < k + 2 - 1
      <4>1. b \div 4 \in 0..2
        BY CountsType
      <4>2. b \div 4 < k + 2 - 1
        BY <1>2, <1>3 DEF Coded
      <4> QED
        BY <4>1, <4>2
    <3>2. b < 4 <=> b \div 4 = 0
      OBVIOUS
    <3> QED
      BY <3>1, <3>2
  <2>2. CASE b < 4
    <3>1. Stands(q, FirstSources(a), Triangle(k + 1))
      BY <1>3, FirstGives
    <3>2. k + 2 - 1 - far = k + 1
      BY <2>1, <2>2
    <3> QED
      BY <1>8, <2>1, <2>2, <3>1, <3>2
  <2>3. CASE ~ (b < 4)
    <3>1. PICK back \in 0..2 : back = far - 1 /\ back < k /\ k - back \in 1..t /\ k + 2 - 1 - far = k - back
      <4>1. far - 1 \in 0..2 /\ far - 1 < k /\ k - (far - 1) \in 1..t /\ k + 2 - 1 - far = k - (far - 1)
        BY <1>1, <2>1, <2>3
      <4> QED
        BY <4>1
    <3>2. Triangle(k - back) \in [1..3 -> Byte]
      BY <1>1, <3>1, CodeIs
    <3>3. Stands(q, Recent(back), Triangle(k - back))
      BY <3>1, <3>2, RecentStands
    <3> QED
      BY <1>8, <2>1, <2>3, <3>1, <3>3
  <2> QED
    BY <2>2, <2>3
<1>10. PICK m \in 1..TriangleCount : m = k + 2
  OBVIOUS
<1>11. i + e = d + ExtraAt(m)
  <2>1. d \in Nat
    <3>1. k + 1 \in 1..TriangleCount + 1
      BY <1>1
    <3> QED
      BY <3>1, ExtraPlace
  <2>2. PICK y \in Nat : y = ExtraAt(k + 1)
    BY <1>2
  <2>3. (d + y) + e = d + (y + e)
    <3>1. e \in Nat
      BY <1>4
    <3> QED
      BY <2>1, <2>2, <3>1
  <2> QED
    BY <1>6, <1>10, <2>2, <2>3
<1>12. HasBytes(q, e, m)
  <2>1. e \in 0..3 /\ m \in 1..TriangleCount
    BY <1>4, <1>10
  <2> QED
    BY <1>11, <2>1, BytesPatched
<1>14. /\ b = codes[m] /\ NextAt(m) = x + n /\ e \in Nat /\ n \in Nat
       /\ b < 12 => Stands(q, from, Triangle(m - 1 - b \div 4))
  <2>1. b = codes[m] /\ NextAt(m) = x + n
    BY <1>3, <1>6, <1>10
  <2>2. b < 12 => Stands(q, from, Triangle(m - 1 - b \div 4))
    BY <1>9, <1>10
  <2>3. e \in Nat /\ n \in Nat
    BY <1>4
  <2> QED
    BY <2>1, <2>2, <2>3
<1>15. Stands(q, Assembled(b, from, FreshSources(b, e, n)), Triangle(m))
  BY <1>7, <1>10, <1>12, <1>14, SourcesGive
<1> QED
  BY <1>3, <1>4, <1>8, <1>10, <1>15 DEF SecondOf, SecondSources

\* The extra bytes of a pair.
LEMMA PairData ==
  ASSUME StreamRecorded, NEW d, d = Len(DataUpTo[CtrlSize]), NEW p \in 1..CodesSize, NEW k, k = 2 * (p - 1),
         NEW i, i = d + ExtraAt(k + 1)
  PROVE  i + PairExtra(p) = d + ExtraAt(Smaller(TriangleCount, k + 2) + 1)
<1>1. /\ k \in Nat /\ k + 1 \in 1..TriangleCount
      /\ Nibble(2 * p - 1) = codes[k + 1] /\ codes[k + 1] \in 0..15
      /\ Nibble(2 * p) = (IF k + 2 <= TriangleCount THEN codes[k + 2] ELSE 0)
      /\ k + 2 <= TriangleCount => k + 2 \in 1..TriangleCount /\ codes[k + 2] \in 0..15
  BY PairCodes
<1>2. PICK t \in Nat : t = TriangleCount /\ k + 1 <= t
  BY <1>1, MeshCounts DEF StreamRecorded, StreamWhole
<1>3. Coded(k + 1) /\ ExtraAt(k + 1) \in Nat
  BY <1>1, CodeIs
<1>4. d \in Nat
  <2>1. k + 1 \in 1..TriangleCount + 1
    BY <1>1, <1>2
  <2> QED
    BY <2>1, ExtraPlace
<1>5. PICK e \in 0..3, y \in Nat : e = ExtraCount(codes[k + 1]) /\ y = ExtraAt(k + 1)
  BY <1>1, <1>3, CountsType
<1>6. ExtraAt(k + 2) = y + e
  <2>1. (k + 1) + 1 = k + 2
    BY <1>1
  <2> QED
    BY <1>3, <1>5, <2>1 DEF Coded
<1>7. CASE k + 2 <= t
  <2>1. k + 2 \in 1..TriangleCount /\ codes[k + 2] \in 0..15 /\ Nibble(2 * p) = codes[k + 2]
    BY <1>1, <1>2, <1>7
  <2>2. Coded(k + 2)
    BY <2>1, CodeIs
  <2>3. PICK f \in 0..3 : f = ExtraCount(codes[k + 2])
    BY <2>1, CountsType
  <2>4. Smaller(t, k + 2) + 1 = (k + 2) + 1
    BY <1>1, <1>7 DEF Smaller
  <2>5. ExtraAt((k + 2) + 1) = y + e + f
    BY <1>6, <2>2, <2>3 DEF Coded
  <2>6. PairExtra(p) = e + f
    BY <1>1, <1>5, <2>1, <2>3 DEF PairExtra, TableExtra
  <2>7. (d + y) + (e + f) = d + (y + e + f)
    <3>1. PICK u \in Nat, v \in Nat, w \in Nat, z \in Nat : u = d /\ v = y /\ w = e /\ z = f
      BY <1>4, <1>5, <2>3
    <3>2. (u + v) + (w + z) = u + (v + w + z)
      OBVIOUS
    <3> QED
      BY <3>1, <3>2
  <2> QED
    BY <1>2, <1>5, <2>4, <2>5, <2>6, <2>7
<1>8. CASE ~ (k + 2 <= t)
  <2>1. t = k + 1 /\ t < k + 2 /\ t + 1 = k + 2
    BY <1>1, <1>2, <1>8
  <2>2. Smaller(t, k + 2) + 1 = k + 2
    BY <2>1 DEF Smaller
  <2>3. PairExtra(p) = e + 0
    <3>1. ExtraCount(0) = 0
      BY DEF ExtraCount
    <3>2. Nibble(2 * p) = 0
      BY <1>1, <1>2, <1>8
    <3> QED
      BY <1>1, <1>5, <3>1, <3>2 DEF PairExtra, TableExtra
  <2>4. (d + y) + (e + 0) = d + (y + e)
    BY <1>4, <1>5
  <2> QED
    BY <1>2, <1>5, <1>6, <2>2, <2>3, <2>4
<1> QED
  BY <1>7, <1>8

\* The state after the pair that starts with triangle k + 1.
PairIs(r, k) ==
  /\ \A j \in 1..3 : r[8 + j] = Triangle(k + 1)[j]
  /\ k >= 1 => \A j \in 1..3 : r[5 + j] = Triangle(k)[j]
  /\ k + 2 <= TriangleCount => VectorIs(r, k + 2)

LEMMA StateAfterIs ==
  ASSUME StreamRecorded, NEW d, d = Len(DataUpTo[CtrlSize]), NEW p \in 1..CodesSize, NEW k, k = 2 * (p - 1),
         NEW s, VectorIs(s, k), NEW i, i = d + ExtraAt(k + 1)
  PROVE  PairIs(StateAfter(s, p, i), k)
<1>1. /\ k \in Nat /\ k + 1 \in 1..TriangleCount
      /\ Nibble(2 * p - 1) = codes[k + 1] /\ codes[k + 1] \in 0..15
      /\ Nibble(2 * p) = (IF k + 2 <= TriangleCount THEN codes[k + 2] ELSE 0)
      /\ k + 2 <= TriangleCount => k + 2 \in 1..TriangleCount /\ codes[k + 2] \in 0..15
  BY PairCodes
<1>2. PICK t \in Nat : t = TriangleCount /\ k + 1 \in 1..t
  BY <1>1, MeshCounts DEF StreamRecorded, StreamWhole
<1>3. i \in Nat
  <2>1. k + 1 \in 1..TriangleCount + 1
    BY <1>1, <1>2
  <2>2. d \in Nat /\ ExtraAt(k + 1) \in Nat
    BY <2>1, ExtraPlace
  <2> QED
    BY <2>2
<1>4. PICK a \in 0..15, b \in 0..15 : a = codes[k + 1] /\ a = Nibble(2 * p - 1) /\ b = Nibble(2 * p)
  <2>1. CASE k + 2 <= TriangleCount
    BY <1>1, <2>1
  <2>2. CASE ~ (k + 2 <= TriangleCount)
    <3>1. PICK b \in 0..15 : b = 0
      OBVIOUS
    <3>2. Nibble(2 * p) = b
      BY <1>1, <2>2, <3>1
    <3>3. codes[k + 1] \in 0..15 /\ codes[k + 1] = Nibble(2 * p - 1)
      BY <1>1
    <3> QED
      BY <3>2, <3>3
  <2> QED
    BY <2>1, <2>2
<1>5. PICK q, r, first, second :
        /\ q = Patched(s, i) /\ r = StateAfter(s, p, i)
        /\ first = FirstSources(a) /\ second = SecondOf(a, b)
  OBVIOUS
<1>6. /\ \A j \in 1..3 : r[5 + j] = Value(q, Recent(0)[j])
      /\ \A j \in 1..3 : r[8 + j] = Value(q, first[j])
      /\ \A j \in 1..3 : r[11 + j] = Value(q, second[j])
      /\ r[15] = Value(q, <<15, NextCount(a) + NextCount(b)>>)
  <2>1. AfterIs(r, q, first, second, NextCount(a) + NextCount(b))
    BY <1>4, <1>5, SlotsAfter
  <2> QED
    BY <2>1 DEF AfterIs
<1>7. \A j \in 1..3 : r[8 + j] = Triangle(k + 1)[j]
  <2>1. Stands(q, FirstSources(codes[k + 1]), Triangle(k + 1))
    BY <1>1, <1>3, <1>5, FirstGives
  <2>2. Stands(q, first, Triangle(k + 1))
    BY <1>4, <1>5, <2>1
  <2> QED
    BY <1>6, <2>2 DEF Stands
<1>8. k >= 1 => \A j \in 1..3 : r[5 + j] = Triangle(k)[j]
  <2> SUFFICES ASSUME k >= 1 PROVE \A j \in 1..3 : r[5 + j] = Triangle(k)[j]
    OBVIOUS
  <2>1. PICK back \in 0..2 : back = 0 /\ back < k /\ k - back = k
    BY <1>1
  <2>2. k \in 1..t
    BY <1>1, <1>2
  <2>3. Triangle(k - back) \in [1..3 -> Byte]
    BY <1>2, <2>1, <2>2, CodeIs
  <2>4. Stands(q, Recent(back), Triangle(k - back))
    BY <1>1, <1>5, <2>1, <2>3, RecentStands
  <2>5. Stands(q, Recent(0), Triangle(k))
    BY <2>1, <2>4
  <2> QED
    BY <1>6, <2>5 DEF Stands
<1>9. ASSUME k + 2 <= TriangleCount PROVE VectorIs(r, k + 2)
  <2>1. k + 2 \in 1..TriangleCount /\ b = codes[k + 2]
    BY <1>1, <1>4, <1>9
  <2>2. \A j \in 1..3 : r[11 + j] = Triangle(k + 2)[j]
    <3>1. Stands(q, SecondOf(codes[k + 1], codes[k + 2]), Triangle(k + 2))
      BY <1>1, <1>3, <1>5, <2>1, SecondGives
    <3>2. Stands(q, second, Triangle(k + 2))
      BY <1>4, <1>5, <2>1, <3>1
    <3> QED
      BY <1>6, <3>2 DEF Stands
  <2>3. r[15] = NextAt((k + 2) + 1) % ByteValues
    <3>1. Coded(k + 1) /\ Coded(k + 2) /\ NextAt(k + 1) \in Nat
      BY <1>1, <2>1, CodeIs
    <3>2. PICK x \in Nat, m \in 0..3, n \in 0..3 : x = NextAt(k + 1) /\ m = NextCount(a) /\ n = NextCount(b)
      BY <3>1, CountsType
    <3>3. NextAt((k + 2) + 1) = x + m + n
      <4>1. (k + 1) + 1 = k + 2
        BY <1>1
      <4>2. NextAt(k + 2) = x + m
        BY <1>4, <3>1, <3>2, <4>1 DEF Coded
      <4> QED
        BY <2>1, <3>1, <3>2, <4>2 DEF Coded
    <3>4. PICK c \in Nat \ {0} : c = ByteValues
      BY ByteRange
    <3>5. q[15] = x % c
      <4>1. q[15] = s[15]
        BY <1>5 DEF Patched
      <4> QED
        BY <3>2, <3>4, <4>1 DEF VectorIs
    <3>6. PICK y \in Nat : y = m + n /\ x + y = x + m + n
      <4>1. x \in Nat /\ m \in Nat /\ n \in Nat
        BY <3>2
      <4>2. m + n \in Nat /\ x + (m + n) = x + m + n
        BY <4>1
      <4> QED
        BY <4>2
    <3>7. Value(q, <<15, y>>) = ((x % c) + y) % c
      <4>1. PICK w \in Nat : w = x % c /\ w = q[15]
        BY <3>2, <3>4, <3>5
      <4>2. Value(q, <<15, y>>) = (w + y) % c
        BY <3>4, <4>1 DEF Value
      <4> QED
        BY <4>1, <4>2
    <3>8. ((x % c) + y) % c = (x + y) % c
      <4>1. x \in Nat /\ y \in Nat /\ c \in Nat \ {0}
        BY <3>2, <3>4, <3>6
      <4> QED
        BY <4>1, ModSum
    <3>9. r[15] = Value(q, <<15, y>>)
      BY <1>6, <3>2, <3>6
    <3> QED
      BY <3>3, <3>4, <3>6, <3>7, <3>8, <3>9
  <2>4. ASSUME NEW back \in 0..2, NEW j \in 1..3, back < k + 2
        PROVE  r[12 - 3 * back + j - 1] = Triangle(k + 2 - back)[j]
    <3>1. back = 0 \/ back = 1 \/ back = 2
      OBVIOUS
    <3>2. CASE back = 0
      <4>1. 12 - 3 * back + j - 1 = 11 + j /\ k + 2 - back = k + 2
        BY <1>1, <3>2
      <4> QED
        BY <2>2, <4>1
    <3>3. CASE back = 1
      <4>1. 12 - 3 * back + j - 1 = 8 + j /\ k + 2 - back = k + 1
        BY <1>1, <3>3
      <4> QED
        BY <1>7, <4>1
    <3>4. CASE back = 2
      <4>1. 12 - 3 * back + j - 1 = 5 + j /\ k + 2 - back = k /\ k >= 1
        BY <1>1, <2>4, <3>4
      <4> QED
        BY <1>8, <4>1
    <3> QED
      BY <3>1, <3>2, <3>3, <3>4
  <2> QED
    BY <2>3, <2>4 DEF VectorIs
<1> QED
  BY <1>5, <1>7, <1>8, <1>9 DEF PairIs


LEMMA SmallerIs ==
  ASSUME NEW t \in Nat, NEW k \in Nat
  PROVE  /\ Smaller(t, k) \in Nat
         /\ k <= t => Smaller(t, k) = k
         /\ t <= k => Smaller(t, k) = t
  BY DEF Smaller

\* What a decoder for vector units finds.
LEMMA VectorPlace ==
  ASSUME BoundsInv, HistoryInv, Back, Own, phase = "triangles", call.kind # "scalar",
         NEW p \in 1..CodesSize, dec.pairs = p - 1, NEW k, k = 2 * (p - 1)
  PROVE  /\ StreamRecorded /\ k \in Nat /\ k + 1 \in 1..TriangleCount
         /\ dec.data = Len(DataUpTo[CtrlSize]) + ExtraAt(k + 1) /\ ~ (dec.data > DataEnd)
         /\ VectorIs(dec.state, k) /\ TrianglesIn(dec.triangles, k)
         /\ TrianglesPhase(dec)
<1>1. StreamRecorded /\ TrianglesPhase(dec)
  BY DEF Back, BoundsInv, StreamWhole, StreamRecorded
<1>2. k \in Nat /\ k + 1 \in 1..TriangleCount
  BY <1>1, PairCodes
<1>3. PICK t \in Nat : t = TriangleCount /\ k + 1 \in 1..t /\ k <= t /\ k + 1 \in 1..t + 1
  BY <1>2, MeshCounts DEF BoundsInv
<1>4. Passed(dec.pairs) = k /\ 2 * dec.pairs = k
  BY <1>2, <1>3, SmallerIs DEF Passed
<1>5. PICK d : d = Len(DataUpTo[CtrlSize])
  OBVIOUS
<1>6. dec.data = d + ExtraAt(k + 1)
  BY <1>1, <1>4, <1>5 DEF TrianglesPhase
<1>7. ~ (d + ExtraAt(k + 1) > DataEnd)
  BY <1>1, <1>3, <1>5, ExtraPlace
<1>8. VectorIs(dec.state, k)
  BY <1>1, <1>3, <1>4 DEF TrianglesPhase, StateIs
<1>9. TrianglesIn(dec.triangles, k)
  BY <1>1, <1>4 DEF TrianglesPhase
<1> QED
  BY <1>1, <1>2, <1>5, <1>6, <1>7, <1>8, <1>9

\* What a decoder for vector units has to reach.
LEMMA VectorPhase ==
  ASSUME TrianglesPhase(dec), call.kind # "scalar", NEW e, NEW p, e.pairs = p,
         e.verdict = dec.verdict, e.groups = dec.groups, e.vertices = dec.vertices,
         e.data = Len(DataUpTo[CtrlSize]) + ExtraAt(Smaller(TriangleCount, 2 * p) + 1),
         TrianglesIn(e.triangles, Smaller(TriangleCount, 2 * p)),
         2 * p <= TriangleCount => VectorIs(e.state, 2 * p)
  PROVE  TrianglesPhase(e)
  BY DEF TrianglesPhase, Passed, StateIs

\* Slots as bytes in memory.
SlotsAre(v, s, from, n) == Len(v) = n /\ \A j \in 1..n : from + j - 1 <= 15 => v[j] = s[from + j - 1]

LEMMA SlotsPlace ==
  ASSUME NEW s, NEW from \in Nat, NEW n \in Nat, NEW last, last = from + n - 1
  PROVE  SlotsAre(Slots(s, from, last), s, from, n)
<1>1. last - from + 1 = n
  OBVIOUS
<1>2. PICK v : v = Slots(s, from, last)
  OBVIOUS
<1>3. v = [j \in 1..n |-> IF from + j - 1 > 15 THEN 0 ELSE s[from + j - 1]]
  BY <1>1, <1>2 DEF Slots
<1>4. Len(v) = n
  <2>1. v = [j \in 1..n |-> v[j]]
    BY <1>3
  <2> QED
    BY <2>1, LenOf
<1>5. \A j \in 1..n : from + j - 1 <= 15 => v[j] = s[from + j - 1]
  BY <1>3
<1>6. SlotsAre(v, s, from, n)
  BY <1>4, <1>5 DEF SlotsAre
<1> QED
  BY <1>2, <1>6

\* Slots as a triangle.
LEMMA WordIsTriangle ==
  ASSUME NEW s, NEW from \in 1..13, NEW t \in [1..3 -> Byte], \A j \in 1..3 : s[from - 1 + j] = t[j],
         NEW last, last = from + 2
  PROVE  Slots(s, from, last) = t
<1>1. last - from + 1 = 3
  OBVIOUS
<1>2. PICK v : v = Slots(s, from, last)
  OBVIOUS
<1>3. v = [j \in 1..3 |-> IF from + j - 1 > 15 THEN 0 ELSE s[from + j - 1]]
  BY <1>1, <1>2 DEF Slots
<1>4. ASSUME NEW j \in 1..3 PROVE v[j] = t[j]
  <2>1. ~ (from + j - 1 > 15) /\ from + j - 1 = from - 1 + j
    OBVIOUS
  <2> QED
    BY <1>3, <2>1
<1>5. t = [j \in 1..3 |-> t[j]]
  OBVIOUS
<1> QED
  BY <1>2, <1>3, <1>4, <1>5

LEMMA PairOf ==
  ASSUME NEW x, NEW y
  PROVE  <<x>> \o <<y>> = <<x, y>>
<1> DEFINE S == {x, y}
<1>1. <<x>> \in Seq(S) /\ <<y>> \in Seq(S) /\ <<x, y>> \in Seq(S)
  OBVIOUS
<1>2. PICK c : c = <<x>> \o <<y>>
  OBVIOUS
<1>3. c \in Seq(S) /\ Len(c) = 2 /\ c[1] = x /\ c[2] = y
  BY <1>1, <1>2, ConcatProperties
<1>4. c = <<x, y>>
  <2>1. Len(<<x, y>>) = 2
    OBVIOUS
  <2>2. \A i \in 1..Len(c) : c[i] = <<x, y>>[i]
    BY <1>3
  <2> QED
    BY <1>1, <1>3, <2>1, <2>2, SeqEqual
<1> QED
  BY <1>2, <1>4

\* The triangle that the vector decoder keeps as the last one.
LEMMA LastOf ==
  ASSUME NEW s, NEW k \in Nat, k >= 1, VectorIs(s, k), NEW j \in 1..3
  PROVE  s[11 + j] = Triangle(k)[j]
<1>1. PICK b \in 0..2 : b = 0 /\ b < k /\ k - b = k /\ 12 - 3 * b + j - 1 = 11 + j
  OBVIOUS
<1>2. s[12 - 3 * b + j - 1] = Triangle(k - b)[j]
  BY <1>1 DEF VectorIs
<1> QED
  BY <1>1, <1>2

LEMMA BackPair ==
  ASSUME BoundsInv, HistoryInv, Back, DecodePair
  PROVE  Back'
<1>1. /\ phase = "triangles" /\ UNCHANGED <<mesh, encoderVars, stream, call>>
      /\ call.kind # "scalar" /\ call.tsize = 4 /\ dec.pairs < CodesSize
  BY DEF DecodePair
<1>2. Own => stream = Encoded
  BY <1>1 DEF Back
<1>3. ASSUME Own PROVE phase' = "triangles" /\ TrianglesPhase(dec')
  <2>1. PICK p \in Nat, c \in Nat : p = dec.pairs + 1 /\ c = CodesSize /\ p \in 1..c /\ dec.pairs = p - 1
    <3>1. PICK c \in Nat : c = CodesSize
      <4>1. PICK t \in Nat : t = TriangleCount
        BY MeshCounts DEF BoundsInv
      <4> QED
        BY <4>1 DEF CodesSize, Up
    <3>2. dec.pairs \in 0..c
      BY <1>1, <3>1 DEF BoundsInv, Progress
    <3> QED
      BY <1>1, <3>1, <3>2
  <2>2. PICK k : k = 2 * (p - 1)
    OBVIOUS
  <2>3. /\ StreamRecorded /\ k \in Nat /\ k + 1 \in 1..TriangleCount
        /\ dec.data = Len(DataUpTo[CtrlSize]) + ExtraAt(k + 1) /\ ~ (dec.data > DataEnd)
        /\ VectorIs(dec.state, k) /\ TrianglesIn(dec.triangles, k)
        /\ TrianglesPhase(dec)
    BY <1>1, <1>3, <2>1, <2>2, VectorPlace
  <2>4. PICK t \in Nat : t = TriangleCount /\ k + 1 \in 1..t /\ k + 2 = 2 * p
    BY <2>1, <2>2, <2>3, MeshCounts DEF BoundsInv
  <2>5. PICK r : r = StateAfter(dec.state, p, dec.data)
    OBVIOUS
  <2>6. PICK tris : tris = <<Slots(r, 9, 11)>>
                             \o (IF call.kind = "raw" \/ 2 * p <= t THEN <<Slots(r, 12, 14)>> ELSE <<>>)
    OBVIOUS
  <2>7. /\ dec' = [dec EXCEPT !.data = @ + PairExtra(p), !.pairs = p, !.state = r,
                              !.reach = Larger(@, dec.data + 8),
                              !.triangles = Stored(@, k, tris)]
        /\ phase' = phase
    BY <2>1, <2>2, <2>3, <2>4, <2>5, <2>6 DEF DecodePair
  <2>8. /\ dec'.data = dec.data + PairExtra(p) /\ dec'.pairs = p /\ dec'.verdict = dec.verdict
        /\ dec'.groups = dec.groups /\ dec'.vertices = dec.vertices
        /\ dec'.triangles = Stored(dec.triangles, k, tris) /\ dec'.state = r
    BY <2>7 DEF BoundsInv, DecFields
  <2>9. PairIs(r, k)
    <3>1. PICK d : d = Len(DataUpTo[CtrlSize]) /\ dec.data = d + ExtraAt(k + 1) /\ p \in 1..CodesSize
      BY <2>1, <2>3
    <3> QED
      BY <2>2, <2>3, <2>5, <3>1, StateAfterIs
  <2>10. PICK m \in 1..2 : /\ m = (IF k + 2 <= t THEN 2 ELSE 1) /\ Smaller(t, 2 * p) = k + m
    <3>1. Smaller(t, 2 * p) = (IF k + 2 <= t THEN k + 2 ELSE k + 1)
      <4>1. PICK l \in Nat : l = k + 2 /\ l = 2 * p /\ (t <= l \/ l <= t)
        BY <2>3, <2>4
      <4>2. (l <= t => Smaller(t, l) = l) /\ (t <= l => Smaller(t, l) = t)
        BY SmallerIs
      <4>3. ~ (l <= t) => t <= l /\ t = k + 1
        BY <2>3, <2>4, <4>1
      <4> QED
        BY <4>1, <4>2, <4>3
    <3>2. CASE k + 2 <= t
      <4>1. PICK m \in 1..2 : m = 2
        OBVIOUS
      <4> QED
        BY <3>1, <3>2, <4>1
    <3>3. CASE ~ (k + 2 <= t)
      <4>1. PICK m \in 1..2 : m = 1
        OBVIOUS
      <4> QED
        BY <3>1, <3>3, <4>1
    <3> QED
      BY <3>2, <3>3
  <2>11. dec'.data = Len(DataUpTo[CtrlSize]) + ExtraAt(Smaller(TriangleCount, 2 * p) + 1)
    <3>1. PICK d : d = Len(DataUpTo[CtrlSize]) /\ dec.data = d + ExtraAt(k + 1) /\ p \in 1..CodesSize
      BY <2>1, <2>3
    <3>2. dec.data + PairExtra(p) = d + ExtraAt(Smaller(TriangleCount, k + 2) + 1)
      BY <2>2, <2>3, <3>1, PairData
    <3> QED
      BY <2>4, <2>8, <3>1, <3>2
  <2>12. TrianglesIn(dec'.triangles, k + m)
    <3>1. PICK ts, out : ts = dec.triangles /\ out = dec'.triangles
      OBVIOUS
    <3>2. PICK n \in 1..2 : n = Len(tris) /\ m <= n
      <4>1. CASE call.kind = "raw" \/ 2 * p <= t
        <5>1. tris = <<Slots(r, 9, 11), Slots(r, 12, 14)>>
          BY <2>6, <4>1, PairOf
        <5>2. Len(tris) = 2
          BY <5>1
        <5> QED
          BY <5>2
      <4>2. CASE ~ (call.kind = "raw" \/ 2 * p <= t)
        <5>1. tris = <<Slots(r, 9, 11)>>
          BY <2>6, <4>2
        <5>2. Len(tris) = 1 /\ m = 1
          BY <2>4, <2>10, <4>2, <5>1
        <5> QED
          BY <5>2
      <4> QED
        BY <4>1, <4>2
    <3>3. tris[1] = Triangle(k + 1)
      <4>1. tris[1] = Slots(r, 9, 11)
        BY <2>6
      <4>2. Triangle(k + 1) \in [1..3 -> Byte]
        BY <2>3, CodeIs
      <4>3. PICK f \in 1..13 : f = 9 /\ f + 2 = 11 /\ \A j \in 1..3 : f - 1 + j = 8 + j
        <5>1. 9 \in 1..13 /\ 9 + 2 = 11 /\ \A j \in 1..3 : 9 - 1 + j = 8 + j
          OBVIOUS
        <5> QED
          BY <5>1
      <4>4. Slots(r, f, 11) = Triangle(k + 1)
        <5>1. \A j \in 1..3 : r[f - 1 + j] = Triangle(k + 1)[j]
          BY <2>9, <4>3 DEF PairIs
        <5> QED
          BY <4>2, <4>3, <5>1, WordIsTriangle
      <4> QED
        BY <4>1, <4>3, <4>4
    <3>4. m = 2 => tris[2] = Triangle(k + 2)
      <4> SUFFICES ASSUME m = 2 PROVE tris[2] = Triangle(k + 2)
        OBVIOUS
      <4>1. k + 2 <= t /\ 2 * p <= t /\ k + 2 \in 1..t
        BY <2>3, <2>4, <2>10
      <4>2. tris[2] = Slots(r, 12, 14)
        <5>1. tris = <<Slots(r, 9, 11), Slots(r, 12, 14)>>
          BY <2>6, <4>1, PairOf
        <5> QED
          BY <5>1
      <4>3. Triangle(k + 2) \in [1..3 -> Byte]
        BY <2>3, <2>4, <4>1, CodeIs
      <4>4. PICK f \in 1..13 : f = 12 /\ f + 2 = 14 /\ \A j \in 1..3 : f - 1 + j = 11 + j
        <5>1. 12 \in 1..13 /\ 12 + 2 = 14 /\ \A j \in 1..3 : 12 - 1 + j = 11 + j
          OBVIOUS
        <5> QED
          BY <5>1
      <4>5. \A j \in 1..3 : r[11 + j] = Triangle(k + 2)[j]
        <5>1. VectorIs(r, k + 2)
          BY <2>4, <2>9, <4>1 DEF PairIs
        <5>2. k + 2 \in Nat /\ k + 2 >= 1
          BY <2>3
        <5> QED
          BY <5>1, <5>2, LastOf
      <4>6. Slots(r, f, 14) = Triangle(k + 2)
        <5>1. \A j \in 1..3 : r[f - 1 + j] = Triangle(k + 2)[j]
          BY <4>4, <4>5
        <5> QED
          BY <4>3, <4>4, <5>1, WordIsTriangle
      <4> QED
        BY <4>2, <4>4, <4>6
    <3>5. Written(out, ts, k, tris)
      <4>1. Len(ts) \in Nat /\ Len(tris) \in Nat
        BY <3>1, <3>2 DEF BoundsInv, MemoryFits
      <4>2. Written(Stored(ts, k, tris), ts, k, tris)
        BY <2>3, <4>1, StoredWrites
      <4> QED
        BY <2>8, <3>1, <4>2
    <3>6. ASSUME NEW i \in 1..m PROVE TriangleIn(out, k + i)
      <4>1. i \in 1..n /\ (i = 1 \/ (i = 2 /\ m = 2))
        BY <2>10, <3>2
      <4>2. tris[i] = Triangle(k + i)
        <5>1. CASE i = 1
          BY <3>3, <5>1
        <5>2. CASE i = 2 /\ m = 2
          BY <3>4, <5>2
        <5> QED
          BY <4>1, <5>1, <5>2
      <4>3. out[k + i] = tris[i]
        BY <3>2, <3>5, <4>1 DEF Written
      <4> QED
        BY <1>1, <4>2, <4>3 DEF TriangleIn
    <3>7. \A j \in 1..(IF call.tsize = 4 THEN k ELSE 3 * k) : out[j] = ts[j]
      BY <1>1, <3>5 DEF Written
    <3>8. PICK l \in Nat : l = m
      BY <2>10
    <3>9. TrianglesIn(out, k + l)
      BY <2>3, <3>1, <3>6, <3>7, <3>8, TrianglesGrow
    <3> QED
      BY <3>1, <3>8, <3>9
  <2>13. 2 * p <= TriangleCount => VectorIs(dec'.state, 2 * p)
    BY <2>4, <2>8, <2>9 DEF PairIs
  <2>14. PICK e : e = dec'
    OBVIOUS
  <2>15. TrianglesPhase(e)
    <3>1. TrianglesIn(e.triangles, Smaller(TriangleCount, 2 * p))
      BY <2>4, <2>10, <2>12, <2>14
    <3> QED
      BY <1>1, <2>3, <2>8, <2>11, <2>13, <2>14, <3>1, VectorPhase
  <2> QED
    BY <1>1, <2>7, <2>14, <2>15
<1>4. Own => /\ phase' = "vertices" => VerticesPhase(dec')
             /\ phase' = "triangles" => TrianglesPhase(dec')
             /\ phase' = "done" => DonePhase(dec')
  BY <1>3
<1> QED
  BY <1>1, <1>2, <1>4, BackStep

\* Where two pairs with one check can be.
LEMMA TwoPairsPlace ==
  ASSUME BoundsInv, DecodeTwoPairs
  PROVE  \E p \in Nat, t \in Nat :
           /\ p = dec.pairs + 1 /\ dec.pairs = p - 1 /\ t = TriangleCount
           /\ 2 * (p - 1) + 3 <= t
           /\ p \in 1..CodesSize /\ p + 1 \in 1..CodesSize
<1>1. call.kind # "scalar" /\ call.tsize = 3 /\ dec.pairs < 2 * Groups12
  BY DEF DecodeTwoPairs
<1>2. PICK t \in Nat : t = TriangleCount
  BY MeshCounts DEF BoundsInv
<1>3. PICK g \in Nat : g = Groups12 /\ 4 * g <= t + 1
  <2>1. PICK g \in Nat : g = (t + 1) \div 4 /\ 4 * g <= t + 1
    OBVIOUS
  <2> QED
    BY <1>2, <2>1 DEF Groups12
<1>4. PICK c \in Nat : c = CodesSize /\ c = (t + 1) \div 2
  <2>1. PICK c \in Nat : c = (t + 1) \div 2
    OBVIOUS
  <2>2. t + 2 - 1 = t + 1
    OBVIOUS
  <2> QED
    BY <1>2, <2>1, <2>2 DEF CodesSize, Up
<1>5. PICK q \in Nat : q = dec.pairs /\ q % 2 = 0 /\ q < 2 * g
  <2>1. dec.pairs \in 0..c
    BY <1>1, <1>4 DEF BoundsInv, Progress
  <2>2. dec.pairs % 2 = 0 \/ dec.pairs > 2 * g
    BY <1>1, <1>3 DEF BoundsInv, Progress
  <2>3. PICK q \in Nat : q = dec.pairs
    BY <2>1
  <2>4. q < 2 * g
    BY <1>1, <1>3, <2>3
  <2> QED
    BY <1>3, <2>2, <2>3, <2>4
<1>6. 2 * q + 4 <= t + 1
  <2>1. q + 2 <= 2 * g
    BY <1>3, <1>5
  <2> QED
    BY <1>2, <1>3, <1>5, <2>1
<1>7. PICK p \in Nat : p = q + 1 /\ q = p - 1 /\ 2 * p + 2 <= t + 1
  BY <1>2, <1>5, <1>6
<1>8. p \in 1..c /\ p + 1 \in 1..c
  BY <1>2, <1>4, <1>5, <1>7
<1>9. 2 * (p - 1) + 3 <= t
  BY <1>2, <1>7
<1> QED
  BY <1>2, <1>4, <1>5, <1>7, <1>8, <1>9

\* The bytes of up to four triangles.
TwelveIs(out, ts, k, m) ==
  /\ \A n \in 1..3 * k : out[n] = ts[n]
  /\ \A i \in 1..m : TriangleIn(out, k + i)

LEMMA TwelveBytes ==
  ASSUME call.tsize = 3, NEW k \in Nat, NEW t \in Nat, t = TriangleCount, k + 3 <= t,
         NEW m \in 3..4, k + m <= t,
         NEW r, NEW s, PairIs(r, k), PairIs(s, k + 2), NEW v, NEW w, SlotsAre(v, r, 9, 4), SlotsAre(w, s, 7, 8),
         NEW ts, NEW middle, NEW out, Written(middle, ts, 3 * k, v), Written(out, middle, 3 * k + 4, w)
  PROVE  TwelveIs(out, ts, k, m)
<1>1. \A j \in 1..4 : v[j] = r[8 + j]
  BY DEF SlotsAre
<1>2. \A j \in 1..8 : w[j] = s[6 + j]
  BY DEF SlotsAre
<1>3. PICK l \in Nat : l = 3 * k
  OBVIOUS
<1>4. /\ \A n \in 1..l : out[n] = ts[n]
      /\ \A j \in 1..4 : out[l + j] = r[8 + j]
      /\ \A j \in 1..8 : out[l + 4 + j] = s[6 + j]
  <2>1. Len(v) = 4 /\ Len(w) = 8
    BY DEF SlotsAre
  <2>2. /\ \A n \in 1..l : middle[n] = ts[n]
        /\ \A j \in 1..4 : middle[l + j] = v[j]
    BY <1>3, <2>1 DEF Written
  <2>3. /\ \A n \in 1..l + 4 : out[n] = middle[n]
        /\ \A j \in 1..8 : out[l + 4 + j] = w[j]
    BY <1>3, <2>1 DEF Written
  <2>4. \A n \in 1..l : out[n] = ts[n]
    BY <1>3, <2>2, <2>3
  <2>5. \A j \in 1..4 : out[l + j] = r[8 + j]
    <3> SUFFICES ASSUME NEW j \in 1..4 PROVE out[l + j] = r[8 + j]
      OBVIOUS
    <3>1. l + j \in 1..l + 4
      BY <1>3
    <3> QED
      BY <1>1, <2>2, <2>3, <3>1
  <2>6. \A j \in 1..8 : out[l + 4 + j] = s[6 + j]
    BY <1>2, <2>3
  <2> QED
    BY <2>4, <2>5, <2>6
<1>5. TriangleIn(out, k + 1)
  <2> SUFFICES ASSUME NEW j \in 1..3 PROVE out[3 * ((k + 1) - 1) + j] = Triangle(k + 1)[j]
    BY DEF TriangleIn
  <2>1. 3 * ((k + 1) - 1) + j = l + j /\ j \in 1..4
    BY <1>3
  <2>2. r[8 + j] = Triangle(k + 1)[j]
    BY DEF PairIs
  <2> QED
    BY <1>4, <2>1, <2>2
<1>6. TriangleIn(out, k + 2)
  <2> SUFFICES ASSUME NEW j \in 1..3 PROVE out[3 * ((k + 2) - 1) + j] = Triangle(k + 2)[j]
    BY DEF TriangleIn
  <2>1. 3 * ((k + 2) - 1) + j = l + 3 + j
    BY <1>3
  <2>2. CASE j = 1
    <3>1. l + 3 + j = l + 4 /\ 4 \in 1..4 /\ 8 + 4 = 11 + 1 /\ 1 \in 1..3
      BY <1>3, <2>2
    <3>2. out[l + 4] = r[11 + 1]
      BY <1>4, <3>1
    <3>3. VectorIs(r, k + 2) /\ k + 2 \in Nat /\ k + 2 >= 1
      BY DEF PairIs
    <3>4. r[11 + 1] = Triangle(k + 2)[1]
      BY <3>1, <3>3, LastOf
    <3> QED
      BY <2>1, <2>2, <3>1, <3>2, <3>4
  <2>3. CASE j # 1
    <3>1. PICK i \in 1..8 : i = j - 1 /\ l + 3 + j = l + 4 + i /\ 6 + i = 5 + j
      BY <1>3, <2>3
    <3>2. out[l + 4 + i] = s[6 + i]
      BY <1>4
    <3>3. s[5 + j] = Triangle(k + 2)[j]
      BY DEF PairIs
    <3> QED
      BY <2>1, <3>1, <3>2, <3>3
  <2> QED
    BY <2>2, <2>3
<1>7. TriangleIn(out, k + 3)
  <2> SUFFICES ASSUME NEW j \in 1..3 PROVE out[3 * ((k + 3) - 1) + j] = Triangle(k + 3)[j]
    BY DEF TriangleIn
  <2>1. PICK i \in 1..8 : i = j + 2 /\ 3 * ((k + 3) - 1) + j = l + 4 + i /\ 6 + i = 8 + j
    BY <1>3
  <2>2. out[l + 4 + i] = s[6 + i]
    BY <1>4
  <2>3. s[8 + j] = Triangle(k + 3)[j]
    <3>1. (k + 2) + 1 = k + 3
      OBVIOUS
    <3> QED
      BY <3>1 DEF PairIs
  <2> QED
    BY <2>1, <2>2, <2>3
<1>8. k + 4 <= t => TriangleIn(out, k + 4)
  <2> SUFFICES ASSUME k + 4 <= t, NEW j \in 1..3 PROVE out[3 * ((k + 4) - 1) + j] = Triangle(k + 4)[j]
    BY DEF TriangleIn
  <2>1. PICK i \in 1..8 : i = j + 5 /\ 3 * ((k + 4) - 1) + j = l + 4 + i /\ 6 + i = 11 + j
    BY <1>3
  <2>2. out[l + 4 + i] = s[6 + i]
    BY <1>4
  <2>3. s[11 + j] = Triangle(k + 4)[j]
    <3>1. (k + 2) + 2 = k + 4 /\ k + 4 \in Nat /\ k + 4 >= 1
      OBVIOUS
    <3>2. VectorIs(s, k + 4)
      BY <3>1 DEF PairIs
    <3> QED
      BY <3>1, <3>2, LastOf
  <2> QED
    BY <2>1, <2>2, <2>3
<1>9. ASSUME NEW i \in 1..m PROVE TriangleIn(out, k + i)
  <2>1. i = 1 \/ i = 2 \/ i = 3 \/ (i = 4 /\ k + 4 <= t)
    OBVIOUS
  <2> QED
    BY <1>5, <1>6, <1>7, <1>8, <2>1
<1> QED
  BY <1>3, <1>4, <1>9 DEF TwelveIs

LEMMA BackTwoPairs ==
  ASSUME BoundsInv, HistoryInv, Back, DecodeTwoPairs
  PROVE  Back'
<1>1. /\ phase = "triangles" /\ UNCHANGED <<mesh, encoderVars, stream, call>>
      /\ call.kind # "scalar" /\ call.tsize = 3
  BY DEF DecodeTwoPairs
<1>2. Own => stream = Encoded
  BY <1>1 DEF Back
<1>3. ASSUME Own PROVE phase' = "triangles" /\ TrianglesPhase(dec')
  <2>1. PICK p \in Nat, t \in Nat :
          /\ p = dec.pairs + 1 /\ dec.pairs = p - 1 /\ t = TriangleCount
          /\ 2 * (p - 1) + 3 <= t
          /\ p \in 1..CodesSize /\ p + 1 \in 1..CodesSize
    BY TwoPairsPlace
  <2>2. PICK k : k = 2 * (p - 1)
    OBVIOUS
  <2>3. /\ StreamRecorded /\ k \in Nat /\ k + 1 \in 1..TriangleCount
        /\ dec.data = Len(DataUpTo[CtrlSize]) + ExtraAt(k + 1) /\ ~ (dec.data > DataEnd)
        /\ VectorIs(dec.state, k) /\ TrianglesIn(dec.triangles, k)
        /\ TrianglesPhase(dec)
    BY <1>1, <1>3, <2>1, <2>2, VectorPlace
  <2>4. /\ k + 3 <= t /\ k + 2 <= t /\ k + 2 = 2 * ((p + 1) - 1) /\ 2 * (p + 1) = k + 4
        /\ 6 * (p - 1) = 3 * k /\ k + 2 \in Nat /\ 3 * k \in Nat /\ (k + 2) + 2 = k + 4
    <3>1. k \in Nat
      BY <2>3
    <3>2. /\ p \in Nat /\ t \in Nat /\ 2 * (p - 1) + 3 <= t
      BY <2>1
    <3> QED
      BY <2>2, <3>1, <3>2
  <2>5. PICK d : d = Len(DataUpTo[CtrlSize]) /\ dec.data = d + ExtraAt(k + 1)
    BY <2>3
  <2>6. PICK r, i : r = StateAfter(dec.state, p, dec.data) /\ i = dec.data + PairExtra(p)
    OBVIOUS
  <2>7. PICK s, data : s = StateAfter(r, p + 1, i) /\ data = i + PairExtra(p + 1)
    OBVIOUS
  <2>8. PICK v, w : v = Slots(r, 9, 12) /\ w = Slots(s, 7, 14)
    OBVIOUS
  <2>9. PICK ts, middle, out :
          ts = dec.triangles /\ middle = Stored(ts, 3 * k, v) /\ out = Stored(middle, 3 * k + 4, w)
    OBVIOUS
  <2>10. /\ dec' = [dec EXCEPT !.data = data, !.pairs = p + 1, !.state = s,
                               !.reach = Larger(@, i + 8), !.triangles = out]
         /\ phase' = phase
    BY <2>1, <2>3, <2>4, <2>6, <2>7, <2>8, <2>9 DEF DecodeTwoPairs
  <2>11. /\ dec'.data = data /\ dec'.pairs = p + 1 /\ dec'.verdict = dec.verdict
         /\ dec'.groups = dec.groups /\ dec'.vertices = dec.vertices
         /\ dec'.triangles = out /\ dec'.state = s
    BY <2>10 DEF BoundsInv, DecFields
  <2>12. PairIs(r, k) /\ VectorIs(r, k + 2)
    <3>1. PairIs(r, k)
      BY <2>1, <2>2, <2>3, <2>5, <2>6, StateAfterIs
    <3> QED
      BY <2>1, <2>4, <3>1 DEF PairIs
  <2>13. i = d + ExtraAt((k + 2) + 1)
    <3>1. i = d + ExtraAt(Smaller(TriangleCount, k + 2) + 1)
      <4>1. p \in 1..CodesSize
        BY <2>1
      <4>2. dec.data + PairExtra(p) = d + ExtraAt(Smaller(TriangleCount, k + 2) + 1)
        BY <2>2, <2>3, <2>5, <4>1, PairData
      <4> QED
        BY <2>6, <4>2
    <3>2. Smaller(t, k + 2) = k + 2
      BY <2>4, SmallerIs
    <3> QED
      BY <2>1, <3>1, <3>2
  <2>14. PICK q : q = p + 1 /\ q \in 1..CodesSize /\ k + 2 = 2 * (q - 1)
    BY <2>1, <2>4
  <2>15. PICK y : y = k + 2
    OBVIOUS
  <2>16. PairIs(s, k + 2)
    <3>1. PairIs(s, y)
      BY <2>3, <2>5, <2>7, <2>12, <2>13, <2>14, <2>15, StateAfterIs
    <3> QED
      BY <2>15, <3>1
  <2>17. data = d + ExtraAt(Smaller(TriangleCount, k + 4) + 1)
    <3>1. data = d + ExtraAt(Smaller(TriangleCount, y + 2) + 1)
      BY <2>3, <2>5, <2>7, <2>13, <2>14, <2>15, PairData
    <3> QED
      BY <2>4, <2>15, <3>1
  <2>18. PICK m \in 3..4 : /\ k + m <= t /\ Smaller(t, k + 4) = k + m
    <3>1. k + 4 \in Nat /\ (~ (k + 4 <= t) => t = k + 3 /\ t <= k + 4)
      BY <2>3, <2>4
    <3>2. (k + 4 <= t => Smaller(t, k + 4) = k + 4) /\ (t <= k + 4 => Smaller(t, k + 4) = t)
      BY <3>1, SmallerIs
    <3>3. CASE k + 4 <= t
      <4>1. PICK m \in 3..4 : m = 4
        OBVIOUS
      <4> QED
        BY <3>2, <3>3, <4>1
    <3>4. CASE ~ (k + 4 <= t)
      <4>1. PICK m \in 3..4 : m = 3
        OBVIOUS
      <4> QED
        BY <2>4, <3>1, <3>2, <3>4, <4>1
    <3> QED
      BY <3>3, <3>4
  <2>19. SlotsAre(v, r, 9, 4) /\ SlotsAre(w, s, 7, 8)
    <3>1. PICK a \in Nat, b \in Nat, n \in Nat, l \in Nat :
            /\ a = 9 /\ b = 7 /\ n = 4 /\ l = 8 /\ 12 = a + n - 1 /\ 14 = b + l - 1
      <4>1. 12 = 9 + 4 - 1 /\ 14 = 7 + 8 - 1 /\ 9 \in Nat /\ 7 \in Nat /\ 4 \in Nat /\ 8 \in Nat
        OBVIOUS
      <4> QED
        BY <4>1
    <3>2. SlotsAre(Slots(r, a, 12), r, a, n) /\ SlotsAre(Slots(s, b, 14), s, b, l)
      BY <3>1, SlotsPlace
    <3> QED
      BY <2>8, <3>1, <3>2
  <2>20. Written(middle, ts, 3 * k, v) /\ Written(out, middle, 3 * k + 4, w)
    <3>1. Len(v) \in Nat /\ Len(w) \in Nat
      BY <2>19 DEF SlotsAre
    <3>2. Len(ts) \in Nat
      BY <2>9 DEF BoundsInv, MemoryFits
    <3>3. 3 * k \in Nat /\ 3 * k + 4 \in Nat
      BY <2>4
    <3>4. Len(middle) \in Nat
      <4>1. PICK a \in Nat, b \in Nat : a = Len(ts) /\ b = Len(v)
        BY <3>1, <3>2
      <4>2. Larger(a, 3 * k + b) \in Nat
        BY <3>3 DEF Larger
      <4> QED
        BY <2>9, <3>1, <3>2, <3>3, <4>1, <4>2, StoredIs
    <3> QED
      BY <2>9, <3>1, <3>2, <3>3, <3>4, StoredWrites
  <2>21. TwelveIs(out, ts, k, m)
    BY <1>1, <2>1, <2>3, <2>4, <2>12, <2>16, <2>18, <2>19, <2>20, TwelveBytes
  <2>22. TrianglesIn(out, k + m)
    <3>1. PICK l \in Nat : l = m
      BY <2>18
    <3>2. TrianglesIn(ts, k)
      BY <2>3, <2>9
    <3>3. \A n \in 1..(IF call.tsize = 4 THEN k ELSE 3 * k) : out[n] = ts[n]
      BY <1>1, <2>21 DEF TwelveIs
    <3>4. \A n \in 1..l : TriangleIn(out, k + n)
      BY <2>21, <3>1 DEF TwelveIs
    <3>5. TrianglesIn(out, k + l)
      BY <2>3, <3>1, <3>2, <3>3, <3>4, TrianglesGrow
    <3> QED
      BY <3>1, <3>5
  <2>23. 2 * (p + 1) <= TriangleCount => VectorIs(dec'.state, 2 * (p + 1))
    BY <2>4, <2>11, <2>16 DEF PairIs
  <2>24. PICK e : e = dec'
    OBVIOUS
  <2>25. TrianglesPhase(e)
    <3>1. TrianglesIn(e.triangles, Smaller(TriangleCount, 2 * q))
      BY <2>1, <2>4, <2>11, <2>14, <2>18, <2>22, <2>24
    <3>2. e.data = Len(DataUpTo[CtrlSize]) + ExtraAt(Smaller(TriangleCount, 2 * q) + 1)
      BY <2>4, <2>5, <2>11, <2>14, <2>17, <2>24
    <3>3. 2 * q <= TriangleCount => VectorIs(e.state, 2 * q)
      BY <2>14, <2>23, <2>24
    <3> QED
      BY <1>1, <2>3, <2>11, <2>14, <2>24, <3>1, <3>2, <3>3, VectorPhase
  <2> QED
    BY <1>1, <2>10, <2>24, <2>25
<1>4. Own => /\ phase' = "vertices" => VerticesPhase(dec')
             /\ phase' = "triangles" => TrianglesPhase(dec')
             /\ phase' = "done" => DonePhase(dec')
  BY <1>3
<1> QED
  BY <1>1, <1>2, <1>4, BackStep

\* Pair p is the last one, after k triangles: it has m triangles and is written as n bytes.
LastPair(p, t, k, m, n) ==
  /\ p = dec.pairs + 1 /\ dec.pairs = p - 1 /\ t = TriangleCount
  /\ k = 2 * (p - 1) /\ t = k + m /\ 12 * (t \div 4) = 3 * k
  /\ n = (IF m = 2 THEN 8 ELSE 4)
  /\ (IF t % 4 > 1 THEN 16 ELSE 12) = 9 + n - 1
  /\ p \in 1..CodesSize

LEMMA LastPairPlace ==
  ASSUME BoundsInv, DecodeLastPair
  PROVE  \E p \in Nat, t \in Nat, k \in Nat, m \in 1..2, n \in Nat : LastPair(p, t, k, m, n)
<1>1. dec.pairs = 2 * Groups12 /\ dec.pairs < CodesSize
  BY DEF DecodeLastPair
<1>2. PICK t \in Nat : t = TriangleCount
  BY MeshCounts DEF BoundsInv
<1>3. PICK g \in Nat : g = Groups12 /\ g = (t + 1) \div 4
  <2>1. PICK g \in Nat : g = (t + 1) \div 4
    OBVIOUS
  <2> QED
    BY <1>2, <2>1 DEF Groups12
<1>4. PICK c \in Nat : c = CodesSize /\ c = (t + 1) \div 2
  <2>1. PICK c \in Nat : c = (t + 1) \div 2
    OBVIOUS
  <2>2. t + 2 - 1 = t + 1
    OBVIOUS
  <2> QED
    BY <1>2, <2>1, <2>2 DEF CodesSize, Up
<1>5. t = 4 * g + 1 \/ t = 4 * g + 2
  <2>1. 2 * g < c
    BY <1>1, <1>3, <1>4
  <2>2. 4 * g <= t + 1 /\ t + 1 < 4 * g + 4
    BY <1>2, <1>3
  <2>3. 2 * c <= t + 1
    BY <1>2, <1>4
  <2> QED
    BY <1>2, <1>3, <1>4, <2>1, <2>2, <2>3
<1>6. PICK m \in 1..2 : t = 4 * g + m
  <2>1. 1 \in 1..2 /\ 2 \in 1..2
    OBVIOUS
  <2> QED
    BY <1>5, <2>1
<1>7. t \div 4 = g /\ t % 4 = m
  BY <1>2, <1>3, <1>6
<1>8. PICK p \in Nat, k \in Nat : p = 2 * g + 1 /\ k = 4 * g /\ k = 2 * (p - 1) /\ p - 1 = 2 * g
  BY <1>3
<1>9. PICK n \in Nat : n = (IF m = 2 THEN 8 ELSE 4) /\ (IF t % 4 > 1 THEN 16 ELSE 12) = 9 + n - 1
  <2>1. CASE m = 2
    <3>1. 8 \in Nat /\ 9 + 8 - 1 = 16 /\ t % 4 > 1
      BY <1>7, <2>1
    <3> QED
      BY <2>1, <3>1
  <2>2. CASE m # 2
    <3>1. 4 \in Nat /\ 9 + 4 - 1 = 12 /\ ~ (t % 4 > 1)
      BY <1>6, <1>7, <2>2
    <3> QED
      BY <2>2, <3>1
  <2> QED
    BY <2>1, <2>2
<1>10. p \in 1..c
  <2>1. 2 * g < c
    BY <1>1, <1>3, <1>4
  <2> QED
    BY <1>3, <1>4, <1>8, <2>1
<1>11. p = dec.pairs + 1 /\ dec.pairs = p - 1
  BY <1>1, <1>3, <1>8
<1>12. 12 * (t \div 4) = 3 * k /\ t = k + m
  BY <1>3, <1>6, <1>7, <1>8
<1>13. LastPair(p, t, k, m, n)
  BY <1>2, <1>4, <1>8, <1>9, <1>10, <1>11, <1>12 DEF LastPair
<1> QED
  BY <1>2, <1>6, <1>8, <1>9, <1>13

LEMMA LastBytes ==
  ASSUME call.tsize = 3, NEW k \in Nat, NEW t \in Nat, t = TriangleCount, NEW m \in 1..2, t = k + m,
         NEW n \in Nat, n = (IF m = 2 THEN 8 ELSE 4),
         NEW r, PairIs(r, k), NEW v, SlotsAre(v, r, 9, n),
         NEW ts, NEW out, Written(out, ts, 3 * k, v)
  PROVE  TwelveIs(out, ts, k, m)
<1>1. PICK l \in Nat : l = 3 * k
  OBVIOUS
<1>2. /\ \A j \in 1..l : out[j] = ts[j]
      /\ \A j \in 1..n : j <= 7 => out[l + j] = r[8 + j]
  <2>1. /\ \A j \in 1..l : out[j] = ts[j]
        /\ \A j \in 1..n : out[l + j] = v[j]
    BY <1>1 DEF Written, SlotsAre
  <2>2. \A j \in 1..n : j <= 7 => v[j] = r[8 + j]
    <3> SUFFICES ASSUME NEW j \in 1..n, j <= 7 PROVE v[j] = r[8 + j]
      OBVIOUS
    <3>1. 9 + j - 1 <= 15 /\ 9 + j - 1 = 8 + j
      OBVIOUS
    <3> QED
      BY <3>1 DEF SlotsAre
  <2> QED
    BY <2>1, <2>2
<1>3. n = 4 \/ n = 8
  OBVIOUS
<1>4. TriangleIn(out, k + 1)
  <2> SUFFICES ASSUME NEW j \in 1..3 PROVE out[3 * ((k + 1) - 1) + j] = Triangle(k + 1)[j]
    BY DEF TriangleIn
  <2>1. 3 * ((k + 1) - 1) + j = l + j /\ j \in 1..n /\ j <= 7
    BY <1>1, <1>3
  <2>2. r[8 + j] = Triangle(k + 1)[j]
    BY DEF PairIs
  <2> QED
    BY <1>2, <2>1, <2>2
<1>5. m = 2 => TriangleIn(out, k + 2)
  <2> SUFFICES ASSUME m = 2, NEW j \in 1..3 PROVE out[3 * ((k + 2) - 1) + j] = Triangle(k + 2)[j]
    BY DEF TriangleIn
  <2>1. PICK i \in 1..n : i = 3 + j /\ i <= 7 /\ 3 * ((k + 2) - 1) + j = l + i /\ 8 + i = 11 + j
    BY <1>1
  <2>2. out[l + i] = r[8 + i]
    BY <1>2, <2>1
  <2>3. r[11 + j] = Triangle(k + 2)[j]
    <3>1. VectorIs(r, k + 2) /\ k + 2 \in Nat /\ k + 2 >= 1
      BY DEF PairIs
    <3> QED
      BY <3>1, LastOf
  <2> QED
    BY <2>1, <2>2, <2>3
<1>6. ASSUME NEW i \in 1..m PROVE TriangleIn(out, k + i)
  <2>1. i = 1 \/ (i = 2 /\ m = 2)
    OBVIOUS
  <2> QED
    BY <1>4, <1>5, <2>1
<1> QED
  BY <1>1, <1>2, <1>6 DEF TwelveIs

LEMMA BackLastPair ==
  ASSUME BoundsInv, HistoryInv, Back, DecodeLastPair
  PROVE  Back'
<1>1. /\ phase = "triangles" /\ UNCHANGED <<mesh, encoderVars, stream, call>>
      /\ call.kind # "scalar" /\ call.tsize = 3
  BY DEF DecodeLastPair
<1>2. Own => stream = Encoded
  BY <1>1 DEF Back
<1>3. ASSUME Own PROVE phase' = "triangles" /\ TrianglesPhase(dec')
  <2>0. PICK p \in Nat, t \in Nat, k \in Nat, m \in 1..2, n \in Nat : LastPair(p, t, k, m, n)
    BY LastPairPlace
  <2>1. /\ p \in Nat /\ t \in Nat /\ k \in Nat /\ m \in 1..2 /\ n \in Nat
        /\ p = dec.pairs + 1 /\ dec.pairs = p - 1 /\ t = TriangleCount
        /\ k = 2 * (p - 1) /\ t = k + m /\ 12 * (t \div 4) = 3 * k
        /\ n = (IF m = 2 THEN 8 ELSE 4)
        /\ (IF t % 4 > 1 THEN 16 ELSE 12) = 9 + n - 1
        /\ p \in 1..CodesSize
    BY <2>0 DEF LastPair
  <2>2. p \in 1..CodesSize /\ dec.pairs = p - 1 /\ k = 2 * (p - 1)
    BY <2>1
  <2>3. /\ StreamRecorded /\ k \in Nat /\ k + 1 \in 1..TriangleCount
        /\ dec.data = Len(DataUpTo[CtrlSize]) + ExtraAt(k + 1) /\ ~ (dec.data > DataEnd)
        /\ VectorIs(dec.state, k) /\ TrianglesIn(dec.triangles, k)
        /\ TrianglesPhase(dec)
    BY <1>1, <1>3, <2>2, VectorPlace
  <2>4. PICK d : d = Len(DataUpTo[CtrlSize]) /\ dec.data = d + ExtraAt(k + 1)
    BY <2>3
  <2>5. PICK r, i : r = StateAfter(dec.state, p, dec.data) /\ i = dec.data + PairExtra(p)
    OBVIOUS
  <2>6. PICK v : v = Slots(r, 9, IF t % 4 > 1 THEN 16 ELSE 12)
    OBVIOUS
  <2>7. PICK ts, out : ts = dec.triangles /\ out = Stored(ts, 3 * k, v)
    OBVIOUS
  <2>8. /\ dec' = [dec EXCEPT !.data = i, !.pairs = p, !.state = r,
                              !.reach = Larger(@, dec.data + 8), !.triangles = out]
        /\ phase' = phase
    <3>1. p = dec.pairs + 1 /\ t = TriangleCount /\ 12 * (t \div 4) = 3 * k
      BY <2>1
    <3> QED
      BY <2>3, <2>5, <2>6, <2>7, <3>1 DEF DecodeLastPair
  <2>9. /\ dec'.data = i /\ dec'.pairs = p /\ dec'.verdict = dec.verdict
        /\ dec'.groups = dec.groups /\ dec'.vertices = dec.vertices
        /\ dec'.triangles = out /\ dec'.state = r
    BY <2>8 DEF BoundsInv, DecFields
  <2>10. PairIs(r, k)
    BY <2>2, <2>3, <2>4, <2>5, StateAfterIs
  <2>11. i = d + ExtraAt(Smaller(TriangleCount, k + 2) + 1)
    <3>1. dec.data + PairExtra(p) = d + ExtraAt(Smaller(TriangleCount, k + 2) + 1)
      BY <2>2, <2>3, <2>4, PairData
    <3> QED
      BY <2>5, <3>1
  <2>12. k + 2 = 2 * p /\ Smaller(t, k + 2) = k + m
    <3>1. m \in 1..2 /\ k \in Nat /\ p \in Nat /\ k = 2 * (p - 1) /\ t = k + m /\ t \in Nat
      BY <2>1
    <3>2. k + 2 = 2 * p /\ k + 2 \in Nat /\ t <= k + 2
      BY <3>1
    <3> QED
      BY <3>1, <3>2, SmallerIs
  <2>13. SlotsAre(v, r, 9, n)
    <3>1. PICK a \in Nat : a = 9 /\ (IF t % 4 > 1 THEN 16 ELSE 12) = a + n - 1
      BY <2>1
    <3>2. PICK last : last = (IF t % 4 > 1 THEN 16 ELSE 12) /\ v = Slots(r, a, last)
      <4>1. v = Slots(r, a, IF t % 4 > 1 THEN 16 ELSE 12)
        BY <2>6, <3>1
      <4> QED
        BY <4>1
    <3>3. n \in Nat
      BY <2>1
    <3>4. SlotsAre(Slots(r, a, last), r, a, n)
      BY <3>1, <3>2, <3>3, SlotsPlace
    <3> QED
      BY <3>1, <3>2, <3>4
  <2>14. Written(out, ts, 3 * k, v)
    <3>1. Len(v) \in Nat /\ 3 * k \in Nat
      <4>1. n \in Nat /\ k \in Nat
        BY <2>1
      <4> QED
        BY <2>13, <4>1 DEF SlotsAre
    <3>2. Len(ts) \in Nat
      BY <2>7 DEF BoundsInv, MemoryFits
    <3> QED
      BY <2>7, <3>1, <3>2, StoredWrites
  <2>15. TwelveIs(out, ts, k, m)
    BY <1>1, <2>1, <2>10, <2>13, <2>14, LastBytes
  <2>16. TrianglesIn(out, k + m)
    <3>1. PICK l \in Nat : l = m
      BY <2>1
    <3>2. TrianglesIn(ts, k)
      BY <2>3, <2>7
    <3>3. \A j \in 1..(IF call.tsize = 4 THEN k ELSE 3 * k) : out[j] = ts[j]
      BY <1>1, <2>15 DEF TwelveIs
    <3>4. \A j \in 1..l : TriangleIn(out, k + j)
      BY <2>15, <3>1 DEF TwelveIs
    <3>5. TrianglesIn(out, k + l)
      BY <2>3, <3>1, <3>2, <3>3, <3>4, TrianglesGrow
    <3> QED
      BY <3>1, <3>5
  <2>17. PICK e : e = dec'
    OBVIOUS
  <2>18. TrianglesPhase(e)
    <3>1. t = TriangleCount
      BY <2>1
    <3>2. TrianglesIn(e.triangles, Smaller(TriangleCount, 2 * p))
      BY <2>9, <2>12, <2>16, <2>17, <3>1
    <3>3. e.data = Len(DataUpTo[CtrlSize]) + ExtraAt(Smaller(TriangleCount, 2 * p) + 1)
      BY <2>4, <2>9, <2>11, <2>12, <2>17
    <3>4. 2 * p <= TriangleCount => VectorIs(e.state, 2 * p)
      BY <2>9, <2>10, <2>12, <2>17 DEF PairIs
    <3> QED
      BY <1>1, <2>3, <2>9, <2>17, <3>2, <3>3, <3>4, VectorPhase
  <2> QED
    BY <1>1, <2>8, <2>17, <2>18
<1>4. Own => /\ phase' = "vertices" => VerticesPhase(dec')
             /\ phase' = "triangles" => TrianglesPhase(dec')
             /\ phase' = "done" => DonePhase(dec')
  BY <1>3
<1> QED
  BY <1>1, <1>2, <1>4, BackStep

LEMMA BackVerdict ==
  ASSUME BoundsInv, HistoryInv, Back, Verdict
  PROVE  Back'
<1>1. /\ phase = "triangles" /\ UNCHANGED <<mesh, encoderVars, stream, call>>
      /\ TrianglesDone /\ phase' = "done"
      /\ dec' = [dec EXCEPT !.verdict = IF dec.data = DataEnd THEN 0 ELSE -3]
  BY DEF Verdict
<1>2. Own => stream = Encoded
  BY <1>1 DEF Back
<1>3. ASSUME Own PROVE DonePhase(dec')
  <2>1. StreamRecorded /\ TrianglesPhase(dec)
    BY <1>1, <1>3 DEF Back, BoundsInv, StreamWhole, StreamRecorded
  <2>2. PICK t \in Nat : t = TriangleCount
    BY MeshCounts DEF BoundsInv
  <2>3. Passed(dec.pairs) = t
    <3>1. CASE call.kind = "scalar"
      BY <1>1, <2>2, <3>1 DEF Passed, TrianglesDone
    <3>2. CASE call.kind # "scalar"
      <4>1. PICK c \in Nat : c = (t + 1) \div 2 /\ t <= 2 * c
        OBVIOUS
      <4>2. t + 2 - 1 = t + 1
        OBVIOUS
      <4>3. dec.pairs = c
        BY <1>1, <2>2, <3>2, <4>1, <4>2 DEF TrianglesDone, CodesSize, Up
      <4>4. Smaller(t, 2 * c) = t
        BY <4>1 DEF Smaller
      <4> QED
        BY <2>2, <3>2, <4>3, <4>4 DEF Passed
    <3> QED
      BY <3>1, <3>2
  <2>4. dec.data = DataEnd
    <3>1. PICK d : d = Len(DataUpTo[CtrlSize])
      OBVIOUS
    <3>2. t + 1 \in 1..TriangleCount + 1 /\ t + 1 = TriangleCount + 1
      BY <2>2
    <3>3. d + ExtraAt(t + 1) = DataEnd
      BY <2>1, <3>1, <3>2, ExtraPlace
    <3> QED
      BY <2>1, <2>3, <3>1, <3>3 DEF TrianglesPhase
  <2>5. /\ dec'.verdict = 0 /\ dec'.groups = dec.groups /\ dec'.pairs = dec.pairs
        /\ dec'.vertices = dec.vertices /\ dec'.triangles = dec.triangles
    BY <1>1, <2>4 DEF BoundsInv, DecFields
  <2> QED
    BY <2>1, <2>2, <2>3, <2>5 DEF TrianglesPhase, DonePhase
<1>4. Own => /\ phase' = "vertices" => VerticesPhase(dec')
             /\ phase' = "triangles" => TrianglesPhase(dec')
             /\ phase' = "done" => DonePhase(dec')
  BY <1>1, <1>3
<1> QED
  BY <1>1, <1>2, <1>4, BackStep

-----------------------------------------------------------------------------
(* The whole *)

\* A call of the encoder: nothing is encoded yet.
LEMMA HistoryEncode ==
  ASSUME BoundsInv, HistoryInv, phase = "idle", UNCHANGED encoderVars
  PROVE  HistoryInv'
<1>1. UNCHANGED <<fifo, next, codes, extra, history>>
  BY DEF encoderVars
<1>2. codes = <<>> /\ Len(codes) = 0
  BY DEF BoundsInv
<1>3. Len(fifo) = 0
  BY <1>2 DEF HistoryInv, Recalled, Smaller
<1>4. \A k \in 1..0 : FALSE
  OBVIOUS
<1>5. \A a \in 0..0 - 1 : FALSE
  OBVIOUS
<1>6. (HistoryType /\ Len(history) = Len(codes) /\ next \in Nat /\ NextAt(1) = 0 /\ ExtraAt(1) = 0)'
  BY <1>1 DEF HistoryInv, HistoryType, NextAt, ExtraAt
<1>7. Recalled'
  <2>1. Len(fifo') = Smaller(8, 2 * Len(codes'))
    BY <1>1 DEF HistoryInv, Recalled
  <2>2. Len(fifo') = 0
    BY <1>1, <1>3
  <2> QED
    BY <1>5, <2>1, <2>2 DEF Recalled
<1>8. Len(codes') = 0
  BY <1>1, <1>2
<1> QED
  BY <1>4, <1>6, <1>7, <1>8 DEF HistoryInv

LEMMA BackNothing ==
  ASSUME phase' \notin {"decode", "vertices", "triangles", "done"}
  PROVE  Back'
  BY DEF Back

LEMMA HistoryCodec ==
  ASSUME BoundsInv, HistoryInv, CodecNext
  PROVE  HistoryInv'
<1>1. CASE EncodeReuse
  BY <1>1, ReuseCode DEF BoundsInv
<1>2. CASE EncodeRestart
  BY <1>2, RestartCode DEF BoundsInv
<1>3. CASE ~ (EncodeReuse \/ EncodeRestart)
  <2>1. UNCHANGED <<encoderVars, mesh>>
    BY <1>3 DEF CodecNext, FinishEncode, StartDecode, DecodeVertices, StartTriangles, DecodeScalar, DecodePair,
                DecodeTwoPairs, DecodeLastPair, Verdict, CodecDone, codecVars
  <2> QED
    BY <2>1, HistorySame
<1> QED
  BY <1>1, <1>2, <1>3

LEMMA BackCodec ==
  ASSUME BoundsInv, HistoryInv, Back, CodecNext
  PROVE  Back'
<1>1. CASE EncodeReuse \/ EncodeRestart
  BY <1>1, BackNothing DEF EncodeReuse, EncodeRestart
<1>2. CASE FinishEncode
  BY <1>2, BackFinish
<1>3. CASE StartDecode
  BY <1>3, BackStart
<1>4. CASE DecodeVertices
  BY <1>4, BackVertices
<1>5. CASE StartTriangles
  BY <1>5, BackStartTriangles
<1>6. CASE DecodeScalar
  BY <1>6, BackScalar
<1>7. CASE DecodePair
  BY <1>7, BackPair
<1>8. CASE DecodeTwoPairs
  BY <1>8, BackTwoPairs
<1>9. CASE DecodeLastPair
  BY <1>9, BackLastPair
<1>10. CASE Verdict
  BY <1>10, BackVerdict
<1>11. CASE CodecDone
  BY <1>11, BackSame DEF CodecDone
<1> QED
  BY <1>1, <1>2, <1>3, <1>4, <1>5, <1>6, <1>7, <1>8, <1>9, <1>10, <1>11 DEF CodecNext

LEMMA TripKept ==
  ASSUME BoundsInv, HistoryInv, Back, [Next]_vars
  PROVE  HistoryInv' /\ Back'
<1>1. CASE UNCHANGED codecVars
  <2>1. UNCHANGED <<encoderVars, mesh>>
    BY <1>1 DEF codecVars
  <2> QED
    BY <1>1, <2>1, HistorySame, BackSame
<1>2. CASE Encode
  <2>1. phase = "idle" /\ phase' = "encode" /\ UNCHANGED encoderVars
    BY <1>2 DEF Encode, StartEncode
  <2> QED
    BY <2>1, HistoryEncode, BackNothing
<1>3. CASE CodecNext
  BY <1>3, HistoryCodec, BackCodec
<1> QED
  BY <1>1, <1>2, <1>3 DEF Next, Optimize, vars

LEMMA TripInitially ==
  ASSUME Init
  PROVE  HistoryInv /\ Back
<1>1. CodecIdle
  BY DEF Init
<1>2. HistoryInv
  BY <1>1, HistoryStart DEF CodecIdle
<1>3. Back
  BY <1>1 DEF CodecIdle, Back
<1> QED
  BY <1>2, <1>3

\* Triangles in memory, as they are read.
LEMMA ReadTriangle ==
  ASSUME NEW ts, NEW n \in Nat, n >= 1, TriangleIn(ts, n), IsTurned(mesh.triangles[n], Triangle(n)),
         NEW v, v = (IF call.tsize = 4 THEN ts[n] ELSE SubSeq(ts, 3 * n - 2, 3 * n))
  PROVE  v = Triangle(n)
<1>1. CASE call.tsize = 4
  BY <1>1 DEF TriangleIn
<1>2. CASE call.tsize # 4
  <2>1. PICK a \in Nat, b \in Nat : a = 3 * n - 2 /\ b = 3 * n /\ b - a + 1 = 3 /\ a = 3 * (n - 1) + 1
    OBVIOUS
  <2>2. SubSeq(ts, a, b) = [i \in 1..b - a + 1 |-> ts[i + a - 1]]
    OBVIOUS
  <2>3. v = [i \in 1..3 |-> ts[i + a - 1]]
    BY <1>2, <2>1, <2>2
  <2>4. \A i \in 1..3 : i + a - 1 = 3 * (n - 1) + i
    BY <2>1
  <2>5. \A i \in 1..3 : v[i] = Triangle(n)[i]
    BY <1>2, <2>3, <2>4 DEF TriangleIn
  <2>6. Triangle(n) = [i \in 1..3 |-> Triangle(n)[i]]
    BY DEF IsTurned
  <2> QED
    BY <2>3, <2>5, <2>6
<1> QED
  BY <1>1, <1>2

LEMMA TripConclusion ==
  ASSUME BoundsInv, HistoryInv, Back
  PROVE  RoundTrip
<1> SUFFICES ASSUME phase \in {"vertices", "triangles", "done"}, Own
             PROVE  /\ dec.verdict \in {0, 1}
                    /\ \A n \in 1..Smaller(4 * dec.groups, VertexCount) :
                         dec.vertices[n] = Narrow(mesh.vertices[n], call.vsize)
                    /\ \A n \in DOMAIN DecodedTriangles :
                         \E k \in 0..2 : DecodedTriangles[n] = Rotated(mesh.triangles[n], k)
                    /\ phase = "done" => Len(DecodedTriangles) = TriangleCount
  BY DEF RoundTrip
<1>1. PICK t \in Nat : t = TriangleCount /\ t = Len(codes)
  <2>1. phase \notin {"idle", "encode"} /\ TriangleCount \in Nat
    BY MeshCounts DEF BoundsInv
  <2> QED
    BY <2>1 DEF BoundsInv
<1>2. PICK p \in Nat : p = dec.pairs /\ (call.kind = "scalar" => p <= t)
  <2>1. CodesSize \in Nat
    <3>1. (t + 2 - 1) \div 2 \in Nat
      OBVIOUS
    <3> QED
      BY <1>1, <3>1 DEF CodesSize, Up
  <2>2. dec.pairs \in 0..(IF call.kind = "scalar" THEN t ELSE CodesSize)
    BY <1>1 DEF BoundsInv, Progress
  <2> QED
    BY <2>1, <2>2
<1>3. PICK n \in Nat : n = (IF call.kind = "scalar" THEN p ELSE 2 * p)
  OBVIOUS
<1>4. PICK c \in 0..t : c = Smaller(t, n) /\ c = Passed(p)
  <2>1. Smaller(t, n) \in 0..t
    BY DEF Smaller
  <2>2. Smaller(t, n) = Passed(p)
    BY <1>1, <1>2, <1>3, SmallerIs DEF Passed
  <2> QED
    BY <2>1, <2>2
<1>5. /\ dec.verdict \in {0, 1} /\ VerticesIn(dec.vertices, dec.groups)
      /\ TrianglesIn(dec.triangles, c) /\ (phase = "done" => c = t)
  <2>1. CASE phase = "vertices"
    <3>1. VerticesPhase(dec)
      BY <2>1 DEF Back
    <3>2. p = 0 /\ n = 0
      BY <1>2, <1>3, <3>1 DEF VerticesPhase
    <3>3. c = 0
      BY <1>1, <1>3, <1>4, <3>2, SmallerIs
    <3>4. TrianglesIn(dec.triangles, c)
      BY <3>3 DEF TrianglesIn
    <3> QED
      BY <2>1, <3>1, <3>4 DEF VerticesPhase
  <2>2. CASE phase = "triangles"
    <3>1. TrianglesPhase(dec)
      BY <2>2 DEF Back
    <3> QED
      BY <1>2, <1>4, <2>2, <3>1 DEF TrianglesPhase
  <2>3. CASE phase = "done"
    <3>1. DonePhase(dec)
      BY <2>3 DEF Back
    <3> QED
      BY <1>1, <1>2, <1>4, <2>3, <3>1 DEF DonePhase
  <2> QED
    BY <2>1, <2>2, <2>3
<1>6. PICK ts, out : ts = dec.triangles /\ out = DecodedTriangles
  OBVIOUS
<1>7. out = [i \in 1..c |-> IF call.tsize = 4 THEN ts[i] ELSE SubSeq(ts, 3 * i - 2, 3 * i)]
  BY <1>1, <1>2, <1>3, <1>4, <1>6 DEF DecodedTriangles
<1>8. Len(out) = c
  <2>1. c \in Nat /\ out = [i \in 1..c |-> out[i]]
    BY <1>4, <1>7
  <2> QED
    BY <2>1, LenOf
<1>9. ASSUME NEW i \in 1..c PROVE \E k \in 0..2 : out[i] = Rotated(mesh.triangles[i], k)
  <2>1. i \in 1..t /\ i \in Nat /\ i >= 1
    BY <1>4
  <2>2. Coded(i)
    BY <1>1, <2>1 DEF HistoryInv
  <2>3. IsTurned(mesh.triangles[i], Triangle(i))
    BY <2>2 DEF Coded
  <2>4. TriangleIn(ts, i)
    BY <1>5, <1>6 DEF TrianglesIn
  <2>5. PICK v : v = (IF call.tsize = 4 THEN ts[i] ELSE SubSeq(ts, 3 * i - 2, 3 * i)) /\ v = out[i]
    BY <1>7
  <2>6. v = Triangle(i)
    BY <2>1, <2>3, <2>4, <2>5, ReadTriangle
  <2> QED
    BY <2>3, <2>5, <2>6 DEF IsTurned
<1>10. DOMAIN out = 1..c
  BY <1>7
<1> QED
  BY <1>1, <1>5, <1>6, <1>8, <1>9, <1>10 DEF VerticesIn

\* For all meshlets that an optimizer returns, and all decoders: what is decoded from a whole
\* stream is what was encoded, from the first group on, its triangles in their order and turned at
\* most (README.md:445), and the decoder accepts the stream (tests.cpp:3113).
THEOREM MeshletRoundTrip == Spec => []RoundTrip
<1>1. Init => OptimizerInv /\ BoundsInv /\ HistoryInv /\ Back
  BY OptimizerInitially, BoundsInitially, TripInitially DEF Init
<1>2. OptimizerInv /\ BoundsInv /\ HistoryInv /\ Back /\ [Next]_vars
        => OptimizerInv' /\ BoundsInv' /\ HistoryInv' /\ Back'
  BY CodecKept, TripKept
<1>3. BoundsInv /\ HistoryInv /\ Back => RoundTrip
  BY TripConclusion
<1> QED
  BY <1>1, <1>2, <1>3, PTL DEF Spec
=============================================================================
