-------------------------- MODULE MeshletBuilderProofs --------------------------
(***************************************************************************)
(* Proofs about meshlet building, for every mesh, mode and limits and for  *)
(* every choice that floating point scores may make.                       *)
(***************************************************************************)
EXTENDS MeshletSearch, SetLemmas

FaceCount == Len(mesh.indices)

-----------------------------------------------------------------------------
(* The inductive invariant *)

Arguments == \E input \in Inputs : mesh = input.mesh /\ call = input.call

Phases ==
  /\ call.mode = "scan" => phase \in {"scan", "done"}
  /\ call.mode = "flex" => phase \in {"flex", "done"}
  /\ call.mode = "split" => phase \in {"split", "pack", "done"}

MeshletType == [vertexOffset : Nat, triangleOffset : Nat, vertexCount : Nat, triangleCount : Nat]

\* The i-th appended triangle o[i] can be read from vertices vs and triangles ts of meshlet m.
Holds(m, vs, ts, o, i) ==
  \A k \in 1..3 : /\ ts[3 * (i - 1) + k] \in 0 .. m.vertexCount - 1
                  /\ vs[m.vertexOffset + ts[3 * (i - 1) + k] + 1] = mesh.indices[o[i]][k]

\* Meshlet m is within the limits, and holds triangles that were appended one after another.
Reads(m, vs, ts, o) ==
  /\ m \in MeshletType
  /\ m.vertexCount <= call.maxVertices /\ m.triangleCount <= call.maxTriangles
  /\ m.vertexCount <= 3 * m.triangleCount
  /\ VertexEnd(m) <= Len(vs)
  /\ \E q \in Nat : /\ m.triangleOffset = 3 * q /\ q + m.triangleCount <= Len(o)
                    /\ \A i \in q + 1 .. q + m.triangleCount : Holds(m, vs, ts, o, i)

\* The fewest triangles, times three, of a meshlet that was closed because it was full
Enough == IF call.mode = "scan" THEN call.maxTriangles ELSE call.minTriangles
Share  == IF 3 * Enough <= call.maxVertices - 2 THEN 3 * Enough ELSE call.maxVertices - 2
Limit  == Bound(Cardinality(Faces), call.maxVertices, Enough)

WellFilled(m) == m.triangleCount >= Enough \/ m.vertexCount > call.maxVertices - 3

\* used[] is the inverse of the vertices of meshlet m.
Places(us, m, vs) ==
  /\ us \in [Vertices -> -1 .. call.maxVertices - 1]
  /\ \A v \in Vertices : us[v] >= 0 => us[v] < m.vertexCount /\ vs[m.vertexOffset + us[v] + 1] = v
  /\ \A i \in 0 .. m.vertexCount - 1 : us[vs[m.vertexOffset + i + 1]] = i

\* The output up to the end of meshlet m
Ready(m, us, vs, ts, o) ==
  /\ vs \in Seq(Vertices) /\ ts \in Seq(Nat) /\ o \in Seq(Faces)
  /\ Places(us, m, vs) /\ Reads(m, vs, ts, o)
  /\ VertexEnd(m) = Len(vs) /\ TriangleEnd(m) = 3 * Len(o) /\ Len(ts) = 3 * Len(o)

\* Meshlet number i starts where the one before it ends.
StartsAt(m, i, ms) ==
  /\ m.vertexOffset = IF i = 1 THEN 0 ELSE VertexEnd(ms[i - 1])
  /\ m.triangleOffset = IF i = 1 THEN 0 ELSE TriangleEnd(ms[i - 1])

\* The meshlets of front are closed, and meshlet m follows them.
Closed(front, m, vs, ts, o) ==
  /\ \A i \in 1 .. Len(front) :
       /\ Reads(front[i], vs, ts, o) /\ StartsAt(front[i], i, front)
       /\ front[i].triangleCount >= 1 /\ (call.mode # "split" => WellFilled(front[i]))
  /\ StartsAt(m, Len(front) + 1, front)

Output ==
  /\ Ready(meshlet, used, meshletVertices, meshletTriangles, order)
  /\ \E front \in Seq(MeshletType) :
       /\ meshlets = IF phase = "done" THEN Append(front, meshlet) ELSE front
       /\ Closed(front, meshlet, meshletVertices, meshletTriangles, order)
  /\ \A i, j \in 1 .. Len(order) : order[i] = order[j] => i = j
  /\ order # <<>> => meshlet.triangleCount >= 1

Current ==
  /\ order = <<>> => meshlets = <<>> /\ meshlet = EmptyMeshlet
  /\ phase = "done" => Range(order) = Faces
  /\ phase = "scan" => \A i \in 1 .. Len(order) : order[i] = i

\* How often triangle t has vertex v
Multiplicity(t, v) == Cardinality({k \in 1..3 : mesh.indices[t][k] = v})

Lists ==
  /\ neighbors \in [Vertices -> Seq(Faces)]
  /\ \A v \in Vertices, t \in Faces :
       Times(neighbors[v], {t}) = IF t \in Live THEN Multiplicity(t, v) ELSE 0
  /\ seeds \in Seq(Faces) /\ Len(seeds) <= MaxSeeds

\* The first position that is not split yet
Reached == IF ranges = <<>> THEN FaceCount + 1 ELSE ranges[1].first

RangeType == [first : Nat, count : Nat \ {0}, depth : Nat]

\* The ranges left cover the rest of the order.
Tiled ==
  /\ ranges \in Seq(RangeType) /\ Reached >= 1
  /\ \A i \in 1 .. Len(ranges) :
       /\ ranges[i].first + ranges[i].count <= FaceCount + 1
       /\ ranges[i].first + ranges[i].count = IF i = Len(ranges) THEN FaceCount + 1 ELSE ranges[i + 1].first

\* The triangles from position b up to e fit into one meshlet.
Chunked(b, e) == e - b <= call.maxTriangles /\ CountVertices(b, e - b) <= call.maxVertices

\* The order is a permutation of the triangles.
IsOrder(axis) ==
  axis \in Seq(Faces) /\ Len(axis) = FaceCount /\ \A t \in Faces : Times(axis, {t}) = 1

Boundaries ==
  /\ boundary \subseteq 1 .. Reached - 1
  /\ 1 \in boundary \cup {Reached}
  /\ \A b \in boundary : \E e \in boundary \cup {Reached} : b < e /\ Chunked(b, e)

Spatial ==
  /\ boundary \subseteq Faces
  /\ phase \in {"split", "pack"} => IsOrder(axes[1]) /\ Tiled /\ Boundaries
  /\ phase = "split" => order = <<>>
  /\ phase = "pack" => ranges = <<>> /\ \A i \in 1 .. Len(order) : order[i] = axes[1][i]

\* Every closed meshlet was full.
Paid == Len(meshlets) * Share <= meshlet.triangleOffset

\* The boundaries from position i on
Pending(i) == {b \in boundary : b >= i}

\* The current meshlet starts at the last boundary passed, and there is room for a meshlet
\* per boundary left.
Aligned ==
  /\ \E s \in boundary :
       /\ meshlet.triangleOffset = 3 * (s - 1)
       /\ \A b \in boundary : b <= Len(order) => b <= s
       /\ s <= Len(order) /\ meshlet.vertexCount <= CountVertices(s, Len(order) + 1 - s)
  /\ Len(meshlets) + 1 + Cardinality(Pending(Len(order) + 1)) <= Limit

Bounded ==
  /\ phase \in {"scan", "flex"} => Paid
  /\ phase = "pack" /\ order # <<>> => Aligned \/ (Paid /\ Cardinality(boundary) > Limit)
  /\ phase = "done" => Len(meshlets) <= Limit

IInv ==
  /\ Arguments /\ Phases /\ Output /\ Current
  /\ phase = "flex" => Lists
  /\ Spatial /\ Bounded

-----------------------------------------------------------------------------
(* The arguments *)

LEMMA InputFacts ==
  ASSUME Arguments
  PROVE  /\ FaceCount \in Nat \ {0} /\ Faces = 1 .. FaceCount
         /\ mesh.indices \in Seq(Nat \X Nat \X Nat)
         /\ mesh.centroids \in Seq(Int \X Int \X Int) /\ Len(mesh.centroids) = FaceCount
         /\ call.mode \in {"scan", "flex", "split"} /\ call.splits \in BOOLEAN
         /\ call.maxVertices \in Nat /\ call.maxVertices >= 3
         /\ call.maxTriangles \in Nat \ {0}
         /\ call.minTriangles \in Nat \ {0} /\ call.minTriangles <= call.maxTriangles
<1>1. PICK input \in Inputs : mesh = input.mesh /\ call = input.call
  BY DEF Arguments
<1>2. /\ mesh.indices \in Seq(Nat \X Nat \X Nat) /\ mesh.indices # <<>>
      /\ mesh.centroids \in Seq(Int \X Int \X Int) /\ Len(mesh.centroids) = Len(mesh.indices)
  BY <1>1, InputsAssumption
<1>3. /\ call.mode \in {"scan", "flex", "split"} /\ call.splits \in BOOLEAN
      /\ call.maxVertices \in Nat /\ call.maxVertices >= 3
      /\ call.maxTriangles \in Nat /\ call.minTriangles \in 1 .. call.maxTriangles
  BY <1>1, InputsAssumption
<1>4. Len(mesh.indices) \in Nat /\ Len(mesh.indices) # 0 /\ DOMAIN mesh.indices = 1 .. Len(mesh.indices)
  BY <1>2, LenProperties, EmptySeq
<1>5. FaceCount \in Nat \ {0} /\ Faces = 1 .. FaceCount
  BY <1>4 DEF FaceCount, Faces
<1>6. Len(mesh.centroids) = FaceCount
  BY <1>2 DEF FaceCount
<1>7. call.maxTriangles \in Nat \ {0} /\ call.minTriangles \in Nat \ {0} /\ call.minTriangles <= call.maxTriangles
  BY <1>3
<1> QED
  BY <1>2, <1>3, <1>5, <1>6, <1>7

LEMMA FaceNumber ==
  ASSUME Arguments
  PROVE  IsFiniteSet(Faces) /\ Cardinality(Faces) = FaceCount
  BY InputFacts, Indices

LEMMA CornerFacts ==
  ASSUME Arguments
  PROVE  /\ \A t \in Faces : /\ mesh.indices[t] \in Nat \X Nat \X Nat
                             /\ \A k \in 1..3 : /\ mesh.indices[t][k] \in Vertices
                                                /\ mesh.indices[t][k] \in Corners(t)
                             /\ mesh.indices[t] = [k \in 1..3 |-> mesh.indices[t][k]]
         /\ Vertices \subseteq Nat
<1>1. ASSUME NEW t \in Faces PROVE mesh.indices[t] \in Nat \X Nat \X Nat
  <2>1. mesh.indices \in Seq(Nat \X Nat \X Nat) /\ t \in 1 .. Len(mesh.indices)
    BY InputFacts DEF FaceCount
  <2> QED
    BY <2>1, ElementOfSeq
<1>2. ASSUME NEW t \in Faces, NEW k \in 1..3 PROVE mesh.indices[t][k] \in Corners(t)
  BY DEF Corners
<1>3. ASSUME NEW t \in Faces PROVE Corners(t) \subseteq Vertices
  BY DEF Vertices
<1>4. ASSUME NEW t \in Faces PROVE mesh.indices[t] = [k \in 1..3 |-> mesh.indices[t][k]]
  <2>1. PICK a \in Nat, b \in Nat, c \in Nat : mesh.indices[t] = <<a, b, c>>
    BY <1>1
  <2> QED
    BY <2>1
<1>5. ASSUME NEW t \in Faces, NEW k \in 1..3 PROVE mesh.indices[t][k] \in Nat
  BY <1>1
<1>6. Vertices \subseteq Nat
  BY <1>5 DEF Vertices, Corners
<1> QED
  BY <1>1, <1>2, <1>3, <1>4, <1>6

LEMMA EnoughFacts ==
  ASSUME Arguments
  PROVE  /\ Enough \in Nat \ {0} /\ Enough <= call.maxTriangles
         /\ Share \in Nat \ {0} /\ Share <= 3 * Enough /\ Share <= call.maxVertices - 2
         /\ Share = 3 * Enough \/ Share = call.maxVertices - 2
<1>1. Enough \in Nat \ {0} /\ Enough <= call.maxTriangles
  BY InputFacts DEF Enough
<1> HIDE DEF Enough
<1> QED
  BY <1>1, InputFacts DEF Share

-----------------------------------------------------------------------------
(* Counting *)

LEMMA CountThree ==
  ASSUME NEW S \in SUBSET (1..3)
  PROVE  /\ IsFiniteSet(S)
         /\ Cardinality(S) = (IF 1 \in S THEN 1 ELSE 0) + (IF 2 \in S THEN 1 ELSE 0) + (IF 3 \in S THEN 1 ELSE 0)
<1> DEFINE A == IF 1 \in S THEN {1} ELSE {}
           B == IF 2 \in S THEN A \cup {2} ELSE A
           C == IF 3 \in S THEN B \cup {3} ELSE B
<1>1. IsFiniteSet(A) /\ Cardinality(A) = (IF 1 \in S THEN 1 ELSE 0) /\ A \subseteq {1}
  BY FS_EmptySet, FS_Singleton
<1>2. IsFiniteSet(B) /\ Cardinality(B) = Cardinality(A) + (IF 2 \in S THEN 1 ELSE 0) /\ B \subseteq {1, 2}
  <2> HIDE DEF A
  <2>1. 2 \notin A /\ Cardinality(A) \in Nat
    BY <1>1, FS_CardinalityType
  <2> QED
    BY <1>1, <2>1, FS_AddElement
<1>3. IsFiniteSet(C) /\ Cardinality(C) = Cardinality(B) + (IF 3 \in S THEN 1 ELSE 0)
  <2> HIDE DEF B
  <2>1. 3 \notin B /\ Cardinality(B) \in Nat
    BY <1>2, FS_CardinalityType
  <2> QED
    BY <1>2, <2>1, FS_AddElement
<1>4. C = S
  <2>1. 1..3 = {1, 2, 3}
    OBVIOUS
  <2> QED
    BY <2>1
<1> QED
  <2> HIDE DEF A, B, C
  <2> QED
    BY <1>1, <1>2, <1>3, <1>4

LEMMA NextMultiple == \A a, b \in Nat : (a + 1) * b = a * b + b /\ a * b \in Nat
  OBVIOUS

\* A number of shares that is less than a total is less than the quotient rounded up.
LEMMA Rounded ==
  ASSUME NEW total \in Nat, NEW share \in Nat \ {0}, NEW n \in Nat, n * share < total
  PROVE  n + 1 <= Ceil(total, share)
<1>1. PICK q \in Nat : q = (total + share - 1) \div share
  OBVIOUS
<1>2. total + share - 1 < share * (q + 1)
  BY <1>1
<1>3. ASSUME q <= n PROVE FALSE
  <2>1. PICK d \in Nat : n = q + d
    BY <1>3
  <2>2. share * (q + 1) = q * share + share /\ n * share = q * share + d * share /\ d * share \in Nat
        /\ q * share \in Nat
    BY <2>1
  <2> QED
    BY <1>2, <2>2
<1> QED
  BY <1>1, <1>3 DEF Ceil

\* Meshlets that were paid for stay within the bound.
LEMMA PaidFits ==
  ASSUME Arguments, NEW n \in Nat, n * Share < 3 * FaceCount
  PROVE  n + 1 <= Limit
<1> DEFINE byVertices  == Ceil(3 * FaceCount, call.maxVertices - 2)
           byTriangles == Ceil(FaceCount, Enough)
<1>1. Limit = IF byVertices > byTriangles THEN byVertices ELSE byTriangles
  BY FaceNumber DEF Limit, Bound
<1>2. byVertices \in Nat /\ byTriangles \in Nat
  <2>1. \A a \in Nat, b \in Nat \ {0} : (a + b - 1) \div b \in Nat
    OBVIOUS
  <2>2. 3 * FaceCount \in Nat /\ call.maxVertices - 2 \in Nat \ {0}
    BY InputFacts
  <2> QED
    BY <2>1, <2>2, InputFacts, EnoughFacts DEF Ceil
<1>3. CASE Share = call.maxVertices - 2
  <2>1. n + 1 <= byVertices
    BY <1>3, InputFacts, EnoughFacts, Rounded, SMTT(30)
  <2> HIDE DEF byVertices, byTriangles
  <2> QED
    BY <1>1, <1>2, <2>1
<1>4. CASE Share = 3 * Enough
  <2>1. n * Enough < FaceCount
    <3>1. n * (3 * Enough) = 3 * (n * Enough) /\ n * Enough \in Nat
      BY EnoughFacts
    <3> QED
      BY <1>4, <3>1, InputFacts
  <2>2. n + 1 <= byTriangles
    BY <2>1, InputFacts, EnoughFacts, Rounded
  <2> HIDE DEF byVertices, byTriangles
  <2> QED
    BY <1>1, <1>2, <2>2
<1> QED
  BY <1>3, <1>4, EnoughFacts

-----------------------------------------------------------------------------
(* Appending a triangle to a meshlet *)

\* The corners of t that have no place in us
Fresh(t, us) == {k \in 1..3 : us[mesh.indices[t][k]] < 0}

\* A sequence without repetitions of vertices that have no place
Collected(q, us) ==
  /\ q \in Seq(Vertices) /\ \A i \in 1 .. Len(q) : us[q[i]] < 0
  /\ \A i, j \in 1 .. Len(q) : q[i] = q[j] => i = j

\* One more corner is listed if it has no place and is not listed yet.
LEMMA CollectNext ==
  ASSUME NEW us, NEW q, Collected(q, us), NEW x \in Vertices, us[x] < 0, \A i \in 1 .. Len(q) : q[i] # x
  PROVE  /\ Collected(q \o <<x>>, us) /\ Len(q \o <<x>>) = Len(q) + 1
         /\ \A i \in 1 .. Len(q) : (q \o <<x>>)[i] = q[i]
         /\ (q \o <<x>>)[Len(q) + 1] = x
<1>1. q \o <<x>> = Append(q, x) /\ q \in Seq(Vertices)
  BY AppendIsConcat DEF Collected
<1>2. PICK r : r = Append(q, x)
  OBVIOUS
<1>n. PICK n \in Nat : n = Len(q)
  BY <1>1, LenProperties
<1>3. r \in Seq(Vertices) /\ Len(r) = n + 1 /\ r[n + 1] = x /\ \A i \in 1..n : r[i] = q[i]
  BY <1>1, <1>2, <1>n, Enqueue
<1>4. \A i \in 1 .. n + 1 : i \in 1..n \/ i = n + 1
  OBVIOUS
<1>5. \A i \in 1 .. n + 1 : us[r[i]] < 0
  BY <1>n, <1>3, <1>4 DEF Collected
<1>6. ASSUME NEW i \in 1 .. n + 1, NEW j \in 1 .. n + 1, r[i] = r[j] PROVE i = j
  BY <1>n, <1>3, <1>4, <1>6 DEF Collected
<1> QED
  BY <1>1, <1>2, <1>n, <1>3, <1>5, <1>6 DEF Collected

\* NewCorners lists the different ones among them.
LEMMA NewCornersFacts ==
  ASSUME Arguments, NEW t \in Faces, NEW us \in [Vertices -> Int]
  PROVE  /\ Collected(NewCorners(t, us), us)
         /\ Len(NewCorners(t, us)) <= Cardinality(Fresh(t, us)) /\ Cardinality(Fresh(t, us)) <= 3
         /\ Cardinality(Fresh(t, us)) \in Nat
         /\ \A k \in 1..3 : us[mesh.indices[t][k]] < 0
                              => \E i \in 1 .. Len(NewCorners(t, us)) : NewCorners(t, us)[i] = mesh.indices[t][k]
<1>1. PICK a \in Vertices, b \in Vertices, c \in Vertices :
        a = mesh.indices[t][1] /\ b = mesh.indices[t][2] /\ c = mesh.indices[t][3]
  <2>1. 1 \in 1..3 /\ 2 \in 1..3 /\ 3 \in 1..3
    OBVIOUS
  <2> QED
    BY <2>1, CornerFacts, Zenon
<1>2. us[a] \in Int /\ us[b] \in Int /\ us[c] \in Int
  OBVIOUS
<1> DEFINE first  == us[a] < 0
           second == us[b] < 0 /\ a # b
           third  == us[c] < 0 /\ a # c /\ b # c
<1>3. NewCorners(t, us) = (IF first THEN <<a>> ELSE <<>>) \o (IF second THEN <<b>> ELSE <<>>)
                            \o (IF third THEN <<c>> ELSE <<>>)
  <2> DEFINE tri == mesh.indices[t]
             isNew(k) == us[tri[k]] < 0 /\ \A j \in 1 .. k - 1 : tri[j] # tri[k]
  <2>1. (isNew(1) <=> first) /\ (isNew(2) <=> second) /\ (isNew(3) <=> third)
    <3>1. 1 .. 1 - 1 = {} /\ 1 .. 2 - 1 = {1} /\ 1 .. 3 - 1 = {1, 2}
      OBVIOUS
    <3> QED
      BY <1>1, <3>1
  <2>2. NewCorners(t, us) = (IF isNew(1) THEN <<tri[1]>> ELSE <<>>) \o (IF isNew(2) THEN <<tri[2]>> ELSE <<>>)
                              \o (IF isNew(3) THEN <<tri[3]>> ELSE <<>>)
    BY DEF NewCorners
  <2> HIDE DEF isNew, first, second, third
  <2> QED
    BY <1>1, <2>1, <2>2
<1>4. Cardinality(Fresh(t, us)) = (IF us[a] < 0 THEN 1 ELSE 0) + (IF us[b] < 0 THEN 1 ELSE 0)
                                    + (IF us[c] < 0 THEN 1 ELSE 0)
  <2>1. Fresh(t, us) \in SUBSET (1..3)
    BY DEF Fresh
  <2>2. (1 \in Fresh(t, us) <=> us[a] < 0) /\ (2 \in Fresh(t, us) <=> us[b] < 0) /\ (3 \in Fresh(t, us) <=> us[c] < 0)
    BY <1>1 DEF Fresh
  <2> QED
    BY <2>1, <2>2, CountThree
<1>5. PICK x \in Nat, y \in Nat, z \in Nat : /\ x = IF us[a] < 0 THEN 1 ELSE 0
                                             /\ y = IF us[b] < 0 THEN 1 ELSE 0
                                             /\ z = IF us[c] < 0 THEN 1 ELSE 0
  OBVIOUS
<1>6. PICK p : p = IF first THEN <<a>> ELSE <<>>
  OBVIOUS
<1>7. PICK q : q = p \o (IF second THEN <<b>> ELSE <<>>)
  OBVIOUS
<1>8. PICK r : r = q \o (IF third THEN <<c>> ELSE <<>>)
  OBVIOUS
<1>9. /\ Collected(p, us) /\ Len(p) = x
      /\ \A i \in 1 .. Len(p) : p[i] = a
      /\ us[a] < 0 => \E i \in 1 .. Len(p) : p[i] = a
  <2>1. CASE first
    <3>1. p \in Seq(Vertices) /\ Len(p) = 1 /\ p[1] = a
      BY <1>6, <2>1
    <3> QED
      BY <1>5, <2>1, <3>1 DEF Collected
  <2>2. CASE ~first
    <3>1. p \in Seq(Vertices) /\ Len(p) = 0
      BY <1>6, <2>2
    <3> QED
      BY <1>5, <2>2, <3>1 DEF Collected
  <2> QED
    BY <2>1, <2>2
<1>10. /\ Collected(q, us) /\ Len(q) <= x + y
       /\ \A i \in 1 .. Len(q) : q[i] \in {a, b}
       /\ us[a] < 0 => \E i \in 1 .. Len(q) : q[i] = a
       /\ us[b] < 0 => \E i \in 1 .. Len(q) : q[i] = b
  <2>l. Len(p) \in Nat
    BY <1>9
  <2>1. CASE second
    <3>1. q = p \o <<b>>
      BY <1>7, <2>1
    <3>2. /\ Collected(q, us) /\ Len(q) = Len(p) + 1
          /\ \A i \in 1 .. Len(p) : q[i] = p[i]
          /\ q[Len(p) + 1] = b
      BY <1>9, <2>1, <3>1, CollectNext
    <3>3. \A i \in 1 .. Len(q) : i \in 1 .. Len(p) \/ i = Len(p) + 1
      BY <2>l, <3>2
    <3>4. Len(p) + 1 \in 1 .. Len(q) /\ \A i \in 1 .. Len(p) : i \in 1 .. Len(q)
      BY <2>l, <3>2
    <3> QED
      BY <1>5, <1>9, <2>1, <3>2, <3>3, <3>4
  <2>2. CASE ~second
    <3>1. p \in Seq(Vertices) /\ p \o <<>> = p
      BY <1>9 DEF Collected
    <3>2. q = p
      BY <1>7, <2>2, <3>1
    <3>3. us[b] < 0 => us[a] < 0 /\ a = b
      BY <2>2
    <3> HIDE DEF first, second, third
    <3>4. Len(q) <= x + y
      BY <1>9, <3>2
    <3>5. Collected(q, us) /\ \A i \in 1 .. Len(q) : q[i] \in {a, b}
      BY <1>9, <3>2
    <3>6. us[a] < 0 => \E i \in 1 .. Len(q) : q[i] = a
      BY <1>9, <3>2
    <3> QED
      BY <3>3, <3>4, <3>5, <3>6
  <2> QED
    BY <2>1, <2>2
<1>11. /\ Collected(r, us) /\ Len(r) <= x + y + z
       /\ us[a] < 0 => \E i \in 1 .. Len(r) : r[i] = a
       /\ us[b] < 0 => \E i \in 1 .. Len(r) : r[i] = b
       /\ us[c] < 0 => \E i \in 1 .. Len(r) : r[i] = c
  <2>l. Len(q) \in Nat
    BY <1>10, LenProperties DEF Collected
  <2>1. CASE third
    <3>1. r = q \o <<c>>
      BY <1>8, <2>1
    <3>2. /\ Collected(r, us) /\ Len(r) = Len(q) + 1
          /\ \A i \in 1 .. Len(q) : r[i] = q[i]
          /\ r[Len(q) + 1] = c
      BY <1>10, <2>1, <3>1, CollectNext
    <3>4. Len(q) + 1 \in 1 .. Len(r) /\ \A i \in 1 .. Len(q) : i \in 1 .. Len(r)
      BY <2>l, <3>2
    <3> QED
      BY <1>5, <1>10, <2>l, <2>1, <3>2, <3>4
  <2>2. CASE ~third
    <3>1. q \in Seq(Vertices) /\ q \o <<>> = q
      BY <1>10 DEF Collected
    <3>2. r = q
      BY <1>8, <2>2, <3>1
    <3> QED
      BY <1>5, <1>10, <2>l, <2>2, <3>2
  <2> QED
    BY <2>1, <2>2
<1>12. NewCorners(t, us) = r
  BY <1>3, <1>6, <1>7, <1>8
<1>13. Cardinality(Fresh(t, us)) = x + y + z /\ x + y + z <= 3
  BY <1>4, <1>5
<1>14. \A k \in 1..3 : mesh.indices[t][k] \in {a, b, c}
  <2>1. \A k \in 1..3 : k = 1 \/ k = 2 \/ k = 3
    OBVIOUS
  <2> QED
    BY <1>1, <2>1
<1> HIDE DEF first, second, third
<1>15. \A k \in 1..3 : us[mesh.indices[t][k]] < 0 => \E i \in 1 .. Len(r) : r[i] = mesh.indices[t][k]
  BY <1>11, <1>14, Zenon
<1> QED
  BY <1>11, <1>12, <1>13, <1>15

\* A sequence that was extended
Extends(r, s) == Len(s) <= Len(r) /\ \A i \in 1 .. Len(s) : r[i] = s[i]

LEMMA ConcatExtends ==
  ASSUME NEW T, NEW s \in Seq(T), NEW r \in Seq(T)
  PROVE  /\ s \o r \in Seq(T) /\ Extends(s \o r, s) /\ Len(s \o r) = Len(s) + Len(r)
         /\ Len(s) \in Nat /\ Len(r) \in Nat
         /\ \A i \in 1 .. Len(r) : (s \o r)[Len(s) + i] = r[i]
<1>1. PICK m \in Nat, n \in Nat : m = Len(s) /\ n = Len(r)
  BY LenProperties
<1>2. /\ s \o r \in Seq(T) /\ Len(s \o r) = m + n
      /\ \A i \in 1 .. m + n : (s \o r)[i] = IF i <= m THEN s[i] ELSE r[i - m]
  BY <1>1, ConcatProperties
<1>3. ASSUME NEW i \in 1..m PROVE (s \o r)[i] = s[i]
  BY <1>2
<1>4. ASSUME NEW i \in 1..n PROVE (s \o r)[m + i] = r[i]
  <2>1. m + i \in 1 .. m + n /\ ~(m + i <= m) /\ (m + i) - m = i
    OBVIOUS
  <2> QED
    BY <1>2, <2>1
<1> QED
  BY <1>1, <1>2, <1>3, <1>4 DEF Extends

\* What can be read from the output can still be read when it has grown.
LEMMA ReadsGrow ==
  ASSUME Arguments, NEW m, NEW vs, NEW ts, NEW o, NEW ws, NEW us, NEW p,
         Reads(m, vs, ts, o), Len(vs) \in Nat, Len(ts) \in Nat, Len(o) \in Nat, Len(ts) = 3 * Len(o),
         Len(ws) \in Nat, Len(p) \in Nat,
         Extends(ws, vs), Extends(us, ts), Extends(p, o)
  PROVE  Reads(m, ws, us, p)
<1>1. PICK q \in Nat : /\ m.triangleOffset = 3 * q /\ q + m.triangleCount <= Len(o)
                       /\ \A i \in q + 1 .. q + m.triangleCount : Holds(m, vs, ts, o, i)
  BY DEF Reads
<1>2. m \in MeshletType /\ VertexEnd(m) <= Len(vs)
  BY DEF Reads
<1>3. PICK vo \in Nat, vc \in Nat, tc \in Nat : vo = m.vertexOffset /\ vc = m.vertexCount /\ tc = m.triangleCount
  BY <1>2 DEF MeshletType
<1>4. ASSUME NEW i \in q + 1 .. q + tc PROVE Holds(m, ws, us, p, i)
  <2> SUFFICES ASSUME NEW k \in 1..3
               PROVE  /\ us[3 * (i - 1) + k] \in 0 .. vc - 1
                      /\ ws[vo + us[3 * (i - 1) + k] + 1] = mesh.indices[p[i]][k]
    BY <1>3 DEF Holds
  <2>1. i \in Nat /\ i \in 1 .. Len(o)
    BY <1>1, <1>3
  <2>2. 3 * (i - 1) + k \in 1 .. Len(ts)
    BY <2>1
  <2>3. us[3 * (i - 1) + k] = ts[3 * (i - 1) + k] /\ p[i] = o[i]
    BY <2>1, <2>2 DEF Extends
  <2>4. ts[3 * (i - 1) + k] \in 0 .. vc - 1 /\ vs[vo + ts[3 * (i - 1) + k] + 1] = mesh.indices[o[i]][k]
    BY <1>1, <1>3 DEF Holds
  <2>5. PICK c \in 0 .. vc - 1 : c = ts[3 * (i - 1) + k]
    BY <2>4
  <2>l. vo + vc <= Len(vs)
    BY <1>2, <1>3 DEF VertexEnd
  <2>6. vo + c + 1 \in 1 .. Len(vs)
    BY <2>l
  <2>7. ws[vo + c + 1] = vs[vo + c + 1]
    BY <2>6 DEF Extends
  <2> QED
    BY <2>3, <2>4, <2>5, <2>7
<1>5. VertexEnd(m) <= Len(ws)
  <2>1. VertexEnd(m) \in Nat
    BY <1>3 DEF VertexEnd
  <2>2. Len(vs) <= Len(ws)
    BY DEF Extends
  <2> QED
    BY <1>2, <2>1, <2>2
<1>6. q + m.triangleCount <= Len(p)
  BY <1>1, <1>3 DEF Extends
<1> QED
  BY <1>1, <1>3, <1>4, <1>5, <1>6 DEF Reads

\* A meshlet with l more vertices and one more triangle
Grown(m, l) == [m EXCEPT !.vertexCount = @ + l, !.triangleCount = @ + 1]

LEMMA GrownFacts ==
  ASSUME NEW m \in MeshletType, NEW l \in Nat
  PROVE  /\ Grown(m, l) \in MeshletType
         /\ Grown(m, l).vertexOffset = m.vertexOffset /\ Grown(m, l).triangleOffset = m.triangleOffset
         /\ Grown(m, l).vertexCount = m.vertexCount + l /\ Grown(m, l).triangleCount = m.triangleCount + 1
<1>1. PICK r : r = [m EXCEPT !.vertexCount = m.vertexCount + l]
  OBVIOUS
<1>2. r \in MeshletType /\ r.triangleCount = m.triangleCount
  BY <1>1 DEF MeshletType
<1>3. Grown(m, l) = [r EXCEPT !.triangleCount = r.triangleCount + 1]
  BY <1>1 DEF Grown, MeshletType
<1>4. Grown(m, l) \in MeshletType
  BY <1>2, <1>3 DEF MeshletType
<1>5. /\ Grown(m, l).vertexOffset = m.vertexOffset /\ Grown(m, l).triangleOffset = m.triangleOffset
      /\ Grown(m, l).vertexCount = m.vertexCount + l /\ Grown(m, l).triangleCount = m.triangleCount + 1
  BY DEF Grown, MeshletType
<1> QED
  BY <1>4, <1>5

\* The places when the vertices of new are added to meshlet m
PlacedAt(us, m, new) ==
  [v \in Vertices |->
     IF v \in Range(new) THEN m.vertexCount + (CHOOSE i \in DOMAIN new : new[i] = v) - 1 ELSE us[v]]

PlacesOf(ps, t) == [k \in 1..3 |-> ps[mesh.indices[t][k]]]

\* The new corners of t get the next places.
LEMMA Placed ==
  ASSUME Arguments, NEW t \in Faces, NEW m \in MeshletType, NEW us, NEW vs \in Seq(Vertices),
         Places(us, m, vs), VertexEnd(m) = Len(vs),
         m.vertexCount + Cardinality(Fresh(t, us)) <= call.maxVertices,
         NEW new, new = NewCorners(t, us),
         NEW ps, ps = PlacedAt(us, m, new),
         NEW n, n = Grown(m, Len(new))
  PROVE  /\ n \in MeshletType /\ Places(ps, n, vs \o new) /\ VertexEnd(n) = Len(vs \o new)
         /\ vs \o new \in Seq(Vertices) /\ Extends(vs \o new, vs)
         /\ n.vertexOffset = m.vertexOffset /\ n.triangleOffset = m.triangleOffset
         /\ n.triangleCount = m.triangleCount + 1
         /\ n.vertexCount = m.vertexCount + Len(new) /\ Len(new) \in Nat
         /\ Len(new) <= Cardinality(Fresh(t, us)) /\ Cardinality(Fresh(t, us)) <= 3
         /\ Cardinality(Fresh(t, us)) \in Nat
         /\ \A v \in Vertices : us[v] >= 0 => ps[v] = us[v]
         /\ \A k \in 1..3 : ps[mesh.indices[t][k]] \in 0 .. n.vertexCount - 1
<1>1. PICK vo \in Nat, vc \in Nat, tc \in Nat : vo = m.vertexOffset /\ vc = m.vertexCount /\ tc = m.triangleCount
  BY DEF MeshletType
<1>2. us \in [Vertices -> -1 .. call.maxVertices - 1] /\ call.maxVertices \in Nat
  BY InputFacts DEF Places
<1>3. /\ Collected(new, us) /\ Len(new) <= Cardinality(Fresh(t, us))
      /\ Cardinality(Fresh(t, us)) <= 3 /\ Cardinality(Fresh(t, us)) \in Nat
      /\ \A k \in 1..3 : us[mesh.indices[t][k]] < 0 => \E i \in 1 .. Len(new) : new[i] = mesh.indices[t][k]
  <2>1. us \in [Vertices -> Int]
    BY <1>2
  <2> QED
    BY <2>1, NewCornersFacts
<1>4. new \in Seq(Vertices)
  BY <1>3 DEF Collected
<1>5. PICK l \in Nat : l = Len(new)
  BY <1>4, LenProperties
<1>6. Len(vs) = vo + vc /\ vc + l <= call.maxVertices
  <2>1. Len(vs) = vo + vc
    BY <1>1 DEF VertexEnd
  <2>2. PICK f \in Nat : f = Cardinality(Fresh(t, us))
    BY <1>3
  <2>3. vc + f <= call.maxVertices /\ l <= f
    BY <1>1, <1>3, <1>5, <2>2
  <2> QED
    BY <1>2, <2>1, <2>3
<1>7. PICK ws : ws = vs \o new
  OBVIOUS
<1>8. /\ ws \in Seq(Vertices) /\ Extends(ws, vs) /\ Len(ws) = vo + vc + l
      /\ \A i \in 1 .. l : ws[vo + vc + i] = new[i]
  <2>1. /\ vs \o new \in Seq(Vertices) /\ Extends(vs \o new, vs) /\ Len(vs \o new) = Len(vs) + Len(new)
        /\ \A i \in 1 .. Len(new) : (vs \o new)[Len(vs) + i] = new[i]
    BY <1>4, ConcatExtends
  <2> QED
    BY <1>5, <1>6, <1>7, <2>1
<1>9. /\ n \in MeshletType /\ n.vertexOffset = vo /\ n.vertexCount = vc + l /\ n.triangleCount = tc + 1
      /\ n.triangleOffset = m.triangleOffset
  BY <1>1, <1>5, GrownFacts
<1>10. \A v : v \in Range(new) <=> \E i \in 1..l : new[i] = v
  BY <1>4, <1>5 DEF Range
<1>11. ASSUME NEW i \in 1..l PROVE ps[new[i]] = vc + i - 1 /\ new[i] \in Vertices
  <2>1. new[i] \in Vertices /\ DOMAIN new = 1..l
    BY <1>4, <1>5, LenProperties, ElementOfSeq
  <2>2. \A j \in 1..l : new[j] = new[i] => j = i
    BY <1>3, <1>5 DEF Collected
  <2>3. (CHOOSE j \in DOMAIN new : new[j] = new[i]) = i
    BY <2>1, <2>2
  <2>4. new[i] \in Range(new)
    BY <1>10
  <2> QED
    BY <1>1, <2>1, <2>3, <2>4 DEF PlacedAt
<1>12. ASSUME NEW v \in Vertices, v \notin Range(new) PROVE ps[v] = us[v]
  BY <1>12 DEF PlacedAt
<1>13. ASSUME NEW v \in Vertices, us[v] >= 0 PROVE v \notin Range(new)
  <2> SUFFICES ASSUME NEW i \in 1..l, new[i] = v PROVE FALSE
    BY <1>10
  <2>1. us[new[i]] < 0
    BY <1>3, <1>5 DEF Collected
  <2>2. us[v] \in Int
    BY <1>2
  <2> QED
    BY <1>13, <2>1, <2>2
<1> HIDE DEF Places
<1>14. ps \in [Vertices -> -1 .. call.maxVertices - 1]
  <2> SUFFICES ASSUME NEW v \in Vertices PROVE ps[v] \in -1 .. call.maxVertices - 1
    BY DEF PlacedAt
  <2>1. CASE v \in Range(new)
    <3>1. PICK i \in 1..l : new[i] = v
      BY <1>10, <2>1
    <3>2. ps[v] = vc + i - 1
      BY <1>11, <3>1
    <3> QED
      BY <1>2, <1>6, <3>2
  <2>2. CASE v \notin Range(new)
    BY <1>2, <1>12, <2>2
  <2> QED
    BY <2>1, <2>2
<1>15. ASSUME NEW v \in Vertices, us[v] >= 0 PROVE us[v] \in 0 .. vc - 1 /\ ws[vo + us[v] + 1] = v
  <2>1. us[v] \in Int /\ us[v] < vc /\ vs[vo + us[v] + 1] = v
    BY <1>1, <1>2, <1>15 DEF Places
  <2>2. vo + us[v] + 1 \in 1 .. Len(vs)
    BY <1>6, <1>15, <2>1
  <2> QED
    BY <1>8, <1>15, <2>1, <2>2 DEF Extends
<1>16. ASSUME NEW v \in Vertices, ps[v] >= 0 PROVE ps[v] < vc + l /\ ws[vo + ps[v] + 1] = v
  <2>1. CASE v \in Range(new)
    <3>1. PICK i \in 1..l : new[i] = v
      BY <1>10, <2>1
    <3>2. ps[v] = vc + i - 1
      BY <1>11, <3>1
    <3>3. vo + ps[v] + 1 = vo + vc + i
      BY <3>2
    <3> QED
      BY <1>8, <3>1, <3>2, <3>3
  <2>2. CASE v \notin Range(new)
    BY <1>12, <1>15, <1>16, <2>2
  <2> QED
    BY <2>1, <2>2
<1>17. ASSUME NEW i \in 0 .. vc + l - 1 PROVE ps[ws[vo + i + 1]] = i
  <2>1. CASE i < vc
    <3>1. vo + i + 1 \in 1 .. Len(vs)
      BY <1>6, <2>1
    <3>2. ws[vo + i + 1] = vs[vo + i + 1] /\ vs[vo + i + 1] \in Vertices
      BY <1>8, <3>1, ElementOfSeq DEF Extends
    <3>3. us[vs[vo + i + 1]] = i
      BY <1>1, <2>1 DEF Places
    <3>4. vs[vo + i + 1] \notin Range(new)
      BY <1>13, <3>2, <3>3
    <3> QED
      BY <1>12, <3>2, <3>3, <3>4
  <2>2. CASE ~(i < vc)
    <3>1. PICK j \in 1..l : j = i - vc + 1
      BY <2>2
    <3>2. vo + i + 1 = vo + vc + j /\ vc + j - 1 = i
      BY <3>1
    <3> QED
      BY <1>8, <1>11, <3>2
  <2> QED
    BY <2>1, <2>2
<1>18. Places(ps, n, ws)
  <2>1. \A v \in Vertices : ps[v] >= 0 => ps[v] < n.vertexCount /\ ws[n.vertexOffset + ps[v] + 1] = v
    BY <1>9, <1>16
  <2>2. \A i \in 0 .. n.vertexCount - 1 : ps[ws[n.vertexOffset + i + 1]] = i
    <3>1. n.vertexCount - 1 = vc + l - 1 /\ n.vertexOffset = vo
      BY <1>9
    <3>2. \A i \in 0 .. vc + l - 1 : ps[ws[vo + i + 1]] = i
      BY <1>17
    <3> QED
      BY <3>1, <3>2
  <2> QED
    BY <1>14, <2>1, <2>2 DEF Places
<1>19. ASSUME NEW k \in 1..3 PROVE ps[mesh.indices[t][k]] \in 0 .. vc + l - 1
  <2>1. PICK v \in Vertices : v = mesh.indices[t][k]
    BY CornerFacts
  <2>2. us[v] \in Int
    BY <1>2
  <2>3. CASE us[v] < 0
    <3>1. PICK i \in 1..l : new[i] = v
      BY <1>3, <1>5, <2>1, <2>3
    <3>2. ps[v] = vc + i - 1
      BY <1>11, <3>1
    <3> QED
      BY <2>1, <3>2
  <2>4. CASE us[v] >= 0
    <3>1. ps[v] = us[v] /\ us[v] \in 0 .. vc - 1
      BY <1>12, <1>13, <1>15, <2>4
    <3> QED
      BY <2>1, <3>1
  <2> QED
    BY <2>2, <2>3, <2>4
<1>20. VertexEnd(n) = Len(ws)
  BY <1>8, <1>9 DEF VertexEnd
<1>21. \A v \in Vertices : us[v] >= 0 => ps[v] = us[v]
  BY <1>12, <1>13
<1>22. \A k \in 1..3 : ps[mesh.indices[t][k]] \in 0 .. n.vertexCount - 1
  <2>1. n.vertexCount - 1 = vc + l - 1
    BY <1>9
  <2>2. \A k \in 1..3 : ps[mesh.indices[t][k]] \in 0 .. vc + l - 1
    BY <1>19
  <2> QED
    BY <2>1, <2>2
<1>23. n.triangleCount = m.triangleCount + 1 /\ n.vertexCount = m.vertexCount + Len(new) /\ n.vertexOffset = m.vertexOffset
  BY <1>1, <1>5, <1>9
<1>24. Len(new) \in Nat
  BY <1>5
<1> QED
  BY <1>3, <1>7, <1>8, <1>9, <1>18, <1>20, <1>21, <1>22, <1>23, <1>24

\* Meshlet m can take triangle t.
Room(m, us, t) ==
  m.vertexCount + Cardinality(Fresh(t, us)) <= call.maxVertices /\ m.triangleCount < call.maxTriangles

\* Triangle t is appended to meshlet m, which becomes n.
Adds(t, m, us, vs, ts, o, n, ps, ws, xs, p) ==
  /\ ps = PlacedAt(us, m, NewCorners(t, us)) /\ n = Grown(m, Len(NewCorners(t, us)))
  /\ ws = vs \o NewCorners(t, us) /\ xs = ts \o PlacesOf(ps, t) /\ p = Append(o, t)

\* Then the meshlet can be read from the output.
LEMMA Appended ==
  ASSUME Arguments, NEW t \in Faces, NEW m, NEW us, NEW vs, NEW ts, NEW o, Ready(m, us, vs, ts, o), Room(m, us, t),
         NEW n, NEW ps, NEW ws, NEW xs, NEW p, Adds(t, m, us, vs, ts, o, n, ps, ws, xs, p)
  PROVE  /\ Ready(n, ps, ws, xs, p)
         /\ Extends(ws, vs) /\ Extends(xs, ts) /\ Extends(p, o)
         /\ Len(p) = Len(o) + 1 /\ p[Len(o) + 1] = t
         /\ n.vertexOffset = m.vertexOffset /\ n.triangleOffset = m.triangleOffset
         /\ n.triangleCount = m.triangleCount + 1
         /\ n.vertexCount <= m.vertexCount + Cardinality(Fresh(t, us))
<1>a. /\ vs \in Seq(Vertices) /\ ts \in Seq(Nat) /\ o \in Seq(Faces)
      /\ Places(us, m, vs) /\ Reads(m, vs, ts, o)
  BY DEF Ready
<1>b. VertexEnd(m) = Len(vs) /\ TriangleEnd(m) = 3 * Len(o) /\ Len(ts) = 3 * Len(o)
  BY DEF Ready
<1>c. m.vertexCount + Cardinality(Fresh(t, us)) <= call.maxVertices /\ m.triangleCount < call.maxTriangles
  BY DEF Room
<1>d. PICK new : new = NewCorners(t, us)
  OBVIOUS
<1>e. ps = PlacedAt(us, m, new) /\ n = Grown(m, Len(new)) /\ ws = vs \o new
  BY <1>d DEF Adds
<1>1. m \in MeshletType
  BY <1>a DEF Reads
<1>2. PICK vo \in Nat, vc \in Nat, tc \in Nat : vo = m.vertexOffset /\ vc = m.vertexCount /\ tc = m.triangleCount
  BY <1>1 DEF MeshletType
<1>3. /\ n \in MeshletType /\ Places(ps, n, ws) /\ VertexEnd(n) = Len(ws)
      /\ ws \in Seq(Vertices) /\ Extends(ws, vs)
      /\ n.vertexOffset = vo /\ n.triangleOffset = m.triangleOffset /\ n.triangleCount = tc + 1
      /\ n.vertexCount = vc + Len(new) /\ Len(new) \in Nat
      /\ Len(new) <= Cardinality(Fresh(t, us)) /\ Cardinality(Fresh(t, us)) <= 3
      /\ Cardinality(Fresh(t, us)) \in Nat
      /\ \A k \in 1..3 : ps[mesh.indices[t][k]] \in 0 .. n.vertexCount - 1
  <2>1. /\ n \in MeshletType /\ Places(ps, n, vs \o new) /\ VertexEnd(n) = Len(vs \o new)
        /\ vs \o new \in Seq(Vertices) /\ Extends(vs \o new, vs)
        /\ n.vertexOffset = m.vertexOffset /\ n.triangleOffset = m.triangleOffset
        /\ n.triangleCount = m.triangleCount + 1
        /\ n.vertexCount = m.vertexCount + Len(new) /\ Len(new) \in Nat
        /\ Len(new) <= Cardinality(Fresh(t, us)) /\ Cardinality(Fresh(t, us)) <= 3
        /\ Cardinality(Fresh(t, us)) \in Nat
        /\ \A k \in 1..3 : ps[mesh.indices[t][k]] \in 0 .. n.vertexCount - 1
    <3>1. PICK m1 \in MeshletType, vs1 \in Seq(Vertices) : m1 = m /\ vs1 = vs
      BY <1>1, <1>a
    <3>2. /\ Places(us, m1, vs1) /\ VertexEnd(m1) = Len(vs1)
          /\ m1.vertexCount + Cardinality(Fresh(t, us)) <= call.maxVertices
          /\ new = NewCorners(t, us) /\ ps = PlacedAt(us, m1, new) /\ n = Grown(m1, Len(new))
      BY <1>a, <1>b, <1>c, <1>d, <1>e, <3>1, Zenon
    <3>3. /\ n \in MeshletType /\ Places(ps, n, vs1 \o new) /\ VertexEnd(n) = Len(vs1 \o new)
          /\ vs1 \o new \in Seq(Vertices) /\ Extends(vs1 \o new, vs1)
          /\ n.vertexOffset = m1.vertexOffset /\ n.triangleOffset = m1.triangleOffset
          /\ n.triangleCount = m1.triangleCount + 1
          /\ n.vertexCount = m1.vertexCount + Len(new) /\ Len(new) \in Nat
          /\ Len(new) <= Cardinality(Fresh(t, us)) /\ Cardinality(Fresh(t, us)) <= 3
          /\ Cardinality(Fresh(t, us)) \in Nat
          /\ \A k \in 1..3 : ps[mesh.indices[t][k]] \in 0 .. n.vertexCount - 1
      BY <3>2, Placed, SMTT(20)
    <3> QED
      BY <3>1, <3>3, Zenon
  <2> QED
    BY <1>2, <1>e, <2>1
<1>4. PICK nc \in Nat : nc = n.vertexCount /\ vc <= nc /\ nc <= vc + 3 /\ nc <= call.maxVertices
  <2>1. PICK f \in Nat, d \in Nat : f = Cardinality(Fresh(t, us)) /\ d = Len(new)
    BY <1>3
  <2>2. d <= f /\ f <= 3 /\ vc + f <= call.maxVertices /\ n.vertexCount = vc + d
    BY <1>2, <1>3, <1>c, <2>1
  <2> QED
    BY <2>2, InputFacts
<1>5. PICK l \in Nat : l = Len(o)
  BY <1>a, LenProperties
<1>6. PICK tri : tri = PlacesOf(ps, t)
  OBVIOUS
<1>7. tri \in Seq(Nat) /\ Len(tri) = 3 /\ \A k \in 1..3 : tri[k] = ps[mesh.indices[t][k]]
  BY <1>3, <1>4, <1>6 DEF PlacesOf
<1>8. /\ xs \in Seq(Nat) /\ Extends(xs, ts) /\ Len(xs) = 3 * l + 3
      /\ \A k \in 1..3 : xs[3 * l + k] = tri[k]
  <2>1. xs = ts \o tri
    BY <1>6 DEF Adds
  <2>2. /\ ts \o tri \in Seq(Nat) /\ Extends(ts \o tri, ts) /\ Len(ts \o tri) = Len(ts) + Len(tri)
        /\ \A k \in 1 .. Len(tri) : (ts \o tri)[Len(ts) + k] = tri[k]
    <3>1. PICK x \in Seq(Nat), y \in Seq(Nat) : x = ts /\ y = tri
      BY <1>a, <1>7
    <3>2. /\ x \o y \in Seq(Nat) /\ Extends(x \o y, x) /\ Len(x \o y) = Len(x) + Len(y)
          /\ \A k \in 1 .. Len(y) : (x \o y)[Len(x) + k] = y[k]
      BY ConcatExtends
    <3> QED
      BY <3>1, <3>2
  <2>3. Len(ts) = 3 * l
    BY <1>b, <1>5
  <2> QED
    BY <1>7, <2>1, <2>2, <2>3
<1>9. p \in Seq(Faces) /\ Len(p) = l + 1 /\ p[l + 1] = t /\ Extends(p, o)
  <2>1. p = Append(o, t)
    BY DEF Adds
  <2> QED
    BY <1>5, <1>a, <2>1, Enqueue DEF Extends
<1>10. Reads(m, ws, xs, p)
  <2>1. Len(vs) \in Nat /\ Len(ts) \in Nat /\ Len(o) \in Nat /\ Len(ws) \in Nat /\ Len(p) \in Nat
    BY <1>a, <1>3, <1>9, LenProperties
  <2> QED
    BY <1>a, <1>b, <1>3, <1>8, <1>9, <2>1, ReadsGrow
<1>11. PICK q \in Nat : /\ m.triangleOffset = 3 * q
                        /\ \A i \in q + 1 .. q + m.triangleCount : Holds(m, ws, xs, p, i)
  BY <1>10 DEF Reads
<1>12. q + tc = l
  BY <1>b, <1>2, <1>5, <1>11 DEF TriangleEnd
<1>13. ASSUME NEW i \in q + 1 .. q + (tc + 1) PROVE Holds(n, ws, xs, p, i)
  <2> SUFFICES ASSUME NEW k \in 1..3
               PROVE  /\ xs[3 * (i - 1) + k] \in 0 .. nc - 1
                      /\ ws[vo + xs[3 * (i - 1) + k] + 1] = mesh.indices[p[i]][k]
    BY <1>3, <1>4 DEF Holds
  <2>1. CASE i <= l
    <3>1. Holds(m, ws, xs, p, i)
      BY <1>2, <1>11, <1>12, <2>1
    <3>2. /\ xs[3 * (i - 1) + k] \in 0 .. vc - 1
          /\ ws[vo + xs[3 * (i - 1) + k] + 1] = mesh.indices[p[i]][k]
      BY <1>2, <3>1 DEF Holds
    <3>3. \A c : c \in 0 .. vc - 1 => c \in 0 .. nc - 1
      BY <1>4
    <3> QED
      BY <3>2, <3>3
  <2>2. CASE i = l + 1
    <3>1. 3 * (i - 1) + k = 3 * l + k
      BY <2>2
    <3>2. PICK c : c = ps[mesh.indices[t][k]] /\ c = xs[3 * (i - 1) + k]
      BY <1>7, <1>8, <3>1
    <3>3. c \in 0 .. nc - 1
      BY <1>3, <1>4, <3>2
    <3>4. mesh.indices[t][k] \in Vertices
      BY CornerFacts
    <3>5. ws[n.vertexOffset + ps[mesh.indices[t][k]] + 1] = mesh.indices[t][k]
      <4>1. ps[mesh.indices[t][k]] >= 0
        BY <3>2, <3>3
      <4>2. \A v \in Vertices : ps[v] >= 0 => ws[n.vertexOffset + ps[v] + 1] = v
        BY <1>3 DEF Places
      <4> QED
        BY <3>4, <4>1, <4>2
    <3> QED
      BY <1>3, <1>9, <2>2, <3>2, <3>3, <3>5
  <2>3. i <= l \/ i = l + 1
    BY <1>12
  <2> QED
    BY <2>1, <2>2, <2>3
<1>14. vc <= 3 * tc /\ tc + 1 <= call.maxTriangles
  <2>1. m.vertexCount <= 3 * m.triangleCount
    BY <1>a DEF Reads
  <2> QED
    <3>1. call.maxTriangles \in Nat
      BY InputFacts
    <3>2. tc < call.maxTriangles /\ vc <= 3 * tc
      BY <1>c, <1>2, <2>1
    <3> QED
      BY <3>1, <3>2
<1>15. Reads(n, ws, xs, p)
  <2>1. n.vertexCount <= 3 * n.triangleCount
    BY <1>3, <1>4, <1>14
  <2>2. VertexEnd(n) <= Len(ws)
    <3>1. Len(ws) \in Nat
      BY <1>3, LenProperties
    <3> QED
      BY <1>3, <3>1
  <2>3. q + n.triangleCount <= Len(p)
    BY <1>3, <1>9, <1>12
  <2>4. n.triangleOffset = 3 * q
    BY <1>3, <1>11
  <2>5. \A i \in q + 1 .. q + n.triangleCount : Holds(n, ws, xs, p, i)
    BY <1>3, <1>13
  <2>6. n.vertexCount <= call.maxVertices /\ n.triangleCount <= call.maxTriangles
    BY <1>3, <1>4, <1>14
  <2> QED
    BY <1>3, <2>1, <2>2, <2>3, <2>4, <2>5, <2>6 DEF Reads
<1>16. TriangleEnd(n) = 3 * Len(p)
  BY <1>3, <1>9, <1>11, <1>12 DEF TriangleEnd
<1>17. n.vertexCount <= m.vertexCount + Cardinality(Fresh(t, us))
  <2>1. PICK f \in Nat, d \in Nat : f = Cardinality(Fresh(t, us)) /\ d = Len(new)
    BY <1>3
  <2> QED
    BY <1>2, <1>3, <2>1
<1>18. Len(xs) = 3 * Len(p)
  BY <1>8, <1>9
<1>19. Ready(n, ps, ws, xs, p)
  BY <1>3, <1>8, <1>9, <1>15, <1>16, <1>18 DEF Ready
<1> QED
  BY <1>2, <1>3, <1>5, <1>8, <1>9, <1>17, <1>19

\* Meshlet m is closed: the next one starts behind it, and its vertices lose their places.
Emptied(m) ==
  [vertexOffset |-> VertexEnd(m), triangleOffset |-> TriangleEnd(m), vertexCount |-> 0, triangleCount |-> 0]

Cleared(us, m, vs) ==
  [v \in Vertices |-> IF v \in {vs[m.vertexOffset + i + 1] : i \in 0 .. m.vertexCount - 1} THEN -1 ELSE us[v]]

LEMMA EmptiedFacts ==
  ASSUME NEW m \in MeshletType
  PROVE  /\ Emptied(m) \in MeshletType
         /\ Emptied(m).vertexOffset = VertexEnd(m) /\ Emptied(m).triangleOffset = TriangleEnd(m)
         /\ Emptied(m).vertexCount = 0 /\ Emptied(m).triangleCount = 0
         /\ VertexEnd(Emptied(m)) = VertexEnd(m) /\ TriangleEnd(Emptied(m)) = TriangleEnd(m)
         /\ VertexEnd(m) \in Nat /\ TriangleEnd(m) \in Nat
<1>1. VertexEnd(m) \in Nat /\ TriangleEnd(m) \in Nat
  BY DEF MeshletType, VertexEnd, TriangleEnd
<1>2. /\ Emptied(m) \in MeshletType
      /\ Emptied(m).vertexOffset = VertexEnd(m) /\ Emptied(m).triangleOffset = TriangleEnd(m)
      /\ Emptied(m).vertexCount = 0 /\ Emptied(m).triangleCount = 0
  BY <1>1 DEF Emptied, MeshletType
<1>3. \A n : /\ VertexEnd(n) = n.vertexOffset + n.vertexCount
             /\ TriangleEnd(n) = n.triangleOffset + 3 * n.triangleCount
  BY DEF VertexEnd, TriangleEnd
<1> QED
  BY <1>1, <1>2, <1>3

\* The next meshlet is empty, and can take any triangle.
LEMMA Restarted ==
  ASSUME Arguments, NEW m, NEW us, NEW vs, NEW ts, NEW o, Ready(m, us, vs, ts, o), NEW t \in Faces
  PROVE  Ready(Emptied(m), Cleared(us, m, vs), vs, ts, o) /\ Room(Emptied(m), Cleared(us, m, vs), t)
<1>1. /\ vs \in Seq(Vertices) /\ ts \in Seq(Nat) /\ o \in Seq(Faces)
      /\ Places(us, m, vs) /\ Reads(m, vs, ts, o)
  BY DEF Ready
<1>2. VertexEnd(m) = Len(vs) /\ TriangleEnd(m) = 3 * Len(o) /\ Len(ts) = 3 * Len(o)
  BY DEF Ready
<1>3. m \in MeshletType
  BY <1>1 DEF Reads
<1>4. PICK e : e = Emptied(m)
  OBVIOUS
<1>5. /\ e \in MeshletType /\ e.vertexOffset = Len(vs) /\ e.triangleOffset = 3 * Len(o)
      /\ e.vertexCount = 0 /\ e.triangleCount = 0 /\ VertexEnd(e) = Len(vs) /\ TriangleEnd(e) = 3 * Len(o)
  BY <1>2, <1>3, <1>4, EmptiedFacts
<1>6. PICK z : z = Cleared(us, m, vs)
  OBVIOUS
<1>7. PICK vo \in Nat, vc \in Nat : vo = m.vertexOffset /\ vc = m.vertexCount
  BY <1>3 DEF MeshletType
<1>8. ASSUME NEW v \in Vertices PROVE z[v] = -1
  <2>1. us[v] \in -1 .. call.maxVertices - 1 /\ call.maxVertices \in Nat
    BY <1>1, InputFacts DEF Places
  <2>2. CASE us[v] >= 0
    <3>1. us[v] < vc /\ vs[vo + us[v] + 1] = v
      BY <1>1, <1>7, <2>2 DEF Places
    <3>2. us[v] \in 0 .. vc - 1
      BY <2>1, <2>2, <3>1
    <3>3. v \in {vs[vo + i + 1] : i \in 0 .. vc - 1}
      BY <3>1, <3>2
    <3> QED
      BY <1>6, <1>7, <3>3 DEF Cleared
  <2>3. CASE us[v] < 0
    <3>1. us[v] = -1
      BY <2>1, <2>3
    <3> QED
      BY <1>6, <3>1 DEF Cleared
  <2> QED
    BY <2>1, <2>2, <2>3
<1>9. z \in [Vertices -> -1 .. call.maxVertices - 1]
  <2>1. z = [v \in Vertices |-> z[v]]
    BY <1>6 DEF Cleared
  <2>2. -1 \in -1 .. call.maxVertices - 1
    BY InputFacts
  <2> QED
    BY <1>8, <2>1, <2>2
<1>10. Places(z, e, vs)
  <2>1. 0 .. e.vertexCount - 1 = {}
    BY <1>5
  <2> QED
    BY <1>8, <1>9, <2>1 DEF Places
<1>11. Len(o) \in Nat /\ Len(vs) \in Nat
  BY <1>1, LenProperties
<1>12. Reads(e, vs, ts, o)
  <2>1. \A i \in Len(o) + 1 .. Len(o) + 0 : Holds(e, vs, ts, o, i)
    BY <1>11
  <2>2. 0 <= call.maxVertices /\ 0 <= call.maxTriangles /\ Len(o) + 0 <= Len(o) /\ Len(vs) <= Len(vs)
    BY <1>11, InputFacts
  <2> QED
    BY <1>5, <1>11, <2>1, <2>2 DEF Reads
<1>13. Ready(e, z, vs, ts, o)
  BY <1>1, <1>2, <1>5, <1>10, <1>12 DEF Ready
<1>14. Room(e, z, t)
  <2>1. z \in [Vertices -> Int]
    BY <1>9
  <2>2. Cardinality(Fresh(t, z)) \in Nat /\ Cardinality(Fresh(t, z)) <= 3
    BY <2>1, NewCornersFacts
  <2> QED
    BY <1>5, <2>2, InputFacts, SMTT(30) DEF Room
<1> QED
  BY <1>4, <1>6, <1>13, <1>14

\* AppendMeshlet, given the meshlet and the places it appends to
AppendsTo(t, closes, start, places) ==
  LET new == NewCorners(t, places)
      place(v) == start.vertexCount + (CHOOSE i \in DOMAIN new : new[i] = v) - 1
      placed == [v \in DOMAIN used |-> IF v \in Range(new) THEN place(v) ELSE places[v]]
  IN /\ meshlets' = IF closes THEN Append(meshlets, meshlet) ELSE meshlets
     /\ used' = placed
     /\ meshletVertices' = meshletVertices \o new
     /\ meshletTriangles' = meshletTriangles \o [k \in 1..3 |-> placed[mesh.indices[t][k]]]
     /\ meshlet' = [start EXCEPT !.vertexCount = @ + Len(new), !.triangleCount = @ + 1]
     /\ order' = Append(order, t)

LEMMA AppendsToAdds ==
  ASSUME NEW t, NEW closes, NEW start, NEW places, AppendsTo(t, closes, start, places), DOMAIN used = Vertices
  PROVE  Adds(t, start, places, meshletVertices, meshletTriangles, order,
              meshlet', used', meshletVertices', meshletTriangles', order')
<1>1. PICK new : new = NewCorners(t, places)
  OBVIOUS
<1>2. used' = [v \in DOMAIN used |->
                 IF v \in Range(new) THEN start.vertexCount + (CHOOSE i \in DOMAIN new : new[i] = v) - 1
                 ELSE places[v]]
  BY <1>1 DEF AppendsTo
<1>3. used' = PlacedAt(places, start, new)
  BY <1>2 DEF PlacedAt
<1>4. meshletTriangles' = meshletTriangles \o PlacesOf(used', t)
  BY DEF AppendsTo, PlacesOf
<1>5. meshlet' = Grown(start, Len(new))
  BY <1>1 DEF AppendsTo, Grown
<1>6. meshletVertices' = meshletVertices \o new /\ order' = Append(order, t)
  BY <1>1 DEF AppendsTo
<1> QED
  BY <1>1, <1>3, <1>4, <1>5, <1>6 DEF Adds

\* The triangle is appended to the current meshlet, or to the next one when it is closed.
LEMMA AppendForm ==
  ASSUME NEW t, NEW split, AppendMeshlet(t, split), DOMAIN used = Vertices
  PROVE  /\ (Full(t) \/ split) =>
              /\ meshlets' = Append(meshlets, meshlet)
              /\ Adds(t, Emptied(meshlet), Cleared(used, meshlet, meshletVertices),
                      meshletVertices, meshletTriangles, order,
                      meshlet', used', meshletVertices', meshletTriangles', order')
         /\ ~(Full(t) \/ split) =>
              /\ meshlets' = meshlets
              /\ Adds(t, meshlet, used, meshletVertices, meshletTriangles, order,
                      meshlet', used', meshletVertices', meshletTriangles', order')
<1>1. NextMeshlet = Emptied(meshlet)
  BY DEF NextMeshlet, Emptied
<1>2. Released = Cleared(used, meshlet, meshletVertices)
  BY DEF Released, Cleared, VerticesOf, MeshletVertex
<1>3. AppendsTo(t, Full(t) \/ split, IF Full(t) \/ split THEN NextMeshlet ELSE meshlet,
                IF Full(t) \/ split THEN Released ELSE used)
  BY DEF AppendMeshlet, AppendsTo
<1>4. \A closes, start, places : AppendsTo(t, closes, start, places) =>
        /\ meshlets' = IF closes THEN Append(meshlets, meshlet) ELSE meshlets
        /\ Adds(t, start, places, meshletVertices, meshletTriangles, order,
                meshlet', used', meshletVertices', meshletTriangles', order')
  <2>1. \A closes, start, places : AppendsTo(t, closes, start, places) =>
          meshlets' = IF closes THEN Append(meshlets, meshlet) ELSE meshlets
    BY DEF AppendsTo
  <2> QED
    BY <2>1, AppendsToAdds
<1>5. CASE Full(t) \/ split
  <2>1. AppendsTo(t, TRUE, Emptied(meshlet), Cleared(used, meshlet, meshletVertices))
    BY <1>1, <1>2, <1>3, <1>5, Zenon
  <2> QED
    BY <1>4, <1>5, <2>1, Zenon
<1>6. CASE ~(Full(t) \/ split)
  <2>1. AppendsTo(t, FALSE, meshlet, used)
    BY <1>3, <1>6, Zenon
  <2> QED
    BY <1>4, <1>6, <2>1, Zenon
<1> QED
  BY <1>5, <1>6, Zenon

-----------------------------------------------------------------------------
(* The output when a triangle is appended *)

LEMMA Frozen ==
  ASSUME mesh' = mesh, call' = call
  PROVE  /\ Faces' = Faces /\ Vertices' = Vertices /\ FaceCount' = FaceCount /\ Arguments' = Arguments
         /\ Enough' = Enough /\ Share' = Share /\ Limit' = Limit
         /\ \A m : WellFilled(m)' = WellFilled(m)
         /\ \A m, vs, ts, o : Reads(m, vs, ts, o)' = Reads(m, vs, ts, o)
         /\ \A m, us, vs, ts, o : Ready(m, us, vs, ts, o)' = Ready(m, us, vs, ts, o)
         /\ \A front, m, vs, ts, o : Closed(front, m, vs, ts, o)' = Closed(front, m, vs, ts, o)
<1>1. Faces' = Faces /\ Vertices' = Vertices /\ FaceCount' = FaceCount /\ Arguments' = Arguments
  BY DEF Faces, Vertices, Corners, FaceCount, Arguments
<1>2. Enough' = Enough
  BY DEF Enough
<1>3. Share' = Share /\ Limit' = Limit
  BY <1>1, <1>2 DEF Share, Limit
<1>4. \A m : WellFilled(m)' = WellFilled(m)
  BY <1>2 DEF WellFilled
<1>5. \A m, vs, ts, o, i : Holds(m, vs, ts, o, i)' = Holds(m, vs, ts, o, i)
  BY DEF Holds
<1>6. \A m, vs, ts, o : Reads(m, vs, ts, o)' = Reads(m, vs, ts, o)
  BY <1>5 DEF Reads
<1>7. \A us, m, vs : Places(us, m, vs)' = Places(us, m, vs)
  BY <1>1 DEF Places
<1>8. \A m, us, vs, ts, o : Ready(m, us, vs, ts, o)' = Ready(m, us, vs, ts, o)
  BY <1>1, <1>6, <1>7 DEF Ready
<1>9. \A front, m, vs, ts, o : Closed(front, m, vs, ts, o)' = Closed(front, m, vs, ts, o)
  BY <1>4, <1>6 DEF Closed
<1> QED
  BY <1>1, <1>2, <1>3, <1>4, <1>6, <1>8, <1>9

\* The closed meshlets stay as they are when the one behind them grows.
LEMMA ClosedGrows ==
  ASSUME Arguments, NEW front, NEW m, NEW us, NEW vs, NEW ts, NEW o, NEW n, NEW ps, NEW ws, NEW xs, NEW p,
         Ready(m, us, vs, ts, o), Closed(front, m, vs, ts, o), Ready(n, ps, ws, xs, p),
         Extends(ws, vs), Extends(xs, ts), Extends(p, o),
         n.vertexOffset = m.vertexOffset, n.triangleOffset = m.triangleOffset
  PROVE  Closed(front, n, ws, xs, p)
<1>1. Len(vs) \in Nat /\ Len(ts) \in Nat /\ Len(o) \in Nat /\ Len(ts) = 3 * Len(o)
  BY LenProperties DEF Ready
<1>2. Len(ws) \in Nat /\ Len(p) \in Nat
  BY LenProperties DEF Ready
<1>3. \A i \in 1 .. Len(front) : Reads(front[i], ws, xs, p)
  <2>1. \A i \in 1 .. Len(front) : Reads(front[i], vs, ts, o)
    BY DEF Closed
  <2> QED
    BY <1>1, <1>2, <2>1, ReadsGrow
<1>4. StartsAt(n, Len(front) + 1, front)
  BY DEF Closed, StartsAt
<1> QED
  BY <1>3, <1>4 DEF Closed

\* One more meshlet is closed, and the next one is empty.
LEMMA ClosedAppend ==
  ASSUME NEW front \in Seq(MeshletType), NEW m \in MeshletType, NEW vs, NEW ts, NEW o,
         Reads(m, vs, ts, o), Closed(front, m, vs, ts, o),
         m.triangleCount >= 1, call.mode # "split" => WellFilled(m)
  PROVE  Append(front, m) \in Seq(MeshletType) /\ Closed(Append(front, m), Emptied(m), vs, ts, o)
<1>1. PICK all : all = Append(front, m)
  OBVIOUS
<1>2. PICK l \in Nat : l = Len(front)
  BY LenProperties
<1>3. /\ all \in Seq(MeshletType) /\ Len(all) = l + 1 /\ all[l + 1] = m
      /\ \A i \in 1..l : all[i] = front[i]
  BY <1>1, <1>2, Enqueue
<1>4. ASSUME NEW i \in 1 .. l + 1, NEW k PROVE StartsAt(k, i, all) <=> StartsAt(k, i, front)
  <2>1. CASE i = 1
    BY <2>1 DEF StartsAt
  <2>2. CASE i # 1
    <3>1. i - 1 \in 1..l
      BY <2>2
    <3>2. all[i - 1] = front[i - 1]
      BY <1>3, <3>1
    <3> QED
      BY <3>2 DEF StartsAt
  <2> QED
    BY <2>1, <2>2
<1>5. ASSUME NEW i \in 1 .. l + 1
      PROVE  /\ Reads(all[i], vs, ts, o) /\ StartsAt(all[i], i, all)
             /\ all[i].triangleCount >= 1 /\ (call.mode # "split" => WellFilled(all[i]))
  <2>1. CASE i \in 1..l
    <3>1. /\ Reads(front[i], vs, ts, o) /\ StartsAt(front[i], i, front)
          /\ front[i].triangleCount >= 1 /\ (call.mode # "split" => WellFilled(front[i]))
      BY <1>2, <2>1 DEF Closed
    <3> QED
      BY <1>3, <1>4, <2>1, <3>1
  <2>2. CASE i = l + 1
    <3>1. StartsAt(m, l + 1, front)
      BY <1>2 DEF Closed
    <3>2. all[i] = m /\ StartsAt(m, i, all)
      BY <1>3, <1>4, <2>2, <3>1
    <3> QED
      BY <3>2
  <2> QED
    BY <2>1, <2>2
<1>6. StartsAt(Emptied(m), Len(all) + 1, all)
  <2>1. Len(all) + 1 # 1 /\ (Len(all) + 1) - 1 = l + 1
    BY <1>3
  <2>2. all[(Len(all) + 1) - 1] = m
    BY <1>3, <2>1
  <2>3. Emptied(m).vertexOffset = VertexEnd(m) /\ Emptied(m).triangleOffset = TriangleEnd(m)
    BY EmptiedFacts
  <2> QED
    BY <2>1, <2>2, <2>3 DEF StartsAt
<1> QED
  BY <1>1, <1>3, <1>5, <1>6 DEF Closed

\* A full meshlet has triangles, and enough of them unless it has too many vertices.
LEMMA FullFacts ==
  ASSUME Arguments, Ready(meshlet, used, meshletVertices, meshletTriangles, order), NEW t \in Faces
  PROVE  /\ Full(t) => meshlet.triangleCount >= 1 /\ WellFilled(meshlet)
         /\ ~Full(t) => Room(meshlet, used, t)
         /\ Extra(t) = Cardinality(Fresh(t, used)) /\ Extra(t) \in 0..3
<1>1. /\ meshlet \in MeshletType /\ used \in [Vertices -> -1 .. call.maxVertices - 1]
      /\ meshlet.vertexCount <= 3 * meshlet.triangleCount
  BY DEF Ready, Reads, Places
<1>2. PICK vc \in Nat, tc \in Nat : vc = meshlet.vertexCount /\ tc = meshlet.triangleCount
  BY <1>1 DEF MeshletType
<1>3. Extra(t) = Cardinality(Fresh(t, used))
  BY DEF Extra, Fresh
<1>4. Extra(t) \in 0..3
  <2>1. used \in [Vertices -> Int]
    BY <1>1, InputFacts
  <2>2. Cardinality(Fresh(t, used)) \in Nat /\ Cardinality(Fresh(t, used)) <= 3
    BY <2>1, NewCornersFacts
  <2> QED
    BY <1>3, <2>2
<1>5. PICK x \in 0..3 : x = Extra(t)
  BY <1>4
<1>6. Full(t) <=> vc + x > call.maxVertices \/ tc >= call.maxTriangles
  BY <1>2, <1>5 DEF Full
<1>7. ASSUME Full(t) PROVE tc >= 1 /\ WellFilled(meshlet)
  <2>1. CASE vc + x > call.maxVertices
    <3>0. PICK mv \in Nat : mv = call.maxVertices /\ mv >= 3
      BY InputFacts
    <3>1. vc > call.maxVertices - 3 /\ vc >= 1
      BY <2>1, <3>0
    <3>2. vc <= 3 * tc
      BY <1>1, <1>2
    <3> QED
      BY <1>2, <3>1, <3>2 DEF WellFilled
  <2>2. CASE tc >= call.maxTriangles
    <3>1. tc >= Enough /\ tc >= 1
      BY <2>2, InputFacts, EnoughFacts, SMTT(30)
    <3> QED
      BY <1>2, <3>1 DEF WellFilled
  <2> QED
    BY <1>6, <1>7, <2>1, <2>2
<1>8. ASSUME ~Full(t) PROVE Room(meshlet, used, t)
  <2>1. vc + x <= call.maxVertices /\ tc < call.maxTriangles
    BY <1>6, <1>8, InputFacts, SMTT(30)
  <2> QED
    BY <1>2, <1>3, <1>5, <2>1 DEF Room
<1> QED
  BY <1>2, <1>3, <1>4, <1>7, <1>8

\* A well filled meshlet pays for its share of the bound.
LEMMA Shares ==
  ASSUME Arguments, NEW m \in MeshletType, m.vertexCount <= 3 * m.triangleCount, WellFilled(m)
  PROVE  Share <= 3 * m.triangleCount
<1>1. PICK vc \in Nat, tc \in Nat : vc = m.vertexCount /\ tc = m.triangleCount
  BY DEF MeshletType
<1>2. CASE tc >= Enough
  <2>1. 3 * Enough <= 3 * tc
    BY <1>2, EnoughFacts
  <2> QED
    BY <1>1, <2>1, EnoughFacts
<1>3. CASE vc > call.maxVertices - 3
  <2>1. vc >= call.maxVertices - 2 /\ vc <= 3 * tc
    BY <1>1, <1>3, InputFacts
  <2>2. PICK s \in Nat, x \in Nat : s = Share /\ x = call.maxVertices /\ s <= x - 2
    BY InputFacts, EnoughFacts
  <2> QED
    BY <1>1, <2>1, <2>2
<1> QED
  BY <1>1, <1>2, <1>3 DEF WellFilled

\* One step that appends triangle t, which no step has appended
LEMMA AppendStep ==
  ASSUME Arguments, Output, phase # "done", phase' # "done", mesh' = mesh, call' = call,
         NEW t \in Live, NEW split \in BOOLEAN, AppendMeshlet(t, split),
         split => meshlet.triangleCount >= 1 /\ (call.mode # "split" => WellFilled(meshlet))
  PROVE  /\ Arguments' /\ Output'
         /\ order' = Append(order, t)
         /\ Len(order) \in Nat /\ Len(order') = Len(order) + 1 /\ order'[Len(order) + 1] = t
         /\ \A i \in 1 .. Len(order) : order'[i] = order[i]
         /\ meshlet \in MeshletType /\ meshlet' \in MeshletType
         /\ meshlets \in Seq(MeshletType) /\ meshlets' \in Seq(MeshletType)
         /\ meshlet.vertexCount <= 3 * meshlet.triangleCount
         /\ TriangleEnd(meshlet) = 3 * Len(order)
         /\ (Full(t) \/ split) =>
              /\ Len(meshlets') = Len(meshlets) + 1 /\ meshlet.triangleCount >= 1
              /\ split \/ WellFilled(meshlet)
              /\ meshlet'.triangleOffset = TriangleEnd(meshlet) /\ meshlet'.vertexCount <= 3
         /\ ~(Full(t) \/ split) =>
              /\ meshlets' = meshlets /\ Room(meshlet, used, t)
              /\ meshlet'.triangleOffset = meshlet.triangleOffset
              /\ meshlet'.vertexCount <= meshlet.vertexCount + Extra(t) /\ Extra(t) \in 0..3
<1> DEFINE vs == meshletVertices
           ts == meshletTriangles
           ws == meshletVertices'
           xs == meshletTriangles'
<1>1. Ready(meshlet, used, vs, ts, order)
  BY DEF Output
<1>2. Closed(meshlets, meshlet, vs, ts, order) /\ meshlets \in Seq(MeshletType)
  BY DEF Output
<1>3. /\ meshlet \in MeshletType /\ DOMAIN used = Vertices
      /\ meshlet.vertexCount <= 3 * meshlet.triangleCount /\ Reads(meshlet, vs, ts, order)
  BY <1>1 DEF Ready, Reads, Places
<1>4. order \in Seq(Faces) /\ TriangleEnd(meshlet) = 3 * Len(order)
  BY <1>1 DEF Ready
<1>5. t \in Faces /\ t \notin Range(order)
  BY DEF Live
<1>6. /\ Full(t) => meshlet.triangleCount >= 1 /\ WellFilled(meshlet)
      /\ ~Full(t) => Room(meshlet, used, t)
      /\ Extra(t) = Cardinality(Fresh(t, used)) /\ Extra(t) \in 0..3
  BY <1>1, <1>5, FullFacts
<1>7. order' = Append(order, t)
  BY DEF AppendMeshlet
<1>8. PICK l \in Nat : l = Len(order)
  BY <1>4, LenProperties
<1>9. Len(order') = l + 1 /\ order'[l + 1] = t /\ \A i \in 1..l : order'[i] = order[i]
  BY <1>4, <1>5, <1>7, <1>8, Enqueue
<1>10. ASSUME Full(t) \/ split
       PROVE  /\ Ready(meshlet', used', ws, xs, order') /\ Closed(meshlets', meshlet', ws, xs, order')
              /\ meshlets' \in Seq(MeshletType) /\ Len(meshlets') = Len(meshlets) + 1
              /\ meshlet.triangleCount >= 1 /\ (split \/ WellFilled(meshlet))
              /\ meshlet'.triangleOffset = TriangleEnd(meshlet) /\ meshlet'.vertexCount <= 3
              /\ meshlet'.triangleCount = 1
  <2>1. PICK e, z : e = Emptied(meshlet) /\ z = Cleared(used, meshlet, vs)
    OBVIOUS
  <2>2. meshlets' = Append(meshlets, meshlet) /\ Adds(t, e, z, vs, ts, order, meshlet', used', ws, xs, order')
    BY <1>3, <1>10, <2>1, AppendForm, Zenon
  <2>3. Ready(e, z, vs, ts, order) /\ Room(e, z, t)
    BY <1>1, <1>5, <2>1, Restarted
  <2>4. /\ Ready(meshlet', used', ws, xs, order')
        /\ Extends(ws, vs) /\ Extends(xs, ts) /\ Extends(order', order)
        /\ meshlet'.vertexOffset = e.vertexOffset /\ meshlet'.triangleOffset = e.triangleOffset
        /\ meshlet'.triangleCount = e.triangleCount + 1
        /\ meshlet'.vertexCount <= e.vertexCount + Cardinality(Fresh(t, z))
    BY <1>5, <2>2, <2>3, Appended
  <2>5. meshlet.triangleCount >= 1 /\ (call.mode # "split" => WellFilled(meshlet)) /\ (split \/ WellFilled(meshlet))
    BY <1>6, <1>10
  <2>6. Append(meshlets, meshlet) \in Seq(MeshletType) /\ Closed(Append(meshlets, meshlet), e, vs, ts, order)
    BY <1>2, <1>3, <2>1, <2>5, ClosedAppend
  <2>7. PICK all : all = Append(meshlets, meshlet)
    OBVIOUS
  <2>8. Closed(all, meshlet', ws, xs, order')
    BY <2>3, <2>4, <2>6, <2>7, ClosedGrows
  <2>9. e.triangleOffset = TriangleEnd(meshlet) /\ e.vertexCount = 0 /\ e.triangleCount = 0
    BY <1>3, <2>1, EmptiedFacts
  <2>10. Cardinality(Fresh(t, z)) \in Nat /\ Cardinality(Fresh(t, z)) <= 3
    <3>1. z \in [Vertices -> Int]
      BY <2>3, InputFacts DEF Ready, Places
    <3> QED
      BY <1>5, <3>1, NewCornersFacts
  <2>11. meshlet'.vertexCount <= 3
    <3>1. meshlet' \in MeshletType
      BY <2>4 DEF Ready, Reads
    <3>2. meshlet'.vertexCount \in Nat
      BY <3>1 DEF MeshletType
    <3>3. PICK f \in Nat : f = Cardinality(Fresh(t, z)) /\ f <= 3
      BY <2>10
    <3>4. meshlet'.vertexCount <= 0 + f
      BY <2>4, <2>9, <3>3
    <3> QED
      BY <3>2, <3>3, <3>4
  <2>12. Len(meshlets') = Len(meshlets) + 1
    BY <1>2, <1>3, <2>2, Enqueue
  <2>13. meshlet'.triangleCount = 1
    BY <2>4, <2>9
  <2> QED
    BY <2>2, <2>4, <2>5, <2>6, <2>7, <2>8, <2>9, <2>11, <2>12, <2>13
<1>11. ASSUME ~(Full(t) \/ split)
       PROVE  /\ Ready(meshlet', used', ws, xs, order') /\ Closed(meshlets', meshlet', ws, xs, order')
              /\ meshlets' = meshlets /\ Room(meshlet, used, t)
              /\ meshlet'.triangleOffset = meshlet.triangleOffset
              /\ meshlet'.vertexCount <= meshlet.vertexCount + Extra(t)
              /\ meshlet'.triangleCount = meshlet.triangleCount + 1
  <2>1. meshlets' = meshlets /\ Adds(t, meshlet, used, vs, ts, order, meshlet', used', ws, xs, order')
    BY <1>3, <1>11, AppendForm, Zenon
  <2>2. Room(meshlet, used, t)
    BY <1>6, <1>11
  <2>3. /\ Ready(meshlet', used', ws, xs, order')
        /\ Extends(ws, vs) /\ Extends(xs, ts) /\ Extends(order', order)
        /\ meshlet'.vertexOffset = meshlet.vertexOffset /\ meshlet'.triangleOffset = meshlet.triangleOffset
        /\ meshlet'.triangleCount = meshlet.triangleCount + 1
        /\ meshlet'.vertexCount <= meshlet.vertexCount + Cardinality(Fresh(t, used))
    BY <1>1, <1>5, <2>1, <2>2, Appended
  <2>4. Closed(meshlets, meshlet', ws, xs, order')
    BY <1>1, <1>2, <2>3, ClosedGrows
  <2> QED
    BY <1>6, <2>1, <2>2, <2>3, <2>4
<1>12. Ready(meshlet', used', ws, xs, order') /\ Closed(meshlets', meshlet', ws, xs, order') /\ meshlets' \in Seq(MeshletType)
  BY <1>2, <1>10, <1>11
<1>13. meshlet' \in MeshletType
  BY <1>12 DEF Ready, Reads
<1>14. meshlet'.triangleCount >= 1
  <2>1. meshlet.triangleCount \in Nat
    BY <1>3 DEF MeshletType
  <2> QED
    BY <1>10, <1>11, <2>1
<1>15. \A i, j \in 1 .. Len(order') : order'[i] = order'[j] => i = j
  <2>1. \A i \in 1..l : order[i] # t
    BY <1>4, <1>5, <1>8 DEF Range
  <2>2. \A i, j \in 1..l : order[i] = order[j] => i = j
    BY <1>8 DEF Output
  <2>3. \A i \in 1 .. Len(order') : i \in 1..l \/ i = l + 1
    BY <1>9
  <2> QED
    BY <1>9, <2>1, <2>2, <2>3
<1>16. Arguments'
  BY Frozen
<1>17. Output'
  <2>1. Ready(meshlet, used, meshletVertices, meshletTriangles, order)'
    BY <1>12, Frozen
  <2>2. Closed(meshlets, meshlet, meshletVertices, meshletTriangles, order)'
    BY <1>12, Frozen
  <2>3. MeshletType' = MeshletType
    BY DEF MeshletType
  <2> HIDE DEF vs, ts, ws, xs
  <2> QED
    BY <1>12, <1>14, <1>15, <2>1, <2>2 DEF Output
<1> HIDE DEF vs, ts, ws, xs
<1> QED
  BY <1>2, <1>3, <1>4, <1>6, <1>7, <1>8, <1>9, <1>10, <1>11, <1>12, <1>13, <1>16, <1>17

\* No more triangles are appended than there are.
LEMMA OrderLength ==
  ASSUME Arguments, Output
  PROVE  Len(order) \in Nat /\ Len(order) <= FaceCount
<1>1. order \in Seq(Faces) /\ \A i, j \in 1 .. Len(order) : order[i] = order[j] => i = j
  BY DEF Output, Ready
<1>2. Len(order) \in Nat /\ IsFiniteSet(1 .. Len(order)) /\ Cardinality(1 .. Len(order)) = Len(order)
  BY <1>1, LenProperties, Indices
<1>3. PICK R : R = {order[i] : i \in 1 .. Len(order)}
  OBVIOUS
<1>4. IsFiniteSet(R) /\ Cardinality(R) = Len(order)
  <2>1. PICK D : D = 1 .. Len(order)
    OBVIOUS
  <2>2. R = {order[i] : i \in D}
    BY <1>3, <2>1
  <2>3. IsFiniteSet({order[i] : i \in D}) /\ Cardinality({order[i] : i \in D}) = Cardinality(D)
    BY <1>1, <1>2, <2>1, DistinctValues
  <2> QED
    BY <1>2, <2>1, <2>2, <2>3
<1>5. R \subseteq Faces
  BY <1>1, <1>3, ElementOfSeq
<1>6. Cardinality(R) <= Cardinality(Faces)
  BY <1>5, FaceNumber, FS_Subset
<1> QED
  BY <1>2, <1>4, <1>6, FaceNumber

\* If every closed meshlet was full there is room for the current one.
LEMMA PaidLimit ==
  ASSUME Arguments, Output, Paid, order # <<>>, meshlets \in Seq(MeshletType)
  PROVE  Len(meshlets) + 1 <= Limit
<1>1. /\ meshlet \in MeshletType /\ TriangleEnd(meshlet) = 3 * Len(order) /\ meshlet.triangleCount >= 1
  BY DEF Output, Ready, Reads
<1>2. PICK n \in Nat, l \in Nat : n = Len(meshlets) /\ l = Len(order)
  BY OrderLength, LenProperties
<1>3. PICK to \in Nat, tc \in Nat : to = meshlet.triangleOffset /\ tc = meshlet.triangleCount
  BY <1>1 DEF MeshletType
<1>4. n * Share <= to
  BY <1>2, <1>3 DEF Paid
<1>5. to + 3 * tc = 3 * l /\ tc >= 1 /\ l <= FaceCount /\ FaceCount \in Nat
  BY <1>1, <1>2, <1>3, OrderLength, InputFacts DEF TriangleEnd
<1>6. to < 3 * FaceCount
  BY <1>5
<1>7. n * Share \in Nat
  BY EnoughFacts
<1>8. n * Share < 3 * FaceCount
  BY <1>4, <1>5, <1>6, <1>7
<1> QED
  BY <1>2, <1>8, PaidFits

\* The step keeps every closed meshlet full if the one it closes is.
LEMMA PaidStep ==
  ASSUME Arguments, Output, Paid, phase # "done", phase' # "done", mesh' = mesh, call' = call,
         NEW t \in Live, NEW split \in BOOLEAN, AppendMeshlet(t, split),
         split => meshlet.triangleCount >= 1 /\ WellFilled(meshlet)
  PROVE  Paid'
<1>1. /\ meshlet \in MeshletType /\ meshlet' \in MeshletType
      /\ meshlets \in Seq(MeshletType)
      /\ meshlet.vertexCount <= 3 * meshlet.triangleCount
      /\ (Full(t) \/ split) => /\ Len(meshlets') = Len(meshlets) + 1 /\ (split \/ WellFilled(meshlet))
                               /\ meshlet'.triangleOffset = TriangleEnd(meshlet)
      /\ ~(Full(t) \/ split) => meshlets' = meshlets /\ meshlet'.triangleOffset = meshlet.triangleOffset
  BY AppendStep
<1>2. PICK n \in Nat : n = Len(meshlets)
  BY <1>1, LenProperties
<1>3. PICK to \in Nat, tc \in Nat : to = meshlet.triangleOffset /\ tc = meshlet.triangleCount
  BY <1>1 DEF MeshletType
<1>4. n * Share <= to /\ Share' = Share
  BY <1>2, <1>3, Frozen DEF Paid
<1>5. CASE Full(t) \/ split
  <2>1. WellFilled(meshlet)
    BY <1>1, <1>5
  <2>2. Share <= 3 * tc
    BY <1>1, <1>3, <2>1, Shares
  <2>3. (n + 1) * Share = n * Share + Share /\ n * Share \in Nat /\ Share \in Nat
    BY EnoughFacts, NextMultiple
  <2>4. (n + 1) * Share <= to + 3 * tc
    BY <1>4, <2>2, <2>3
  <2>5. meshlet'.triangleOffset = to + 3 * tc /\ Len(meshlets') = n + 1
    BY <1>1, <1>2, <1>3, <1>5 DEF TriangleEnd
  <2> QED
    BY <1>4, <2>4, <2>5 DEF Paid
<1>6. CASE ~(Full(t) \/ split)
  BY <1>1, <1>2, <1>3, <1>4, <1>6 DEF Paid
<1> QED
  BY <1>5, <1>6

\* The last meshlet is written out when all triangles are appended.
LEMMA FinishStep ==
  ASSUME IInv, phase # "done", Range(order) = Faces, Len(meshlets) + 1 <= Limit, Finish
  PROVE  IInv'
<1>1. Arguments /\ Phases /\ Output /\ Current /\ Spatial
  BY DEF IInv
<1>2. /\ phase' = "done" /\ mesh' = mesh /\ call' = call /\ used' = used /\ meshlet' = meshlet
      /\ meshletVertices' = meshletVertices /\ meshletTriangles' = meshletTriangles /\ order' = order
      /\ boundary' = boundary
  BY DEF Finish, spatialVars
<1>3. /\ Ready(meshlet, used, meshletVertices, meshletTriangles, order)
      /\ Closed(meshlets, meshlet, meshletVertices, meshletTriangles, order)
      /\ meshlets \in Seq(MeshletType)
      /\ \A i, j \in 1 .. Len(order) : order[i] = order[j] => i = j
      /\ order # <<>> => meshlet.triangleCount >= 1
  BY <1>1 DEF Output
<1>4. order # <<>>
  <2>1. 1 \in Faces
    BY <1>1, InputFacts
  <2>2. Range(<<>>) = {}
    BY DEF Range
  <2> QED
    BY <2>1, <2>2
<1>5. meshlet \in MeshletType /\ meshlet.triangleCount \in Nat
  BY <1>3 DEF Ready, Reads, MeshletType
<1>6. meshlets' = Append(meshlets, meshlet)
  BY <1>3, <1>4, <1>5 DEF Finish
<1>7. Arguments'
  BY <1>1, <1>2, Frozen
<1>8. Phases'
  BY <1>1, <1>2 DEF Phases
<1>9. Output'
  <2>1. Ready(meshlet, used, meshletVertices, meshletTriangles, order)'
    BY <1>2, <1>3, Frozen
  <2>2. \A front : Closed(front, meshlet, meshletVertices, meshletTriangles, order)'
                     = Closed(front, meshlet, meshletVertices, meshletTriangles, order)
    BY <1>2, Frozen
  <2> QED
    BY <1>2, <1>3, <1>6, <2>1, <2>2 DEF Output
<1>10. Current'
  BY <1>1, <1>2, <1>4, Frozen DEF Current
<1>11. Spatial'
  BY <1>1, <1>2, Frozen DEF Spatial
<1>12. Bounded'
  <2>1. Len(meshlets') = Len(meshlets) + 1
    BY <1>3, <1>5, <1>6, Enqueue
  <2> QED
    BY <1>2, <2>1, Frozen DEF Bounded
<1> QED
  BY <1>2, <1>7, <1>8, <1>9, <1>10, <1>11, <1>12 DEF IInv

-----------------------------------------------------------------------------
(* The scan builder *)

LEMMA ScanTriangleStep ==
  ASSUME IInv, ScanTriangle
  PROVE  IInv'
<1>1. Arguments /\ Phases /\ Output /\ Current /\ Spatial /\ Bounded
  BY DEF IInv
<1>2. /\ phase = "scan" /\ phase' = "scan" /\ mesh' = mesh /\ call' = call /\ boundary' = boundary
      /\ Len(order) < Cardinality(Faces) /\ AppendMeshlet(Len(order) + 1, FALSE)
  BY DEF ScanTriangle, spatialVars
<1>3. PICK l \in Nat : l = Len(order) /\ l < FaceCount
  BY <1>1, <1>2, OrderLength, FaceNumber
<1>4. \A i \in 1..l : order[i] = i
  BY <1>1, <1>2, <1>3 DEF Current
<1>5. l + 1 \in Live
  <2>1. l + 1 \in Faces
    BY <1>1, <1>3, InputFacts
  <2>2. order \in Seq(Faces) /\ DOMAIN order = 1..l
    BY <1>1, <1>3, LenProperties DEF Output, Ready
  <2>3. l + 1 \notin Range(order)
    BY <1>4, <2>2 DEF Range
  <2> QED
    BY <2>1, <2>3 DEF Live
<1>6. /\ Arguments' /\ Output' /\ Len(order') = l + 1 /\ order'[l + 1] = l + 1
      /\ \A i \in 1..l : order'[i] = order[i]
  BY <1>1, <1>2, <1>3, <1>5, AppendStep
<1>7. Paid'
  <2>1. Paid
    BY <1>1, <1>2 DEF Bounded
  <2> QED
    BY <1>1, <1>2, <1>3, <1>5, <2>1, PaidStep
<1>8. \A i \in 1 .. Len(order') : order'[i] = i
  <2>1. \A i \in 1 .. l + 1 : i \in 1..l \/ i = l + 1
    OBVIOUS
  <2> QED
    BY <1>4, <1>6, <2>1
<1>9. order' # <<>>
  <2>1. Len(<<>>) = 0 /\ l + 1 # 0
    OBVIOUS
  <2> QED
    BY <1>6, <2>1
<1>10. Phases' /\ Current' /\ Spatial' /\ Bounded'
  BY <1>1, <1>2, <1>7, <1>8, <1>9, Frozen DEF Phases, Current, Spatial, Bounded
<1> QED
  BY <1>2, <1>6, <1>10 DEF IInv

LEMMA ScanFinishStep ==
  ASSUME IInv, ScanFinish
  PROVE  IInv'
<1>1. Arguments /\ Output /\ Current /\ Bounded
  BY DEF IInv
<1>2. phase = "scan" /\ Len(order) = Cardinality(Faces) /\ Finish
  BY DEF ScanFinish
<1>3. Len(order) = FaceCount /\ FaceCount \in Nat \ {0} /\ Faces = 1 .. FaceCount
  BY <1>1, <1>2, FaceNumber, InputFacts
<1>4. Range(order) = Faces
  <2>1. order \in Seq(Faces) /\ DOMAIN order = 1 .. FaceCount
    BY <1>1, <1>3, LenProperties DEF Output, Ready
  <2>2. \A i \in 1 .. FaceCount : order[i] = i
    BY <1>1, <1>2, <1>3 DEF Current
  <2> QED
    BY <1>3, <2>1, <2>2 DEF Range
<1>5. Len(meshlets) + 1 <= Limit
  <2>1. order # <<>>
    BY <1>3
  <2>2. meshlets \in Seq(MeshletType)
    BY <1>1, <1>2 DEF Output
  <2>3. Paid
    BY <1>1, <1>2 DEF Bounded
  <2> QED
    BY <1>1, <2>1, <2>2, <2>3, PaidLimit
<1> QED
  BY <1>2, <1>4, <1>5, FinishStep

-----------------------------------------------------------------------------
(* The elements of a sequence that are in a set *)

\* What Only goes through on its way along s
OnlyRun(k, T, s, S) ==
  /\ k[0] = <<>> /\ \A n \in 0 .. Len(s) : k[n] \in Seq(T)
  /\ \A n \in 1 .. Len(s) : k[n] = IF s[n] \in S THEN Append(k[n - 1], s[n]) ELSE k[n - 1]
  /\ Only(s, S) = k[Len(s)]

LEMMA OnlySteps ==
  ASSUME NEW T, NEW s \in Seq(T), NEW S
  PROVE  \E k : OnlyRun(k, T, s, S)
<1> DEFINE X == Seq(T)
           f == [p \in (1 .. Len(s)) \X X |-> IF s[p[1]] \in S THEN Append(p[2], s[p[1]]) ELSE p[2]]
           Body(h) == [n \in 0 .. Len(s) |->
                         IF n = 0 THEN <<>> ELSE IF s[n] \in S THEN Append(h[n - 1], s[n]) ELSE h[n - 1]]
<1>1. PICK m \in Nat : m = Len(s)
  BY LenProperties
<1>2. <<>> \in X /\ \A i \in 1..m : s[i] \in T
  BY <1>1, ElementOfSeq
<1>3. f \in [(1..m) \X X -> X]
  <2>1. ASSUME NEW p \in (1..m) \X X PROVE (IF s[p[1]] \in S THEN Append(p[2], s[p[1]]) ELSE p[2]) \in X
    <3>1. p[1] \in 1..m /\ p[2] \in Seq(T)
      OBVIOUS
    <3> QED
      BY <1>2, <3>1, AppendProperties
  <2> QED
    BY <1>1, <2>1
<1>4. \A i \in 1..m, x \in X : f[<<i, x>>] = IF s[i] \in S THEN Append(x, s[i]) ELSE x
  BY <1>1
<1>5. PICK g \in [0..m -> X] : g[0] = <<>> /\ \A i \in 1..m : g[i] = f[<<i, g[i - 1]>>]
  <2> HIDE DEF X, f
  <2>1. \E g \in [0..m -> X] : Recursive(g, m, <<>>, f)
    BY <1>2, <1>3, Recursion
  <2> QED
    BY <2>1 DEF Recursive
<1> HIDE DEF f
<1>6. g = Body(g)
  <2>1. ASSUME NEW i \in 0..m PROVE Body(g)[i] = g[i]
    <3>1. CASE i = 0
      BY <1>1, <1>5, <3>1
    <3>2. CASE i # 0
      <4>1. i \in 1..m /\ i - 1 \in 0..m
        BY <3>2
      <4>2. g[i] = IF s[i] \in S THEN Append(g[i - 1], s[i]) ELSE g[i - 1]
        BY <1>4, <1>5, <4>1
      <4> QED
        BY <1>1, <3>2, <4>2
    <3> QED
      BY <3>1, <3>2
  <2> QED
    BY <1>1, <1>5, <2>1
<1>7. PICK k : k = CHOOSE h : h = Body(h)
  OBVIOUS
<1>8. k = Body(k)
  <2> HIDE DEF Body
  <2> QED
    BY <1>6, <1>7
<1>9. k[0] = <<>> /\ \A n \in 1..m : k[n] = IF s[n] \in S THEN Append(k[n - 1], s[n]) ELSE k[n - 1]
  <2>1. \A n \in 0..m : Body(k)[n] = IF n = 0 THEN <<>> ELSE IF s[n] \in S THEN Append(k[n - 1], s[n]) ELSE k[n - 1]
    BY <1>1
  <2> HIDE DEF Body
  <2>2. \A n \in 0..m : k[n] = IF n = 0 THEN <<>> ELSE IF s[n] \in S THEN Append(k[n - 1], s[n]) ELSE k[n - 1]
    BY <1>8, <2>1
  <2>3. k[0] = <<>>
    <3>1. 0 \in 0..m
      OBVIOUS
    <3> QED
      BY <2>2, <3>1
  <2>4. ASSUME NEW n \in 1..m PROVE k[n] = IF s[n] \in S THEN Append(k[n - 1], s[n]) ELSE k[n - 1]
    <3>1. n \in 0..m /\ n # 0
      OBVIOUS
    <3> QED
      BY <2>2, <3>1, Zenon
  <2> QED
    BY <2>3, <2>4
<1>10. \A n \in 0..m : k[n] \in X
  <2>1. Follows(k, m, <<>>, f, X)
    BY <1>4, <1>9 DEF Follows
  <2> HIDE DEF X
  <2> QED
    BY <1>2, <1>3, <2>1, StepByStep
<1>11. Only(s, S) = k[m]
  BY <1>1, <1>7 DEF Only
<1>12. OnlyRun(k, T, s, S)
  BY <1>1, <1>9, <1>10, <1>11 DEF OnlyRun
<1> QED
  BY <1>12

\* Counting the elements of E among the first numbers
LEMMA CountPrefix ==
  ASSUME NEW E, NEW m \in Nat
  PROVE  /\ IsFiniteSet(E \cap (1..m)) /\ Cardinality(E \cap (1..m)) \in Nat
         /\ Cardinality(E \cap (1..m)) <= m /\ Cardinality(E \cap (1..0)) = 0
         /\ Cardinality(E \cap (1..m + 1)) = Cardinality(E \cap (1..m)) + (IF m + 1 \in E THEN 1 ELSE 0)
<1>1. IsFiniteSet(1..m) /\ Cardinality(1..m) = m
  BY Indices
<1>2. IsFiniteSet(E \cap (1..m)) /\ Cardinality(E \cap (1..m)) \in Nat /\ Cardinality(E \cap (1..m)) <= m
  <2>1. E \cap (1..m) \in SUBSET (1..m)
    OBVIOUS
  <2> QED
    BY <1>1, <2>1, FS_Subset, FS_CardinalityType
<1>3. Cardinality(E \cap (1..0)) = 0
  <2>1. E \cap (1..0) = {}
    OBVIOUS
  <2> QED
    BY <2>1, FS_EmptySet
<1>4. 1..m + 1 = (1..m) \cup {m + 1} /\ m + 1 \notin 1..m
  OBVIOUS
<1>5. CASE m + 1 \in E
  <2>1. E \cap (1..m + 1) = (E \cap (1..m)) \cup {m + 1} /\ m + 1 \notin E \cap (1..m)
    BY <1>4, <1>5
  <2>2. Cardinality((E \cap (1..m)) \cup {m + 1}) = Cardinality(E \cap (1..m)) + 1
    BY <1>2, <2>1, FS_AddElement
  <2> QED
    BY <1>2, <1>3, <1>5, <2>1, <2>2
<1>6. CASE m + 1 \notin E
  <2>1. E \cap (1..m + 1) = E \cap (1..m)
    BY <1>4, <1>6
  <2> QED
    BY <1>2, <1>3, <1>6, <2>1
<1> QED
  BY <1>5, <1>6

LEMMA TimesIsCount ==
  ASSUME NEW q, NEW C
  PROVE  Times(q, C) = Cardinality({i \in 1 .. Len(q) : q[i] \in C} \cap (1 .. Len(q)))
<1>1. {i \in 1 .. Len(q) : q[i] \in C} = {i \in 1 .. Len(q) : q[i] \in C} \cap (1 .. Len(q))
  OBVIOUS
<1> QED
  BY <1>1 DEF Times

LEMMA OnlyFacts ==
  ASSUME NEW T, NEW s \in Seq(T), NEW S
  PROVE  /\ Only(s, S) \in Seq(T) /\ Len(Only(s, S)) <= Len(s) /\ Len(Only(s, S)) \in Nat
         /\ \A C : Times(Only(s, S), C) = Times(s, S \cap C)
         /\ Len(Only(s, S)) = Times(s, S)
         /\ \A i \in 1 .. Len(Only(s, S)) : Only(s, S)[i] \in S
<1>1. PICK k : /\ k[0] = <<>> /\ \A n \in 0 .. Len(s) : k[n] \in Seq(T)
               /\ \A n \in 1 .. Len(s) : k[n] = IF s[n] \in S THEN Append(k[n - 1], s[n]) ELSE k[n - 1]
               /\ Only(s, S) = k[Len(s)]
  <2>1. PICK k : OnlyRun(k, T, s, S)
    BY OnlySteps
  <2> QED
    BY <2>1 DEF OnlyRun
<1>2. PICK m \in Nat : m = Len(s)
  BY LenProperties
<1>3. \A i \in 1..m : s[i] \in T
  BY <1>2, ElementOfSeq
<1> DEFINE E(C) == {i \in 1..m : s[i] \in S \cap C}
           I == {n \in Nat : n <= m =>
                   /\ Len(k[n]) = Cardinality(E(S) \cap (1..n))
                   /\ \A C : Times(k[n], C) = Cardinality(E(C) \cap (1..n))
                   /\ \A i \in 1 .. Len(k[n]) : k[n][i] \in S}
<1>4. 0 \in I
  <2>1. \A C : Cardinality(E(C) \cap (1..0)) = 0
    <3> HIDE DEF E
    <3> QED
      BY CountPrefix
  <2>2. Len(k[0]) = 0 /\ 1 .. Len(k[0]) = {}
    BY <1>1
  <2>3. \A C : Times(k[0], C) = 0
    BY <1>1, TimesNone
  <2> HIDE DEF E
  <2> QED
    BY <2>1, <2>2, <2>3
<1>5. ASSUME NEW n \in Nat, n \in I PROVE n + 1 \in I
  <2> SUFFICES ASSUME n + 1 <= m
               PROVE  /\ Len(k[n + 1]) = Cardinality(E(S) \cap (1 .. n + 1))
                      /\ \A C : Times(k[n + 1], C) = Cardinality(E(C) \cap (1 .. n + 1))
                      /\ \A i \in 1 .. Len(k[n + 1]) : k[n + 1][i] \in S
    OBVIOUS
  <2>1. n + 1 \in 1..m /\ (n + 1) - 1 = n /\ n \in 0..m /\ n <= m
    OBVIOUS
  <2>2. PICK r \in Seq(T), x \in T : r = k[n] /\ x = s[n + 1]
    BY <1>1, <1>2, <1>3, <2>1
  <2>3. k[n + 1] = IF x \in S THEN Append(r, x) ELSE r
    BY <1>1, <1>2, <2>1, <2>2
  <2>4. /\ Len(r) = Cardinality(E(S) \cap (1..n))
        /\ \A C : Times(r, C) = Cardinality(E(C) \cap (1..n))
        /\ \A i \in 1 .. Len(r) : r[i] \in S
    BY <1>5, <2>1, <2>2
  <2>5. \A C : n + 1 \in E(C) <=> x \in S /\ x \in C
    BY <2>1, <2>2
  <2> HIDE DEF E, I
  <2>6. \A C : /\ Cardinality(E(C) \cap (1 .. n + 1)) = Cardinality(E(C) \cap (1..n)) + (IF n + 1 \in E(C) THEN 1 ELSE 0)
               /\ Cardinality(E(C) \cap (1..n)) \in Nat
    BY CountPrefix
  <2>7. CASE x \in S
    <3>1. /\ Len(Append(r, x)) = Len(r) + 1 /\ Append(r, x)[Len(r) + 1] = x /\ Len(r) \in Nat
          /\ \A i \in 1 .. Len(r) : Append(r, x)[i] = r[i]
      BY Enqueue
    <3>2. PICK a : a = Append(r, x)
      OBVIOUS
    <3>3. \A C : Times(a, C) = Times(r, C) + (IF x \in C THEN 1 ELSE 0)
      BY <3>2, TimesAppend
    <3>4. k[n + 1] = a
      BY <2>3, <2>7, <3>2
    <3>5. ASSUME NEW C PROVE Times(a, C) = Cardinality(E(C) \cap (1 .. n + 1))
      <4>1. Times(a, C) = Times(r, C) + (IF x \in C THEN 1 ELSE 0) /\ Times(r, C) = Cardinality(E(C) \cap (1..n))
        BY <2>4, <3>3
      <4>2. Cardinality(E(C) \cap (1 .. n + 1)) = Cardinality(E(C) \cap (1..n)) + (IF n + 1 \in E(C) THEN 1 ELSE 0)
        BY <2>6
      <4>3. n + 1 \in E(C) <=> x \in C
        BY <2>5, <2>7
      <4> QED
        BY <4>1, <4>2, <4>3
    <3>6. Len(a) = Cardinality(E(S) \cap (1 .. n + 1))
      BY <2>4, <2>5, <2>6, <2>7, <3>1, <3>2
    <3>7. \A i \in 1 .. Len(a) : a[i] \in S
      <4>1. \A i \in 1 .. Len(r) + 1 : i \in 1 .. Len(r) \/ i = Len(r) + 1
        BY <3>1
      <4> QED
        BY <2>4, <2>7, <3>1, <3>2, <4>1
    <3> QED
      BY <3>4, <3>5, <3>6, <3>7
  <2>8. CASE x \notin S
    <3>1. k[n + 1] = r
      BY <2>3, <2>8
    <3>2. \A C : Cardinality(E(C) \cap (1 .. n + 1)) = Cardinality(E(C) \cap (1..n))
      BY <2>5, <2>6, <2>8, SMTT(30)
    <3> QED
      BY <2>4, <3>1, <3>2
  <2> QED
    BY <2>7, <2>8
<1>6. Nat \subseteq I
  <2> HIDE DEF I
  <2> QED
    BY <1>4, <1>5, NatSetInduction
<1>7. PICK r : r = Only(s, S)
  OBVIOUS
<1>8. \A C : E(C) \cap (1..m) = {i \in 1..m : s[i] \in S \cap C}
  OBVIOUS
<1>9. \A C : Cardinality(E(C) \cap (1..m)) = Times(s, S \cap C)
  BY <1>2, <1>8 DEF Times
<1>10. Len(r) = Cardinality(E(S) \cap (1..m)) /\ (\A C : Times(r, C) = Cardinality(E(C) \cap (1..m)))
       /\ \A i \in 1 .. Len(r) : r[i] \in S
  <2>0. m \in I /\ m <= m
    <3> HIDE DEF I
    <3> QED
      BY <1>6
  <2>1. m \in I /\ m <= m /\ r = k[m]
    <3> HIDE DEF I
    <3> QED
      BY <1>1, <1>2, <1>7, <2>0
  <2>2. /\ Len(k[m]) = Cardinality(E(S) \cap (1..m))
        /\ \A C : Times(k[m], C) = Cardinality(E(C) \cap (1..m))
        /\ \A i \in 1 .. Len(k[m]) : k[m][i] \in S
    <3> HIDE DEF E
    <3> QED
      BY <2>1
  <2> HIDE DEF E, I
  <2> QED
    BY <2>1, <2>2
<1> HIDE DEF E, I
<1>11. Cardinality(E(S) \cap (1..m)) \in Nat /\ Cardinality(E(S) \cap (1..m)) <= m
  BY CountPrefix
<1>12. r \in Seq(T)
  <2>1. m \in 0..m
    OBVIOUS
  <2> QED
    BY <1>1, <1>2, <1>7, <2>1
<1>13. Len(r) = Times(s, S)
  <2>1. S \cap S = S
    OBVIOUS
  <2> QED
    BY <1>9, <1>10, <2>1
<1> QED
  BY <1>2, <1>7, <1>9, <1>10, <1>11, <1>12, <1>13

-----------------------------------------------------------------------------
(* The choices of the flex builder *)

\* A list of scores has a least one.
LEMMA LeastScore ==
  ASSUME NEW n \in Nat \ {0}, NEW f,
         \A i \in 1..n : f[i][1] \in Int /\ f[i][2] \in Int /\ f[i][3] \in Int
  PROVE  \E i \in 1..n : \A j \in 1..n : LexLeq(f[i], f[j])
<1> DEFINE Least(m) == \E i \in 1..m : \A j \in 1..m : LexLeq(f[i], f[j])
           I == {m \in Nat : m + 1 <= n => Least(m + 1)}
<1>1. \A i \in 1..n : LexLeq(f[i], f[i])
  BY DEF LexLeq
<1>2. \A i, j \in 1..n : LexLeq(f[i], f[j]) \/ LexLeq(f[j], f[i])
  BY DEF LexLeq
<1>3. \A i, j, k \in 1..n : LexLeq(f[i], f[j]) /\ LexLeq(f[j], f[k]) => LexLeq(f[i], f[k])
  BY DEF LexLeq
<1>4. 0 \in I
  <2>1. \A j \in 1 .. 0 + 1 : j = 1
    OBVIOUS
  <2>2. 1 \in 1 .. 0 + 1 /\ 1 \in 1..n
    OBVIOUS
  <2>3. \A j \in 1 .. 0 + 1 : LexLeq(f[1], f[j])
    BY <1>1, <2>1, <2>2
  <2> QED
    BY <2>2, <2>3
<1>5. ASSUME NEW m \in Nat, m \in I PROVE m + 1 \in I
  <2> SUFFICES ASSUME m + 2 <= n PROVE Least(m + 2)
    <3>1. (m + 1) + 1 = m + 2
      OBVIOUS
    <3> QED
      BY <3>1
  <2>1. PICK i \in 1 .. m + 1 : \A j \in 1 .. m + 1 : LexLeq(f[i], f[j])
    <3>1. m + 1 <= n
      OBVIOUS
    <3> QED
      BY <1>5, <3>1
  <2>2. /\ i \in 1..n /\ m + 2 \in 1..n /\ i \in 1 .. m + 2 /\ m + 2 \in 1 .. m + 2
        /\ \A j \in 1 .. m + 2 : j \in 1..n /\ (j \in 1 .. m + 1 \/ j = m + 2)
    OBVIOUS
  <2>3. CASE LexLeq(f[i], f[m + 2])
    BY <2>1, <2>2, <2>3
  <2>4. CASE ~LexLeq(f[i], f[m + 2])
    <3>1. LexLeq(f[m + 2], f[i])
      BY <1>2, <2>2, <2>4
    <3>2. ASSUME NEW j \in 1 .. m + 2 PROVE LexLeq(f[m + 2], f[j])
      <4>1. CASE j \in 1 .. m + 1
        <5>1. LexLeq(f[i], f[j]) /\ j \in 1..n
          BY <2>1, <2>2, <4>1
        <5> QED
          BY <1>3, <2>2, <3>1, <5>1
      <4>2. CASE j = m + 2
        BY <1>1, <2>2, <4>2
      <4> QED
        BY <2>2, <4>1, <4>2
    <3> QED
      BY <2>2, <3>2
  <2> QED
    BY <2>3, <2>4
<1>6. Nat \subseteq I
  <2> HIDE DEF I
  <2> QED
    BY <1>4, <1>5, NatSetInduction
<1>7. n - 1 \in Nat /\ (n - 1) + 1 = n
  OBVIOUS
<1>8. n - 1 \in I
  BY <1>6, <1>7
<1>9. Least(n)
  <2> HIDE DEF Least
  <2> QED
    BY <1>7, <1>8
<1> QED
  BY <1>9

\* Squared distances of centroids are numbers.
LEMMA FromCornerType ==
  ASSUME Arguments
  PROVE  \A t \in Faces : FromCorner(t) \in Int
<1>1. /\ mesh.centroids \in Seq(Int \X Int \X Int) /\ Len(mesh.centroids) = FaceCount
      /\ Faces = 1 .. FaceCount /\ FaceCount \in Nat \ {0} /\ DOMAIN mesh.centroids = 1 .. FaceCount
  BY InputFacts, LenProperties
<1>2. \A t \in Faces, k \in 1..3 : mesh.centroids[t][k] \in Int
  <2>1. \A t \in Faces : mesh.centroids[t] \in Int \X Int \X Int
    BY <1>1, ElementOfSeq
  <2> QED
    BY <2>1
<1>3. ASSUME NEW k \in 1..3 PROVE CornerOf(mesh)[k] \in Int
  <2> DEFINE all == {mesh.centroids[t][k] : t \in DOMAIN mesh.centroids}
             f == [t \in 1 .. FaceCount |-> <<mesh.centroids[t][k], 0, 0>>]
  <2>1. \A i \in 1 .. FaceCount : f[i][1] \in Int /\ f[i][2] \in Int /\ f[i][3] \in Int
    BY <1>1, <1>2, SMTT(30)
  <2>2. \E i \in 1 .. FaceCount : \A j \in 1 .. FaceCount : LexLeq(f[i], f[j])
    <3> HIDE DEF f
    <3> QED
      BY <1>1, <2>1, LeastScore
  <2>3. ASSUME NEW i \in 1 .. FaceCount, NEW j \in 1 .. FaceCount, LexLeq(f[i], f[j])
        PROVE  mesh.centroids[i][k] <= mesh.centroids[j][k]
    <3>1. PICK x \in Int, y \in Int : x = mesh.centroids[i][k] /\ y = mesh.centroids[j][k]
      BY <1>1, <1>2
    <3>2. f[i] = <<x, 0, 0>> /\ f[j] = <<y, 0, 0>>
      BY <3>1
    <3>3. LexLeq(<<x, 0, 0>>, <<y, 0, 0>>)
      BY <2>3, <3>2
    <3>4. x <= y
      BY <3>3 DEF LexLeq
    <3> QED
      BY <3>1, <3>4
  <2>4. \E x \in all : \A y \in all : x <= y
    <3>1. PICK i \in 1 .. FaceCount : \A j \in 1 .. FaceCount : mesh.centroids[i][k] <= mesh.centroids[j][k]
      <4> HIDE DEF f
      <4> QED
        BY <2>2, <2>3
    <3>2. mesh.centroids[i][k] \in all
      BY <1>1
    <3>3. \A y \in all : \E j \in 1 .. FaceCount : y = mesh.centroids[j][k]
      BY <1>1
    <3> HIDE DEF all
    <3> QED
      BY <3>1, <3>2, <3>3
  <2>5. all \subseteq Int
    BY <1>1, <1>2
  <2>6. CornerOf(mesh)[k] = CHOOSE x \in all : \A y \in all : x <= y
    BY DEF CornerOf
  <2> HIDE DEF all
  <2>7. (CHOOSE x \in all : \A y \in all : x <= y) \in all
    BY <2>4
  <2> QED
    BY <2>5, <2>6, <2>7
<1> SUFFICES ASSUME NEW t \in Faces PROVE FromCorner(t) \in Int
  OBVIOUS
<1>4. \A x, y, z \in Int : x * x + y * y + z * z \in Int
  OBVIOUS
<1>5. PICK d : d = [k \in 1..3 |-> mesh.centroids[t][k] - CornerOf(mesh)[k]]
  OBVIOUS
<1>6. d[1] \in Int /\ d[2] \in Int /\ d[3] \in Int
  BY <1>2, <1>3, <1>5
<1>7. FromCorner(t) = d[1] * d[1] + d[2] * d[2] + d[3] * d[3]
  BY <1>5 DEF FromCorner
<1> QED
  BY <1>4, <1>6, <1>7

LEMMA InitialSeedFacts ==
  ASSUME Arguments
  PROVE  InitialSeed \in Faces
<1>1. Faces = 1 .. FaceCount /\ FaceCount \in Nat \ {0}
  BY InputFacts
<1> DEFINE f == [t \in 1 .. FaceCount |-> <<FromCorner(t), t, 0>>]
<1>2. \A i \in 1 .. FaceCount : f[i][1] \in Int /\ f[i][2] \in Int /\ f[i][3] \in Int
  BY <1>1, FromCornerType
<1>3. \A i \in 1 .. FaceCount : f[i] = <<FromCorner(i), i, 0>>
  OBVIOUS
<1> HIDE DEF f
<1>4. \E i \in 1 .. FaceCount : \A j \in 1 .. FaceCount : LexLeq(f[i], f[j])
  BY <1>1, <1>2, LeastScore
<1>5. \E t \in Faces : \A u \in Faces : LexLeq(<<FromCorner(t), t, 0>>, <<FromCorner(u), u, 0>>)
  BY <1>1, <1>3, <1>4
<1> QED
  BY <1>5 DEF InitialSeed

\* Numbers of live triangles
LEMMA LiveSumType ==
  ASSUME Arguments, neighbors \in [Vertices -> Seq(Faces)]
  PROVE  \A t \in Faces : LiveSum(t) \in Int
<1> SUFFICES ASSUME NEW t \in Faces PROVE LiveSum(t) \in Int
  OBVIOUS
<1>1. \A v \in Vertices : LiveCount(v) \in Nat
  BY LenProperties DEF LiveCount
<1>2. mesh.indices[t][1] \in Vertices /\ mesh.indices[t][2] \in Vertices /\ mesh.indices[t][3] \in Vertices
  <2>1. 1 \in 1..3 /\ 2 \in 1..3 /\ 3 \in 1..3
    OBVIOUS
  <2> QED
    BY <2>1, CornerFacts
<1>3. LiveSum(t) = LiveCount(mesh.indices[t][1]) + LiveCount(mesh.indices[t][2]) + LiveCount(mesh.indices[t][3])
  BY DEF LiveSum
<1> HIDE DEF LiveCount
<1> QED
  BY <1>1, <1>2, <1>3

\* A seed is one of the list.
LEMMA SelectSeedFacts ==
  ASSUME Arguments, neighbors \in [Vertices -> Seq(Faces)], NEW list \in Seq(Faces), list # <<>>
  PROVE  \E i \in 1 .. Len(list) : SelectSeed(list) = list[i]
<1>1. PICK n \in Nat \ {0} : n = Len(list) /\ DOMAIN list = 1..n
  BY LenProperties, EmptySeq
<1> DEFINE f == [i \in 1..n |-> <<LiveSum(list[i]), FromCorner(list[i]), i>>]
<1>2. \A i \in 1..n : list[i] \in Faces
  BY <1>1, ElementOfSeq
<1>3. \A i \in 1..n : f[i][1] \in Int /\ f[i][2] \in Int /\ f[i][3] \in Int
  BY <1>2, FromCornerType, LiveSumType
<1>4. \A i \in 1..n : f[i] = <<LiveSum(list[i]), FromCorner(list[i]), i>>
  OBVIOUS
<1> HIDE DEF f
<1>5. \E i \in 1..n : \A j \in 1..n : LexLeq(f[i], f[j])
  BY <1>3, LeastScore
<1>6. \E i \in DOMAIN list : \A j \in DOMAIN list :
        LexLeq(<<LiveSum(list[i]), FromCorner(list[i]), i>>, <<LiveSum(list[j]), FromCorner(list[j]), j>>)
  BY <1>1, <1>4, <1>5, ZenonT(30)
<1> QED
  BY <1>1, <1>6 DEF SelectSeed

LEMMA SeedOfFacts ==
  ASSUME Arguments, neighbors \in [Vertices -> Seq(Faces)], NEW v \in Vertices, neighbors[v] # <<>>
  PROVE  \E i \in 1 .. Len(neighbors[v]) : SeedOf(v) = neighbors[v][i]
<1>1. PICK list \in Seq(Faces) : list = neighbors[v]
  OBVIOUS
<1>2. PICK n \in Nat \ {0} : n = Len(list) /\ DOMAIN list = 1..n
  BY <1>1, LenProperties, EmptySeq
<1> DEFINE f == [i \in 1..n |-> <<LiveSum(list[i]), i, 0>>]
<1>3. \A i \in 1..n : list[i] \in Faces
  BY <1>2, ElementOfSeq
<1>4. \A i \in 1..n : f[i][1] \in Int /\ f[i][2] \in Int /\ f[i][3] \in Int
  BY <1>3, LiveSumType
<1>5. \A i \in 1..n : f[i] = <<LiveSum(list[i]), i, 0>>
  OBVIOUS
<1> HIDE DEF f
<1>6. \E i \in 1..n : \A j \in 1..n : LexLeq(f[i], f[j])
  BY <1>4, LeastScore
<1>7. \E i \in DOMAIN list : \A j \in DOMAIN list :
        LexLeq(<<LiveSum(list[i]), i, 0>>, <<LiveSum(list[j]), j, 0>>)
  BY <1>2, <1>5, <1>6, ZenonT(30)
<1>8. SeedOf(v) = list[CHOOSE i \in DOMAIN list : \A j \in DOMAIN list :
                         LexLeq(<<LiveSum(list[i]), i, 0>>, <<LiveSum(list[j]), j, 0>>)]
  BY <1>1 DEF SeedOf
<1> QED
  BY <1>1, <1>2, <1>7, <1>8

\* A sequence has an element of C if it has one at least once.
LEMMA TimesPositive ==
  ASSUME NEW T, NEW q \in Seq(T), NEW C
  PROVE  Times(q, C) # 0 <=> \E i \in 1 .. Len(q) : q[i] \in C
<1> DEFINE S == {i \in 1 .. Len(q) : q[i] \in C}
<1>1. IsFiniteSet(S)
  BY TimesType
<1>2. Cardinality(S) = 0 <=> S = {}
  <2> HIDE DEF S
  <2> QED
    BY <1>1, FS_EmptySet
<1> QED
  BY <1>2 DEF Times

\* The lists have live triangles, each in those of its corners.
LEMMA ListedLive ==
  ASSUME Arguments, Lists, NEW v \in Vertices, NEW i \in 1 .. Len(neighbors[v])
  PROVE  neighbors[v][i] \in Live /\ \E k \in 1..3 : mesh.indices[neighbors[v][i]][k] = v
<1>1. PICK list \in Seq(Faces) : list = neighbors[v]
  BY DEF Lists
<1>2. PICK t \in Faces : t = list[i]
  BY <1>1, ElementOfSeq
<1>3. Times(list, {t}) # 0
  BY <1>1, <1>2, TimesPositive
<1>4. t \in Live /\ Multiplicity(t, v) # 0
  <2>1. Times(list, {t}) = IF t \in Live THEN Multiplicity(t, v) ELSE 0
    BY <1>1 DEF Lists
  <2> QED
    BY <1>3, <2>1
<1>5. {k \in 1..3 : mesh.indices[t][k] = v} # {}
  BY <1>4, FS_EmptySet DEF Multiplicity
<1> QED
  BY <1>1, <1>2, <1>4, <1>5

\* The slots of the seeds after a vertex has offered one
Offered(slots, v) ==
  LET beats(t, s) == \/ s = 0
                     \/ LexLeq(<<LiveSum(t), FromCorner(t), 0>>, <<LiveSum(s), FromCorner(s), 0>>)
      offer(t) ==
        LET beaten == {j \in 1 .. AddSeeds : beats(t, slots[j])}
        IN IF beaten = {} THEN slots
           ELSE [slots EXCEPT ![CHOOSE j \in beaten : \A i \in beaten : j <= i] = t]
  IN IF neighbors[v] = <<>> THEN slots ELSE offer(SeedOf(v))

KeptSlots ==
  CHOOSE h : h = [n \in 0 .. meshlet.vertexCount |->
                    IF n = 0 THEN [j \in 1 .. AddSeeds |-> 0]
                    ELSE Offered(h[n - 1], MeshletVertex(meshlet, n - 1))]

LEMMA AddedForm == AddedSeeds = Only(KeptSlots[meshlet.vertexCount], Faces)
  BY DEF AddedSeeds, KeptSlots, Offered

LEMMA OfferedType ==
  ASSUME Arguments, Lists, NEW v \in Vertices, NEW slots \in [1 .. AddSeeds -> Live \cup {0}]
  PROVE  Offered(slots, v) \in [1 .. AddSeeds -> Live \cup {0}]
<1>1. CASE neighbors[v] = <<>>
  BY <1>1 DEF Offered
<1>2. CASE neighbors[v] # <<>>
  <2>1. PICK t \in Live : t = SeedOf(v)
    <3>1. neighbors \in [Vertices -> Seq(Faces)]
      BY DEF Lists
    <3>2. PICK i \in 1 .. Len(neighbors[v]) : SeedOf(v) = neighbors[v][i]
      BY <1>2, <3>1, SeedOfFacts
    <3> QED
      BY <3>2, ListedLive
  <2>2. Offered(slots, v) = slots \/ \E j : Offered(slots, v) = [slots EXCEPT ![j] = t]
    BY <1>2, <2>1, Zenon DEF Offered
  <2>3. \A j : [slots EXCEPT ![j] = t] \in [1 .. AddSeeds -> Live \cup {0}]
    BY <2>1
  <2> QED
    BY <2>2, <2>3
<1> QED
  BY <1>1, <1>2

LEMMA AddedSeedsFacts ==
  ASSUME Arguments, Lists, Ready(meshlet, used, meshletVertices, meshletTriangles, order)
  PROVE  /\ AddedSeeds \in Seq(Live) /\ Len(AddedSeeds) <= AddSeeds
<1> DEFINE X == [1 .. AddSeeds -> Live \cup {0}]
           b == [j \in 1 .. AddSeeds |-> 0]
           f == [p \in (1 .. meshlet.vertexCount) \X X |-> Offered(p[2], MeshletVertex(meshlet, p[1] - 1))]
           Body(h) == [n \in 0 .. meshlet.vertexCount |->
                         IF n = 0 THEN b ELSE Offered(h[n - 1], MeshletVertex(meshlet, n - 1))]
<1>1. PICK m \in Nat : m = meshlet.vertexCount
  BY DEF Ready, Reads, MeshletType
<1>2. \A i \in 1..m : MeshletVertex(meshlet, i - 1) \in Vertices
  <2> SUFFICES ASSUME NEW i \in 1..m PROVE MeshletVertex(meshlet, i - 1) \in Vertices
    OBVIOUS
  <2>1. meshlet \in MeshletType /\ meshletVertices \in Seq(Vertices) /\ VertexEnd(meshlet) = Len(meshletVertices)
    BY DEF Ready, Reads
  <2>2. PICK vo \in Nat : vo = meshlet.vertexOffset
    BY <2>1 DEF MeshletType
  <2>3. vo + (i - 1) + 1 \in 1 .. Len(meshletVertices)
    BY <1>1, <2>1, <2>2, SMTT(30) DEF VertexEnd
  <2> QED
    BY <2>1, <2>2, <2>3, ElementOfSeq DEF MeshletVertex
<1>3. b \in X
  OBVIOUS
<1>4. f \in [(1..m) \X X -> X]
  <2>1. ASSUME NEW p \in (1..m) \X X PROVE Offered(p[2], MeshletVertex(meshlet, p[1] - 1)) \in X
    <3>1. p[1] \in 1..m /\ p[2] \in X
      OBVIOUS
    <3> QED
      BY <1>2, <3>1, OfferedType
  <2> QED
    BY <1>1, <2>1
<1>5. \A i \in 1..m, x \in X : f[<<i, x>>] = Offered(x, MeshletVertex(meshlet, i - 1))
  BY <1>1
<1> HIDE DEF f, b
<1>6. PICK g \in [0..m -> X] : g[0] = b /\ \A i \in 1..m : g[i] = f[<<i, g[i - 1]>>]
  <2> HIDE DEF X
  <2>1. \E g \in [0..m -> X] : Recursive(g, m, b, f)
    BY <1>3, <1>4, Recursion
  <2> QED
    BY <2>1 DEF Recursive
<1> HIDE DEF X
<1>7. g = Body(g)
  <2>1. ASSUME NEW i \in 0..m PROVE Body(g)[i] = g[i]
    <3>1. CASE i = 0
      BY <1>1, <1>6, <3>1
    <3>2. CASE i # 0
      <4>1. i \in 1..m /\ i - 1 \in 0..m
        BY <3>2
      <4>2. g[i] = Offered(g[i - 1], MeshletVertex(meshlet, i - 1))
        BY <1>5, <1>6, <4>1
      <4> QED
        BY <1>1, <3>2, <4>2
    <3> QED
      BY <3>1, <3>2
  <2> QED
    BY <1>1, <1>6, <2>1
<1>8. PICK k : k = KeptSlots
  OBVIOUS
<1>9. k = Body(k)
  <2>1. KeptSlots = CHOOSE h : h = Body(h)
    BY DEF KeptSlots, b
  <2> HIDE DEF Body
  <2> QED
    BY <1>7, <1>8, <2>1
<1>10. Follows(k, m, b, f, X)
  <2>1. \A n \in 0..m : Body(k)[n] = IF n = 0 THEN b ELSE Offered(k[n - 1], MeshletVertex(meshlet, n - 1))
    BY <1>1
  <2> HIDE DEF Body
  <2>2. \A n \in 0..m : k[n] = IF n = 0 THEN b ELSE Offered(k[n - 1], MeshletVertex(meshlet, n - 1))
    BY <1>9, <2>1
  <2>3. k[0] = b
    <3>1. 0 \in 0..m
      OBVIOUS
    <3> QED
      BY <2>2, <3>1
  <2>4. ASSUME NEW n \in 1..m, k[n - 1] \in X PROVE k[n] = f[<<n, k[n - 1]>>]
    <3>1. n \in 0..m /\ n # 0
      OBVIOUS
    <3>2. k[n] = Offered(k[n - 1], MeshletVertex(meshlet, n - 1))
      BY <2>2, <3>1, Zenon
    <3> QED
      BY <1>5, <2>4, <3>2
  <2> QED
    BY <2>3, <2>4 DEF Follows
<1>11. k[m] \in X
  <2>1. m \in 0..m
    OBVIOUS
  <2>2. \A i \in 0..m : k[i] \in X
    BY <1>3, <1>4, <1>10, StepByStep
  <2> QED
    BY <2>1, <2>2
<1>12. PICK s \in Seq(Live \cup {0}) : s = k[m] /\ Len(s) = AddSeeds
  BY <1>11, SeedsAssumption DEF X
<1>13. AddedSeeds = Only(s, Faces)
  BY <1>1, <1>8, <1>12, AddedForm
<1>14. /\ Only(s, Faces) \in Seq(Live \cup {0}) /\ Len(Only(s, Faces)) <= Len(s)
       /\ \A i \in 1 .. Len(Only(s, Faces)) : Only(s, Faces)[i] \in Faces
  BY OnlyFacts
<1>15. PICK r \in Seq(Live \cup {0}) : r = Only(s, Faces)
  BY <1>14
<1>16. \A i \in 1 .. Len(r) : r[i] \in Live
  <2>1. 0 \notin Faces
    BY InputFacts
  <2> QED
    BY <1>14, <1>15, <2>1, ElementOfSeq
<1>17. r \in Seq(Live)
  BY <1>16
<1> QED
  BY <1>12, <1>13, <1>14, <1>15, <1>17

\* The list of seeds stays within its capacity and has live triangles.
LEMMA NewSeedsFacts ==
  ASSUME Arguments, Lists, Ready(meshlet, used, meshletVertices, meshletTriangles, order)
  PROVE  NewSeeds \in Seq(Live) /\ Len(NewSeeds) <= MaxSeeds
<1>1. PICK room \in Nat : room = MaxSeeds - AddSeeds
  BY SeedsAssumption
<1>2. PICK p \in Seq(Live) : p = PrunedSeeds
  <2>1. seeds \in Seq(Faces)
    BY DEF Lists
  <2>2. /\ Only(seeds, Live) \in Seq(Faces)
        /\ \A i \in 1 .. Len(Only(seeds, Live)) : Only(seeds, Live)[i] \in Live
    BY <2>1, OnlyFacts
  <2>3. PICK q \in Seq(Faces) : q = Only(seeds, Live)
    BY <2>2
  <2>4. q \in Seq(Live)
    BY <2>2, <2>3
  <2> QED
    BY <2>3, <2>4 DEF PrunedSeeds
<1>3. PICK a \in Seq(Live) : a = AddedSeeds /\ Len(a) <= AddSeeds
  BY AddedSeedsFacts
<1>4. PICK c \in Seq(Live) : c = (IF Len(p) <= room THEN p ELSE SubSeq(p, 1, room)) /\ Len(c) <= room
  <2>1. CASE Len(p) <= room
    BY <2>1
  <2>2. CASE ~(Len(p) <= room)
    <3>1. \A i \in 1..room : p[i] \in Live
      BY <2>2, LenProperties, ElementOfSeq
    <3>2. SubSeq(p, 1, room) \in Seq(Live) /\ Len(SubSeq(p, 1, room)) <= room
      BY <3>1, SubSeqProperties
    <3> QED
      BY <2>2, <3>2
  <2> QED
    BY <2>1, <2>2
<1>5. NewSeeds = c \o a
  BY <1>1, <1>2, <1>3, <1>4 DEF NewSeeds
<1>6. c \o a \in Seq(Live) /\ Len(c \o a) = Len(c) + Len(a) /\ Len(c) \in Nat /\ Len(a) \in Nat
  BY ConcatExtends
<1> QED
  BY <1>1, <1>3, <1>4, <1>5, <1>6, SeedsAssumption

\* An element is taken out of a finite set.
LEMMA TakeOut ==
  ASSUME NEW S, IsFiniteSet(S), NEW x
  PROVE  /\ IsFiniteSet(S \ {x}) /\ Cardinality(S) \in Nat /\ Cardinality(S \ {x}) \in Nat
         /\ Cardinality(S) = Cardinality(S \ {x}) + (IF x \in S THEN 1 ELSE 0)
<1>1. IsFiniteSet(S \ {x}) /\ Cardinality(S) \in Nat /\ Cardinality(S \ {x}) \in Nat
  BY FS_Difference, FS_CardinalityType, FS_Singleton
<1>2. CASE x \in S
  <2>1. Cardinality(S \ {x}) = Cardinality(S) - 1
    BY <1>2, FS_RemoveElement
  <2> QED
    BY <1>1, <1>2, <2>1
<1>3. CASE x \notin S
  <2>1. S \ {x} = S
    BY <1>3
  <2>2. Cardinality(S) = Cardinality(S \ {x}) + 0
    BY <1>1, <2>1
  <2> QED
    BY <1>1, <1>3, <2>2
<1> QED
  BY <1>2, <1>3

\* Sequence r has t once less than q, if q has it, and everything else as often.
Removed(r, q, t) ==
  \A u : Times(q, {u}) = Times(r, {u}) + (IF u = t /\ Times(q, {t}) # 0 THEN 1 ELSE 0)

\* RemoveFrom removes one occurrence.
LEMMA RemoveFromFacts ==
  ASSUME NEW T, NEW list \in Seq(T), NEW t
  PROVE  RemoveFrom(list, t) \in Seq(T) /\ Removed(RemoveFrom(list, t), list, t)
<1> DEFINE hits == {i \in DOMAIN list : list[i] = t}
<1>1. PICK n \in Nat : n = Len(list) /\ DOMAIN list = 1..n /\ \A i \in 1..n : list[i] \in T
  BY LenProperties, ElementOfSeq
<1>2. hits = {} <=> Times(list, {t}) = 0
  <2>1. Times(list, {t}) # 0 <=> \E i \in 1..n : list[i] \in {t}
    BY <1>1, TimesPositive
  <2> QED
    BY <1>1, <2>1
<1>3. \A u : Times(list, {u}) \in Nat
  BY TimesType
<1>4. CASE hits = {}
  <2>1. RemoveFrom(list, t) = list
    BY <1>4 DEF RemoveFrom
  <2>2. Times(list, {t}) = 0
    BY <1>2, <1>4
  <2>3. \A u : Times(list, {u}) = Times(list, {u}) + 0
    BY <1>3
  <2>4. \A u : (IF u = t /\ Times(list, {t}) # 0 THEN 1 ELSE 0) = 0
    BY <2>2
  <2> HIDE DEF hits
  <2> QED
    BY <2>1, <2>3, <2>4 DEF Removed
<1>5. CASE hits # {}
  <2>1. PICK a \in hits : \A j \in hits : a <= j
    <3>1. hits \subseteq Nat
      BY <1>1
    <3> HIDE DEF hits
    <3> QED
      BY <1>5, <3>1, LeastNumber
  <2>2. PICK first : first = CHOOSE i \in hits : \A j \in hits : i <= j
    OBVIOUS
  <2>3. first \in hits
    <3> HIDE DEF hits
    <3> QED
      BY <2>1, <2>2
  <2>4. first \in 1..n /\ list[first] = t /\ n >= 1
    BY <1>1, <2>3
  <2>5. PICK e : e = [list EXCEPT ![first] = list[n]]
    OBVIOUS
  <2>6. e \in [1..n -> T] /\ \A i \in 1..n : e[i] = IF i = first THEN list[n] ELSE list[i]
    <3>1. list \in [1..n -> T]
      BY <1>1
    <3> QED
      BY <1>1, <2>4, <2>5, <3>1
  <2>7. PICK r : r = SubSeq(e, 1, n - 1)
    OBVIOUS
  <2>8. r \in Seq(T) /\ Len(r) = n - 1 /\ \A i \in 1 .. n - 1 : r[i] = e[i]
    <3>1. \A i \in 1 .. n - 1 : e[i] \in T
      BY <2>6
    <3>2. n - 1 \in Int /\ 1 \in Int
      OBVIOUS
    <3>3. /\ r \in Seq(T) /\ Len(r) = (IF 1 <= n - 1 THEN (n - 1) - 1 + 1 ELSE 0)
          /\ \A i \in 1 .. (n - 1) - 1 + 1 : r[i] = e[1 + i - 1]
      BY <2>7, <3>1, <3>2, SubSeqProperties
    <3>4. Len(r) = n - 1 /\ (n - 1) - 1 + 1 = n - 1 /\ \A i \in 1 .. n - 1 : 1 + i - 1 = i
      BY <2>4, <3>3
    <3> QED
      BY <3>3, <3>4
  <2>9. RemoveFrom(list, t) = r
    BY <1>1, <1>5, <2>2, <2>5, <2>7 DEF RemoveFrom
  <2>10. ASSUME NEW u PROVE Times(list, {u}) = Times(r, {u}) + (IF u = t THEN 1 ELSE 0)
    <3> DEFINE A == {i \in 1..n : list[i] = u}
               B == {i \in 1 .. n - 1 : r[i] = u}
               K == {i \in 1 .. n - 1 : i # first /\ list[i] = u}
    <3>1. Times(list, {u}) = Cardinality(A) /\ Times(r, {u}) = Cardinality(B)
      BY <1>1, <2>8 DEF Times
    <3>2. IsFiniteSet(A) /\ IsFiniteSet(B) /\ IsFiniteSet(K)
      <4>1. IsFiniteSet(1..n) /\ A \in SUBSET (1..n) /\ B \in SUBSET (1..n) /\ K \in SUBSET (1..n)
        BY Indices
      <4> HIDE DEF A, B, K
      <4> QED
        BY <4>1, FS_Subset
    <3>3. (A \ {first}) \ {n} = K
      <4>1. \A i \in 1..n : i \in 1 .. n - 1 <=> i # n
        OBVIOUS
      <4> QED
        BY <4>1
    <3>4. B \ {first} = K
      BY <2>6, <2>8
    <3>5. first \in A <=> u = t
      BY <2>4
    <3>6. n \in A \ {first} <=> first # n /\ list[n] = u
      BY <2>4
    <3>7. first \in B <=> first # n /\ list[n] = u
      <4>1. first \in 1 .. n - 1 <=> first # n
        BY <2>4
      <4> QED
        BY <2>4, <2>6, <2>8, <4>1
    <3> HIDE DEF A, B, K
    <3>8. Cardinality(A) = Cardinality(A \ {first}) + (IF first \in A THEN 1 ELSE 0) /\ IsFiniteSet(A \ {first})
          /\ Cardinality(A \ {first}) \in Nat
      BY <3>2, TakeOut
    <3>9. Cardinality(A \ {first}) = Cardinality(K) + (IF n \in A \ {first} THEN 1 ELSE 0)
      <4>1. PICK D : D = A \ {first}
        OBVIOUS
      <4>0. IsFiniteSet(D)
        BY <3>8, <4>1
      <4>2. Cardinality(D) = Cardinality(D \ {n}) + (IF n \in D THEN 1 ELSE 0)
        BY <4>0, TakeOut
      <4> QED
        BY <3>3, <4>1, <4>2
    <3>10. Cardinality(B) = Cardinality(K) + (IF first \in B THEN 1 ELSE 0)
      <4>1. Cardinality(B) = Cardinality(B \ {first}) + (IF first \in B THEN 1 ELSE 0)
        BY <3>2, TakeOut
      <4> QED
        BY <3>4, <4>1
    <3>11. Cardinality(K) \in Nat
      BY <3>2, FS_CardinalityType
    <3> QED
      BY <3>1, <3>5, <3>6, <3>7, <3>8, <3>9, <3>10, <3>11
  <2>11. Times(list, {t}) # 0
    BY <1>2, <1>5
  <2> QED
    BY <2>8, <2>9, <2>10, <2>11 DEF Removed
<1> QED
  BY <1>4, <1>5

\* The lists without an occurrence of t in that of vertex v
Without(lists, v, t) == [lists EXCEPT ![v] = RemoveFrom(@, t)]

\* The lists new are old without an occurrence of t in that of vertex v.
Differ(new, old, v, t) ==
  /\ new \in [Vertices -> Seq(Faces)] /\ Removed(new[v], old[v], t)
  /\ \A w \in Vertices : w # v => new[w] = old[w]

LEMMA WithoutFacts ==
  ASSUME NEW lists \in [Vertices -> Seq(Faces)], NEW v \in Vertices, NEW t
  PROVE  Differ(Without(lists, v, t), lists, v, t)
<1>1. PICK list \in Seq(Faces) : list = lists[v]
  OBVIOUS
<1>2. RemoveFrom(list, t) \in Seq(Faces) /\ Removed(RemoveFrom(list, t), list, t)
  BY RemoveFromFacts
<1>3. PICK r : r = Without(lists, v, t)
  OBVIOUS
<1>4. r \in [Vertices -> Seq(Faces)] /\ \A w \in Vertices : r[w] = IF w = v THEN RemoveFrom(list, t) ELSE lists[w]
  BY <1>1, <1>2, <1>3 DEF Without
<1>5. r \in [Vertices -> Seq(Faces)] /\ Removed(r[v], lists[v], t) /\ \A w \in Vertices : w # v => r[w] = lists[w]
  BY <1>1, <1>2, <1>4
<1> QED
  BY <1>3, <1>5 DEF Differ

LEMMA RemoveTriangleForm ==
  \A t : RemoveTriangle(t) = Without(Without(Without(neighbors, mesh.indices[t][1], t), mesh.indices[t][2], t),
                                     mesh.indices[t][3], t)
  BY DEF RemoveTriangle, Without

\* How often a triangle has a vertex, corner by corner
LEMMA MultiplicitySum ==
  \A t, v : Multiplicity(t, v) = (IF mesh.indices[t][1] = v THEN 1 ELSE 0) + (IF mesh.indices[t][2] = v THEN 1 ELSE 0)
                                   + (IF mesh.indices[t][3] = v THEN 1 ELSE 0)
<1> SUFFICES ASSUME NEW t, NEW v
             PROVE  Multiplicity(t, v) = (IF mesh.indices[t][1] = v THEN 1 ELSE 0)
                      + (IF mesh.indices[t][2] = v THEN 1 ELSE 0) + (IF mesh.indices[t][3] = v THEN 1 ELSE 0)
  OBVIOUS
<1>1. PICK S : S = {k \in 1..3 : mesh.indices[t][k] = v}
  OBVIOUS
<1>2. S \in SUBSET (1..3)
  BY <1>1
<1>3. (1 \in S <=> mesh.indices[t][1] = v) /\ (2 \in S <=> mesh.indices[t][2] = v) /\ (3 \in S <=> mesh.indices[t][3] = v)
  BY <1>1
<1>4. Cardinality(S) = (IF 1 \in S THEN 1 ELSE 0) + (IF 2 \in S THEN 1 ELSE 0) + (IF 3 \in S THEN 1 ELSE 0)
  BY <1>2, CountThree
<1> QED
  BY <1>1, <1>3, <1>4 DEF Multiplicity

\* Afterwards no list has t, and the others have what they had.
LEMMA RemoveTriangleFacts ==
  ASSUME Arguments, Lists, NEW t \in Live
  PROVE  /\ RemoveTriangle(t) \in [Vertices -> Seq(Faces)]
         /\ \A v \in Vertices, u \in Faces :
              Times(RemoveTriangle(t)[v], {u}) = IF u \in Live \ {t} THEN Multiplicity(u, v) ELSE 0
<1>1. PICK a \in Vertices, b \in Vertices, c \in Vertices :
        a = mesh.indices[t][1] /\ b = mesh.indices[t][2] /\ c = mesh.indices[t][3]
  <2>1. t \in Faces /\ 1 \in 1..3 /\ 2 \in 1..3 /\ 3 \in 1..3
    BY DEF Live
  <2> QED
    BY <2>1, CornerFacts, Zenon
<1>2. PICK l0 \in [Vertices -> Seq(Faces)] : l0 = neighbors
  BY DEF Lists
<1>3. PICK l1 : l1 = Without(l0, a, t)
  OBVIOUS
<1>4. PICK l2 : l2 = Without(l1, b, t)
  OBVIOUS
<1>5. PICK l3 : l3 = Without(l2, c, t)
  OBVIOUS
<1>6. RemoveTriangle(t) = l3
  BY <1>1, <1>2, <1>3, <1>4, <1>5, RemoveTriangleForm
<1>7. /\ l1 \in [Vertices -> Seq(Faces)] /\ Removed(l1[a], l0[a], t)
      /\ \A w \in Vertices : w # a => l1[w] = l0[w]
  <2>1. Differ(l1, l0, a, t)
    BY <1>3, WithoutFacts
  <2> QED
    BY <2>1 DEF Differ
<1>8. /\ l2 \in [Vertices -> Seq(Faces)] /\ Removed(l2[b], l1[b], t)
      /\ \A w \in Vertices : w # b => l2[w] = l1[w]
  <2>1. l1 \in [Vertices -> Seq(Faces)]
    BY <1>7
  <2>2. Differ(l2, l1, b, t)
    BY <1>4, <2>1, WithoutFacts
  <2> QED
    BY <2>2 DEF Differ
<1>9. /\ l3 \in [Vertices -> Seq(Faces)] /\ Removed(l3[c], l2[c], t)
      /\ \A w \in Vertices : w # c => l3[w] = l2[w]
  <2>1. l2 \in [Vertices -> Seq(Faces)]
    BY <1>8
  <2>2. Differ(l3, l2, c, t)
    BY <1>5, <2>1, WithoutFacts
  <2> QED
    BY <2>2 DEF Differ
<1>10. ASSUME NEW v \in Vertices, NEW u \in Faces
       PROVE  Times(l3[v], {u}) = IF u \in Live \ {t} THEN Multiplicity(u, v) ELSE 0
  <2>1. Times(l0[v], {u}) = IF u \in Live THEN Multiplicity(u, v) ELSE 0
    BY <1>2 DEF Lists
  <2>2. PICK n0 \in Nat, n1 \in Nat, n2 \in Nat, n3 \in Nat :
          n0 = Times(l0[v], {u}) /\ n1 = Times(l1[v], {u}) /\ n2 = Times(l2[v], {u}) /\ n3 = Times(l3[v], {u})
    BY <1>7, <1>8, <1>9, TimesType
  <2>3. CASE u = t
    <3>1. n0 = (IF a = v THEN 1 ELSE 0) + (IF b = v THEN 1 ELSE 0) + (IF c = v THEN 1 ELSE 0)
      BY <1>1, <2>1, <2>2, <2>3, MultiplicitySum
    <3>2. n0 = n1 + (IF a = v /\ n0 # 0 THEN 1 ELSE 0)
      <4>1. CASE a = v
        BY <1>7, <2>2, <2>3, <4>1 DEF Removed
      <4>2. CASE a # v
        BY <1>7, <2>2, <4>2
      <4> QED
        BY <4>1, <4>2
    <3>3. n1 = n2 + (IF b = v /\ n1 # 0 THEN 1 ELSE 0)
      <4>1. CASE b = v
        BY <1>8, <2>2, <2>3, <4>1 DEF Removed
      <4>2. CASE b # v
        BY <1>8, <2>2, <4>2
      <4> QED
        BY <4>1, <4>2
    <3>4. n2 = n3 + (IF c = v /\ n2 # 0 THEN 1 ELSE 0)
      <4>1. CASE c = v
        BY <1>9, <2>2, <2>3, <4>1 DEF Removed
      <4>2. CASE c # v
        BY <1>9, <2>2, <4>2
      <4> QED
        BY <4>1, <4>2
    <3>5. n3 = 0
      BY <3>1, <3>2, <3>3, <3>4
    <3> QED
      BY <2>2, <2>3, <3>5
  <2>4. CASE u # t
    <3>1. n0 = n1
      <4>1. CASE a = v
        <5>1. n0 = n1 + 0
          BY <1>7, <2>2, <2>4, <4>1 DEF Removed
        <5> QED
          BY <5>1
      <4>2. CASE a # v
        BY <1>7, <2>2, <4>2
      <4> QED
        BY <4>1, <4>2
    <3>2. n1 = n2
      <4>1. CASE b = v
        <5>1. n1 = n2 + 0
          BY <1>8, <2>2, <2>4, <4>1 DEF Removed
        <5> QED
          BY <5>1
      <4>2. CASE b # v
        BY <1>8, <2>2, <4>2
      <4> QED
        BY <4>1, <4>2
    <3>3. n2 = n3
      <4>1. CASE c = v
        <5>1. n2 = n3 + 0
          BY <1>9, <2>2, <2>4, <4>1 DEF Removed
        <5> QED
          BY <5>1
      <4>2. CASE c # v
        BY <1>9, <2>2, <4>2
      <4> QED
        BY <4>1, <4>2
    <3> QED
      BY <2>1, <2>2, <2>4, <3>1, <3>2, <3>3
  <2> QED
    BY <2>3, <2>4
<1> QED
  BY <1>6, <1>9, <1>10

-----------------------------------------------------------------------------
(* The flex builder *)

\* The neighbours of the current meshlet are live.
LEMMA NeighborsLive ==
  ASSUME Arguments, Lists, Ready(meshlet, used, meshletVertices, meshletTriangles, order)
  PROVE  /\ VerticesOf(meshlet) \subseteq Vertices
         /\ \A t \in MeshletNeighbors : t \in Live /\ \E k \in 1..3 : mesh.indices[t][k] \in VerticesOf(meshlet)
<1>1. VerticesOf(meshlet) \subseteq Vertices
  <2> SUFFICES ASSUME NEW i \in 0 .. meshlet.vertexCount - 1 PROVE MeshletVertex(meshlet, i) \in Vertices
    BY DEF VerticesOf
  <2>1. meshlet \in MeshletType /\ meshletVertices \in Seq(Vertices) /\ VertexEnd(meshlet) = Len(meshletVertices)
    BY DEF Ready, Reads
  <2>2. PICK vo \in Nat, vc \in Nat : vo = meshlet.vertexOffset /\ vc = meshlet.vertexCount
    BY <2>1 DEF MeshletType
  <2>3. vo + i + 1 \in 1 .. Len(meshletVertices)
    BY <2>1, <2>2, SMTT(30) DEF VertexEnd
  <2> QED
    BY <2>1, <2>2, <2>3, ElementOfSeq DEF MeshletVertex
<1>2. ASSUME NEW t \in MeshletNeighbors PROVE t \in Live /\ \E k \in 1..3 : mesh.indices[t][k] \in VerticesOf(meshlet)
  <2>1. PICK v \in VerticesOf(meshlet) : t \in Range(neighbors[v])
    BY DEF MeshletNeighbors
  <2>2. v \in Vertices
    BY <1>1, <2>1
  <2>3. PICK list \in Seq(Faces) : list = neighbors[v]
    BY <2>2 DEF Lists
  <2>4. PICK i \in 1 .. Len(list) : t = list[i]
    BY <2>1, <2>3, LenProperties DEF Range
  <2>5. t \in Live /\ \E k \in 1..3 : mesh.indices[t][k] = v
    BY <2>2, <2>3, <2>4, ListedLive
  <2> QED
    BY <2>1, <2>5
<1> QED
  BY <1>1, <1>2

LEMMA FlexEmitStep ==
  ASSUME IInv, phase = "flex", NEW best \in Live, NEW split \in BOOLEAN, FlexEmit(best, split),
         split => meshlet.triangleCount >= 1 /\ WellFilled(meshlet)
  PROVE  IInv'
<1>1. Arguments /\ Phases /\ Output /\ Current /\ Lists /\ Spatial /\ Paid
  BY DEF IInv, Bounded
<1>2. Ready(meshlet, used, meshletVertices, meshletTriangles, order)
  BY <1>1 DEF Output
<1>3. NewSeeds \in Seq(Live) /\ Len(NewSeeds) <= MaxSeeds
  BY <1>1, <1>2, NewSeedsFacts
<1>4. PICK chosen :
        /\ chosen = best \/ (NewSeeds # <<>> /\ chosen = SelectSeed(NewSeeds))
        /\ seeds' = NewSeeds \/ seeds' = seeds
        /\ AppendMeshlet(chosen, split) /\ neighbors' = RemoveTriangle(chosen)
        /\ UNCHANGED <<phase, mesh, call, spatialVars>>
  <2>1. PICK full \in BOOLEAN : full <=> (split \/ Full(best))
    OBVIOUS
  <2>2. /\ seeds' = (IF full THEN NewSeeds ELSE seeds)
        /\ AppendMeshlet(IF full /\ NewSeeds # <<>> THEN SelectSeed(NewSeeds) ELSE best, split)
        /\ neighbors' = RemoveTriangle(IF full /\ NewSeeds # <<>> THEN SelectSeed(NewSeeds) ELSE best)
        /\ UNCHANGED <<phase, mesh, call, spatialVars>>
    BY <2>1 DEF FlexEmit
  <2>3. PICK chosen : chosen = IF full /\ NewSeeds # <<>> THEN SelectSeed(NewSeeds) ELSE best
    OBVIOUS
  <2>4. AppendMeshlet(chosen, split) /\ neighbors' = RemoveTriangle(chosen)
    BY <2>2, <2>3
  <2>5. chosen = best \/ (NewSeeds # <<>> /\ chosen = SelectSeed(NewSeeds))
    BY <2>3
  <2>6. seeds' = NewSeeds \/ seeds' = seeds
    BY <2>2
  <2> QED
    BY <2>2, <2>4, <2>5, <2>6, Zenon
<1>5. chosen \in Live
  <2>1. CASE NewSeeds # <<>> /\ chosen = SelectSeed(NewSeeds)
    <3>1. PICK list \in Seq(Faces) : list = NewSeeds
      <4>1. Live \subseteq Faces
        BY DEF Live
      <4>2. PICK q \in Seq(Live) : q = NewSeeds
        BY <1>3
      <4>3. q \in Seq(Faces)
        BY <4>1, SeqMonotonic
      <4> QED
        BY <4>2, <4>3
    <3>2. PICK i \in 1 .. Len(list) : SelectSeed(list) = list[i]
      <4>1. neighbors \in [Vertices -> Seq(Faces)]
        BY <1>1 DEF Lists
      <4> QED
        BY <1>1, <2>1, <3>1, <4>1, SelectSeedFacts
    <3>3. list[i] \in Live
      BY <1>3, <3>1, ElementOfSeq
    <3> QED
      BY <1>4, <2>1, <3>1, <3>2, <3>3
  <2>2. CASE chosen = best
    BY <2>2
  <2> QED
    BY <1>4, <2>1, <2>2
<1>6. phase' = phase /\ mesh' = mesh /\ call' = call /\ boundary' = boundary
  BY <1>4 DEF spatialVars
<1>7. /\ Arguments' /\ Output' /\ order' = Append(order, chosen)
      /\ Len(order) \in Nat /\ Len(order') = Len(order) + 1
  BY <1>1, <1>4, <1>5, <1>6, AppendStep
<1>8. Paid'
  BY <1>1, <1>4, <1>5, <1>6, PaidStep
<1>9. Faces' = Faces /\ Vertices' = Vertices /\ Live' = Live \ {chosen}
  <2>1. Faces' = Faces /\ Vertices' = Vertices
    BY <1>6, Frozen
  <2>2. PICK o \in Seq(Faces) : o = order
    BY <1>2 DEF Ready
  <2>3. chosen \in Faces
    BY <1>5 DEF Live
  <2>4. Range(Append(o, chosen)) = Range(o) \cup {chosen}
    <3>1. /\ Append(o, chosen) \in Seq(Faces) /\ Len(o) \in Nat /\ Len(Append(o, chosen)) = Len(o) + 1
          /\ Append(o, chosen)[Len(o) + 1] = chosen
          /\ \A i \in 1 .. Len(o) : Append(o, chosen)[i] = o[i]
      BY <2>3, Enqueue
    <3>2. PICK p \in Seq(Faces), n \in Nat : p = Append(o, chosen) /\ n = Len(o)
      BY <3>1
    <3>3. DOMAIN p = 1 .. n + 1 /\ DOMAIN o = 1..n
      BY <3>1, <3>2, LenProperties
    <3>4. \A i \in 1 .. n + 1 : i \in 1..n \/ i = n + 1
      OBVIOUS
    <3>5. n + 1 \in 1 .. n + 1 /\ \A i \in 1..n : i \in 1 .. n + 1
      OBVIOUS
    <3>6. p[n + 1] = chosen /\ \A i \in 1..n : p[i] = o[i]
      BY <3>1, <3>2
    <3>7. Range(p) = {p[i] : i \in 1 .. n + 1} /\ Range(o) = {o[i] : i \in 1..n}
      BY <3>3 DEF Range
    <3> QED
      BY <3>2, <3>4, <3>5, <3>6, <3>7
  <2>5. Live' = Faces \ Range(order')
    BY <2>1 DEF Live
  <2> QED
    BY <1>7, <2>1, <2>2, <2>4, <2>5 DEF Live
<1>10. Lists'
  <2>1. /\ RemoveTriangle(chosen) \in [Vertices -> Seq(Faces)]
        /\ \A v \in Vertices, u \in Faces :
             Times(RemoveTriangle(chosen)[v], {u}) = IF u \in Live \ {chosen} THEN Multiplicity(u, v) ELSE 0
    BY <1>1, <1>5, RemoveTriangleFacts
  <2>2. \A u, v : Multiplicity(u, v)' = Multiplicity(u, v)
    BY <1>6 DEF Multiplicity
  <2>3. \A v \in Vertices, u \in Faces :
          Times(neighbors'[v], {u}) = IF u \in Live \ {chosen} THEN Multiplicity(u, v) ELSE 0
    BY <1>4, <2>1
  <2>4. neighbors' \in [Vertices -> Seq(Faces)]
    BY <1>4, <2>1
  <2>5. seeds' \in Seq(Faces) /\ Len(seeds') <= MaxSeeds
    <3>1. NewSeeds \in Seq(Faces)
      <4>1. Live \subseteq Faces
        BY DEF Live
      <4>2. PICK q \in Seq(Live) : q = NewSeeds
        BY <1>3
      <4>3. q \in Seq(Faces)
        BY <4>1, SeqMonotonic
      <4> QED
        BY <4>2, <4>3
    <3>2. seeds \in Seq(Faces) /\ Len(seeds) <= MaxSeeds
      BY <1>1 DEF Lists
    <3> QED
      BY <1>3, <1>4, <3>1, <3>2
  <2>6. \A q, C : Times(q, C)' = Times(q, C)
    BY DEF Times
  <2>7. \A v \in Vertices', u \in Faces' :
          Times(neighbors'[v], {u}) = IF u \in Live' THEN Multiplicity(u, v)' ELSE 0
    BY <1>9, <2>2, <2>3
  <2> QED
    BY <1>9, <2>4, <2>5, <2>7 DEF Lists
<1>11. order' # <<>>
  <2>1. Len(<<>>) = 0 /\ Len(order) + 1 # 0
    BY <1>7
  <2> QED
    BY <1>7, <2>1
<1>12. Phases' /\ Current' /\ Spatial' /\ Bounded'
  BY <1>1, <1>6, <1>8, <1>9, <1>11 DEF Phases, Current, Spatial, Bounded
<1> QED
  BY <1>7, <1>10, <1>12 DEF IInv

LEMMA FlexStep ==
  ASSUME IInv, FlexNext
  PROVE  IInv'
<1>1. Arguments /\ Phases /\ Output /\ Current /\ Spatial
  BY DEF IInv
<1>2. ASSUME FlexFirst PROVE IInv'
  <2>1. phase = "flex" /\ order = <<>> /\ FlexEmit(InitialSeed, FALSE)
    BY <1>2 DEF FlexFirst
  <2>2. InitialSeed \in Live
    <3>1. Range(<<>>) = {}
      BY DEF Range
    <3> QED
      BY <1>1, <2>1, <3>1, InitialSeedFacts DEF Live
  <2> QED
    BY <2>1, <2>2, FlexEmitStep
<1>3. ASSUME FlexNeighbor PROVE IInv'
  <2>1. PICK t \in BestNeighbors : phase = "flex" /\ FlexEmit(t, FALSE)
    BY <1>3 DEF FlexNeighbor
  <2>2. t \in Live
    <3>1. Lists /\ Ready(meshlet, used, meshletVertices, meshletTriangles, order)
      BY <1>1, <2>1 DEF IInv, Output
    <3> QED
      BY <1>1, <3>1, NeighborsLive DEF BestNeighbors
  <2> QED
    BY <2>1, <2>2, FlexEmitStep
<1>4. ASSUME NEW t \in Live, NEW far \in BOOLEAN, FlexNearest(t, far) PROVE IInv'
  <2>1. PICK split \in BOOLEAN :
          /\ split <=> (call.splits /\ far /\ meshlet.triangleCount >= call.minTriangles)
          /\ phase = "flex" /\ FlexEmit(t, split)
    <3>1. (call.splits /\ far /\ meshlet.triangleCount >= call.minTriangles) \in BOOLEAN
      OBVIOUS
    <3>2. phase = "flex" /\ FlexEmit(t, call.splits /\ far /\ meshlet.triangleCount >= call.minTriangles)
      BY <1>4 DEF FlexNearest
    <3> QED
      BY <3>1, <3>2
  <2>2. ASSUME split PROVE meshlet.triangleCount >= 1 /\ WellFilled(meshlet)
    <3>1. meshlet \in MeshletType
      BY <1>1 DEF Output, Ready, Reads
    <3>2. PICK tc \in Nat : tc = meshlet.triangleCount
      BY <3>1 DEF MeshletType
    <3>3. tc >= call.minTriangles
      BY <2>1, <2>2, <3>2
    <3>4. Enough = call.minTriangles
      BY <1>1, <2>1, InputFacts DEF Phases, Enough
    <3>5. call.minTriangles \in Nat \ {0}
      BY <1>1, InputFacts
    <3> QED
      BY <3>2, <3>3, <3>4, <3>5 DEF WellFilled
  <2> QED
    BY <2>1, <2>2, FlexEmitStep
<1>5. ASSUME FlexFinish PROVE IInv'
  <2>1. phase = "flex" /\ order # <<>> /\ Live = {} /\ Finish
    BY <1>5 DEF FlexFinish, FlexDone
  <2>2. Range(order) = Faces
    <3>1. order \in Seq(Faces)
      BY <1>1 DEF Output, Ready
    <3>2. Range(order) \subseteq Faces
      BY <3>1, LenProperties, ElementOfSeq DEF Range
    <3> QED
      BY <2>1, <3>2 DEF Live
  <2>3. Len(meshlets) + 1 <= Limit
    <3>1. meshlets \in Seq(MeshletType) /\ Paid
      BY <1>1, <2>1 DEF IInv, Output, Bounded
    <3> QED
      BY <1>1, <2>1, <3>1, PaidLimit
  <2> QED
    BY <2>1, <2>2, <2>3, FinishStep
<1> QED
  BY <1>2, <1>3, <1>4, <1>5 DEF FlexNext

-----------------------------------------------------------------------------
(* The lists of live triangles at the start *)

\* Corner i of the mesh belongs to this triangle and is this vertex.
TriangleOf(i) == (i - 1) \div 3 + 1
CornerOfMesh(i) == mesh.indices[TriangleOf(i)][((i - 1) % 3) + 1]
MeshCorners == [i \in 1 .. 3 * FaceCount |-> i]
CornersAt(v) == {i \in DOMAIN MeshCorners : CornerOfMesh(i) = v}
OwnCorners(v) == Only(MeshCorners, CornersAt(v))

LEMMA AdjacencyForm ==
  Adjacency(mesh) = [v \in {CornerOfMesh(i) : i \in DOMAIN MeshCorners} |->
                       [j \in DOMAIN OwnCorners(v) |-> TriangleOf(OwnCorners(v)[j])]]
  BY DEF Adjacency, OwnCorners, CornersAt, MeshCorners, CornerOfMesh, TriangleOf, FaceCount

LEMMA CornerNumbers ==
  ASSUME Arguments
  PROVE  /\ \A i \in 1 .. 3 * FaceCount : /\ TriangleOf(i) \in Faces /\ ((i - 1) % 3) + 1 \in 1..3
                                          /\ i = 3 * (TriangleOf(i) - 1) + (((i - 1) % 3) + 1)
         /\ \A t \in Faces, k \in 1..3 : /\ 3 * (t - 1) + k \in 1 .. 3 * FaceCount
                                         /\ TriangleOf(3 * (t - 1) + k) = t
                                         /\ CornerOfMesh(3 * (t - 1) + k) = mesh.indices[t][k]
<1>1. PICK n \in Nat \ {0} : n = FaceCount /\ Faces = 1..n
  BY InputFacts
<1>2. ASSUME NEW i \in 1 .. 3 * n
      PROVE  /\ TriangleOf(i) \in 1..n /\ ((i - 1) % 3) + 1 \in 1..3
             /\ i = 3 * (TriangleOf(i) - 1) + (((i - 1) % 3) + 1)
  <2>1. PICK q \in Int, r \in 0..2 : q = (i - 1) \div 3 /\ r = (i - 1) % 3
    OBVIOUS
  <2>2. i - 1 = 3 * q + r
    BY <2>1
  <2> QED
    BY <2>1, <2>2 DEF TriangleOf
<1>3. ASSUME NEW t \in 1..n, NEW k \in 1..3
      PROVE  /\ 3 * (t - 1) + k \in 1 .. 3 * n /\ TriangleOf(3 * (t - 1) + k) = t
             /\ ((3 * (t - 1) + k - 1) % 3) + 1 = k
  BY DEF TriangleOf
<1>4. ASSUME NEW t \in 1..n, NEW k \in 1..3 PROVE CornerOfMesh(3 * (t - 1) + k) = mesh.indices[t][k]
  <2>1. PICK i : i = 3 * (t - 1) + k
    OBVIOUS
  <2>2. TriangleOf(i) = t /\ ((i - 1) % 3) + 1 = k
    BY <1>3, <2>1
  <2> QED
    BY <2>1, <2>2 DEF CornerOfMesh
<1> QED
  BY <1>1, <1>2, <1>3, <1>4

LEMMA AdjacencyFacts ==
  ASSUME Arguments
  PROVE  /\ Adjacency(mesh) \in [Vertices -> Seq(Faces)]
         /\ \A v \in Vertices, t \in Faces : Times(Adjacency(mesh)[v], {t}) = Multiplicity(t, v)
<1>1. MeshCorners \in Seq(1 .. 3 * FaceCount) /\ Len(MeshCorners) = 3 * FaceCount
      /\ DOMAIN MeshCorners = 1 .. 3 * FaceCount /\ \A i \in 1 .. 3 * FaceCount : MeshCorners[i] = i
  <2>1. FaceCount \in Nat
    BY InputFacts
  <2> QED
    BY <2>1 DEF MeshCorners
<1>2. {CornerOfMesh(i) : i \in DOMAIN MeshCorners} = Vertices
  <2>1. ASSUME NEW i \in 1 .. 3 * FaceCount PROVE CornerOfMesh(i) \in Vertices
    BY CornerNumbers, CornerFacts DEF CornerOfMesh
  <2>2. ASSUME NEW v \in Vertices PROVE \E i \in 1 .. 3 * FaceCount : CornerOfMesh(i) = v
    <3>1. PICK t \in Faces, k \in 1..3 : v = mesh.indices[t][k]
      BY DEF Vertices, Corners
    <3> QED
      BY <3>1, CornerNumbers
  <2> QED
    BY <1>1, <2>1, <2>2
<1>3. ASSUME NEW v \in Vertices
      PROVE  /\ Adjacency(mesh)[v] \in Seq(Faces)
             /\ \A t \in Faces : Times(Adjacency(mesh)[v], {t}) = Multiplicity(t, v)
  <2>1. PICK own \in Seq(1 .. 3 * FaceCount) : own = OwnCorners(v)
    BY <1>1, OnlyFacts DEF OwnCorners
  <2>2. \A C : Times(own, C) = Times(MeshCorners, CornersAt(v) \cap C)
    <3>1. PICK s \in Seq(1 .. 3 * FaceCount) : s = MeshCorners
      BY <1>1
    <3>2. PICK S : S = CornersAt(v)
      OBVIOUS
    <3> QED
      BY <2>1, <3>1, <3>2, OnlyFacts, SMTT(30) DEF OwnCorners
  <2>3. PICK list : list = Adjacency(mesh)[v]
    OBVIOUS
  <2>4. list = [j \in 1 .. Len(own) |-> TriangleOf(own[j])]
    BY <1>2, <2>1, <2>3, AdjacencyForm
  <2>5. /\ Len(own) \in Nat /\ \A j \in 1 .. Len(own) : own[j] \in 1 .. 3 * FaceCount
    BY ElementOfSeq, LenProperties
  <2>6. list \in Seq(Faces) /\ Len(list) = Len(own)
    <3>1. \A j \in 1 .. Len(own) : TriangleOf(own[j]) \in Faces
      BY <2>5, CornerNumbers
    <3>2. PICK n \in Nat : n = Len(own)
      BY <2>5
    <3>3. list \in [1..n -> Faces]
      BY <2>4, <3>1, <3>2
    <3> QED
      BY <3>2, <3>3
  <2>7. ASSUME NEW t \in Faces PROVE Times(list, {t}) = Multiplicity(t, v)
    <3> DEFINE C == {i \in 1 .. 3 * FaceCount : TriangleOf(i) = t}
               K == {k \in 1..3 : mesh.indices[t][k] = v}
               f == [k \in K |-> 3 * (t - 1) + k]
    <3>1. Times(list, {t}) = Times(own, C)
      <4>1. {i \in 1 .. Len(list) : list[i] \in {t}} = {i \in 1 .. Len(own) : own[i] \in C}
        BY <2>4, <2>5, <2>6
      <4> QED
        BY <4>1 DEF Times
    <3>2. Times(own, C) = Cardinality(CornersAt(v) \cap C)
      <4>1. {i \in 1 .. Len(MeshCorners) : MeshCorners[i] \in CornersAt(v) \cap C} = CornersAt(v) \cap C
        BY <1>1
      <4> HIDE DEF C
      <4>2. PICK D : D = CornersAt(v) \cap C
        OBVIOUS
      <4>3. Times(own, C) = Times(MeshCorners, D)
        BY <2>2, <4>2, Zenon
      <4>4. {i \in 1 .. Len(MeshCorners) : MeshCorners[i] \in D} = D
        BY <4>1, <4>2
      <4>5. Times(MeshCorners, D) = Cardinality({i \in 1 .. Len(MeshCorners) : MeshCorners[i] \in D})
        BY DEF Times
      <4> QED
        BY <4>2, <4>3, <4>4, <4>5
    <3>3. CornersAt(v) \cap C = {f[k] : k \in K}
      <4>1. ASSUME NEW i \in CornersAt(v) \cap C PROVE \E k \in K : i = f[k]
        <5>1. i \in 1 .. 3 * FaceCount /\ CornerOfMesh(i) = v /\ TriangleOf(i) = t
          BY <1>1 DEF CornersAt
        <5>2. PICK k \in 1..3 : k = ((i - 1) % 3) + 1
          BY <5>1, CornerNumbers
        <5>3. i = 3 * (t - 1) + k /\ mesh.indices[t][k] = v
          BY <5>1, <5>2, CornerNumbers DEF CornerOfMesh
        <5> QED
          BY <5>3
      <4>2. ASSUME NEW k \in K PROVE f[k] \in CornersAt(v) \cap C
        BY <1>1, CornerNumbers DEF CornersAt
      <4> QED
        BY <4>1, <4>2
    <3>4. IsFiniteSet(K)
      BY CountThree
    <3>5. \A x, y \in K : f[x] = f[y] => x = y
      <4>1. t \in Nat
        BY InputFacts
      <4> QED
        BY <4>1
    <3> HIDE DEF f, C
    <3>6. Cardinality({f[k] : k \in K}) = Cardinality(K)
      BY <3>4, <3>5, DistinctValues
    <3> QED
      BY <3>1, <3>2, <3>3, <3>6 DEF Multiplicity
  <2> QED
    BY <2>3, <2>6, <2>7
<1>4. Adjacency(mesh) = [v \in Vertices |-> Adjacency(mesh)[v]]
  BY <1>2, AdjacencyForm
<1> HIDE DEF Adjacency
<1> QED
  BY <1>3, <1>4

-----------------------------------------------------------------------------
(* The order of the triangles along an axis *)

\* In a total order of n things, given by what precedes each, every rank occurs once.
LEMMA Ranked ==
  ASSUME NEW n \in Nat, NEW up \in [1..n -> SUBSET (1..n)], \A t \in 1..n : t \in up[t],
         \A s, t \in 1..n : s # t => \/ up[s] \subseteq up[t] /\ t \notin up[s]
                                     \/ up[t] \subseteq up[s] /\ s \notin up[t]
  PROVE  /\ \A i \in 1..n : \E t \in 1..n : Cardinality(up[t]) = i
         /\ \A s, t \in 1..n : Cardinality(up[s]) = Cardinality(up[t]) => s = t
<1> DEFINE rank == [t \in 1..n |-> Cardinality(up[t])]
<1>1. \A t \in 1..n : IsFiniteSet(up[t]) /\ Cardinality(up[t]) \in 1..n
  <2>1. SUFFICES ASSUME NEW t \in 1..n PROVE IsFiniteSet(up[t]) /\ Cardinality(up[t]) \in 1..n
    OBVIOUS
  <2>2. IsFiniteSet(1..n) /\ Cardinality(1..n) = n /\ up[t] \in SUBSET (1..n)
    BY Indices
  <2>3. IsFiniteSet(up[t]) /\ Cardinality(up[t]) <= n
    BY <2>2, FS_Subset
  <2>4. Cardinality(up[t]) \in Nat /\ Cardinality(up[t]) # 0
    BY <2>3, FS_CardinalityType, FS_EmptySet
  <2> QED
    BY <2>3, <2>4
<1>2. ASSUME NEW s \in 1..n, NEW t \in 1..n, up[s] \subseteq up[t], t \notin up[s]
      PROVE  Cardinality(up[s]) # Cardinality(up[t])
  <2>1. up[s] \in SUBSET up[t] /\ up[s] # up[t]
    BY <1>2
  <2> QED
    BY <1>1, <2>1, FS_Subset
<1>3. \A s, t \in 1..n : rank[s] = rank[t] => s = t
  BY <1>2
<1>4. {rank[t] : t \in 1..n} = 1..n
  <2>1. IsFiniteSet(1..n) /\ Cardinality(1..n) = n
    BY Indices
  <2>2. Cardinality({rank[t] : t \in 1..n}) = n
    <3> HIDE DEF rank
    <3> QED
      BY <1>3, <2>1, DistinctValues
  <2>3. {rank[t] : t \in 1..n} \in SUBSET (1..n)
    BY <1>1
  <2> HIDE DEF rank
  <2> QED
    BY <2>1, <2>2, <2>3, FS_Subset
<1> QED
  BY <1>3, <1>4

\* What precedes a triangle in the order of its centroids
Preceding(t) == {s \in Faces : LexLeq(<<mesh.centroids[s][1], s, 0>>, <<mesh.centroids[t][1], t, 0>>)}

LEMMA AxisForm == AxisOrder(mesh, 1) = [i \in Faces |-> CHOOSE t \in Faces : Cardinality(Preceding(t)) = i]
  BY DEF AxisOrder, Preceding, Faces

LEMMA AxisOrderFacts ==
  ASSUME Arguments
  PROVE  IsOrder(AxisOrder(mesh, 1))
<1>1. PICK n \in Nat : n = FaceCount /\ Faces = 1..n
  BY InputFacts
<1>2. PICK up : up = [t \in 1..n |-> Preceding(t)]
  OBVIOUS
<1>3. PICK c : c = [t \in 1..n |-> mesh.centroids[t][1]]
  OBVIOUS
<1>4. ASSUME NEW t \in 1..n PROVE c[t] \in Int
  <2>1. mesh.centroids \in Seq(Int \X Int \X Int) /\ t \in 1 .. Len(mesh.centroids)
    BY <1>1, InputFacts
  <2>2. mesh.centroids[t] \in Int \X Int \X Int
    BY <2>1, ElementOfSeq
  <2> QED
    BY <1>3, <2>2
<1>5. ASSUME NEW s \in 1..n, NEW t \in 1..n PROVE s \in up[t] <=> c[s] < c[t] \/ (c[s] = c[t] /\ s <= t)
  BY <1>1, <1>2, <1>3, <1>4 DEF Preceding, LexLeq
<1>6. /\ up \in [1..n -> SUBSET (1..n)] /\ \A t \in 1..n : t \in up[t]
      /\ \A s, t \in 1..n : s # t => \/ up[s] \subseteq up[t] /\ t \notin up[s]
                                     \/ up[t] \subseteq up[s] /\ s \notin up[t]
  <2>1. up \in [1..n -> SUBSET (1..n)]
    BY <1>1, <1>2 DEF Preceding
  <2>2. ASSUME NEW s \in 1..n, NEW t \in 1..n, s # t, s \in up[t]
        PROVE  up[s] \subseteq up[t] /\ t \notin up[s]
    <3>1. c[s] < c[t] \/ (c[s] = c[t] /\ s < t)
      BY <1>5, <2>2
    <3>2. t \notin up[s]
      BY <1>4, <1>5, <3>1
    <3>3. ASSUME NEW r \in up[s] PROVE r \in up[t]
      <4>1. r \in 1..n
        BY <2>1
      <4> QED
        BY <1>4, <1>5, <3>1, <4>1
    <3> QED
      BY <3>2, <3>3
  <2>3. \A s, t \in 1..n : s \in up[t] \/ t \in up[s]
    BY <1>4, <1>5
  <2> QED
    BY <2>1, <2>2, <2>3, <1>4, <1>5
<1>7. /\ \A i \in 1..n : \E t \in 1..n : Cardinality(up[t]) = i
      /\ \A s, t \in 1..n : Cardinality(up[s]) = Cardinality(up[t]) => s = t
      /\ \A t \in 1..n : Cardinality(up[t]) \in 1..n
  <2>1. \A t \in 1..n : Cardinality(up[t]) \in 1..n
    <3>1. SUFFICES ASSUME NEW t \in 1..n PROVE Cardinality(up[t]) \in 1..n
      OBVIOUS
    <3>2. IsFiniteSet(1..n) /\ Cardinality(1..n) = n /\ up[t] \in SUBSET (1..n)
      BY <1>6, Indices
    <3>3. IsFiniteSet(up[t]) /\ Cardinality(up[t]) <= n
      BY <3>2, FS_Subset
    <3>4. Cardinality(up[t]) \in Nat /\ Cardinality(up[t]) # 0
      BY <1>6, <3>3, FS_CardinalityType, FS_EmptySet
    <3> QED
      BY <3>3, <3>4
  <2> QED
    BY <1>6, <2>1, Ranked
<1>8. PICK axis : axis = AxisOrder(mesh, 1)
  OBVIOUS
<1>9. DOMAIN axis = 1..n /\ \A i \in 1..n : axis[i] \in 1..n /\ Cardinality(up[axis[i]]) = i
  <2>1. axis = [i \in 1..n |-> CHOOSE t \in 1..n : Cardinality(Preceding(t)) = i]
    BY <1>1, <1>8, AxisForm
  <2>2. ASSUME NEW i \in 1..n PROVE axis[i] \in 1..n /\ Cardinality(up[axis[i]]) = i
    <3>1. \E t \in 1..n : Cardinality(Preceding(t)) = i
      BY <1>2, <1>7
    <3> QED
      BY <1>2, <2>1, <3>1
  <2> QED
    BY <2>1, <2>2
<1>10. axis \in Seq(Faces) /\ Len(axis) = n
  <2>1. axis = [i \in 1..n |-> axis[i]]
    BY <1>8, <1>9, <1>1, AxisForm
  <2>2. axis \in [1..n -> 1..n]
    BY <1>9, <2>1
  <2> QED
    BY <1>1, <2>2
<1>11. ASSUME NEW t \in Faces PROVE Times(axis, {t}) = 1
  <2>1. {i \in 1 .. Len(axis) : axis[i] \in {t}} = {Cardinality(up[t])}
    <3>1. PICK r \in 1..n : r = Cardinality(up[t])
      BY <1>1, <1>7
    <3>2. axis[r] = t
      BY <3>1, <1>1, <1>7, <1>9
    <3>3. ASSUME NEW i \in 1..n, axis[i] = t PROVE i = r
      BY <3>1, <3>3, <1>9
    <3> QED
      BY <3>1, <3>2, <3>3, <1>10
  <2> QED
    BY <2>1, FS_Singleton DEF Times
<1> QED
  BY <1>1, <1>8, <1>10, <1>11 DEF IsOrder

-----------------------------------------------------------------------------
(* The initial states *)

LEMMA InitStep == Init => IInv
<1> SUFFICES ASSUME Init PROVE IInv
  OBVIOUS
<1>1. /\ \E input \in Inputs : mesh = input.mesh /\ call = input.call
      /\ phase = call.mode /\ used = [v \in Vertices |-> -1] /\ meshlet = EmptyMeshlet
      /\ meshlets = <<>> /\ meshletVertices = <<>> /\ meshletTriangles = <<>>
      /\ neighbors = (IF phase = "flex" THEN Adjacency(mesh) ELSE <<>>)
      /\ seeds = <<>> /\ boundary = {} /\ order = <<>>
      /\ axes = (IF phase = "split" THEN [k \in 1..3 |-> AxisOrder(mesh, k)] ELSE <<>>)
      /\ ranges = (IF phase = "split" THEN <<[first |-> 1, count |-> Cardinality(Faces), depth |-> 0]>> ELSE <<>>)
  BY DEF Init
<1>2. Arguments
  BY <1>1 DEF Arguments
<1>3. /\ FaceCount \in Nat \ {0} /\ Faces = 1 .. FaceCount /\ Cardinality(Faces) = FaceCount
      /\ call.mode \in {"scan", "flex", "split"} /\ call.maxVertices \in Nat /\ call.maxVertices >= 3
      /\ call.maxTriangles \in Nat
  BY <1>2, InputFacts, FaceNumber
<1>4. Phases
  BY <1>1, <1>3 DEF Phases
<1>5. /\ meshlet \in MeshletType /\ meshlet.vertexOffset = 0 /\ meshlet.triangleOffset = 0
      /\ meshlet.vertexCount = 0 /\ meshlet.triangleCount = 0
  BY <1>1 DEF EmptyMeshlet, MeshletType
<1>6. /\ Len(meshletVertices) = 0 /\ Len(meshletTriangles) = 0 /\ Len(order) = 0 /\ Len(meshlets) = 0
      /\ meshletVertices \in Seq(Vertices) /\ meshletTriangles \in Seq(Nat) /\ order \in Seq(Faces)
      /\ meshlets \in Seq(MeshletType)
  BY <1>1
<1>7. Ready(meshlet, used, meshletVertices, meshletTriangles, order)
  <2>1. Places(used, meshlet, meshletVertices)
    BY <1>1, <1>3, <1>5 DEF Places
  <2>2. VertexEnd(meshlet) = 0 /\ TriangleEnd(meshlet) = 0
    BY <1>5 DEF VertexEnd, TriangleEnd
  <2>3. Reads(meshlet, meshletVertices, meshletTriangles, order)
    <3>1. /\ 0 \in Nat /\ meshlet.triangleOffset = 3 * 0 /\ 0 + meshlet.triangleCount <= Len(order)
          /\ \A i \in 0 + 1 .. 0 + meshlet.triangleCount : Holds(meshlet, meshletVertices, meshletTriangles, order, i)
      BY <1>5, <1>6
    <3>2. /\ meshlet.vertexCount <= call.maxVertices /\ meshlet.triangleCount <= call.maxTriangles
          /\ meshlet.vertexCount <= 3 * meshlet.triangleCount /\ VertexEnd(meshlet) <= Len(meshletVertices)
      BY <1>3, <1>5, <1>6, <2>2
    <3> QED
      BY <1>5, <3>1, <3>2 DEF Reads
  <2> QED
    BY <1>6, <2>1, <2>2, <2>3 DEF Ready
<1>8. Output
  <2>1. Closed(meshlets, meshlet, meshletVertices, meshletTriangles, order)
    BY <1>5, <1>6 DEF Closed, StartsAt
  <2>2. phase # "done"
    BY <1>1, <1>3
  <2>3. \A i, j \in 1 .. Len(order) : order[i] = order[j] => i = j
    BY <1>6
  <2> QED
    BY <1>1, <1>6, <1>7, <2>1, <2>2, <2>3 DEF Output
<1>9. Current
  BY <1>1, <1>3, <1>6 DEF Current
<1>10. ASSUME phase = "flex" PROVE Lists
  <2>1. Live = Faces
    BY <1>1, <1>6 DEF Live, Range
  <2>2. seeds \in Seq(Faces) /\ Len(seeds) = 0 /\ MaxSeeds \in Nat
    BY <1>1, SeedsAssumption
  <2>3. neighbors = Adjacency(mesh)
    BY <1>1, <1>10
  <2> QED
    BY <1>2, <2>1, <2>2, <2>3, AdjacencyFacts DEF Lists
<1>11. Spatial
  <2>1. ASSUME phase = "split" PROVE IsOrder(axes[1]) /\ Tiled /\ Boundaries
    <3>1. axes[1] = AxisOrder(mesh, 1)
      BY <1>1, <2>1
    <3>a. PICK r : r = [first |-> 1, count |-> FaceCount, depth |-> 0]
      OBVIOUS
    <3>2. r \in RangeType /\ r.first = 1 /\ r.count = FaceCount
      <4>1. PICK n \in Nat \ {0} : n = FaceCount
        BY <1>3
      <4>2. r \in RangeType
        BY <3>a, <4>1 DEF RangeType
      <4> QED
        BY <3>a, <4>2
    <3>3. ranges = <<r>>
      BY <1>1, <1>3, <2>1, <3>a
    <3>4. ranges # <<>> /\ ranges \in Seq(RangeType) /\ Len(ranges) = 1 /\ ranges[1] = r
      BY <3>2, <3>3
    <3>5. Reached = 1
      BY <3>2, <3>4 DEF Reached
    <3>6. Tiled
      BY <1>3, <3>2, <3>4, <3>5 DEF Tiled
    <3>7. Boundaries
      BY <1>1, <3>5 DEF Boundaries
    <3> QED
      BY <1>2, <3>1, <3>6, <3>7, AxisOrderFacts
  <2>2. boundary \subseteq Faces /\ phase # "pack"
    BY <1>1, <1>3
  <2> QED
    BY <1>1, <2>1, <2>2 DEF Spatial
<1>12. Bounded
  <2>1. Paid
    BY <1>2, <1>5, <1>6, EnoughFacts DEF Paid
  <2> QED
    BY <1>1, <1>3, <2>1 DEF Bounded
<1> QED
  BY <1>2, <1>4, <1>8, <1>9, <1>10, <1>11, <1>12 DEF IInv

-----------------------------------------------------------------------------
(* Counting the vertices of a range of the order *)

\* The corners that CountVertices counts, and those that position a + n adds to a range
CountedCorners(axis, a, n) ==
  {c \in (a .. a + n - 1) \X (1..3) :
     \A i \in a .. c[1] - 1 : mesh.indices[axis[c[1]]][c[2]] \notin Corners(axis[i])}
AddedCorners(axis, a, n) ==
  {k \in 1..3 : \A i \in a .. a + n - 1 : mesh.indices[axis[a + n]][k] \notin Corners(axis[i])}

LEMMA CountForm == \A a, n : CountVertices(a, n) = Cardinality(CountedCorners(axes[1], a, n))
  BY DEF CountVertices, CountedCorners

LEMMA CornersTogether ==
  ASSUME NEW K \in SUBSET (1..3), NEW x
  PROVE  IsFiniteSet({x} \X K) /\ Cardinality({x} \X K) = Cardinality(K)
<1> DEFINE f == [k \in K |-> <<x, k>>]
<1>1. IsFiniteSet(K)
  BY CountThree
<1>2. \A k, l \in K : f[k] = f[l] => k = l
  OBVIOUS
<1>3. {f[k] : k \in K} = {x} \X K
  <2>1. ASSUME NEW c \in {x} \X K PROVE \E k \in K : c = f[k]
    <3>1. c[2] \in K /\ c = <<x, c[2]>>
      OBVIOUS
    <3> QED
      BY <3>1
  <2>2. ASSUME NEW k \in K PROVE f[k] \in {x} \X K
    OBVIOUS
  <2> HIDE DEF f
  <2>3. \A c : c \in {f[k] : k \in K} <=> \E k \in K : c = f[k]
    OBVIOUS
  <2> QED
    BY <2>1, <2>2, <2>3
<1> HIDE DEF f
<1>4. IsFiniteSet({f[k] : k \in K}) /\ Cardinality({f[k] : k \in K}) = Cardinality(K)
  BY <1>1, <1>2, DistinctValues
<1> QED
  BY <1>3, <1>4

LEMMA CountNext ==
  ASSUME NEW axis, NEW a \in Nat, NEW n \in Nat, IsFiniteSet(CountedCorners(axis, a, n))
  PROVE  /\ IsFiniteSet(CountedCorners(axis, a, n + 1))
         /\ Cardinality(CountedCorners(axis, a, n + 1))
              = Cardinality(CountedCorners(axis, a, n)) + Cardinality(AddedCorners(axis, a, n))
<1> DEFINE K == AddedCorners(axis, a, n)
           A == CountedCorners(axis, a, n)
           B == {a + n} \X K
<1>1. K \in SUBSET (1..3)
  BY DEF AddedCorners
<1>2. IsFiniteSet(B) /\ Cardinality(B) = Cardinality(K)
  BY <1>1, CornersTogether
<1>3. A \cap B = {}
  <2>1. ASSUME NEW c \in A PROVE c[1] # a + n
    <3>1. c[1] \in a .. a + n - 1
      BY DEF CountedCorners
    <3> QED
      BY <3>1
  <2>2. ASSUME NEW c \in B PROVE c[1] = a + n
    OBVIOUS
  <2> QED
    BY <2>1, <2>2
<1>4. CountedCorners(axis, a, n + 1) = A \cup B
  <2>1. ASSUME NEW c \in CountedCorners(axis, a, n + 1), c \notin A PROVE c \in B
    <3>1. PICK p \in a .. a + n, k \in 1..3 : c = <<p, k>>
      BY DEF CountedCorners
    <3>2. \A i \in a .. p - 1 : mesh.indices[axis[p]][k] \notin Corners(axis[i])
      BY <3>1 DEF CountedCorners
    <3>3. p = a + n
      <4>1. SUFFICES ASSUME p # a + n PROVE FALSE
        OBVIOUS
      <4>2. p \in a .. a + n - 1
        BY <4>1
      <4> QED
        BY <2>1, <3>1, <3>2, <4>2 DEF CountedCorners
    <3>4. k \in K
      BY <3>2, <3>3 DEF AddedCorners
    <3> QED
      BY <3>1, <3>3, <3>4
  <2>2. ASSUME NEW c \in A PROVE c \in CountedCorners(axis, a, n + 1)
    <3>1. PICK p \in a .. a + n - 1, k \in 1..3 : c = <<p, k>>
      BY DEF CountedCorners
    <3>2. \A i \in a .. p - 1 : mesh.indices[axis[p]][k] \notin Corners(axis[i])
      BY <3>1 DEF CountedCorners
    <3>3. p \in a .. a + (n + 1) - 1
      OBVIOUS
    <3> QED
      BY <3>1, <3>2, <3>3 DEF CountedCorners
  <2>3. ASSUME NEW c \in B PROVE c \in CountedCorners(axis, a, n + 1)
    <3>1. PICK k \in K : c = <<a + n, k>>
      OBVIOUS
    <3>2. k \in 1..3 /\ \A i \in a .. (a + n) - 1 : mesh.indices[axis[a + n]][k] \notin Corners(axis[i])
      BY DEF AddedCorners
    <3>3. a + n \in a .. a + (n + 1) - 1
      OBVIOUS
    <3> QED
      BY <3>1, <3>2, <3>3 DEF CountedCorners
  <2> QED
    BY <2>1, <2>2, <2>3
<1> HIDE DEF A, B, K
<1>5. IsFiniteSet(A \cup B) /\ Cardinality(A \cup B) = Cardinality(A) + Cardinality(B)
  BY <1>2, <1>3, DisjointUnion DEF A
<1> QED
  BY <1>2, <1>4, <1>5 DEF A, K

LEMMA CountNone == \A axis : \A a \in Nat : CountedCorners(axis, a, 0) = {}
<1> SUFFICES ASSUME NEW axis, NEW a \in Nat, NEW c \in CountedCorners(axis, a, 0) PROVE FALSE
  OBVIOUS
<1>1. c[1] \in a .. a + 0 - 1
  BY DEF CountedCorners
<1> QED
  BY <1>1

LEMMA CountedFacts ==
  ASSUME NEW axis, NEW a \in Nat
  PROVE  \A n \in Nat : /\ IsFiniteSet(CountedCorners(axis, a, n))
                        /\ Cardinality(CountedCorners(axis, a, n)) \in Nat
                        /\ Cardinality(CountedCorners(axis, a, n)) <= 3 * n
<1> DEFINE T == {n \in Nat : /\ IsFiniteSet(CountedCorners(axis, a, n))
                             /\ Cardinality(CountedCorners(axis, a, n)) <= 3 * n}
<1>1. 0 \in T
  BY CountNone, FS_EmptySet
<1>2. ASSUME NEW n \in Nat, n \in T PROVE n + 1 \in T
  <2>1. IsFiniteSet(CountedCorners(axis, a, n)) /\ Cardinality(CountedCorners(axis, a, n)) <= 3 * n
    BY <1>2
  <2>2. AddedCorners(axis, a, n) \in SUBSET (1..3)
    BY DEF AddedCorners
  <2>3. Cardinality(AddedCorners(axis, a, n)) \in 0..3
    BY <2>2, CountThree
  <2>4. PICK c \in Nat, d \in 0..3 : /\ c = Cardinality(CountedCorners(axis, a, n)) /\ d = Cardinality(AddedCorners(axis, a, n))
                                     /\ c <= 3 * n
    BY <2>1, <2>3, FS_CardinalityType
  <2>5. IsFiniteSet(CountedCorners(axis, a, n + 1)) /\ Cardinality(CountedCorners(axis, a, n + 1)) = c + d
    BY <2>1, <2>4, CountNext
  <2> QED
    BY <2>4, <2>5
<1> HIDE DEF T
<1>3. Nat \subseteq T
  BY <1>1, <1>2, NatSetInduction
<1> QED
  BY <1>3, FS_CardinalityType DEF T

LEMMA CountFacts ==
  ASSUME NEW a \in Nat
  PROVE  /\ \A n \in Nat : CountVertices(a, n) \in Nat /\ CountVertices(a, n) <= 3 * n
         /\ \A n \in Nat : CountVertices(a, n + 1) = CountVertices(a, n) + Cardinality(AddedCorners(axes[1], a, n))
         /\ CountVertices(a, 1) = 3
         /\ \A n, m \in Nat : n <= m => CountVertices(a, n) <= CountVertices(a, m)
<1>1. \A n \in Nat : CountVertices(a, n) \in Nat /\ CountVertices(a, n) <= 3 * n
  BY CountForm, CountedFacts
<1>2. \A n \in Nat : CountVertices(a, n + 1) = CountVertices(a, n) + Cardinality(AddedCorners(axes[1], a, n))
  BY CountForm, CountedFacts, CountNext
<1>3. CountVertices(a, 1) = 3
  <2>1. CountVertices(a, 0 + 1) = CountVertices(a, 0) + Cardinality(AddedCorners(axes[1], a, 0))
    BY <1>2
  <2>2. AddedCorners(axes[1], a, 0) = 1..3
    BY DEF AddedCorners
  <2>3. CountVertices(a, 0) = 0
    BY CountForm, CountNone, FS_EmptySet
  <2>4. Cardinality(1..3) = 3
    BY Indices
  <2> QED
    BY <2>1, <2>2, <2>3, <2>4
<1>4. ASSUME NEW n \in Nat, NEW m \in Nat, n <= m PROVE CountVertices(a, n) <= CountVertices(a, m)
  <2>1. CountedCorners(axes[1], a, n) \in SUBSET CountedCorners(axes[1], a, m)
    <3>1. ASSUME NEW c \in CountedCorners(axes[1], a, n) PROVE c \in CountedCorners(axes[1], a, m)
      <4>1. PICK p \in a .. a + n - 1, k \in 1..3 : c = <<p, k>>
        BY DEF CountedCorners
      <4>2. \A i \in a .. p - 1 : mesh.indices[axes[1][p]][k] \notin Corners(axes[1][i])
        BY <4>1 DEF CountedCorners
      <4>3. p \in a .. a + m - 1
        BY <1>4
      <4> QED
        BY <4>1, <4>2, <4>3 DEF CountedCorners
    <3> QED
      BY <3>1
  <2>2. IsFiniteSet(CountedCorners(axes[1], a, m))
    BY CountedFacts
  <2> QED
    BY <2>1, <2>2, CountForm, FS_Subset
<1> QED
  BY <1>1, <1>2, <1>3, <1>4

\* The count looks at the positions of the range only.
Alike(axis, axis2, a, n) == \A i \in a .. a + n - 1 : axis[i] = axis2[i]

LEMMA CountSame ==
  ASSUME NEW axis, NEW axis2, NEW a \in Nat, NEW n \in Nat, Alike(axis, axis2, a, n)
  PROVE  CountedCorners(axis, a, n) = CountedCorners(axis2, a, n)
<1>0. \A i \in a .. a + n - 1 : axis[i] = axis2[i]
  BY DEF Alike
<1>1. ASSUME NEW p \in a .. a + n - 1, NEW k \in 1..3
      PROVE  /\ mesh.indices[axis[p]][k] = mesh.indices[axis2[p]][k]
             /\ \A i \in a .. p - 1 : Corners(axis[i]) = Corners(axis2[i])
  BY <1>0
<1>2. ASSUME NEW c \in (a .. a + n - 1) \X (1..3)
      PROVE  (\A i \in a .. c[1] - 1 : mesh.indices[axis[c[1]]][c[2]] \notin Corners(axis[i]))
               <=> (\A i \in a .. c[1] - 1 : mesh.indices[axis2[c[1]]][c[2]] \notin Corners(axis2[i]))
  <2>1. PICK p \in a .. a + n - 1, k \in 1..3 : p = c[1] /\ k = c[2]
    OBVIOUS
  <2> QED
    BY <1>1, <2>1
<1> QED
  BY <1>2 DEF CountedCorners

-----------------------------------------------------------------------------
(* The spatial builder appends the triangles in their order *)

LEMMA SpatialFrozen ==
  ASSUME mesh' = mesh, call' = call
  PROVE  /\ \A axis : IsOrder(axis)' = IsOrder(axis)
         /\ axes' = axes => \A a, n : CountVertices(a, n)' = CountVertices(a, n)
         /\ axes' = axes => \A b, e : Chunked(b, e)' = Chunked(b, e)
         /\ axes' = axes /\ ranges' = ranges /\ boundary' = boundary =>
              Reached' = Reached /\ Tiled' = Tiled /\ Boundaries' = Boundaries
<1>1. \A axis : IsOrder(axis)' = IsOrder(axis)
  BY Frozen DEF IsOrder, Times
<1>2. ASSUME axes' = axes PROVE \A a, n : CountVertices(a, n)' = CountVertices(a, n)
  BY <1>2 DEF CountVertices, Corners
<1>3. ASSUME axes' = axes PROVE \A b, e : Chunked(b, e)' = Chunked(b, e)
  BY <1>2, <1>3 DEF Chunked
<1>4. ASSUME axes' = axes, ranges' = ranges, boundary' = boundary
      PROVE  Reached' = Reached /\ Tiled' = Tiled /\ Boundaries' = Boundaries
  <2>1. Reached' = Reached
    BY <1>4, Frozen DEF Reached
  <2>2. Tiled' = Tiled
    BY <1>4, <2>1, Frozen DEF Tiled
  <2>3. Boundaries' = Boundaries
    BY <1>3, <1>4, <2>1 DEF Boundaries
  <2> QED
    BY <2>1, <2>2, <2>3
<1> QED
  BY <1>1, <1>2, <1>3, <1>4

LEMMA OrderFacts ==
  ASSUME NEW axis, IsOrder(axis)
  PROVE  /\ axis \in Seq(Faces) /\ Len(axis) = FaceCount
         /\ \A t \in Faces : \E i \in 1 .. FaceCount : axis[i] = t
         /\ \A i, j \in 1 .. FaceCount : axis[i] = axis[j] => i = j
<1>1. axis \in Seq(Faces) /\ Len(axis) = FaceCount /\ \A t \in Faces : Times(axis, {t}) = 1
  BY DEF IsOrder
<1>2. ASSUME NEW t \in Faces PROVE \E x : {i \in 1 .. FaceCount : axis[i] = t} = {x}
  <2> DEFINE S == {i \in 1 .. Len(axis) : axis[i] \in {t}}
  <2>1. IsFiniteSet(S) /\ Cardinality(S) = 1
    BY <1>1, TimesType DEF Times
  <2>2. \E x : S = {x}
    <3> HIDE DEF S
    <3> QED
      BY <2>1, FS_Singleton
  <2>3. S = {i \in 1 .. FaceCount : axis[i] = t}
    BY <1>1
  <2> QED
    BY <2>2, <2>3
<1>3. ASSUME NEW t \in Faces PROVE \E i \in 1 .. FaceCount : axis[i] = t
  BY <1>2
<1>4. ASSUME NEW i \in 1 .. FaceCount, NEW j \in 1 .. FaceCount, axis[i] = axis[j] PROVE i = j
  <2>1. axis[i] \in Faces
    BY <1>1, ElementOfSeq
  <2>2. PICK x : {k \in 1 .. FaceCount : axis[k] = axis[i]} = {x}
    BY <1>2, <2>1
  <2> QED
    BY <1>4, <2>2
<1> QED
  BY <1>1, <1>3, <1>4

\* Passing a boundary takes it off the boundaries that are left.
LEMMA PendingNext ==
  ASSUME NEW i \in Nat, IsFiniteSet(boundary)
  PROVE  /\ Cardinality(Pending(i)) \in Nat /\ Cardinality(Pending(i + 1)) \in Nat
         /\ boundary \subseteq Nat => Cardinality(Pending(i)) = Cardinality(Pending(i + 1)) + (IF i \in boundary THEN 1 ELSE 0)
<1>1. IsFiniteSet(Pending(i)) /\ IsFiniteSet(Pending(i + 1))
  BY FS_Subset DEF Pending
<1>2. Cardinality(Pending(i)) \in Nat /\ Cardinality(Pending(i + 1)) \in Nat
  BY <1>1, FS_CardinalityType
<1>3. ASSUME boundary \subseteq Nat
      PROVE  Cardinality(Pending(i)) = Cardinality(Pending(i + 1)) + (IF i \in boundary THEN 1 ELSE 0)
  <2>1. i \notin Pending(i + 1)
    BY DEF Pending
  <2>2. CASE i \in boundary
    <3>1. Pending(i) = Pending(i + 1) \cup {i}
      <4>1. ASSUME NEW b \in boundary PROVE b >= i <=> (b >= i + 1 \/ b = i)
        <5>1. b \in Nat
          BY <1>3
        <5> QED
          BY <5>1
      <4> QED
        BY <2>2, <4>1 DEF Pending
    <3> QED
      BY <1>1, <1>2, <2>1, <2>2, <3>1, FS_AddElement
  <2>3. CASE i \notin boundary
    <3>1. Pending(i) = Pending(i + 1)
      <4>1. ASSUME NEW b \in boundary PROVE b >= i <=> b >= i + 1
        <5>1. b \in Nat /\ b # i
          BY <1>3, <2>3
        <5> QED
          BY <5>1
      <4> QED
        BY <4>1 DEF Pending
    <3> QED
      BY <1>2, <2>3, <3>1
  <2> QED
    BY <2>2, <2>3
<1> QED
  BY <1>2, <1>3

\* The corners of the next triangle that have no place are new in the range since the
\* current meshlet started.
LEMMA ExtraCounted ==
  ASSUME Arguments, Ready(meshlet, used, meshletVertices, meshletTriangles, order), IsOrder(axes[1]),
         NEW s \in Nat \ {0}, NEW l \in Nat, l = Len(order), l < FaceCount, s <= l,
         meshlet.triangleOffset = 3 * (s - 1),
         \A i \in 1..l : order[i] = axes[1][i]
  PROVE  /\ meshlet.triangleCount = l + 1 - s
         /\ CountVertices(s, l + 2 - s) >= CountVertices(s, l + 1 - s) + Extra(axes[1][l + 1])
         /\ CountVertices(s, l + 1 - s) \in Nat /\ Extra(axes[1][l + 1]) \in Nat
<1>1. PICK n \in Nat, t \in Faces : n = l + 1 - s /\ t = axes[1][l + 1] /\ s + n = l + 1
  <2>1. axes[1][l + 1] \in Faces
    <3>1. PICK axis : axis = axes[1]
      OBVIOUS
    <3>2. axis \in Seq(Faces) /\ Len(axis) = FaceCount
      BY <3>1, OrderFacts
    <3>3. l + 1 \in 1 .. Len(axis)
      <4>1. PICK f \in Nat : f = FaceCount
        BY InputFacts
      <4> QED
        BY <3>2, <4>1
    <3> QED
      BY <3>1, <3>2, <3>3, ElementOfSeq
  <2> QED
    BY <2>1
<1>2. /\ meshlet \in MeshletType /\ order \in Seq(Faces)
      /\ Places(used, meshlet, meshletVertices) /\ Reads(meshlet, meshletVertices, meshletTriangles, order)
      /\ TriangleEnd(meshlet) = 3 * Len(order)
  BY DEF Ready, Reads
<1>3. PICK vo \in Nat, vc \in Nat, tc \in Nat :
        vo = meshlet.vertexOffset /\ vc = meshlet.vertexCount /\ tc = meshlet.triangleCount
  BY <1>2 DEF MeshletType
<1>4. tc = n
  <2>1. 3 * (s - 1) + 3 * tc = 3 * l
    BY <1>2, <1>3 DEF TriangleEnd
  <2> QED
    BY <1>1, <2>1, SMTT(30)
<1>5. ASSUME NEW i \in s..l, NEW v \in Corners(axes[1][i]) PROVE used[v] >= 0
  <2>1. PICK q \in Nat : /\ meshlet.triangleOffset = 3 * q
                         /\ \A j \in q + 1 .. q + meshlet.triangleCount :
                              Holds(meshlet, meshletVertices, meshletTriangles, order, j)
    BY <1>2 DEF Reads
  <2>2. q = s - 1 /\ i \in q + 1 .. q + meshlet.triangleCount
    <3>1. q = s - 1
      BY <2>1
    <3> QED
      BY <1>1, <1>3, <1>4, <3>1, SMTT(30)
  <2>3. Holds(meshlet, meshletVertices, meshletTriangles, order, i)
    BY <2>1, <2>2
  <2>4. PICK k \in 1..3 : v = mesh.indices[axes[1][i]][k]
    BY DEF Corners
  <2>5. order[i] = axes[1][i]
    OBVIOUS
  <2>6. PICK p \in 0 .. vc - 1 : meshletVertices[vo + p + 1] = v
    BY <1>3, <2>3, <2>4, <2>5 DEF Holds
  <2>7. used[meshletVertices[vo + p + 1]] = p
    BY <1>2, <1>3 DEF Places
  <2> QED
    BY <2>6, <2>7
<1>6. Fresh(t, used) \subseteq AddedCorners(axes[1], s, n)
  <2>1. ASSUME NEW k \in Fresh(t, used) PROVE k \in AddedCorners(axes[1], s, n)
    <3>1. k \in 1..3 /\ used[mesh.indices[t][k]] < 0
      BY DEF Fresh
    <3>2. used[mesh.indices[t][k]] \in Int
      <4>1. PICK m \in Int : m = call.maxVertices - 1
        BY InputFacts
      <4>2. used \in [Vertices -> -1 .. m]
        BY <1>2, <4>1 DEF Places
      <4>3. PICK v \in Vertices : v = mesh.indices[t][k]
        BY <3>1, CornerFacts
      <4> QED
        BY <4>2, <4>3
    <3>3. ASSUME NEW i \in s .. s + n - 1 PROVE mesh.indices[axes[1][s + n]][k] \notin Corners(axes[1][i])
      <4>1. i \in s..l /\ axes[1][s + n] = t
        BY <1>1
      <4> QED
        BY <1>5, <3>1, <3>2, <4>1
    <3> QED
      BY <3>1, <3>3 DEF AddedCorners
  <2> QED
    BY <2>1
<1>7. PICK x \in Nat, a \in Nat : x = Extra(t) /\ a = Cardinality(AddedCorners(axes[1], s, n)) /\ x <= a
  <2>1. AddedCorners(axes[1], s, n) \in SUBSET (1..3)
    BY DEF AddedCorners
  <2>2. IsFiniteSet(AddedCorners(axes[1], s, n)) /\ Fresh(t, used) \in SUBSET AddedCorners(axes[1], s, n)
    BY <1>6, <2>1, CountThree
  <2>3. /\ Cardinality(Fresh(t, used)) <= Cardinality(AddedCorners(axes[1], s, n))
        /\ Cardinality(Fresh(t, used)) \in Nat /\ Cardinality(AddedCorners(axes[1], s, n)) \in Nat
    BY <2>2, FS_Subset, FS_CardinalityType
  <2>4. Extra(t) = Cardinality(Fresh(t, used))
    BY FullFacts
  <2> QED
    BY <2>3, <2>4
<1>8. CountVertices(s, n + 1) = CountVertices(s, n) + a /\ CountVertices(s, n) \in Nat
  BY <1>7, CountFacts
<1>9. n + 1 = l + 2 - s
  BY <1>1
<1> QED
  BY <1>1, <1>3, <1>4, <1>7, <1>8, <1>9, SMTT(30)


\* When the next meshlet started at boundary s and n triangles are appended, it is aligned.
LEMMA AlignedForm ==
  ASSUME mesh' = mesh, call' = call, axes' = axes, boundary' = boundary,
         NEW n \in Nat, Len(order') = n, NEW s \in boundary, s <= n,
         \A b \in boundary : b <= n => b <= s,
         meshlet'.triangleOffset = 3 * (s - 1),
         meshlet'.vertexCount <= CountVertices(s, n + 1 - s),
         Len(meshlets') + 1 + Cardinality(Pending(n + 1)) <= Limit
  PROVE  Aligned'
<1>1. CountVertices(s, n + 1 - s)' = CountVertices(s, n + 1 - s)
  BY SpatialFrozen
<1>2. Pending(n + 1)' = Pending(n + 1)
  BY DEF Pending
<1>3. Limit' = Limit
  BY Frozen
<1>4. Len(order)' = n /\ boundary' = boundary
  OBVIOUS
<1> QED
  BY <1>1, <1>2, <1>3, <1>4 DEF Aligned

\* The current meshlet is not full before the next boundary.
LEMMA ChunkFits ==
  ASSUME Arguments, Ready(meshlet, used, meshletVertices, meshletTriangles, order), IsOrder(axes[1]),
         Boundaries, Reached = FaceCount + 1, NEW l \in Nat, l = Len(order), l < FaceCount, l + 1 \notin boundary,
         \A i \in 1..l : order[i] = axes[1][i],
         NEW s \in boundary, meshlet.triangleOffset = 3 * (s - 1), s <= l,
         \A b \in boundary : b <= l => b <= s, meshlet.vertexCount <= CountVertices(s, l + 1 - s),
         NEW x \in Nat, x <= Extra(axes[1][l + 1])
  PROVE  /\ ~Full(axes[1][l + 1])
         /\ meshlet.vertexCount + x <= CountVertices(s, l + 2 - s)
<1>1. PICK f \in Nat : f = FaceCount /\ boundary \subseteq 1..f /\ Reached = f + 1
  BY InputFacts DEF Boundaries
<1>2. s \in Nat \ {0}
  BY <1>1
<1>3. /\ meshlet.triangleCount = l + 1 - s
      /\ CountVertices(s, l + 2 - s) >= CountVertices(s, l + 1 - s) + Extra(axes[1][l + 1])
      /\ CountVertices(s, l + 1 - s) \in Nat /\ Extra(axes[1][l + 1]) \in Nat
  BY <1>2, ExtraCounted
<1>4. PICK e \in boundary \cup {f + 1} : s < e /\ Chunked(s, e)
  BY <1>1 DEF Boundaries
<1>5. e \in Nat /\ e >= l + 2
  <2>1. e \in Nat
    BY <1>1, <1>4
  <2>2. CASE e \in boundary
    <3>1. ~(e <= l)
      BY <1>1, <1>2, <1>4, <2>2
    <3>2. e # l + 1
      BY <2>2
    <3> QED
      BY <2>1, <3>1, <3>2
  <2>3. CASE e = f + 1
    BY <1>1, <2>3
  <2> QED
    BY <1>4, <2>1, <2>2, <2>3
<1>6. PICK c0 \in Nat, c1 \in Nat, c2 \in Nat :
         c0 = CountVertices(s, l + 1 - s) /\ c1 = CountVertices(s, l + 2 - s) /\ c2 = CountVertices(s, e - s)
  <2>1. l + 1 - s \in Nat /\ l + 2 - s \in Nat /\ e - s \in Nat
    BY <1>2, <1>5
  <2> QED
    BY <1>2, <2>1, CountFacts
<1>7. c1 <= c2 /\ c2 <= call.maxVertices /\ e - s <= call.maxTriangles
  <2>1. l + 2 - s \in Nat /\ e - s \in Nat /\ l + 2 - s <= e - s
    BY <1>2, <1>5
  <2> QED
    BY <1>2, <1>4, <1>6, <2>1, CountFacts DEF Chunked
<1>8. PICK m \in Nat, d \in Nat : m = meshlet.vertexCount /\ d = Extra(axes[1][l + 1])
  BY <1>3 DEF Ready, Reads, MeshletType
<1>9. c1 >= c0 + d /\ m <= c0 /\ x <= d
  BY <1>3, <1>6, <1>8
<1>10. call.maxVertices \in Nat /\ call.maxTriangles \in Nat
  BY InputFacts
<1>11. ~(meshlet.vertexCount + Extra(axes[1][l + 1]) > call.maxVertices)
  <2>1. PICK v \in Nat : v = call.maxVertices /\ c2 <= v
    BY <1>7, <1>10
  <2>2. ~(m + d > v)
    BY <1>7, <1>9, <2>1
  <2> QED
    BY <1>8, <2>1, <2>2
<1>12. ~(meshlet.triangleCount >= call.maxTriangles)
  BY <1>2, <1>3, <1>5, <1>7, <1>10
<1>13. meshlet.vertexCount + x <= CountVertices(s, l + 2 - s)
  <2>1. m + x <= c1
    BY <1>9
  <2> QED
    BY <1>6, <1>8, <2>1
<1> QED
  BY <1>11, <1>12, <1>13 DEF Full

LEMMA PackTriangleStep ==
  ASSUME IInv, PackTriangle
  PROVE  IInv'
<1>1. Arguments /\ Phases /\ Output /\ Current /\ Spatial /\ Bounded
  BY DEF IInv
<1>2. /\ phase = "pack" /\ phase' = "pack" /\ mesh' = mesh /\ call' = call
      /\ axes' = axes /\ ranges' = ranges /\ boundary' = boundary
      /\ Len(order) < Cardinality(Faces) /\ AppendMeshlet(axes[1][Len(order) + 1], Splits(Len(order) + 1))
  BY DEF PackTriangle, spatialVars
<1>3. PICK l \in Nat, f \in Nat : l = Len(order) /\ f = FaceCount /\ l < f /\ Faces = 1..f
  BY <1>1, <1>2, OrderLength, FaceNumber, InputFacts
<1>4. /\ IsOrder(axes[1]) /\ Tiled /\ Boundaries /\ ranges = <<>> /\ Reached = f + 1
      /\ \A i \in 1..l : order[i] = axes[1][i]
  BY <1>1, <1>2, <1>3 DEF Spatial, Reached
<1>5. boundary \subseteq 1..f /\ boundary \subseteq Nat /\ IsFiniteSet(boundary)
  <2>1. boundary \subseteq 1..f
    BY <1>4 DEF Boundaries
  <2>2. IsFiniteSet(1..f)
    BY Indices
  <2> QED
    <3>1. boundary \in SUBSET (1..f)
      BY <2>1
    <3>2. IsFiniteSet(boundary)
      BY <2>2, <3>1, FS_Subset
    <3> QED
      BY <2>1, <3>2
<1>6. /\ Ready(meshlet, used, meshletVertices, meshletTriangles, order)
      /\ order \in Seq(Faces) /\ DOMAIN order = 1..l
  BY <1>1, <1>3, LenProperties DEF Output, Ready
<1>7. PICK t \in Live : t = axes[1][l + 1]
  <2>1. PICK axis \in Seq(Faces) : axis = axes[1] /\ Len(axis) = f
    BY <1>3, <1>4, OrderFacts
  <2>2. axis[l + 1] \in Faces
    BY <1>3, <2>1, ElementOfSeq
  <2>3. ASSUME NEW i \in 1..l PROVE order[i] # axis[l + 1]
    <3>1. i \in 1..f /\ l + 1 \in 1..f /\ i # l + 1
      BY <1>3
    <3> QED
      <4>1. \A j, k \in 1..f : axis[j] = axis[k] => j = k
        BY <1>3, <1>4, <2>1, OrderFacts
      <4>2. order[i] = axis[i]
        BY <1>4, <2>1
      <4> QED
        BY <3>1, <4>1, <4>2
  <2>4. axis[l + 1] \notin Range(order)
    BY <1>6, <2>3 DEF Range
  <2> QED
    BY <2>1, <2>2, <2>4 DEF Live
<1>8. PICK split \in BOOLEAN : split = Splits(l + 1)
  BY DEF Splits
<1>9. call.mode = "split" /\ Limit = MinBound
  <2>1. call.mode = "split"
    BY <1>1, <1>2, InputFacts DEF Phases
  <2> QED
    BY <2>1 DEF Limit, Enough, MinBound
<1>10. PICK p \in Nat, k \in Nat :
          p = Cardinality(Pending(l + 2)) /\ k = Cardinality(boundary)
          /\ Cardinality(Pending(l + 1)) = p + (IF l + 1 \in boundary THEN 1 ELSE 0)
  <2>1. (l + 1) + 1 = l + 2 /\ l + 1 \in Nat
    OBVIOUS
  <2> QED
    BY <1>5, <2>1, PendingNext, FS_CardinalityType
<1>11. PICK c \in Nat, limit \in Int : c = Len(meshlets) /\ limit = Limit /\ meshlets \in Seq(MeshletType)
  <2>1. meshlets \in Seq(MeshletType)
    BY <1>1, <1>2 DEF Output
  <2>2. Limit \in Int
    <3>1. \A a \in Nat, b \in Nat \ {0} : (a + b - 1) \div b \in Int
      OBVIOUS
    <3>2. 3 * f \in Nat /\ f \in Nat /\ call.maxVertices - 2 \in Nat \ {0} /\ Enough \in Nat \ {0}
      BY <1>1, InputFacts, EnoughFacts, SMTT(30)
    <3>3. Cardinality(Faces) = f
      BY <1>1, <1>3, FaceNumber
    <3>4. Ceil(3 * f, call.maxVertices - 2) \in Int /\ Ceil(f, Enough) \in Int
      BY <3>1, <3>2 DEF Ceil
    <3> QED
      BY <3>3, <3>4 DEF Limit, Bound
  <2> QED
    BY <2>1, <2>2, LenProperties
<1>12. split <=> /\ l >= 1 /\ l + 1 \in boundary
                 /\ ~(k > limit /\ c + (p + 1) >= limit)
  <2>1. {b \in boundary : b >= l + 1} = Pending(l + 1)
    BY DEF Pending
  <2>2. Splits(l + 1) <=> /\ l + 1 > 1 /\ l + 1 \in boundary
                          /\ ~(k > limit /\ c + Cardinality(Pending(l + 1)) >= limit)
    BY <1>9, <1>10, <1>11, <2>1 DEF Splits
  <2> QED
    BY <1>8, <1>10, <2>2
<1>13. split => order # <<>> /\ meshlet.triangleCount >= 1
  BY <1>1, <1>3, <1>12 DEF Output
<1>14. AppendMeshlet(t, split)
  BY <1>2, <1>3, <1>7, <1>8
<1>15. /\ Arguments' /\ Output' /\ Len(order') = l + 1 /\ order'[l + 1] = t
       /\ \A i \in 1..l : order'[i] = order[i]
       /\ TriangleEnd(meshlet) = 3 * l /\ meshlet' \in MeshletType
       /\ (Full(t) \/ split) =>
            /\ Len(meshlets') = c + 1 /\ meshlet'.triangleOffset = 3 * l /\ meshlet'.vertexCount <= 3
       /\ ~(Full(t) \/ split) =>
            /\ meshlets' = meshlets /\ meshlet'.triangleOffset = meshlet.triangleOffset
            /\ meshlet'.vertexCount <= meshlet.vertexCount + Extra(t) /\ Extra(t) \in 0..3
  BY <1>1, <1>2, <1>3, <1>9, <1>11, <1>13, <1>14, AppendStep
<1>16. \A i \in 1 .. l + 1 : order'[i] = axes[1][i]
  <2>1. \A i \in 1 .. l + 1 : i \in 1..l \/ i = l + 1
    OBVIOUS
  <2> QED
    BY <1>4, <1>7, <1>15, <2>1
<1>17. ASSUME split PROVE Aligned'
  <2>1. c + 1 + (p + 1) <= limit
    <3>1. CASE Aligned
      <4>1. c + 1 + Cardinality(Pending(l + 1)) <= limit
        BY <1>3, <1>11, <3>1 DEF Aligned
      <4> QED
        BY <1>10, <1>12, <1>17, <4>1
    <3>2. CASE Cardinality(boundary) > Limit
      BY <1>10, <1>11, <1>12, <1>17, <3>2
    <3> QED
      BY <1>1, <1>2, <1>13, <1>17, <3>1, <3>2 DEF Bounded
  <2>2. l + 1 \in boundary /\ Len(meshlets') = c + 1 /\ meshlet'.triangleOffset = 3 * ((l + 1) - 1) /\ meshlet'.vertexCount <= 3
    BY <1>12, <1>15, <1>17
  <2>3. meshlet'.vertexCount <= CountVertices(l + 1, (l + 1) + 1 - (l + 1))
    <3>1. CountVertices(l + 1, 1) = 3 /\ (l + 1) + 1 - (l + 1) = 1
      BY CountFacts
    <3> QED
      BY <2>2, <3>1
  <2>4. Len(meshlets') + 1 + Cardinality(Pending((l + 1) + 1)) <= Limit
    <3>1. (l + 1) + 1 = l + 2
      OBVIOUS
    <3> QED
      BY <1>10, <1>11, <2>1, <2>2, <3>1
  <2>5. Aligned'
    <3>1. PICK n \in Nat : n = l + 1
      OBVIOUS
    <3>2. /\ n \in boundary /\ meshlet'.triangleOffset = 3 * (n - 1) /\ Len(order') = n
          /\ meshlet'.vertexCount <= CountVertices(n, n + 1 - n) /\ Len(meshlets') + 1 + Cardinality(Pending(n + 1)) <= Limit
      BY <1>15, <2>2, <2>3, <2>4, <3>1
    <3>3. n <= n /\ \A b \in boundary : b <= n => b <= n
      OBVIOUS
    <3> QED
      BY <1>2, <3>2, <3>3, AlignedForm
  <2> QED
    BY <2>5
<1>18. ASSUME ~split, order # <<>>, Aligned PROVE Aligned'
  <2>1. c + 1 + Cardinality(Pending(l + 1)) <= limit
    BY <1>3, <1>11, <1>18 DEF Aligned
  <2>2. l >= 1
    BY <1>3, <1>6, <1>18
  <2>3. l + 1 \notin boundary
    BY <1>10, <1>12, <1>18, <2>1, <2>2
  <2>4. PICK s \in boundary :
           /\ meshlet.triangleOffset = 3 * (s - 1) /\ s <= l
           /\ \A b \in boundary : b <= l => b <= s
           /\ meshlet.vertexCount <= CountVertices(s, l + 1 - s)
    BY <1>3, <1>18 DEF Aligned
  <2>5. PICK x \in Nat : x = Extra(t)
    BY <1>1, <1>6, FullFacts DEF Live
  <2>6. ~Full(t) /\ meshlet.vertexCount + x <= CountVertices(s, l + 2 - s)
    <3>1. Reached = FaceCount + 1 /\ l < FaceCount /\ x <= Extra(axes[1][l + 1])
      BY <1>3, <1>4, <1>7, <2>5
    <3> QED
      BY <1>1, <1>3, <1>4, <1>6, <1>7, <2>3, <2>4, <3>1, ChunkFits
  <2>7. /\ meshlets' = meshlets /\ meshlet'.triangleOffset = 3 * (s - 1)
        /\ meshlet'.vertexCount <= meshlet.vertexCount + x
    BY <1>15, <1>18, <2>4, <2>5, <2>6
  <2>8. meshlet'.vertexCount <= CountVertices(s, (l + 1) + 1 - s)
    <3>1. PICK v0 \in Nat, v1 \in Nat : v0 = meshlet.vertexCount /\ v1 = meshlet'.vertexCount
      BY <1>6, <1>15 DEF Ready, Reads, MeshletType
    <3>2. (l + 1) + 1 - s = l + 2 - s /\ l + 2 - s \in Nat /\ s \in Nat
      BY <1>5, <2>4
    <3>3. PICK v2 \in Nat : v2 = CountVertices(s, l + 2 - s)
      BY <3>2, CountFacts
    <3> QED
      BY <2>6, <2>7, <3>1, <3>2, <3>3
  <2>9. \A b \in boundary : b <= l + 1 => b <= s
    <3>1. SUFFICES ASSUME NEW b \in boundary, b <= l + 1 PROVE b <= s
      OBVIOUS
    <3>2. b \in Nat /\ b # l + 1
      BY <1>5, <2>3
    <3>3. b <= l
      BY <3>1, <3>2
    <3> QED
      BY <2>4, <3>3
  <2>10. Len(meshlets') + 1 + Cardinality(Pending((l + 1) + 1)) <= Limit
    <3>1. (l + 1) + 1 = l + 2
      OBVIOUS
    <3> QED
      BY <1>10, <1>11, <2>1, <2>3, <2>7, <3>1
  <2>11. Aligned'
    <3>1. PICK n \in Nat : n = l + 1
      OBVIOUS
    <3>2. s <= n
      BY <1>5, <2>4, <3>1
    <3> QED
      BY <1>2, <1>15, <2>4, <2>7, <2>8, <2>9, <2>10, <3>1, <3>2, AlignedForm
  <2> QED
    BY <2>11
<1>19. ASSUME ~split, order # <<>>, Paid, Cardinality(boundary) > Limit
       PROVE  Paid' /\ Cardinality(boundary') > Limit'
  <2>1. Paid'
    BY <1>1, <1>2, <1>14, <1>19, PaidStep
  <2>2. Limit' = Limit
    BY <1>2, Frozen
  <2> QED
    BY <1>2, <1>19, <2>1, <2>2
<1>20. ASSUME order = <<>> PROVE Aligned' \/ (Paid' /\ Cardinality(boundary') > Limit')
  <2>1. l = 0 /\ ~split /\ meshlets = <<>> /\ meshlet = EmptyMeshlet
    BY <1>1, <1>3, <1>12, <1>20 DEF Current
  <2>2. meshlet.triangleCount = 0 /\ meshlet.triangleOffset = 0 /\ meshlet.vertexCount = 0 /\ c = 0
    BY <1>11, <2>1 DEF EmptyMeshlet
  <2>3. ~Full(t)
    BY <1>1, <1>6, <2>2, FullFacts DEF Live
  <2>4. /\ Len(meshlets') = 0 /\ meshlet'.triangleOffset = 0 /\ meshlet'.vertexCount <= 3
    <3>1. meshlets' = meshlets /\ meshlet'.triangleOffset = meshlet.triangleOffset
          /\ meshlet'.vertexCount <= meshlet.vertexCount + Extra(t) /\ Extra(t) \in 0..3
      BY <1>15, <2>1, <2>3
    <3>2. PICK x \in 0..3, v \in Nat : x = Extra(t) /\ v = meshlet'.vertexCount
      BY <1>15, <3>1 DEF MeshletType
    <3>3. v <= 0 + x
      BY <2>2, <3>1, <3>2
    <3> QED
      <4>1. Len(meshlets') = 0
        BY <1>11, <2>2, <3>1
      <4>2. meshlet'.triangleOffset = 0
        BY <2>2, <3>1
      <4>3. meshlet'.vertexCount <= 3
        BY <3>2, <3>3
      <4> QED
        BY <4>1, <4>2, <4>3
  <2>5. 1 \in boundary
    BY <1>3, <1>4 DEF Boundaries
  <2>6. CASE k <= limit
    <3>1. 1 + p <= limit
      <4>1. Pending(l + 1) = boundary
        <5>1. ASSUME NEW b \in boundary PROVE b >= l + 1
          <6>1. b \in 1..f
            BY <1>5
          <6> QED
            BY <2>1, <6>1
        <5> QED
          BY <5>1 DEF Pending
      <4> QED
        BY <1>10, <2>1, <2>5, <2>6, <4>1
    <3>2. Len(meshlets') + 1 + Cardinality(Pending(1 + 1)) <= Limit
      BY <1>10, <1>11, <2>1, <2>4, <3>1
    <3>3. CountVertices(1, 1 + 1 - 1) = 3
      BY CountFacts
    <3>4. \A b \in boundary : b <= 1 => b <= 1
      OBVIOUS
    <3> QED
      <4>1. Len(order') = 1 /\ meshlet'.triangleOffset = 3 * (1 - 1) /\ 1 <= 1
        BY <1>15, <2>1, <2>4
      <4>2. meshlet'.vertexCount <= CountVertices(1, 1 + 1 - 1)
        BY <2>4, <3>3
      <4>3. 1 \in Nat
        OBVIOUS
      <4> QED
        BY <1>2, <2>5, <3>2, <3>4, <4>1, <4>2, <4>3, AlignedForm
  <2>7. CASE k > limit
    <3>1. Paid
      BY <1>1, <1>11, <2>2, EnoughFacts DEF Paid
    <3>2. Paid'
      BY <1>1, <1>2, <1>14, <2>1, <3>1, PaidStep
    <3>3. Limit' = Limit
      BY <1>2, Frozen
    <3> QED
      BY <1>2, <1>10, <1>11, <2>7, <3>2, <3>3
  <2> QED
    BY <1>10, <1>11, <2>6, <2>7
<1>21. Aligned' \/ (Paid' /\ Cardinality(boundary') > Limit')
  <2>1. order # <<>> => Aligned \/ (Paid /\ Cardinality(boundary) > Limit)
    BY <1>1, <1>2 DEF Bounded
  <2> QED
    BY <2>1, <1>17, <1>18, <1>19, <1>20
<1>22. Spatial'
  <2>1. IsOrder(axes[1])' /\ Tiled' /\ Boundaries'
    BY <1>2, <1>4, SpatialFrozen
  <2>2. boundary' \subseteq Faces'
    BY <1>1, <1>2, Frozen DEF Spatial
  <2> QED
    BY <1>2, <1>4, <1>15, <1>16, <2>1, <2>2 DEF Spatial
<1>23. order' # <<>>
  <2>1. Len(<<>>) = 0 /\ l + 1 # 0
    OBVIOUS
  <2> QED
    BY <1>15, <2>1
<1>24. Phases' /\ Current' /\ Bounded'
  BY <1>1, <1>2, <1>21, <1>23 DEF Phases, Current, Bounded
<1> QED
  BY <1>2, <1>15, <1>22, <1>24 DEF IInv

LEMMA PackFinishStep ==
  ASSUME IInv, PackFinish
  PROVE  IInv'
<1>1. Arguments /\ Output /\ Spatial /\ Bounded
  BY DEF IInv
<1>2. phase = "pack" /\ Len(order) = Cardinality(Faces) /\ Finish
  BY DEF PackFinish
<1>3. PICK f \in Nat \ {0} : f = FaceCount /\ Len(order) = f /\ Faces = 1..f
  BY <1>1, <1>2, FaceNumber, InputFacts
<1>4. Range(order) = Faces
  <2>1. order \in Seq(Faces) /\ DOMAIN order = 1..f
    BY <1>1, <1>3, LenProperties DEF Output, Ready
  <2>2. IsOrder(axes[1]) /\ \A i \in 1..f : order[i] = axes[1][i]
    BY <1>1, <1>2, <1>3 DEF Spatial
  <2>3. ASSUME NEW t \in Faces PROVE \E i \in 1..f : order[i] = t
    <3>1. PICK i \in 1..f : axes[1][i] = t
      BY <1>3, <2>2, OrderFacts
    <3> QED
      BY <2>2, <3>1
  <2>4. \A i \in 1..f : order[i] \in Faces
    BY <1>3, <2>1, ElementOfSeq
  <2> QED
    BY <2>1, <2>3, <2>4 DEF Range
<1>5. order # <<>>
  BY <1>3
<1>6. meshlets \in Seq(MeshletType)
  BY <1>1, <1>2 DEF Output
<1>7. Len(meshlets) + 1 <= Limit
  <2>1. CASE Paid
    BY <1>1, <1>5, <1>6, <2>1, PaidLimit
  <2>2. CASE Aligned
    <3>1. Len(meshlets) + 1 + Cardinality(Pending(f + 1)) <= Limit
      BY <1>3, <2>2 DEF Aligned
    <3>2. Pending(f + 1) = {}
      <4>1. ASSUME NEW b \in boundary PROVE ~(b >= f + 1)
        <5>1. b \in 1..f
          BY <1>1, <1>3 DEF Spatial
        <5> QED
          BY <5>1
      <4> QED
        BY <4>1 DEF Pending
    <3>3. Cardinality(Pending(f + 1)) = 0 /\ Len(meshlets) \in Nat
      BY <1>6, <3>2, FS_EmptySet, LenProperties
    <3> QED
      BY <3>1, <3>3
  <2> QED
    BY <1>1, <1>2, <1>5, <2>1, <2>2 DEF Bounded
<1> QED
  BY <1>2, <1>4, <1>7, FinishStep

-----------------------------------------------------------------------------
(* The spatial builder splits the order *)

LEMMA HeadRange ==
  ASSUME Arguments, Tiled, ranges # <<>>
  PROVE  /\ Head(ranges) \in RangeType /\ Head(ranges) = ranges[1] /\ Head(ranges).first = Reached
         /\ Head(ranges).first \in Nat \ {0} /\ Head(ranges).count \in Nat \ {0} /\ Head(ranges).depth \in Nat
         /\ Head(ranges).first + Head(ranges).count <= FaceCount + 1
<1>1. ranges \in Seq(RangeType) /\ Reached >= 1 /\ Reached = ranges[1].first
  BY DEF Tiled, Reached
<1>2. Head(ranges) = ranges[1] /\ Head(ranges) \in RangeType /\ Len(ranges) \in Nat /\ Len(ranges) >= 1
  BY <1>1, Dequeue
<1>3. Head(ranges).first \in Nat \ {0} /\ Head(ranges).count \in Nat \ {0} /\ Head(ranges).depth \in Nat
  BY <1>1, <1>2 DEF RangeType
<1>4. 1 \in 1 .. Len(ranges)
  BY <1>2
<1>5. ranges[1].first + ranges[1].count <= FaceCount + 1
  BY <1>4 DEF Tiled
<1> QED
  BY <1>1, <1>2, <1>3, <1>5

\* When the first range is done, the next position to split follows it.
LEMMA RangesNext ==
  ASSUME Arguments, mesh' = mesh, call' = call, Tiled, ranges # <<>>, ranges' = Tail(ranges)
  PROVE  Tiled' /\ Reached' = Head(ranges).first + Head(ranges).count
<1>1. /\ ranges \in Seq(RangeType)
      /\ \A i \in 1 .. Len(ranges) :
           /\ ranges[i].first + ranges[i].count <= FaceCount + 1
           /\ ranges[i].first + ranges[i].count = IF i = Len(ranges) THEN FaceCount + 1 ELSE ranges[i + 1].first
  BY DEF Tiled
<1>2. PICK n \in Nat : n + 1 = Len(ranges)
  <2>1. Len(ranges) \in Nat /\ Len(ranges) >= 1
    BY <1>1, Dequeue
  <2>2. Len(ranges) - 1 \in Nat /\ (Len(ranges) - 1) + 1 = Len(ranges)
    BY <2>1
  <2> QED
    BY <2>2
<1>3. PICK q : q = ranges'
  OBVIOUS
<1>4. q \in Seq(RangeType) /\ Len(q) = n /\ \A i \in 1..n : q[i] = ranges[i + 1]
  BY <1>1, <1>2, <1>3, Dequeue
<1>5. Reached' = Head(ranges).first + Head(ranges).count
  <2>1. Head(ranges) = ranges[1]
    BY HeadRange
  <2>2. Reached' = IF q = <<>> THEN FaceCount + 1 ELSE q[1].first
    BY <1>3, Frozen DEF Reached
  <2>3. CASE n = 0
    <3>1. q = <<>> /\ 1 \in 1 .. Len(ranges) /\ 1 = Len(ranges)
      BY <1>2, <1>4, <2>3
    <3> QED
      BY <1>1, <2>1, <2>2, <3>1
  <2>4. CASE n # 0
    <3>1. q # <<>> /\ 1 \in 1 .. Len(ranges) /\ 1 # Len(ranges) /\ 1 \in 1..n
      BY <1>2, <1>4, <2>4
    <3>2. q[1] = ranges[1 + 1]
      BY <1>4, <3>1
    <3> QED
      BY <1>1, <2>1, <2>2, <3>1, <3>2
  <2> QED
    BY <2>3, <2>4
<1>6. Reached' >= 1
  <2>1. Head(ranges).first \in Nat \ {0} /\ Head(ranges).count \in Nat \ {0}
    BY HeadRange
  <2> QED
    BY <1>5, <2>1
<1>7. ASSUME NEW i \in 1..n
      PROVE  /\ q[i].first + q[i].count <= FaceCount + 1
             /\ q[i].first + q[i].count = IF i = n THEN FaceCount + 1 ELSE q[i + 1].first
  <2>1. i + 1 \in 1 .. Len(ranges) /\ q[i] = ranges[i + 1] /\ (i + 1 = Len(ranges) <=> i = n)
    BY <1>2, <1>4
  <2>2. i # n => q[i + 1] = ranges[(i + 1) + 1]
    BY <1>4
  <2> QED
    BY <1>1, <2>1, <2>2
<1>8. Tiled'
  <2>1. FaceCount' = FaceCount
    BY Frozen
  <2> QED
    BY <1>3, <1>4, <1>6, <1>7, <2>1 DEF Tiled
<1> QED
  BY <1>5, <1>8

\* Boundaries of meshlets that fill the next range are added.
LEMMA BoundariesNext ==
  ASSUME mesh' = mesh, call' = call, axes' = axes, Boundaries,
         NEW a \in Nat \ {0}, NEW z \in Nat, a < z, Reached = a, Reached' = z,
         NEW B \in SUBSET (a .. z - 1), boundary' = boundary \cup B, a \in B,
         \A b \in B : \E e \in B \cup {z} : b < e /\ Chunked(b, e)
  PROVE  Boundaries' /\ boundary' \subseteq 1 .. z - 1
<1>1. /\ boundary \subseteq 1 .. a - 1 /\ 1 \in boundary \cup {a}
      /\ \A b \in boundary : \E e \in boundary \cup {a} : b < e /\ Chunked(b, e)
  BY DEF Boundaries
<1>2. boundary' \subseteq 1 .. z - 1
  <2>1. ASSUME NEW b \in boundary PROVE b \in 1 .. z - 1
    <3>1. b \in 1 .. a - 1
      BY <1>1
    <3> QED
      BY <3>1
  <2>2. ASSUME NEW b \in B PROVE b \in 1 .. z - 1
    <3>1. b \in a .. z - 1
      OBVIOUS
    <3> QED
      BY <3>1
  <2> QED
    BY <2>1, <2>2
<1>3. 1 \in boundary'
  BY <1>1
<1>4. \A b \in boundary' : \E e \in boundary' \cup {z} : b < e /\ Chunked(b, e)
  <2>1. ASSUME NEW b \in boundary PROVE \E e \in boundary' \cup {z} : b < e /\ Chunked(b, e)
    <3>1. PICK e \in boundary \cup {a} : b < e /\ Chunked(b, e)
      BY <1>1
    <3>2. e \in boundary'
      BY <3>1
    <3> QED
      BY <3>1, <3>2
  <2>2. ASSUME NEW b \in B PROVE \E e \in boundary' \cup {z} : b < e /\ Chunked(b, e)
    <3>1. PICK e \in B \cup {z} : b < e /\ Chunked(b, e)
      OBVIOUS
    <3> QED
      BY <3>1
  <2> QED
    BY <2>1, <2>2
<1>5. \A b, e : Chunked(b, e)' = Chunked(b, e)
  BY SpatialFrozen
<1>6. Boundaries'
  BY <1>2, <1>3, <1>4, <1>5 DEF Boundaries
<1> QED
  BY <1>2, <1>6

\* A step that only works on the order of the triangles keeps the rest of the invariant.
LEMMA SplitKeeps ==
  ASSUME IInv, phase = "split", phase' = "split", UNCHANGED <<mesh, call, outVars, flexVars>>,
         Spatial'
  PROVE  IInv'
<1>1. Arguments /\ Phases /\ Output /\ Current
  BY DEF IInv
<1>2. /\ mesh' = mesh /\ call' = call /\ used' = used /\ meshlet' = meshlet /\ meshlets' = meshlets
      /\ meshletVertices' = meshletVertices /\ meshletTriangles' = meshletTriangles /\ order' = order
  BY DEF outVars
<1>3. Arguments' /\ Phases'
  BY <1>1, <1>2, Frozen DEF Phases
<1>4. Output'
  <2>1. Ready(meshlet, used, meshletVertices, meshletTriangles, order)'
          = Ready(meshlet, used, meshletVertices, meshletTriangles, order)
    BY <1>2, Frozen
  <2>2. \A front : Closed(front, meshlet, meshletVertices, meshletTriangles, order)'
                     = Closed(front, meshlet, meshletVertices, meshletTriangles, order)
    BY <1>2, Frozen
  <2> QED
    BY <1>1, <1>2, <2>1, <2>2 DEF Output
<1>5. Current' /\ Bounded'
  BY <1>1, <1>2 DEF Current, Bounded
<1> QED
  BY <1>3, <1>4, <1>5 DEF IInv

LEMMA SplitLeafStep ==
  ASSUME IInv, SplitLeaf
  PROVE  IInv'
<1>1. Arguments /\ Spatial
  BY DEF IInv
<1>2. /\ phase = "split" /\ phase' = "split" /\ mesh' = mesh /\ call' = call /\ axes' = axes /\ order' = order
      /\ ranges # <<>> /\ Fits(Head(ranges))
      /\ boundary' = boundary \cup {Head(ranges).first} /\ ranges' = Tail(ranges)
      /\ UNCHANGED <<mesh, call, outVars, flexVars>>
  BY DEF SplitLeaf, outVars
<1>3. IsOrder(axes[1]) /\ Tiled /\ Boundaries /\ order = <<>>
  BY <1>1, <1>2 DEF Spatial
<1>4. PICK a \in Nat \ {0}, c \in Nat \ {0}, z \in Nat :
         /\ a = Head(ranges).first /\ c = Head(ranges).count /\ z = a + c
         /\ a = Reached /\ z <= FaceCount + 1
  BY <1>1, <1>2, <1>3, HeadRange
<1>5. Tiled' /\ Reached' = z
  BY <1>1, <1>2, <1>3, <1>4, RangesNext
<1>6. Chunked(a, z)
  <2>1. z - a = c
    BY <1>4
  <2> QED
    BY <1>2, <1>4, <2>1 DEF Fits, Chunked
<1>7. Boundaries' /\ boundary' \subseteq 1 .. z - 1
  <2>1. PICK B : B = {a}
    OBVIOUS
  <2>2. B \in SUBSET (a .. z - 1) /\ a < z
    BY <1>4, <2>1
  <2>3. \A b \in B : \E e \in B \cup {z} : b < e /\ Chunked(b, e)
    BY <1>6, <2>1, <2>2
  <2>4. boundary' = boundary \cup B /\ a \in B
    BY <1>2, <1>4, <2>1
  <2> QED
    <3>1. mesh' = mesh /\ call' = call /\ axes' = axes /\ Boundaries /\ Reached = a /\ Reached' = z /\ a < z
      BY <1>2, <1>3, <1>4, <1>5, <2>2
    <3> QED
      BY <2>2, <2>3, <2>4, <3>1, BoundariesNext
<1>8. Spatial'
  <2>1. boundary' \subseteq Faces'
    <3>1. PICK f \in Nat : f = FaceCount /\ Faces = 1..f
      BY <1>1, InputFacts
    <3>2. 1 .. z - 1 \subseteq 1..f
      BY <1>4, <3>1
    <3> QED
      BY <1>2, <1>7, <3>1, <3>2, Frozen
  <2>2. IsOrder(axes[1])'
    BY <1>2, <1>3, SpatialFrozen
  <2> QED
    BY <1>2, <1>3, <1>5, <1>7, <2>1, <2>2 DEF Spatial
<1> QED
  BY <1>2, <1>8, SplitKeeps

LEMMA SplitDoneStep ==
  ASSUME IInv, SplitDone
  PROVE  IInv'
<1>1. Arguments /\ Phases /\ Output /\ Current /\ Spatial
  BY DEF IInv
<1>2. /\ phase = "split" /\ phase' = "pack" /\ ranges = <<>> /\ mesh' = mesh /\ call' = call
      /\ axes' = axes /\ ranges' = ranges /\ boundary' = boundary
      /\ used' = used /\ meshlet' = meshlet /\ meshlets' = meshlets
      /\ meshletVertices' = meshletVertices /\ meshletTriangles' = meshletTriangles /\ order' = order
  BY DEF SplitDone, outVars, spatialVars
<1>3. IsOrder(axes[1]) /\ Tiled /\ Boundaries /\ order = <<>> /\ boundary \subseteq Faces
  BY <1>1, <1>2 DEF Spatial
<1>4. Arguments' /\ Phases'
  BY <1>1, <1>2, Frozen DEF Phases
<1>5. Output'
  <2>1. Ready(meshlet, used, meshletVertices, meshletTriangles, order)'
          = Ready(meshlet, used, meshletVertices, meshletTriangles, order)
    BY <1>2, Frozen
  <2>2. \A front : Closed(front, meshlet, meshletVertices, meshletTriangles, order)'
                     = Closed(front, meshlet, meshletVertices, meshletTriangles, order)
    BY <1>2, Frozen
  <2> QED
    BY <1>1, <1>2, <2>1, <2>2 DEF Output
<1>6. Current' /\ Bounded'
  BY <1>1, <1>2, <1>3 DEF Current, Bounded
<1>7. Spatial'
  <2>1. IsOrder(axes[1])' /\ Tiled' /\ Boundaries' /\ boundary' \subseteq Faces'
    BY <1>2, <1>3, SpatialFrozen, Frozen
  <2>2. Len(order') = 0
    BY <1>2, <1>3
  <2> QED
    BY <1>2, <2>1, <2>2 DEF Spatial
<1> QED
  BY <1>2, <1>4, <1>5, <1>6, <1>7 DEF IInv

-----------------------------------------------------------------------------
(* The boundaries of a range that is not split further *)

TailStep(r, x) == IF x < r.count THEN x + TailChunk(r, x) ELSE r.count

\* The places at which TailBoundary cuts the range
TailRun(k, r, n) ==
  /\ k[0] = 0 /\ \A i \in 0..n : k[i] \in 0..n
  /\ \A i \in 1..n : k[i] = TailStep(r, k[i - 1])
  /\ TailBoundary(r) = {r.first + k[i] : i \in {j \in 0..n : k[j] < n}}

LEMMA TailSteps ==
  ASSUME NEW r, NEW n \in Nat, n = r.count, \A x \in 0..n : TailStep(r, x) \in 0..n
  PROVE  \E k : TailRun(k, r, n)
<1> DEFINE X == 0..n
           f == [p \in (1..n) \X X |-> TailStep(r, p[2])]
           Body(h) == [i \in 0 .. r.count |-> IF i = 0 THEN 0
                                              ELSE IF h[i - 1] < r.count THEN h[i - 1] + TailChunk(r, h[i - 1])
                                              ELSE r.count]
<1>1. f \in [(1..n) \X X -> X] /\ 0 \in X
  <2>1. ASSUME NEW p \in (1..n) \X X PROVE TailStep(r, p[2]) \in X
    <3>1. p[2] \in X
      OBVIOUS
    <3> QED
      BY <3>1
  <2> QED
    BY <2>1
<1>2. \A i \in 1..n, x \in X : f[<<i, x>>] = TailStep(r, x)
  OBVIOUS
<1>3. PICK g \in [0..n -> X] : g[0] = 0 /\ \A i \in 1..n : g[i] = f[<<i, g[i - 1]>>]
  <2> HIDE DEF X, f
  <2>1. \E g \in [0..n -> X] : Recursive(g, n, 0, f)
    BY <1>1, Recursion
  <2> QED
    BY <2>1 DEF Recursive
<1> HIDE DEF f
<1>4. \A h : \A i \in 0..n : Body(h)[i] = IF i = 0 THEN 0 ELSE TailStep(r, h[i - 1])
  BY DEF TailStep
<1>5. g = Body(g)
  <2>1. ASSUME NEW i \in 0..n PROVE Body(g)[i] = g[i]
    <3>1. CASE i = 0
      BY <1>3, <3>1
    <3>2. CASE i # 0
      <4>1. i \in 1..n /\ i - 1 \in 0..n
        BY <3>2
      <4>2. g[i] = TailStep(r, g[i - 1])
        BY <1>2, <1>3, <4>1
      <4>3. Body(g)[i] = TailStep(r, g[i - 1])
        <5> HIDE DEF Body
        <5> QED
          BY <1>4, <3>2
      <4> QED
        BY <4>2, <4>3
    <3> QED
      BY <3>1, <3>2
  <2>2. Body(g) = [i \in 0..n |-> Body(g)[i]]
    OBVIOUS
  <2>3. g = [i \in 0..n |-> g[i]]
    BY <1>3
  <2> HIDE DEF Body
  <2> QED
    BY <2>1, <2>2, <2>3
<1>6. PICK k : k = CHOOSE h : h = Body(h)
  OBVIOUS
<1>7. k = Body(k)
  <2> HIDE DEF Body
  <2> QED
    BY <1>5, <1>6
<1>8. k[0] = 0 /\ \A i \in 1..n : k[i] = TailStep(r, k[i - 1])
  <2> HIDE DEF Body
  <2>1. \A i \in 0..n : k[i] = IF i = 0 THEN 0 ELSE TailStep(r, k[i - 1])
    BY <1>4, <1>7
  <2>2. 0 \in 0..n
    OBVIOUS
  <2>3. ASSUME NEW i \in 1..n PROVE k[i] = TailStep(r, k[i - 1])
    <3>1. i \in 0..n /\ i # 0
      OBVIOUS
    <3> QED
      BY <2>1, <3>1, Zenon
  <2> QED
    BY <2>1, <2>2, <2>3
<1>9. \A i \in 0..n : k[i] \in X
  <2>1. Follows(k, n, 0, f, X)
    BY <1>2, <1>8 DEF Follows
  <2> HIDE DEF X
  <2> QED
    BY <1>1, <2>1, StepByStep
<1>10. TailBoundary(r) = {r.first + k[i] : i \in {j \in 0..n : k[j] < n}}
  BY <1>6 DEF TailBoundary
<1>11. TailRun(k, r, n)
  BY <1>8, <1>9, <1>10 DEF TailRun
<1> QED
  BY <1>11

\* Each piece of the tail fits into a meshlet and is within the range.
LEMMA TailChunkFacts ==
  ASSUME Arguments, NEW r, NEW a \in Nat, NEW n \in Nat, a = r.first, n = r.count, NEW x \in 0 .. n - 1
  PROVE  /\ TailChunk(r, x) \in 1 .. n - x
         /\ TailChunk(r, x) <= call.maxTriangles
         /\ CountVertices(a + x, TailChunk(r, x)) <= call.maxVertices
<1>1. PICK max \in Nat \ {0}, v \in Nat : max = call.maxTriangles /\ v = call.maxVertices /\ v >= 3
  BY InputFacts
<1>2. PICK chunk : chunk = IF x + max <= n THEN max ELSE n - x
  OBVIOUS
<1>3. chunk \in 1 .. n - x /\ chunk <= max
  BY <1>1, <1>2
<1>4. TailChunk(r, x) = IF CountVertices(a + x, chunk) <= v THEN chunk ELSE v \div 3
  BY <1>1, <1>2 DEF TailChunk
<1>5. CASE CountVertices(a + x, chunk) <= v
  BY <1>1, <1>3, <1>4, <1>5
<1>6. CASE ~(CountVertices(a + x, chunk) <= v)
  <2>1. PICK c \in Nat, w \in Nat : c = CountVertices(a + x, chunk) /\ c <= 3 * chunk /\ w = v \div 3
    <3>1. a + x \in Nat /\ chunk \in Nat /\ v \div 3 \in Nat
      BY <1>1, <1>3
    <3> QED
      BY <3>1, CountFacts
  <2>2. w >= 1 /\ 3 * w <= v
    BY <1>1, <2>1
  <2>3. w <= chunk
    <3>1. v < 3 * chunk
      BY <1>1, <1>3, <1>6, <2>1
    <3> QED
      BY <1>1, <1>3, <2>1, <2>2, <3>1
  <2>4. CountVertices(a + x, w) <= 3 * w /\ CountVertices(a + x, w) \in Nat
    <3>1. a + x \in Nat
      OBVIOUS
    <3> QED
      BY <2>1, <3>1, CountFacts
  <2>5. TailChunk(r, x) = w
    BY <1>4, <1>6, <2>1
  <2>6. w \in 1 .. n - x /\ w <= max
    BY <1>1, <1>3, <2>2, <2>3
  <2>7. CountVertices(a + x, w) <= v
    BY <1>1, <2>2, <2>4
  <2> QED
    BY <1>1, <2>5, <2>6, <2>7
<1> QED
  BY <1>5, <1>6

LEMMA TailFacts ==
  ASSUME Arguments, NEW r, NEW a \in Nat, NEW n \in Nat \ {0}, a = r.first, n = r.count
  PROVE  /\ TailBoundary(r) \subseteq a .. a + n - 1 /\ a \in TailBoundary(r)
         /\ \A b \in TailBoundary(r) : \E e \in TailBoundary(r) \cup {a + n} : b < e /\ Chunked(b, e)
<1>1. \A x \in 0..n : TailStep(r, x) \in 0..n /\ (x < n => TailStep(r, x) = x + TailChunk(r, x) /\ TailStep(r, x) > x)
  <2>1. ASSUME NEW x \in 0..n
        PROVE  TailStep(r, x) \in 0..n /\ (x < n => TailStep(r, x) = x + TailChunk(r, x) /\ TailStep(r, x) > x)
    <3>1. CASE x < n
      <4>1. x \in 0 .. n - 1
        BY <3>1
      <4>2. TailChunk(r, x) \in 1 .. n - x
        BY <4>1, TailChunkFacts
      <4>3. TailStep(r, x) = x + TailChunk(r, x)
        BY <3>1 DEF TailStep
      <4> QED
        BY <4>2, <4>3
    <3>2. CASE ~(x < n)
      BY <3>2 DEF TailStep
    <3> QED
      BY <3>1, <3>2
  <2> QED
    BY <2>1
<1>2. PICK k : /\ k[0] = 0 /\ \A i \in 0..n : k[i] \in 0..n
               /\ \A i \in 1..n : k[i] = TailStep(r, k[i - 1])
               /\ TailBoundary(r) = {r.first + k[i] : i \in {j \in 0..n : k[j] < n}}
  <2>1. PICK k : TailRun(k, r, n)
    BY <1>1, TailSteps
  <2> QED
    BY <2>1 DEF TailRun
<1>3. \A i \in 0..n : i <= k[i]
  <2> DEFINE T == {i \in Nat : i <= n => i <= k[i]}
  <2>1. 0 \in T
    BY <1>2
  <2>2. ASSUME NEW i \in Nat, i \in T PROVE i + 1 \in T
    <3>1. SUFFICES ASSUME i + 1 <= n PROVE i + 1 <= k[i + 1]
      OBVIOUS
    <3>2. i \in 0..n /\ i + 1 \in 1..n /\ i <= k[i]
      BY <2>2, <3>1
    <3>3. PICK x \in 0..n : x = k[i] /\ i <= x
      BY <1>2, <3>2
    <3>4. k[i + 1] = TailStep(r, x)
      BY <1>2, <3>2, <3>3
    <3>5. CASE x < n
      <4>1. TailStep(r, x) \in 0..n /\ TailStep(r, x) > x
        BY <1>1, <3>5
      <4> QED
        BY <3>3, <3>4, <4>1
    <3>6. CASE ~(x < n)
      <4>1. TailStep(r, x) = n
        BY <3>6 DEF TailStep
      <4> QED
        BY <3>1, <3>4, <4>1
    <3> QED
      BY <3>5, <3>6
  <2> HIDE DEF T
  <2>3. Nat \subseteq T
    BY <2>1, <2>2, NatSetInduction
  <2> QED
    BY <2>3 DEF T
<1>4. TailBoundary(r) = {a + k[i] : i \in {j \in 0..n : k[j] < n}}
  BY <1>2
<1>5. TailBoundary(r) \subseteq a .. a + n - 1
  <2>1. ASSUME NEW i \in 0..n, k[i] < n PROVE a + k[i] \in a .. a + n - 1
    <3>1. k[i] \in 0..n
      BY <1>2
    <3> QED
      BY <2>1, <3>1
  <2> QED
    BY <1>4, <2>1
<1>6. a \in TailBoundary(r)
  <2>1. 0 \in 0..n /\ k[0] < n /\ a + k[0] = a
    BY <1>2
  <2> QED
    BY <1>4, <2>1
<1>7. ASSUME NEW b \in TailBoundary(r)
      PROVE  \E e \in TailBoundary(r) \cup {a + n} : b < e /\ Chunked(b, e)
  <2>1. PICK i \in 0..n : b = a + k[i] /\ k[i] < n
    BY <1>4
  <2>2. PICK x \in 0 .. n - 1 : x = k[i] /\ b = a + x
    <3>1. k[i] \in 0..n
      BY <1>2
    <3> QED
      BY <2>1, <3>1
  <2>3. i + 1 \in 1..n
    <3>1. i <= x
      BY <1>3, <2>2
    <3> QED
      BY <3>1
  <2>4. k[i + 1] = TailStep(r, x)
    <3>1. (i + 1) - 1 = i
      OBVIOUS
    <3> QED
      BY <1>2, <2>2, <2>3, <3>1
  <2>5. PICK d \in 1 .. n - x : /\ d = TailChunk(r, x) /\ d <= call.maxTriangles
                                /\ CountVertices(a + x, d) <= call.maxVertices
    BY TailChunkFacts
  <2>6. k[i + 1] = x + d
    <3>1. x \in 0..n /\ x < n
      OBVIOUS
    <3> QED
      BY <1>1, <2>4, <2>5, <3>1
  <2>7. PICK e \in Nat : e = a + (x + d) /\ b < e /\ e - b = d
    BY <2>2
  <2>8. Chunked(b, e)
    BY <2>2, <2>5, <2>7 DEF Chunked
  <2>9. e \in TailBoundary(r) \cup {a + n}
    <3>1. CASE x + d = n
      BY <2>7, <3>1
    <3>2. CASE x + d # n
      <4>1. k[i + 1] < n /\ i + 1 \in 0..n
        BY <2>3, <2>6, <3>2
      <4> QED
        BY <1>4, <2>6, <2>7, <4>1
    <3> QED
      BY <3>1, <3>2
  <2> QED
    BY <2>7, <2>8, <2>9
<1> QED
  BY <1>5, <1>6, <1>7

LEMMA SplitTailStep ==
  ASSUME IInv, SplitTail
  PROVE  IInv'
<1>1. Arguments /\ Spatial
  BY DEF IInv
<1>2. /\ phase = "split" /\ phase' = "split" /\ mesh' = mesh /\ call' = call /\ axes' = axes /\ order' = order
      /\ ranges # <<>> /\ boundary' = boundary \cup TailBoundary(Head(ranges)) /\ ranges' = Tail(ranges)
      /\ UNCHANGED <<mesh, call, outVars, flexVars>>
  BY DEF SplitTail, outVars
<1>3. IsOrder(axes[1]) /\ Tiled /\ Boundaries /\ order = <<>>
  BY <1>1, <1>2 DEF Spatial
<1>4. PICK a \in Nat \ {0}, c \in Nat \ {0}, z \in Nat :
         /\ a = Head(ranges).first /\ c = Head(ranges).count /\ z = a + c
         /\ a = Reached /\ z <= FaceCount + 1
  BY <1>1, <1>2, <1>3, HeadRange
<1>5. Tiled' /\ Reached' = z
  BY <1>1, <1>2, <1>3, <1>4, RangesNext
<1>6. PICK B : B = TailBoundary(Head(ranges))
  OBVIOUS
<1>7. /\ B \in SUBSET (a .. z - 1) /\ a \in B /\ boundary' = boundary \cup B
      /\ \A b \in B : \E e \in B \cup {z} : b < e /\ Chunked(b, e)
  BY <1>1, <1>2, <1>4, <1>6, TailFacts
<1>8. Boundaries' /\ boundary' \subseteq 1 .. z - 1
  <2>1. mesh' = mesh /\ call' = call /\ axes' = axes /\ Boundaries /\ Reached = a /\ Reached' = z /\ a < z
    BY <1>2, <1>3, <1>4, <1>5
  <2> QED
    BY <1>7, <2>1, BoundariesNext
<1>9. Spatial'
  <2>1. boundary' \subseteq Faces'
    <3>1. PICK f \in Nat : f = FaceCount /\ Faces = 1..f
      BY <1>1, InputFacts
    <3>2. 1 .. z - 1 \subseteq 1..f
      BY <1>4, <3>1
    <3> QED
      BY <1>2, <1>8, <3>1, <3>2, Frozen
  <2>2. IsOrder(axes[1])'
    BY <1>2, <1>3, SpatialFrozen
  <2> QED
    BY <1>2, <1>3, <1>5, <1>8, <2>1, <2>2 DEF Spatial
<1> QED
  BY <1>2, <1>9, SplitKeeps

-----------------------------------------------------------------------------
(* A range is split in two *)

\* Joining parts of an order is associative.
LEMMA OrdersJoin ==
  ASSUME NEW p \in Seq(Faces), NEW q \in Seq(Faces), NEW r \in Seq(Faces)
  PROVE  (p \o q) \o r = p \o (q \o r)
  BY ConcatAssociative, SMTT(30)

Apart(q, S, R) == \A C : Times(q, S \cap C) + Times(q, R \cap C) = Times(q, C)

LEMMA TimesApart ==
  ASSUME NEW T, NEW q \in Seq(T), NEW S
  PROVE  Apart(q, S, T \ S)
<1> SUFFICES ASSUME NEW C PROVE Times(q, S \cap C) + Times(q, (T \ S) \cap C) = Times(q, C)
  BY DEF Apart
<1> DEFINE A == {i \in 1 .. Len(q) : q[i] \in S \cap C}
           B == {i \in 1 .. Len(q) : q[i] \in (T \ S) \cap C}
<1>1. A \cap B = {}
  OBVIOUS
<1>2. A \cup B = {i \in 1 .. Len(q) : q[i] \in C}
  <2>1. \A i \in 1 .. Len(q) : q[i] \in T
    BY ElementOfSeq
  <2> QED
    BY <2>1
<1>3. IsFiniteSet(A) /\ IsFiniteSet(B) /\ Times(q, S \cap C) \in Nat /\ Times(q, (T \ S) \cap C) \in Nat
  BY TimesType
<1>4. Times(q, S \cap C) = Cardinality(A) /\ Times(q, (T \ S) \cap C) = Cardinality(B)
      /\ Times(q, C) = Cardinality({i \in 1 .. Len(q) : q[i] \in C})
  BY DEF Times
<1> HIDE DEF A, B
<1> QED
  BY <1>1, <1>2, <1>3, <1>4, DisjointUnion, SMTT(30)

\* Sorting a part of a sequence by side keeps its elements.
Sides(q, S, T) == Only(q, S) \o Only(q, T \ S)

LEMMA SidesFacts ==
  ASSUME NEW T, NEW q \in Seq(T), NEW S
  PROVE  /\ Sides(q, S, T) \in Seq(T) /\ Len(Sides(q, S, T)) = Len(q)
         /\ \A C : Times(Sides(q, S, T), C) = Times(q, C)
<1>0. PICK p : p = Sides(q, S, T)
  OBVIOUS
<1>1. PICK x \in Seq(T), y \in Seq(T) : x = Only(q, S) /\ y = Only(q, T \ S)
  BY OnlyFacts
<1>2. p = x \o y /\ p \in Seq(T) /\ Len(p) = Len(x) + Len(y)
  BY <1>0, <1>1, ConcatProperties DEF Sides
<1>3. \A C : Times(x, C) = Times(q, S \cap C)
  <2>1. \A C : Times(Only(q, S), C) = Times(q, S \cap C)
    BY OnlyFacts
  <2> QED
    BY <1>1, <2>1, Zenon
<1>4. \A C : Times(y, C) = Times(q, (T \ S) \cap C)
  <2>1. PICK R : R = T \ S
    OBVIOUS
  <2>2. \A C : Times(Only(q, R), C) = Times(q, R \cap C)
    BY OnlyFacts
  <2> QED
    BY <1>1, <2>1, <2>2, Zenon
<1>5. ASSUME NEW C PROVE Times(p, C) = Times(q, C)
  <2>1. Times(p, C) = Times(x, C) + Times(y, C)
    <3>1. Times(x \o y, C) = Times(x, C) + Times(y, C)
      BY TimesConcat
    <3> QED
      BY <1>2, <3>1
  <2>2. Times(x, C) = Times(q, S \cap C) /\ Times(y, C) = Times(q, (T \ S) \cap C)
    BY <1>3, <1>4, Zenon
  <2>3. Times(q, S \cap C) + Times(q, (T \ S) \cap C) = Times(q, C)
    <3>1. Apart(q, S, T \ S)
      BY TimesApart
    <3> QED
      BY <3>1, Zenon DEF Apart
  <2> QED
    BY <2>1, <2>2, <2>3
<1>6. \A w \in Seq(T) : Times(w, T) = Len(w)
  <2>1. SUFFICES ASSUME NEW w \in Seq(T) PROVE Times(w, T) = Len(w)
    OBVIOUS
  <2>2. {i \in 1 .. Len(w) : w[i] \in T} = 1 .. Len(w)
    BY ElementOfSeq
  <2>3. Len(w) \in Nat
    BY LenProperties
  <2> QED
    BY <2>2, <2>3, Indices DEF Times
<1>7. Len(p) = Len(q)
  BY <1>2, <1>5, <1>6
<1> QED
  BY <1>0, <1>2, <1>5, <1>7

LEMMA PartitionFacts ==
  ASSUME Arguments, NEW axis, IsOrder(axis), NEW r, NEW a \in Nat \ {0}, NEW n \in Nat, a = r.first, n = r.count,
         a + n <= FaceCount + 1, NEW left, NEW new, new = PartitionAxis(axis, r, left)
  PROVE  IsOrder(new) /\ \A i \in 1 .. a - 1 : new[i] = axis[i]
<1>1. axis \in Seq(Faces) /\ Len(axis) = FaceCount /\ FaceCount \in Nat /\ \A t \in Faces : Times(axis, {t}) = 1
  BY InputFacts DEF IsOrder
<1>2. PICK f \in Nat : f = FaceCount /\ a + n <= f + 1
  BY <1>1
<1>3. PICK x : x = SubSeq(axis, 1, a - 1)
  OBVIOUS
<1>4. PICK y : y = SubSeq(axis, a, a + n - 1)
  OBVIOUS
<1>5. PICK z : z = SubSeq(axis, a + n, f)
  OBVIOUS
<1>6. \A i \in 1..f : axis[i] \in Faces
  BY <1>1, <1>2, ElementOfSeq
<1>7. x \in Seq(Faces) /\ Len(x) = a - 1 /\ \A i \in 1 .. a - 1 : x[i] = axis[i]
  <2>1. \A i \in 1 .. a - 1 : axis[i] \in Faces
    BY <1>2, <1>6
  <2>2. PICK m \in Nat : m = a - 1
    OBVIOUS
  <2>3. /\ SubSeq(axis, 1, m) \in Seq(Faces)
        /\ Len(SubSeq(axis, 1, m)) = IF 1 <= m THEN m - 1 + 1 ELSE 0
        /\ \A i \in 1 .. m - 1 + 1 : SubSeq(axis, 1, m)[i] = axis[1 + i - 1]
    BY <2>1, <2>2, SubSeqProperties
  <2>4. m - 1 + 1 = m /\ \A i \in 1..m : 1 + i - 1 = i
    OBVIOUS
  <2> QED
    BY <1>3, <2>2, <2>3, <2>4
<1>8. y \in Seq(Faces) /\ Len(y) = n
  <2>1. \A i \in a .. a + n - 1 : axis[i] \in Faces
    BY <1>2, <1>6
  <2>2. PICK m \in Int : m = a + n - 1
    OBVIOUS
  <2>3. /\ SubSeq(axis, a, m) \in Seq(Faces)
        /\ Len(SubSeq(axis, a, m)) = IF a <= m THEN m - a + 1 ELSE 0
    BY <2>1, <2>2, SubSeqProperties
  <2>4. y \in Seq(Faces) /\ Len(y) = IF a <= m THEN m - a + 1 ELSE 0
    BY <1>4, <2>2, <2>3
  <2>5. (IF a <= m THEN m - a + 1 ELSE 0) = n
    BY <2>2
  <2> QED
    BY <2>4, <2>5
<1>9. z \in Seq(Faces) /\ Len(z) = f + 1 - (a + n)
  <2>1. \A i \in a + n .. f : axis[i] \in Faces
    BY <1>2, <1>6
  <2>2. PICK m \in Int : m = a + n
    OBVIOUS
  <2>3. /\ SubSeq(axis, m, f) \in Seq(Faces)
        /\ Len(SubSeq(axis, m, f)) = IF m <= f THEN f - m + 1 ELSE 0
    BY <2>1, <2>2, SubSeqProperties
  <2> QED
    BY <1>2, <1>5, <2>2, <2>3
<1>10. axis = (x \o y) \o z
  <2>1. SubSeq(axis, 1, a - 1) \o SubSeq(axis, (a - 1) + 1, a + n - 1) = SubSeq(axis, 1, a + n - 1)
    <3>1. 1 \in 1 .. Len(axis) + 1 /\ a - 1 \in 1 - 1 .. Len(axis) /\ a + n - 1 \in a - 1 .. Len(axis)
      BY <1>1, <1>2, SMTT(30)
    <3> QED
      BY <1>1, <3>1, ConcatAdjacentSubSeq
  <2>2. SubSeq(axis, 1, a + n - 1) \o SubSeq(axis, (a + n - 1) + 1, f) = SubSeq(axis, 1, f)
    <3>1. 1 \in 1 .. Len(axis) + 1 /\ a + n - 1 \in 1 - 1 .. Len(axis) /\ f \in a + n - 1 .. Len(axis)
      BY <1>1, <1>2
    <3> QED
      BY <1>1, <3>1, ConcatAdjacentSubSeq
  <2>3. (a - 1) + 1 = a /\ (a + n - 1) + 1 = a + n
    OBVIOUS
  <2>4. SubSeq(axis, 1, f) = axis
    BY <1>1, <1>2, SubSeqFull
  <2> QED
    BY <1>3, <1>4, <1>5, <2>1, <2>2, <2>3, <2>4
<1>11. PICK p : p = Sides(y, left, Faces)
  OBVIOUS
<1>12. p \in Seq(Faces) /\ Len(p) = Len(y) /\ \A C : Times(p, C) = Times(y, C)
  <2>1. y \in Seq(Faces)
    BY <1>8
  <2> QED
    BY <1>11, <2>1, SidesFacts
<1>12a. p \in Seq(Faces) /\ Len(p) = n /\ x \in Seq(Faces) /\ y \in Seq(Faces) /\ z \in Seq(Faces)
  BY <1>7, <1>8, <1>9, <1>12
<1>13. new = (x \o p) \o z
  <2>1. PICK u \in Seq(Faces), w \in Seq(Faces) : u = Only(y, left) /\ w = Only(y, Faces \ left)
    BY <1>8, OnlyFacts
  <2>2. new = ((x \o u) \o w) \o z
    BY <1>1, <1>2, <1>3, <1>4, <1>5, <2>1 DEF PartitionAxis
  <2>3. (x \o u) \o w = x \o (u \o w)
    <3>1. x \in Seq(Faces)
      BY <1>12a
    <3> QED
      BY <3>1, OrdersJoin
  <2> QED
    BY <1>11, <2>1, <2>2, <2>3 DEF Sides
<1>14. new \in Seq(Faces) /\ Len(new) = f
  <2>1. x \o p \in Seq(Faces) /\ Len(x \o p) = Len(x) + Len(p)
    BY <1>12a, ConcatProperties
  <2>2. new \in Seq(Faces) /\ Len(new) = Len(x \o p) + Len(z)
    BY <1>9, <1>13, <2>1, ConcatProperties
  <2> QED
    <3>1. Len(new) = ((a - 1) + n) + (f + 1 - (a + n))
      BY <1>7, <1>9, <1>12a, <2>1, <2>2
    <3>2. ((a - 1) + n) + (f + 1 - (a + n)) = f
      OBVIOUS
    <3> QED
      BY <2>2, <3>1, <3>2, Zenon
<1>15. ASSUME NEW i \in 1 .. a - 1 PROVE new[i] = axis[i]
  <2>1. x \o p \in Seq(Faces) /\ Len(x \o p) = (a - 1) + n /\ (x \o p)[i] = x[i]
    <3>1. /\ x \o p \in Seq(Faces) /\ Len(x \o p) = Len(x) + Len(p)
          /\ \A j \in 1 .. Len(x) + Len(p) : (x \o p)[j] = IF j <= Len(x) THEN x[j] ELSE p[j - Len(x)]
      BY <1>12a, ConcatProperties
    <3>2. Len(x) = a - 1 /\ i \in 1 .. Len(x) + Len(p) /\ i <= Len(x)
      BY <1>7, <1>12a, SMTT(30)
    <3> QED
      BY <1>12a, <3>1, <3>2
  <2>2. ((x \o p) \o z)[i] = (x \o p)[i]
    <3>1. PICK w \in Seq(Faces) : w = x \o p
      BY <2>1
    <3>2. Len(z) \in Nat
      BY <1>12a, LenProperties
    <3>3. i \in 1 .. Len(w) + Len(z) /\ i <= Len(w)
      BY <2>1, <3>1, <3>2, SMTT(30)
    <3>4. \A j \in 1 .. Len(w) + Len(z) : (w \o z)[j] = IF j <= Len(w) THEN w[j] ELSE z[j - Len(w)]
      BY <1>12a, ConcatProperties
    <3> QED
      BY <3>1, <3>3, <3>4
  <2> QED
    BY <1>7, <1>13, <2>1, <2>2
<1>16. ASSUME NEW t \in Faces PROVE Times(new, {t}) = 1
  <2>1. x \o p \in Seq(Faces) /\ x \o y \in Seq(Faces)
    BY <1>12a, ConcatProperties
  <2>2. Times(new, {t}) = Times(x \o p, {t}) + Times(z, {t}) /\ Times(axis, {t}) = Times(x \o y, {t}) + Times(z, {t})
    <3>1. PICK g \in Seq(Faces), h \in Seq(Faces) : g = x \o p /\ h = x \o y
      BY <2>1
    <3>2. Times(g \o z, {t}) = Times(g, {t}) + Times(z, {t})
      BY <1>12a, TimesConcat
    <3>3. Times(h \o z, {t}) = Times(h, {t}) + Times(z, {t})
      BY <1>12a, TimesConcat
    <3> QED
      BY <1>10, <1>13, <3>1, <3>2, <3>3
  <2>3. Times(x \o p, {t}) = Times(x, {t}) + Times(p, {t}) /\ Times(x \o y, {t}) = Times(x, {t}) + Times(y, {t})
    <3>1. Times(x \o p, {t}) = Times(x, {t}) + Times(p, {t})
      BY <1>12a, TimesConcat
    <3>2. Times(x \o y, {t}) = Times(x, {t}) + Times(y, {t})
      BY <1>12a, TimesConcat
    <3> QED
      BY <3>1, <3>2
  <2>4. Times(p, {t}) = Times(y, {t})
    BY <1>12, Zenon
  <2> QED
    BY <1>1, <2>2, <2>3, <2>4
<1> QED
  BY <1>2, <1>14, <1>15, <1>16 DEF IsOrder

LEMMA PivotFacts ==
  ASSUME Arguments, NEW r, NEW a \in Nat, NEW n \in Nat \ {0}, a = r.first, n = r.count, ~Fits(r), NEW s \in Pivots(r)
  PROVE  s \in Nat \ {0} /\ n - s \in Nat \ {0}
<1>1. PICK min \in Nat \ {0} :
         \E end : s \in min .. end /\ (end = n - min \/ end = n - 1)
  <2>1. PICK min : min = IF r.count <= call.maxTriangles /\ call.maxVertices \div 3 < call.minTriangles
                         THEN call.maxVertices \div 3 ELSE call.minTriangles
    OBVIOUS
  <2>2. min \in Nat \ {0}
    <3>1. call.maxVertices \in Nat /\ call.maxVertices >= 3 /\ call.minTriangles \in Nat \ {0}
      BY InputFacts
    <3>2. call.maxVertices \div 3 \in Nat \ {0}
      BY <3>1
    <3> QED
      BY <2>1, <3>1, <3>2
  <2>3. \E end : s \in min .. end /\ (end = n - min \/ end = n - 1)
    BY <2>1 DEF Pivots
  <2> QED
    BY <2>2, <2>3
<1>2. PICK end : s \in min .. end /\ (end = n - min \/ end = n - 1)
  BY <1>1
<1> QED
  BY <1>2

LEMMA SplitRangeStep ==
  ASSUME IInv, SplitRange
  PROVE  IInv'
<1>1. Arguments /\ Spatial
  BY DEF IInv
<1>2. PICK k \in 1..3, s \in Pivots(Head(ranges)) :
         phase = "split" /\ ranges # <<>> /\ ~Fits(Head(ranges)) /\ SplitAt(k, s)
  BY DEF SplitRange
<1>3. PICK r : r = Head(ranges)
  OBVIOUS
<1>4. PICK left : axes' = [j \in 1..3 |-> PartitionAxis(axes[j], r, left)]
  BY <1>2, <1>3 DEF SplitAt
<1>5. /\ phase' = "split" /\ mesh' = mesh /\ call' = call /\ order' = order /\ boundary' = boundary
      /\ ranges' = <<[first |-> r.first, count |-> s, depth |-> r.depth + 1],
                     [first |-> r.first + s, count |-> r.count - s, depth |-> r.depth + 1]>> \o Tail(ranges)
      /\ UNCHANGED <<mesh, call, outVars, flexVars>>
  BY <1>2, <1>3 DEF SplitAt, outVars
<1>6. IsOrder(axes[1]) /\ Tiled /\ Boundaries /\ order = <<>>
  BY <1>1, <1>2 DEF Spatial
<1>7. PICK a \in Nat \ {0}, c \in Nat \ {0}, d \in Nat :
         /\ a = r.first /\ c = r.count /\ d = r.depth /\ r = ranges[1]
         /\ a = Reached /\ a + c <= FaceCount + 1
  BY <1>1, <1>2, <1>3, <1>6, HeadRange
<1>8. s \in Nat \ {0} /\ c - s \in Nat \ {0}
  BY <1>1, <1>2, <1>3, <1>7, PivotFacts
<1>9. PICK b \in Nat \ {0} : b = c - s /\ s + b = c
  BY <1>8
<1>10. PICK r1, r2 : /\ r1 = [first |-> a, count |-> s, depth |-> d + 1]
                     /\ r2 = [first |-> a + s, count |-> b, depth |-> d + 1]
  OBVIOUS
<1>11. /\ r1 \in RangeType /\ r1.first = a /\ r1.count = s
       /\ r2 \in RangeType /\ r2.first = a + s /\ r2.count = b
  BY <1>8, <1>10 DEF RangeType
<1>12. ranges' = <<r1, r2>> \o Tail(ranges)
  BY <1>5, <1>7, <1>9, <1>10
<1>13. PICK rest \in Seq(RangeType), m \in Nat :
          /\ rest = Tail(ranges) /\ Len(rest) = m /\ Len(ranges) = m + 1
          /\ \A i \in 1..m : rest[i] = ranges[i + 1]
  <2>1. ranges \in Seq(RangeType)
    BY <1>6 DEF Tiled
  <2>2. /\ Tail(ranges) \in Seq(RangeType) /\ Len(ranges) \in Nat /\ Len(ranges) >= 1
        /\ Len(Tail(ranges)) = Len(ranges) - 1 /\ \A i \in 1 .. Len(Tail(ranges)) : Tail(ranges)[i] = ranges[i + 1]
    BY <1>2, <2>1, Dequeue
  <2>3. PICK m \in Nat : m = Len(ranges) - 1 /\ Len(ranges) = m + 1
    <3>1. Len(ranges) - 1 \in Nat /\ Len(ranges) = (Len(ranges) - 1) + 1
      BY <2>2
    <3> QED
      BY <3>1
  <2> QED
    BY <2>2, <2>3
<1>14. PICK q : q = ranges'
  OBVIOUS
<1>15. /\ q \in Seq(RangeType) /\ Len(q) = m + 2 /\ q[1] = r1 /\ q[2] = r2
       /\ \A i \in 1..m : q[i + 2] = ranges[i + 1]
  <2>1. PICK two \in Seq(RangeType) : two = <<r1, r2>> /\ Len(two) = 2 /\ two[1] = r1 /\ two[2] = r2
    <3>1. r1 \in RangeType /\ r2 \in RangeType
      BY <1>11
    <3>2. <<r1, r2>> \in Seq(RangeType)
      BY <3>1
    <3> QED
      BY <3>2
  <2>2. q = two \o rest
    BY <1>12, <1>13, <1>14, <2>1
  <2>3. /\ q \in Seq(RangeType) /\ Len(q) = 2 + m
        /\ \A i \in 1 .. 2 + m : q[i] = IF i <= 2 THEN two[i] ELSE rest[i - 2]
    BY <1>13, <2>1, <2>2, ConcatProperties
  <2>4. ASSUME NEW i \in 1..m PROVE q[i + 2] = ranges[i + 1]
    <3>1. i + 2 \in 1 .. 2 + m /\ ~(i + 2 <= 2) /\ (i + 2) - 2 = i
      OBVIOUS
    <3>2. q[i + 2] = rest[i]
      BY <2>3, <3>1
    <3> QED
      BY <1>13, <3>2
  <2>5. q[1] = two[1] /\ q[2] = two[2]
    BY <2>3
  <2> QED
    BY <2>1, <2>3, <2>4, <2>5
<1>16. Reached' = a
  <2>1. q # <<>>
    BY <1>15
  <2> QED
    BY <1>11, <1>14, <1>15, <2>1 DEF Reached
<1>17. Tiled'
  <2>1. \A i \in 1 .. m + 1 :
          /\ ranges[i].first + ranges[i].count <= FaceCount + 1
          /\ ranges[i].first + ranges[i].count = IF i = m + 1 THEN FaceCount + 1 ELSE ranges[i + 1].first
    BY <1>6, <1>13 DEF Tiled
  <2>2. ASSUME NEW i \in 1 .. m + 2
        PROVE  /\ q[i].first + q[i].count <= FaceCount + 1
               /\ q[i].first + q[i].count = IF i = m + 2 THEN FaceCount + 1 ELSE q[i + 1].first
    <3>1. CASE i = 1
      <4>1. q[1].first + q[1].count = a + s /\ q[1 + 1].first = a + s /\ a + s <= FaceCount + 1 /\ 1 # m + 2
        <5>1. PICK f \in Nat : f = FaceCount
          BY <1>1, InputFacts
        <5>2. a + s <= f + 1
          <6>1. a + c <= f + 1
            BY <1>7, <5>1
          <6> QED
            BY <1>8, <1>9, <6>1
        <5> QED
          BY <1>11, <1>15, <5>1, <5>2
      <4> QED
        BY <3>1, <4>1
    <3>2. CASE i = 2
      <4>1. q[2].first + q[2].count = a + c
        BY <1>8, <1>9, <1>11, <1>15
      <4>2. 1 \in 1 .. m + 1 /\ (1 = m + 1 <=> 2 = m + 2)
        OBVIOUS
      <4>3. a + c = IF 1 = m + 1 THEN FaceCount + 1 ELSE ranges[1 + 1].first
        BY <1>7, <2>1, <4>2
      <4>4. 1 # m + 1 => q[2 + 1] = ranges[1 + 1]
        <5>1. 1 # m + 1 => 1 \in 1..m /\ 1 + 2 = 2 + 1
          OBVIOUS
        <5> QED
          BY <1>15, <5>1
      <4> QED
        BY <1>7, <3>2, <4>1, <4>2, <4>3, <4>4
    <3>3. CASE i # 1 /\ i # 2
      <4>1. PICK j \in 1..m : i = j + 2
        <5>1. i - 2 \in 1..m /\ i = (i - 2) + 2
          BY <3>3
        <5> QED
          BY <5>1
      <4>2. q[i] = ranges[j + 1] /\ j + 1 \in 1 .. m + 1 /\ (j + 1 = m + 1 <=> i = m + 2)
        BY <1>15, <4>1
      <4>3. i # m + 2 => q[i + 1] = ranges[(j + 1) + 1]
        <5>1. SUFFICES ASSUME i # m + 2 PROVE q[i + 1] = ranges[(j + 1) + 1]
          OBVIOUS
        <5>2. PICK h \in 1..m : h = j + 1 /\ h + 2 = i + 1
          BY <4>1, <5>1
        <5> QED
          BY <1>15, <5>2
      <4> QED
        BY <2>1, <4>2, <4>3
    <3> QED
      BY <3>1, <3>2, <3>3
  <2>3. FaceCount' = FaceCount
    BY <1>5, Frozen
  <2>4. \A i \in 1 .. Len(q) : /\ q[i].first + q[i].count <= FaceCount + 1
                               /\ q[i].first + q[i].count = IF i = Len(q) THEN FaceCount + 1 ELSE q[i + 1].first
    BY <1>15, <2>2
  <2>5. ranges' \in Seq(RangeType) /\ Reached' >= 1
    BY <1>14, <1>15, <1>16
  <2>6. \A i \in 1 .. Len(ranges') :
          /\ ranges'[i].first + ranges'[i].count <= FaceCount' + 1
          /\ ranges'[i].first + ranges'[i].count
               = IF i = Len(ranges') THEN FaceCount' + 1 ELSE ranges'[i + 1].first
    BY <1>14, <2>3, <2>4
  <2> QED
    BY <2>5, <2>6 DEF Tiled
<1>18. PICK axis, new : axis = axes[1] /\ new = axes'[1] /\ new = PartitionAxis(axis, r, left)
  BY <1>4
<1>19. IsOrder(new) /\ \A i \in 1 .. a - 1 : new[i] = axis[i]
  BY <1>1, <1>6, <1>7, <1>18, PartitionFacts
<1>20. IsOrder(axes[1])'
  BY <1>5, <1>18, <1>19, SpatialFrozen
<1>21. Boundaries'
  <2>1. ASSUME NEW x \in Nat \ {0}, NEW y \in Nat, x < y, y <= a, Chunked(x, y) PROVE Chunked(x, y)'
    <3>1. PICK l \in Nat : l = y - x
      BY <2>1
    <3>2. CountedCorners(new, x, l) = CountedCorners(axis, x, l)
      <4>1. ASSUME NEW i \in x .. x + l - 1 PROVE new[i] = axis[i]
        <5>1. i \in 1 .. a - 1
          BY <2>1, <3>1
        <5> QED
          BY <1>19, <5>1
      <4>2. x \in Nat /\ \A i \in x .. x + l - 1 : new[i] = axis[i]
        BY <4>1
      <4> QED
        <5>1. Alike(new, axis, x, l)
          BY <4>2 DEF Alike
        <5> QED
          BY <4>2, <5>1, CountSame
    <3>3. CountVertices(x, l)' = Cardinality(CountedCorners(axes[1], x, l))'
      BY DEF CountVertices, CountedCorners
    <3>4. CountedCorners(axes[1], x, l)' = CountedCorners(new, x, l)
      BY <1>5, <1>18 DEF CountedCorners, Corners
    <3>5. CountVertices(x, l)' = CountVertices(x, l)
      BY <1>18, <3>2, <3>3, <3>4, CountForm
    <3> QED
      BY <1>5, <2>1, <3>1, <3>5 DEF Chunked
  <2>2. /\ boundary \subseteq 1 .. a - 1 /\ 1 \in boundary \cup {a}
        /\ \A x \in boundary : \E y \in boundary \cup {a} : x < y /\ Chunked(x, y)
    BY <1>6, <1>7 DEF Boundaries
  <2>3. ASSUME NEW x \in boundary PROVE \E y \in boundary \cup {a} : x < y /\ Chunked(x, y)'
    <3>1. PICK y \in boundary \cup {a} : x < y /\ Chunked(x, y)
      BY <2>2
    <3>2. x \in Nat \ {0} /\ y \in Nat /\ y <= a
      BY <2>2
    <3> QED
      BY <2>1, <3>1, <3>2
  <2> QED
    BY <1>5, <1>16, <2>2, <2>3 DEF Boundaries
<1>22. Spatial'
  <2>1. boundary' \subseteq Faces'
    BY <1>1, <1>5, Frozen DEF Spatial
  <2> QED
    BY <1>5, <1>6, <1>17, <1>20, <1>21, <2>1 DEF Spatial
<1> QED
  BY <1>2, <1>5, <1>22, SplitKeeps

-----------------------------------------------------------------------------
(* Every step *)

LEMMA StutterStep ==
  ASSUME IInv, UNCHANGED vars
  PROVE  IInv'
<1>1. Arguments /\ Phases /\ Output /\ Current /\ (phase = "flex" => Lists) /\ Spatial /\ Bounded
  BY DEF IInv
<1>2. /\ phase' = phase /\ mesh' = mesh /\ call' = call /\ used' = used /\ meshlet' = meshlet
      /\ meshlets' = meshlets /\ meshletVertices' = meshletVertices /\ meshletTriangles' = meshletTriangles
      /\ order' = order /\ neighbors' = neighbors /\ seeds' = seeds
      /\ axes' = axes /\ ranges' = ranges /\ boundary' = boundary
  BY DEF vars, outVars, flexVars, spatialVars
<1>3. Arguments' /\ Phases' /\ Current'
  BY <1>1, <1>2, Frozen DEF Phases, Current
<1>4. Output'
  <2>1. Ready(meshlet, used, meshletVertices, meshletTriangles, order)'
          = Ready(meshlet, used, meshletVertices, meshletTriangles, order)
    BY <1>2, Frozen
  <2>2. \A front : Closed(front, meshlet, meshletVertices, meshletTriangles, order)'
                     = Closed(front, meshlet, meshletVertices, meshletTriangles, order)
    BY <1>2, Frozen
  <2> QED
    BY <1>1, <1>2, <2>1, <2>2 DEF Output
<1>5. Lists' = Lists
  <2>1. Faces' = Faces /\ Vertices' = Vertices /\ Live' = Live
    BY <1>2, Frozen DEF Live
  <2>2. \A t, v : Multiplicity(t, v)' = Multiplicity(t, v)
    BY <1>2 DEF Multiplicity
  <2>3. \A v, t : Times(neighbors[v], {t})' = Times(neighbors[v], {t})
    BY <1>2 DEF Times
  <2> QED
    BY <1>2, <2>1, <2>2, <2>3 DEF Lists
<1>6. Spatial'
  <2>1. IsOrder(axes[1])' = IsOrder(axes[1]) /\ Tiled' = Tiled /\ Boundaries' = Boundaries
    BY <1>2, SpatialFrozen
  <2> QED
    BY <1>1, <1>2, <2>1, Frozen DEF Spatial
<1>7. Bounded'
  <2>1. Limit' = Limit /\ Share' = Share
    BY <1>2, Frozen
  <2>2. Paid' = Paid
    BY <1>2, <2>1 DEF Paid
  <2>3. Aligned' = Aligned
    <3>1. Pending(Len(order) + 1)' = Pending(Len(order) + 1)
      BY <1>2 DEF Pending
    <3>2. \A s : CountVertices(s, Len(order) + 1 - s)' = CountVertices(s, Len(order) + 1 - s)
      BY <1>2, SpatialFrozen
    <3> QED
      BY <1>2, <2>1, <3>1, <3>2 DEF Aligned
  <2> QED
    BY <1>1, <1>2, <2>1, <2>2, <2>3 DEF Bounded
<1> QED
  BY <1>1, <1>2, <1>3, <1>4, <1>5, <1>6, <1>7 DEF IInv

LEMMA NextStep == IInv /\ [Next]_vars => IInv'
<1> SUFFICES ASSUME IInv, [Next]_vars PROVE IInv'
  OBVIOUS
<1>1. CASE ScanNext
  BY <1>1, ScanTriangleStep, ScanFinishStep DEF ScanNext
<1>2. CASE FlexNext
  BY <1>2, FlexStep
<1>3. CASE SplitLeaf \/ SplitTail \/ SplitRange \/ SplitDone
  BY <1>3, SplitLeafStep, SplitTailStep, SplitRangeStep, SplitDoneStep
<1>4. CASE PackTriangle \/ PackFinish
  BY <1>4, PackTriangleStep, PackFinishStep
<1>5. CASE UNCHANGED vars
  BY <1>5, StutterStep
<1> QED
  BY <1>1, <1>2, <1>3, <1>4, <1>5 DEF Next, SpatialNext, Returned

-----------------------------------------------------------------------------
(* What the invariant implies *)

LEMMA InvTypeOK == IInv => TypeOK
<1> SUFFICES ASSUME IInv PROVE TypeOK
  OBVIOUS
<1>1. Arguments /\ Phases /\ Output /\ Spatial
  BY DEF IInv
<1>2. phase \in {"scan", "flex", "split", "pack", "done"}
  BY <1>1, InputFacts DEF Phases
<1>3. /\ meshletVertices \in Seq(Vertices) /\ meshletTriangles \in Seq(Nat) /\ order \in Seq(Faces)
      /\ used \in [Vertices -> -1 .. call.maxVertices - 1]
  BY <1>1 DEF Output, Ready, Places
<1>4. boundary \subseteq Faces
  BY <1>1 DEF Spatial
<1> QED
  BY <1>2, <1>3, <1>4 DEF TypeOK

LEMMA InvBookkeeping == IInv => Bookkeeping
<1> SUFFICES ASSUME IInv PROVE Bookkeeping
  OBVIOUS
<1>1. Arguments /\ Output /\ Current /\ (phase = "flex" => Lists)
  BY DEF IInv
<1>2. Ready(meshlet, used, meshletVertices, meshletTriangles, order)
  BY <1>1 DEF Output
<1>3. PICK vo \in Nat, vc \in Nat : vo = meshlet.vertexOffset /\ vc = meshlet.vertexCount
  BY <1>2 DEF Ready, Reads, MeshletType
<1>4. /\ \A i \in 0 .. vc - 1 : used[meshletVertices[vo + i + 1]] = i
      /\ \A v \in Vertices : used[v] >= 0 => used[v] < vc /\ meshletVertices[vo + used[v] + 1] = v
      /\ \A v \in Vertices : used[v] \in Int
  <2>1. Places(used, meshlet, meshletVertices)
    BY <1>2 DEF Ready
  <2>2. used \in [Vertices -> -1 .. call.maxVertices - 1] /\ call.maxVertices \in Nat
    BY <1>1, <2>1, InputFacts DEF Places
  <2>3. \A v \in Vertices : used[v] \in Int
    <3>1. PICK m \in Int : m = call.maxVertices - 1
      BY <2>2
    <3> QED
      BY <2>2, <3>1
  <2> QED
    BY <1>3, <2>1, <2>3 DEF Places
<1>5. \A i \in 0 .. meshlet.vertexCount - 1 : used[MeshletVertex(meshlet, i)] = i
  BY <1>3, <1>4 DEF MeshletVertex
<1>6. ASSUME NEW v \in Vertices PROVE used[v] >= 0 <=> v \in VerticesOf(meshlet)
  <2>1. VerticesOf(meshlet) = {meshletVertices[vo + i + 1] : i \in 0 .. vc - 1}
    BY <1>3 DEF VerticesOf, MeshletVertex
  <2>2. ASSUME used[v] >= 0 PROVE v \in VerticesOf(meshlet)
    <3>1. PICK i \in 0 .. vc - 1 : i = used[v]
      BY <1>4, <2>2
    <3> QED
      BY <1>4, <2>1, <2>2, <3>1
  <2>3. ASSUME v \in VerticesOf(meshlet) PROVE used[v] >= 0
    <3>1. PICK i \in 0 .. vc - 1 : v = meshletVertices[vo + i + 1]
      BY <2>1, <2>3
    <3>2. used[meshletVertices[vo + i + 1]] = i
      BY <1>4
    <3> QED
      BY <3>1, <3>2
  <2> QED
    BY <2>2, <2>3
<1>7. ASSUME phase = "flex"
      PROVE  /\ \A v \in Vertices, t \in Faces :
                  Cardinality({i \in DOMAIN neighbors[v] : neighbors[v][i] = t})
                    = IF t \in Live THEN Cardinality({k \in 1..3 : mesh.indices[t][k] = v}) ELSE 0
             /\ \A t \in MeshletNeighbors : Extra(t) <= 2
             /\ Len(seeds) <= MaxSeeds
  <2>1. Lists
    BY <1>1, <1>7
  <2>2. ASSUME NEW v \in Vertices, NEW t \in Faces
        PROVE  Cardinality({i \in DOMAIN neighbors[v] : neighbors[v][i] = t})
                 = IF t \in Live THEN Cardinality({k \in 1..3 : mesh.indices[t][k] = v}) ELSE 0
    <3>1. Times(neighbors[v], {t}) = IF t \in Live THEN Multiplicity(t, v) ELSE 0
      BY <2>1 DEF Lists
    <3>2. PICK list \in Seq(Faces) : list = neighbors[v]
      BY <2>1 DEF Lists
    <3>3. {i \in DOMAIN list : list[i] = t} = {i \in 1 .. Len(list) : list[i] \in {t}}
      BY LenProperties
    <3>4. Cardinality({i \in DOMAIN list : list[i] = t}) = Times(list, {t})
      BY <3>3 DEF Times
    <3> QED
      BY <3>1, <3>2, <3>4 DEF Multiplicity
  <2>3. ASSUME NEW t \in MeshletNeighbors PROVE Extra(t) <= 2
    <3>1. t \in Live /\ \E k \in 1..3 : mesh.indices[t][k] \in VerticesOf(meshlet)
      BY <1>1, <1>2, <2>1, NeighborsLive
    <3>2. t \in Faces
      BY <3>1 DEF Live
    <3>3. PICK k \in 1..3 : used[mesh.indices[t][k]] >= 0 /\ used[mesh.indices[t][k]] \in Int
      BY <1>1, <1>4, <1>6, <3>1, <3>2, CornerFacts
    <3>4. k \notin Fresh(t, used)
      BY <3>3 DEF Fresh
    <3>5. Fresh(t, used) \in SUBSET (1..3)
      BY DEF Fresh
    <3>6. Cardinality(Fresh(t, used)) <= 2
      <4>1. PICK F \in SUBSET (1..3) : F = Fresh(t, used)
        BY <3>5
      <4>2. Cardinality(F) = (IF 1 \in F THEN 1 ELSE 0) + (IF 2 \in F THEN 1 ELSE 0) + (IF 3 \in F THEN 1 ELSE 0)
        BY CountThree
      <4>3. 1 \notin F \/ 2 \notin F \/ 3 \notin F
        BY <3>4, <4>1
      <4> QED
        BY <4>1, <4>2, <4>3
    <3> QED
      BY <1>1, <1>2, <3>2, <3>6, FullFacts
  <2> QED
    BY <2>1, <2>2, <2>3 DEF Lists
<1> QED
  BY <1>5, <1>6, <1>7, InvTypeOK DEF Bookkeeping


\* A meshlet that can be read stands for the triangles that were appended to it.
LEMMA ReadsDecoded ==
  ASSUME Arguments, order \in Seq(Faces), NEW m, Reads(m, meshletVertices, meshletTriangles, order),
         NEW j \in 1 .. m.triangleCount
  PROVE  Decoded(m)[j] = mesh.indices[order[m.triangleOffset \div 3 + j]]
<1>1. PICK q \in Nat :
         /\ m.triangleOffset = 3 * q /\ q + m.triangleCount <= Len(order)
         /\ \A i \in q + 1 .. q + m.triangleCount : Holds(m, meshletVertices, meshletTriangles, order, i)
  BY DEF Reads
<1>2. PICK tc \in Nat, l \in Nat : tc = m.triangleCount /\ l = Len(order) /\ q + tc <= l
  BY <1>1, LenProperties DEF Reads, MeshletType
<1>3. m.triangleOffset \div 3 = q /\ q + j \in q + 1 .. q + tc /\ q + j \in 1..l
  BY <1>1, <1>2
<1>4. Holds(m, meshletVertices, meshletTriangles, order, q + j)
  BY <1>1, <1>2, <1>3
<1>5. PICK t \in Faces : t = order[q + j]
  BY <1>2, <1>3, ElementOfSeq
<1>6. \A k \in 1..3 : meshletVertices[m.vertexOffset + meshletTriangles[3 * (q + j - 1) + k] + 1] = mesh.indices[t][k]
  <2>1. (q + j) - 1 = q + j - 1
    OBVIOUS
  <2> QED
    BY <1>4, <1>5, <2>1 DEF Holds
<1>7. Decoded(m)[j] = [k \in 1..3 |-> MeshletVertex(m, meshletTriangles[m.triangleOffset + 3 * (j - 1) + k])]
  BY DEF Decoded
<1>8. ASSUME NEW k \in 1..3
      PROVE  MeshletVertex(m, meshletTriangles[m.triangleOffset + 3 * (j - 1) + k]) = mesh.indices[t][k]
  <2>1. m.triangleOffset + 3 * (j - 1) + k = 3 * (q + j - 1) + k
    BY <1>1, <1>2
  <2> QED
    BY <1>6, <2>1 DEF MeshletVertex
<1>9. mesh.indices[t] = [k \in 1..3 |-> mesh.indices[t][k]]
  BY CornerFacts
<1> QED
  BY <1>3, <1>5, <1>7, <1>8, <1>9

LEMMA LimitType ==
  ASSUME Arguments
  PROVE  Limit \in Nat
<1>1. \A a \in Nat, b \in Nat \ {0} : (a + b - 1) \div b \in Nat
  OBVIOUS
<1>2. PICK f \in Nat : f = Cardinality(Faces) /\ 3 * f \in Nat
  BY FaceNumber, InputFacts
<1>3. call.maxVertices - 2 \in Nat \ {0} /\ Enough \in Nat \ {0}
  BY InputFacts, EnoughFacts
<1>4. Ceil(3 * f, call.maxVertices - 2) \in Nat /\ Ceil(f, Enough) \in Nat
  BY <1>1, <1>2, <1>3 DEF Ceil
<1> QED
  BY <1>2, <1>4 DEF Limit, Bound

LEMMA InvLimit == IInv => Len(meshlets) <= Limit
<1> SUFFICES ASSUME IInv PROVE Len(meshlets) <= Limit
  OBVIOUS
<1>1. Arguments /\ Phases /\ Output /\ Current /\ Spatial /\ Bounded
  BY DEF IInv
<1>2. Limit \in Nat
  BY <1>1, LimitType
<1>3. CASE phase = "done"
  BY <1>1, <1>3 DEF Bounded
<1>4. CASE phase # "done" /\ order = <<>>
  <2>1. Len(meshlets) = 0
    BY <1>1, <1>4 DEF Current
  <2> QED
    BY <1>2, <2>1
<1>5. CASE phase # "done" /\ order # <<>>
  <2>1. meshlets \in Seq(MeshletType) /\ Len(meshlets) \in Nat
    BY <1>1, <1>5, LenProperties DEF Output
  <2>2. CASE Paid
    BY <1>1, <1>2, <1>5, <2>1, <2>2, PaidLimit
  <2>3. CASE Aligned
    <3>1. Len(meshlets) + 1 + Cardinality(Pending(Len(order) + 1)) <= Limit
      BY <2>3 DEF Aligned
    <3>2. Cardinality(Pending(Len(order) + 1)) \in Nat
      <4>1. PICK f \in Nat : f = FaceCount /\ Faces = 1..f
        BY <1>1, InputFacts
      <4>2. Pending(Len(order) + 1) \in SUBSET (1..f)
        BY <1>1, <4>1 DEF Spatial, Pending
      <4>3. IsFiniteSet(Pending(Len(order) + 1))
        BY <4>2, Indices, FS_Subset
      <4> QED
        BY <4>3, FS_CardinalityType
    <3> QED
      BY <1>2, <2>1, <3>1, <3>2
  <2>4. phase \in {"scan", "flex", "pack"}
    <3>1. phase \in {"scan", "flex", "split", "pack", "done"}
      BY <1>1, InputFacts DEF Phases
    <3>2. phase # "split"
      BY <1>1, <1>5 DEF Spatial
    <3> QED
      BY <1>5, <3>1, <3>2
  <2> QED
    BY <1>1, <1>5, <2>2, <2>3, <2>4 DEF Bounded
<1> QED
  BY <1>3, <1>4, <1>5

LEMMA InvComplete == IInv => Complete
<1> SUFFICES ASSUME IInv PROVE Complete
  OBVIOUS
<1>1. Arguments /\ Phases /\ Output /\ Current
  BY DEF IInv
<1>2. /\ Ready(meshlet, used, meshletVertices, meshletTriangles, order)
      /\ \A i, j \in 1 .. Len(order) : order[i] = order[j] => i = j
      /\ order # <<>> => meshlet.triangleCount >= 1
  BY <1>1 DEF Output
<1>3. PICK front \in Seq(MeshletType) :
         /\ meshlets = IF phase = "done" THEN Append(front, meshlet) ELSE front
         /\ Closed(front, meshlet, meshletVertices, meshletTriangles, order)
  BY <1>1 DEF Output
<1>4. /\ meshlet \in MeshletType /\ order \in Seq(Faces)
      /\ Reads(meshlet, meshletVertices, meshletTriangles, order)
      /\ VertexEnd(meshlet) = Len(meshletVertices) /\ TriangleEnd(meshlet) = 3 * Len(order)
  BY <1>2 DEF Ready, Reads
<1>5. PICK all : all = Append(front, meshlet)
  OBVIOUS
<1>6. AllMeshlets = all
  BY <1>3, <1>5 DEF AllMeshlets
<1>7. PICK n \in Nat : n = Len(front)
  BY LenProperties
<1>8. /\ all \in Seq(MeshletType) /\ Len(all) = n + 1 /\ all[n + 1] = meshlet
      /\ \A i \in 1..n : all[i] = front[i]
  BY <1>4, <1>5, <1>7, Enqueue
<1>9. DOMAIN all = 1 .. n + 1
  BY <1>8, LenProperties
<1>10. phase = "done" => order # <<>>
  <2>1. 1 \in Faces
    BY <1>1, InputFacts
  <2>2. Range(<<>>) = {}
    BY DEF Range
  <2> QED
    BY <1>1, <2>1, <2>2 DEF Current
<1>11. Len(meshlets) = IF phase = "done" THEN n + 1 ELSE n
  BY <1>3, <1>5, <1>7, <1>8
<1>12. ASSUME NEW i \in 1..n
       PROVE  /\ Reads(all[i], meshletVertices, meshletTriangles, order) /\ StartsAt(all[i], i, all)
              /\ all[i].triangleCount >= 1 /\ (call.mode # "split" => WellFilled(all[i]))
  <2>1. /\ Reads(front[i], meshletVertices, meshletTriangles, order) /\ StartsAt(front[i], i, front)
        /\ front[i].triangleCount >= 1 /\ (call.mode # "split" => WellFilled(front[i]))
    BY <1>3, <1>7 DEF Closed
  <2>2. all[i] = front[i]
    BY <1>8
  <2>3. i # 1 => all[i - 1] = front[i - 1]
    <3>1. i # 1 => i - 1 \in 1..n
      OBVIOUS
    <3> QED
      BY <1>8, <3>1
  <2> QED
    BY <2>1, <2>2, <2>3 DEF StartsAt
<1>13. StartsAt(all[n + 1], n + 1, all)
  <2>1. StartsAt(meshlet, n + 1, front)
    BY <1>3, <1>7 DEF Closed
  <2>2. n + 1 # 1 => all[n + 1 - 1] = front[n + 1 - 1]
    <3>1. n + 1 # 1 => n + 1 - 1 \in 1..n
      OBVIOUS
    <3> QED
      BY <1>8, <3>1
  <2> QED
    BY <1>8, <2>1, <2>2 DEF StartsAt
<1>14. ASSUME NEW i \in 1 .. n + 1
       PROVE  /\ Reads(all[i], meshletVertices, meshletTriangles, order) /\ StartsAt(all[i], i, all)
              /\ i <= Len(meshlets) => all[i].triangleCount >= 1
              /\ i < n + 1 /\ call.mode # "split" => WellFilled(all[i])
  <2>1. CASE i \in 1..n
    BY <1>12, <2>1
  <2>2. CASE i = n + 1
    <3>1. Reads(all[i], meshletVertices, meshletTriangles, order) /\ StartsAt(all[i], i, all)
      BY <1>4, <1>8, <1>13, <2>2
    <3>2. i <= Len(meshlets) => all[i].triangleCount >= 1
      BY <1>2, <1>8, <1>10, <1>11, <2>2
    <3> QED
      BY <2>2, <3>1, <3>2
  <2> QED
    BY <2>1, <2>2
<1>15. ASSUME NEW i \in DOMAIN AllMeshlets, NEW m, m = AllMeshlets[i]
       PROVE  /\ \A j \in 1 .. m.triangleCount : Decoded(m)[j] = mesh.indices[order[m.triangleOffset \div 3 + j]]
              /\ m.vertexCount <= call.maxVertices /\ m.triangleCount <= call.maxTriangles
              /\ m.vertexOffset = IF i = 1 THEN 0 ELSE VertexEnd(AllMeshlets[i - 1])
              /\ m.triangleOffset = IF i = 1 THEN 0 ELSE TriangleEnd(AllMeshlets[i - 1])
              /\ i <= Len(meshlets) => m.triangleCount >= 1
              /\ i < Len(AllMeshlets) /\ call.mode # "split" =>
                   m.triangleCount >= call.minTriangles \/ m.vertexCount > call.maxVertices - 3
  <2>1. i \in 1 .. n + 1 /\ m = all[i] /\ Len(AllMeshlets) = n + 1
    BY <1>6, <1>8, <1>9, <1>15
  <2>2. /\ Reads(m, meshletVertices, meshletTriangles, order) /\ StartsAt(m, i, all)
        /\ i <= Len(meshlets) => m.triangleCount >= 1
        /\ i < n + 1 /\ call.mode # "split" => WellFilled(m)
    BY <1>14, <2>1
  <2>3. \A j \in 1 .. m.triangleCount : Decoded(m)[j] = mesh.indices[order[m.triangleOffset \div 3 + j]]
    BY <1>1, <1>4, <2>2, ReadsDecoded
  <2>4. m.vertexCount <= call.maxVertices /\ m.triangleCount <= call.maxTriangles
    BY <2>2 DEF Reads
  <2>5. /\ m.vertexOffset = IF i = 1 THEN 0 ELSE VertexEnd(AllMeshlets[i - 1])
        /\ m.triangleOffset = IF i = 1 THEN 0 ELSE TriangleEnd(AllMeshlets[i - 1])
    BY <1>6, <2>2 DEF StartsAt
  <2>6. WellFilled(m) => m.triangleCount >= call.minTriangles \/ m.vertexCount > call.maxVertices - 3
    <3>1. Enough \in Nat /\ call.minTriangles \in Nat /\ call.minTriangles <= Enough
      BY <1>1, InputFacts DEF Enough
    <3>2. m.triangleCount \in Nat
      BY <2>2 DEF Reads, MeshletType
    <3> QED
      BY <3>1, <3>2 DEF WellFilled
  <2> QED
    BY <2>1, <2>2, <2>3, <2>4, <2>5, <2>6
<1>16. AllMeshlets # <<>> /\ Last(AllMeshlets) = meshlet
  BY <1>6, <1>8 DEF Last
<1>17. IsInjective(order)
  <2>1. DOMAIN order = 1 .. Len(order)
    BY <1>4, LenProperties
  <2> QED
    BY <1>2, <2>1 DEF IsInjective
<1>18. phase = "done" => Range(order) = Faces
  BY <1>1 DEF Current
<1>19. Len(meshlets) <= Bound(Cardinality(Faces), call.maxVertices,
                              IF call.mode = "scan" THEN call.maxTriangles ELSE call.minTriangles)
  BY InvLimit DEF Limit, Enough
<1> QED
  BY <1>4, <1>15, <1>16, <1>17, <1>18, <1>19 DEF Complete

-----------------------------------------------------------------------------
(* kdtreePartition *)

\* Points with integer coordinates
Located == Int \X Int \X Int

\* Point t is below the mean of n points.
SmallerAt(points, axis, n, sum, t) == points[t][axis] * n < sum

\* One step of kdtreePartition
Swap(points, axis, n, sum, st, i) ==
  [list |-> [st.list EXCEPT ![st.m] = st.list[i], ![i] = st.list[st.m]],
   m |-> IF SmallerAt(points, axis, n, sum, st.list[i]) THEN st.m + 1 ELSE st.m]

\* The lists that kdtreePartition goes through
KdParts(list, points, axis, sum) ==
  CHOOSE h : h = [i \in 0 .. Len(list) |->
                    IF i = 0 THEN [list |-> list, m |-> 1]
                    ELSE Swap(points, axis, Len(list), sum, h[i - 1], i)]

\* KdPartition by the names used here
LEMMA KdPartitionForm ==
  \A list, points, axis, sum : KdPartition(list, points, axis, sum) = KdParts(list, points, axis, sum)[Len(list)]
  BY DEF KdPartition, KdParts, Swap, SmallerAt

\* The first n elements of a list
ValuesOf(list, n) == {list[i] : i \in 1..n}

\* After i elements: smaller ones are in front of m, the others up to i.
Parted(st, i, list, n, F, points, axis, sum) ==
  /\ st \in [list : [1..n -> F], m : 1..n + 1]
  /\ st.m <= i + 1
  /\ ValuesOf(st.list, n) = ValuesOf(list, n)
  /\ \A j \in 1 .. st.m - 1 : SmallerAt(points, axis, n, sum, st.list[j])
  /\ \A j \in st.m .. i : ~SmallerAt(points, axis, n, sum, st.list[j])

\* A swap leaves the list parted, with one element more.
LEMMA SwapParts ==
  ASSUME NEW n \in Nat, NEW F, NEW list, NEW points, NEW axis, NEW sum, NEW i \in 1..n, NEW st,
         Parted(st, i - 1, list, n, F, points, axis, sum)
  PROVE  Parted(Swap(points, axis, n, sum, st, i), i, list, n, F, points, axis, sum)
<1> DEFINE small(t) == SmallerAt(points, axis, n, sum, t)
<1>1. PICK q \in [1..n -> F], m \in 1..n + 1 : q = st.list /\ m = st.m
  BY DEF Parted
<1>2. /\ m <= i /\ m \in 1..n
      /\ ValuesOf(q, n) = ValuesOf(list, n)
      /\ \A j \in 1 .. m - 1 : small(q[j])
      /\ \A j \in m .. i - 1 : ~small(q[j])
  BY <1>1 DEF Parted
<1> DEFINE r == [q EXCEPT ![m] = q[i], ![i] = q[m]]
           k == IF small(q[i]) THEN m + 1 ELSE m
<1>3. Swap(points, axis, n, sum, st, i) = [list |-> r, m |-> k]
  BY <1>1 DEF Swap
<1>4. r \in [1..n -> F] /\ k \in 1..n + 1 /\ k <= i + 1
  BY <1>2
<1>5. r[i] = q[m] /\ r[m] = q[i] /\ \A j \in 1..n : j # i /\ j # m => r[j] = q[j]
  BY <1>2
<1> HIDE DEF r
<1>6. ValuesOf(r, n) = ValuesOf(list, n)
  <2>1. \A j \in 1..n : \E l \in 1..n : r[j] = q[l]
    BY <1>2, <1>5
  <2>2. \A j \in 1..n : \E l \in 1..n : q[j] = r[l]
    BY <1>2, <1>5
  <2>3. ValuesOf(r, n) = ValuesOf(q, n)
    <3>1. ASSUME NEW x \in ValuesOf(r, n) PROVE x \in ValuesOf(q, n)
      <4>1. PICK j \in 1..n : x = r[j]
        BY DEF ValuesOf
      <4> QED
        BY <2>1, <4>1 DEF ValuesOf
    <3>2. ASSUME NEW x \in ValuesOf(q, n) PROVE x \in ValuesOf(r, n)
      <4>1. PICK j \in 1..n : x = q[j]
        BY DEF ValuesOf
      <4> QED
        BY <2>2, <4>1 DEF ValuesOf
    <3> QED
      BY <3>1, <3>2
  <2> QED
    BY <1>2, <2>3
<1>7. ASSUME NEW j \in 1 .. k - 1 PROVE small(r[j])
  <2>1. CASE j < m
    <3>1. r[j] = q[j] /\ j \in 1..m - 1
      BY <1>2, <1>5, <2>1
    <3> QED
      BY <1>2, <3>1
  <2>2. CASE j >= m
    <3>1. small(q[i]) /\ j = m
      BY <1>2, <2>2
    <3> QED
      BY <1>5, <3>1
  <2> QED
    BY <1>2, <2>1, <2>2
<1>8. ASSUME NEW j \in k .. i PROVE ~small(r[j])
  <2>1. CASE j = i
    <3>1. CASE m = i
      <4>1. k = m /\ ~small(q[i])
        BY <1>2, <2>1, <3>1
      <4> QED
        BY <1>5, <2>1, <3>1, <4>1
    <3>2. CASE m # i
      <4>1. m \in m .. i - 1
        BY <1>2, <3>2
      <4> QED
        BY <1>2, <1>5, <2>1, <4>1
    <3> QED
      BY <3>1, <3>2
  <2>2. CASE j # i /\ j = m
    <3>1. ~small(q[i])
      BY <1>2, <2>2
    <3> QED
      BY <1>5, <2>2, <3>1
  <2>3. CASE j # i /\ j # m
    <3>1. j \in m .. i - 1 /\ r[j] = q[j]
      BY <1>2, <1>4, <1>5, <2>3
    <3> QED
      BY <1>2, <3>1
  <2> QED
    BY <2>1, <2>2, <2>3
<1> HIDE DEF k
<1> QED
  BY <1>3, <1>4, <1>6, <1>7, <1>8 DEF Parted

\* The elements of the list are divided into the ones below the mean and the others.
LEMMA KdPartitionFacts ==
  ASSUME NEW F, NEW list \in Seq(F), NEW points, NEW axis, NEW sum
  PROVE  Parted(KdPartition(list, points, axis, sum), Len(list), list, Len(list), F, points, axis, sum)
<1> DEFINE n == Len(list)
           U == [list : [1..n -> F], m : 1..n + 1]
           b == [list |-> list, m |-> 1]
           in(i, x) == Parted(x, i, list, n, F, points, axis, sum)
           xs == [i \in 0..n |-> {x \in U : in(i, x)}]
           f == [p \in (1..n) \X U |-> Swap(points, axis, n, sum, p[2], p[1])]
           Body(h) == [i \in 0..n |-> IF i = 0 THEN b ELSE Swap(points, axis, n, sum, h[i - 1], i)]
           k == KdParts(list, points, axis, sum)
<1>1. n \in Nat
  OBVIOUS
<1>2. b \in xs[0]
  <2>1. in(0, b)
    BY DEF Parted
  <2>2. b \in U
    OBVIOUS
  <2> QED
    BY <2>1, <2>2
<1>3. xs \in [0..n -> SUBSET U] /\ \A i \in 0..n : \A x : x \in xs[i] <=> in(i, x)
  BY DEF Parted
<1>4. \A i \in 1..n, x \in U : f[<<i, x>>] = Swap(points, axis, n, sum, x, i)
  OBVIOUS
<1>5. ASSUME NEW i \in 1..n, NEW x \in xs[i - 1] PROVE x \in U /\ f[<<i, x>>] \in xs[i]
  <2>1. i - 1 \in 0..n /\ i \in 0..n
    OBVIOUS
  <2>2. in(i - 1, x) /\ x \in U
    BY <1>3, <2>1
  <2>3. in(i, Swap(points, axis, n, sum, x, i))
    BY <1>1, <2>2, SwapParts
  <2> QED
    BY <1>3, <1>4, <2>1, <2>2, <2>3
<1> HIDE DEF n, U, b, xs, f
<1>6. PICK g \in [0..n -> U] : Recursive(g, n, b, f)
  <2>1. Advances(f, n, xs)
    BY <1>5 DEF Advances
  <2> QED
    BY <1>1, <1>2, <1>3, <2>1, StagedRecursion
<1>7. g = Body(g)
  <2>1. ASSUME NEW i \in 0..n PROVE g[i] = Body(g)[i]
    <3>1. CASE i = 0
      BY <1>6, <3>1 DEF Recursive
    <3>2. CASE i # 0
      <4>1. i \in 1..n /\ i - 1 \in 0..n
        BY <1>1, <3>2
      <4>2. g[i] = f[<<i, g[i - 1]>>]
        BY <1>6, <4>1 DEF Recursive
      <4> QED
        BY <1>4, <1>6, <3>2, <4>1, <4>2
    <3> QED
      BY <3>1, <3>2
  <2> QED
    BY <1>6, <2>1
<1>8. k = Body(k)
  <2>1. k = CHOOSE h : h = Body(h)
    BY DEF KdParts, b, n
  <2> HIDE DEF Body, k
  <2> QED
    BY <1>7, <2>1
<1>9. KeepsPace(k, n, b, f, xs)
  <2>1. \A i \in 0..n : Body(k)[i] = IF i = 0 THEN b ELSE Swap(points, axis, n, sum, k[i - 1], i)
    OBVIOUS
  <2> HIDE DEF Body, k
  <2>2. \A i \in 0..n : k[i] = IF i = 0 THEN b ELSE Swap(points, axis, n, sum, k[i - 1], i)
    BY <1>8, <2>1
  <2>3. 0 \in 0..n
    BY <1>1
  <2>4. ASSUME NEW i \in 1..n, k[i - 1] \in xs[i - 1] PROVE k[i] = f[<<i, k[i - 1]>>]
    <3>1. i \in 0..n /\ i # 0
      BY <1>1
    <3>2. k[i] = Swap(points, axis, n, sum, k[i - 1], i)
      BY <2>2, <3>1
    <3> QED
      BY <1>4, <1>5, <2>4, <3>2
  <2> QED
    BY <2>2, <2>3, <2>4 DEF KeepsPace
<1>10. k[n] \in xs[n]
  <2> HIDE DEF k
  <2>1. Advances(f, n, xs)
    BY <1>5 DEF Advances
  <2>2. InStages(k, n, xs)
    BY <1>1, <1>2, <1>9, <2>1, StageByStage
  <2>3. n \in 0..n
    BY <1>1
  <2> QED
    BY <2>2, <2>3 DEF InStages
<1>11. in(n, k[n])
  <2> HIDE DEF k
  <2>1. n \in 0..n
    BY <1>1
  <2> QED
    BY <1>3, <1>10, <2>1
<1> QED
  BY <1>11, KdPartitionForm DEF n

-----------------------------------------------------------------------------
(* kdtreeBuild *)

\* The points below a node that is the head of a leaf
LeafAt(kd, U, r) ==
  /\ r + kd[r].children - 1 <= Len(kd)
  /\ U[r] = {kd[r + i - 1].index : i \in 1 .. kd[r].children}

\* A branch has the points of both sides, which its mean divides.
BranchAt(kd, points, U, r) ==
  /\ kd[r].axis \in 1..3 /\ kd[r].count >= 1
  /\ r + 1 + kd[r].children <= Len(kd)
  /\ U[r] = U[r + 1] \cup U[r + 1 + kd[r].children]
  /\ \A t \in U[r + 1] : points[t][kd[r].axis] * kd[r].count <= kd[r].sum
  /\ \A t \in U[r + 1 + kd[r].children] : kd[r].sum <= points[t][kd[r].axis] * kd[r].count

\* What node r of a tree says of the points below it
NodeFits(kd, points, live, U, r) ==
  IF kd[r].children = 0 THEN U[r] \cap live = {}
  ELSE IF kd[r].axis = 0 THEN LeafAt(kd, U, r)
  ELSE BranchAt(kd, points, U, r)

\* U has the points below each node of the tree kd; below the ones that are switched off is no live one.
Labelled(kd, points, live, U) ==
  /\ kd \in Seq(KdNodes) /\ kd # <<>>
  /\ U \in [1 .. Len(kd) -> SUBSET (DOMAIN points)]
  /\ \A r \in 1 .. Len(kd) : NodeFits(kd, points, live, U, r)

\* kd is a tree of the points of S.
IsTree(kd, points, live, S) == \E U : Labelled(kd, points, live, U) /\ U[1] = S

\* Coordinates are integers.
LEMMA Coordinate ==
  ASSUME NEW points \in Seq(Located), NEW t \in DOMAIN points, NEW k \in 1..3
  PROVE  points[t][k] \in Int
<1>1. points[t] \in Located
  OBVIOUS
<1>2. points[t][1] \in Int /\ points[t][2] \in Int /\ points[t][3] \in Int
  BY <1>1 DEF Located
<1>3. k = 1 \/ k = 2 \/ k = 3
  OBVIOUS
<1> QED
  BY <1>2, <1>3

\* The split is along an axis, at a sum of coordinates.
LEMMA SplitAxisFacts ==
  ASSUME NEW points \in Seq(Located), NEW list \in Seq(DOMAIN points)
  PROVE  /\ SplitAxis(list, points).axis \in 1..3 /\ SplitAxis(list, points).sum \in Int
<1> DEFINE value(i, k) == points[list[i]][k]
           total(k) == SumFunctionOnSet([i \in DOMAIN list |-> value(i, k)], DOMAIN list)
           squares(k) == SumFunctionOnSet([i \in DOMAIN list |-> value(i, k) * value(i, k)], DOMAIN list)
           var(k) == Len(list) * squares(k) - total(k) * total(k)
           axis == IF var(1) >= var(2) /\ var(1) >= var(3) THEN 1 ELSE IF var(2) >= var(3) THEN 2 ELSE 3
<1>1. SplitAxis(list, points) = [axis |-> axis, sum |-> total(axis)]
  BY DEF SplitAxis
<1>2. ASSUME NEW k \in 1..3 PROVE total(k) \in Int
  <2> DEFINE f == [i \in DOMAIN list |-> value(i, k)]
  <2>1. IsFiniteSet(DOMAIN list)
    <3>1. DOMAIN list = 1 .. Len(list) /\ Len(list) \in Nat
      OBVIOUS
    <3> QED
      BY <3>1, Indices
  <2>2. \A i \in DOMAIN list : f[i] \in Int
    <3> SUFFICES ASSUME NEW i \in DOMAIN list PROVE points[list[i]][k] \in Int
      OBVIOUS
    <3>1. list[i] \in DOMAIN points
      OBVIOUS
    <3> QED
      BY <1>2, <3>1, Coordinate
  <2> HIDE DEF f
  <2>3. SumFunctionOnSet(f, DOMAIN list) \in Int
    BY <2>1, <2>2, SumType
  <2> QED
    BY <2>3 DEF f
<1>3. axis \in 1..3
  <2> HIDE DEF var
  <2> QED
    OBVIOUS
<1> HIDE DEF axis, total
<1> QED
  BY <1>1, <1>2, <1>3

\* A leaf is a tree of the points of its list.
LEMMA LeafFacts ==
  ASSUME NEW points \in Seq(Located), NEW list \in Seq(DOMAIN points)
  PROVE  /\ Leaf(list) \in Seq(KdNodes)
         /\ list # <<>> => IsTree(Leaf(list), points, DOMAIN points, ValuesOf(list, Len(list)))
<1>1. PICK n \in Nat : n = Len(list) /\ DOMAIN list = 1..n
  OBVIOUS
<1>2. DOMAIN points \subseteq Nat
  OBVIOUS
<1>3. PICK kd : kd = Leaf(list)
  OBVIOUS
<1>4. kd = [i \in 1..n |-> [axis |-> 0, index |-> list[i], sum |-> 0, count |-> 1,
                            children |-> IF i = 1 THEN n ELSE 0]]
  BY <1>1, <1>3 DEF Leaf
<1>5. \A i \in 1..n : kd[i] \in KdNodes /\ kd[i].axis = 0 /\ kd[i].index = list[i]
                      /\ kd[i].children = (IF i = 1 THEN n ELSE 0) 
  BY <1>1, <1>2, <1>4 DEF KdNodes
<1>6. kd \in Seq(KdNodes) /\ Len(kd) = n
  <2>1. kd \in [1..n -> KdNodes]
    BY <1>4, <1>5
  <2> QED
    BY <2>1
<1>7. ASSUME list # <<>> PROVE IsTree(kd, points, DOMAIN points, ValuesOf(list, n))
  <2> DEFINE U == [i \in 1..n |-> IF i = 1 THEN ValuesOf(list, n) ELSE {}]
  <2>1. n >= 1 /\ kd # <<>>
    BY <1>1, <1>6, <1>7
  <2>2. ValuesOf(list, n) \in SUBSET (DOMAIN points)
    BY <1>1 DEF ValuesOf
  <2>3. U \in [1..n -> SUBSET (DOMAIN points)]
    BY <2>2
  <2>4. ASSUME NEW r \in 1..n PROVE NodeFits(kd, points, DOMAIN points, U, r)
    <3>1. CASE r = 1
      <4>1. LeafAt(kd, U, 1)
        <5>1. {kd[1 + i - 1].index : i \in 1..n} = {list[i] : i \in 1..n}
          <6>1. \A i \in 1..n : kd[1 + i - 1].index = list[i]
            BY <1>5
          <6> QED
            BY <6>1
        <5>2. kd[1].children = n /\ U[1] = ValuesOf(list, n)
          BY <1>5, <2>1
        <5>3. U[1] = {kd[1 + i - 1].index : i \in 1 .. kd[1].children}
          BY <5>1, <5>2, Zenon DEF ValuesOf
        <5>4. 1 + kd[1].children - 1 <= Len(kd)
          BY <1>6, <5>2
        <5> QED
          BY <5>3, <5>4 DEF LeafAt
      <4> QED
        BY <1>5, <2>1, <3>1, <4>1 DEF NodeFits
    <3>2. CASE r # 1
      <4>1. kd[r].children = 0 /\ U[r] = {}
        BY <1>5, <3>2
      <4> QED
        BY <4>1 DEF NodeFits
    <3> QED
      BY <3>1, <3>2
  <2>5. U[1] = ValuesOf(list, n)
    BY <2>1
  <2> HIDE DEF U
  <2>6. Labelled(kd, points, DOMAIN points, U)
    BY <1>6, <2>1, <2>3, <2>4 DEF Labelled
  <2> QED
    BY <2>5, <2>6 DEF IsTree
<1> QED
  BY <1>1, <1>3, <1>6, <1>7

\* A tree that is part of another one, behind d nodes, has the same labels there.
Embedded(K, V, kd, U, d) ==
  d + Len(kd) <= Len(K) /\ \A i \in 1 .. Len(kd) : K[d + i] = kd[i] /\ V[d + i] = U[i]

\* A node says the same in the tree that its tree is part of.
LEMMA ContainedFits ==
  ASSUME NEW points, NEW live, NEW kd, NEW U, Labelled(kd, points, live, U),
         NEW K \in Seq(KdNodes), NEW V, NEW d \in Nat, Embedded(K, V, kd, U, d), NEW r \in 1 .. Len(kd)
  PROVE  NodeFits(K, points, live, V, d + r)
<1>1. PICK n \in Nat, m \in Nat : n = Len(kd) /\ m = Len(K) /\ d + n <= m
  BY DEF Labelled, Embedded
<1>2. \A i \in 1..n : K[d + i] = kd[i] /\ V[d + i] = U[i]
  BY <1>1 DEF Embedded
<1>3. NodeFits(kd, points, live, U, r)
  BY DEF Labelled
<1>4. K[d + r] = kd[r] /\ V[d + r] = U[r]
  BY <1>1, <1>2
<1>5. kd[r] \in KdNodes
  BY DEF Labelled
<1>6. PICK c \in Nat : c = kd[r].children
  BY <1>5 DEF KdNodes
<1>7. CASE c = 0
  BY <1>3, <1>4, <1>6, <1>7 DEF NodeFits
<1>8. CASE c # 0 /\ kd[r].axis = 0
  <2>1. r + c - 1 <= n /\ U[r] = {kd[r + i - 1].index : i \in 1..c}
    BY <1>1, <1>3, <1>6, <1>8 DEF NodeFits, LeafAt
  <2>2. ASSUME NEW i \in 1..c PROVE K[d + r + i - 1] = kd[r + i - 1]
    <3>1. r + i - 1 \in 1..n /\ d + (r + i - 1) = d + r + i - 1
      BY <1>1, <2>1
    <3> QED
      BY <1>2, <3>1
  <2>3. {K[d + r + i - 1].index : i \in 1..c} = {kd[r + i - 1].index : i \in 1..c}
    BY <2>2
  <2>4. d + r + c - 1 <= m
    BY <1>1, <2>1
  <2>5. LeafAt(K, V, d + r)
    BY <1>1, <1>4, <1>6, <2>1, <2>3, <2>4 DEF LeafAt
  <2> QED
    BY <1>4, <1>6, <1>8, <2>5 DEF NodeFits
<1>9. CASE c # 0 /\ kd[r].axis # 0
  <2>1. BranchAt(kd, points, U, r)
    BY <1>3, <1>6, <1>9 DEF NodeFits
  <2>2. r + 1 + c <= n
    BY <1>1, <1>6, <2>1 DEF BranchAt
  <2>3. r + 1 \in 1..n /\ r + 1 + c \in 1..n
    BY <1>1, <2>2
  <2>4. V[d + (r + 1)] = U[r + 1] /\ V[d + (r + 1 + c)] = U[r + 1 + c]
    BY <1>2, <2>3
  <2>5. d + (r + 1) = d + r + 1 /\ d + (r + 1 + c) = d + r + 1 + c /\ d + r + 1 + c <= m
    BY <1>1, <2>2
  <2>6. BranchAt(K, points, V, d + r)
    BY <1>1, <1>4, <1>6, <2>1, <2>4, <2>5 DEF BranchAt
  <2> QED
    BY <1>4, <1>6, <1>9, <2>6 DEF NodeFits
<1> QED
  BY <1>7, <1>8, <1>9

\* A branch in front of two trees whose points it divides makes a tree of the points of both.
LEMMA JoinedTree ==
  ASSUME NEW points, NEW live, NEW node \in KdNodes, NEW left, NEW right, NEW S, NEW T,
         IsTree(left, points, live, S), IsTree(right, points, live, T),
         node.axis \in 1..3, node.count >= 1, node.children = Len(left),
         \A t \in S : points[t][node.axis] * node.count <= node.sum,
         \A t \in T : node.sum <= points[t][node.axis] * node.count
  PROVE  IsTree(<<node>> \o left \o right, points, live, S \cup T)
<1>1. PICK U : Labelled(left, points, live, U) /\ U[1] = S
  BY DEF IsTree
<1>2. PICK W : Labelled(right, points, live, W) /\ W[1] = T
  BY DEF IsTree
<1>3. left \in Seq(KdNodes) /\ right \in Seq(KdNodes) /\ left # <<>> /\ right # <<>>
  BY <1>1, <1>2 DEF Labelled
<1>4. PICK n \in Nat, m \in Nat : n = Len(left) /\ m = Len(right) /\ n >= 1 /\ m >= 1
  BY <1>3
<1>5. PICK kd \in Seq(KdNodes) : kd = <<node>> \o left \o right
  <2>1. <<node>> \in Seq(KdNodes)
    OBVIOUS
  <2>2. <<node>> \o left \in Seq(KdNodes)
    BY <1>3, <2>1, ConcatProperties
  <2> QED
    BY <1>3, <2>2, ConcatProperties
<1>6. /\ Len(kd) = 1 + n + m /\ kd[1] = node
      /\ \A i \in 1..n : kd[1 + i] = left[i]
      /\ \A i \in 1..m : kd[1 + n + i] = right[i]
  BY <1>3, <1>4, <1>5
<1> DEFINE V == [i \in 1 .. 1 + n + m |-> IF i = 1 THEN S \cup T ELSE IF i <= 1 + n THEN U[i - 1] ELSE W[i - 1 - n]]
<1>7. V[1] = S \cup T /\ (\A i \in 1..n : V[1 + i] = U[i]) /\ (\A i \in 1..m : V[1 + n + i] = W[i])
  BY <1>4
<1>8. U \in [1..n -> SUBSET (DOMAIN points)] /\ W \in [1..m -> SUBSET (DOMAIN points)]
  BY <1>1, <1>2, <1>4 DEF Labelled
<1>9. V \in [1 .. 1 + n + m -> SUBSET (DOMAIN points)]
  <2>1. S \cup T \in SUBSET (DOMAIN points)
    BY <1>1, <1>2, <1>4, <1>8
  <2>2. ASSUME NEW i \in 1 .. 1 + n + m
        PROVE  (IF i = 1 THEN S \cup T ELSE IF i <= 1 + n THEN U[i - 1] ELSE W[i - 1 - n]) \in SUBSET (DOMAIN points)
    <3>1. CASE i = 1
      BY <2>1, <3>1
    <3>2. CASE i # 1 /\ i <= 1 + n
      <4>1. i - 1 \in 1..n
        BY <3>2
      <4> QED
        BY <1>8, <3>2, <4>1
    <3>3. CASE i > 1 + n
      <4>1. i - 1 - n \in 1..m /\ i # 1
        BY <1>4, <3>3
      <4> QED
        BY <1>8, <3>3, <4>1
    <3> QED
      BY <3>1, <3>2, <3>3
  <2> QED
    BY <2>2
<1> HIDE DEF V
<1>10. Embedded(kd, V, left, U, 1)
  BY <1>4, <1>6, <1>7 DEF Embedded
<1>11. Embedded(kd, V, right, W, 1 + n)
  BY <1>4, <1>6, <1>7 DEF Embedded
<1>12. ASSUME NEW r \in 1 .. Len(kd) PROVE NodeFits(kd, points, live, V, r)
  <2>1. CASE r = 1
    <3>1. V[1 + 1] = S /\ V[1 + n + 1] = T
      BY <1>1, <1>2, <1>4, <1>7
    <3>2. BranchAt(kd, points, V, 1)
      <4>1. kd[1] = node /\ node.children = n /\ 1 + 1 + n <= Len(kd) /\ 1 + 1 + n = 1 + n + 1
        BY <1>4, <1>6
      <4> QED
        BY <1>7, <3>1, <4>1 DEF BranchAt
    <3> QED
      BY <1>4, <1>6, <2>1, <3>2 DEF NodeFits
  <2>2. CASE r # 1 /\ r <= 1 + n
    <3>1. PICK q \in 1..n : r = 1 + q
      <4>1. r - 1 \in 1..n /\ r = 1 + (r - 1)
        BY <1>6, <2>2
      <4> QED
        BY <4>1
    <3> QED
      BY <1>1, <1>4, <1>10, <3>1, ContainedFits
  <2>3. CASE r > 1 + n
    <3>1. PICK q \in 1..m : r = 1 + n + q
      <4>1. r - 1 - n \in 1..m /\ r = 1 + n + (r - 1 - n)
        BY <1>6, <2>3
      <4> QED
        BY <4>1
    <3>2. 1 + n \in Nat
      OBVIOUS
    <3> QED
      BY <1>2, <1>4, <1>11, <3>1, <3>2, ContainedFits
  <2>4. r \in Int /\ n \in Int
    OBVIOUS
  <2> QED
    BY <2>1, <2>2, <2>3, <2>4
<1>13. Labelled(kd, points, live, V)
  <2>1. kd # <<>>
    BY <1>4, <1>6
  <2> QED
    BY <1>6, <1>9, <1>12, <2>1 DEF Labelled
<1> QED
  BY <1>5, <1>7, <1>13 DEF IsTree

\* The body of kdtreeBuild, for the function next that builds the parts of a list
BuildRule(next, list, depth, points) ==
  LET split == SplitAxis(list, points)
      part == KdPartition(list, points, split.axis, split.sum)
      middle == part.m - 1
      left == next[SubSeq(part.list, 1, middle)]
      right == next[SubSeq(part.list, middle + 1, Len(list))]
  IN IF Len(list) <= LeafSize THEN Leaf(list)
     ELSE IF \/ middle <= LeafSize \div 2
             \/ middle >= Len(list) - LeafSize \div 2
             \/ depth >= TreeDepth
     THEN Leaf(part.list)
     ELSE <<[axis |-> split.axis, index |-> 0, sum |-> split.sum, count |-> Len(list),
             children |-> Len(left)]>> \o left \o right

\* kdtreeBuild for every depth
KdBuilder(points) ==
  CHOOSE b : b = [depth \in 0 .. TreeDepth |->
                    [list \in Seq(DOMAIN points) |-> BuildRule(b[depth + 1], list, depth, points)]]

\* KdBuild by the names used here
LEMMA KdBuildForm ==
  \A points : KdBuild(points) = KdBuilder(points)[0][<<>> \o [i \in DOMAIN points |-> i]]
  BY DEF KdBuild, KdBuilder, BuildRule

\* The points of the list become a leaf.
BuildsLeaf(list, depth, points, q) ==
  /\ Len(q) = Len(list) /\ ValuesOf(q, Len(q)) = ValuesOf(list, Len(list))
  /\ \A next : BuildRule(next, list, depth, points) = Leaf(q)

\* The node of a split, in front of its left side
Branch(axis, sum, n, left) ==
  [axis |-> axis, index |-> 0, sum |-> sum, count |-> n, children |-> Len(left)]

\* The points of the list become a branch over the two parts l and r of the list.
BuildsBranch(list, depth, points, l, r, axis, sum, n) ==
  /\ depth < TreeDepth /\ l # <<>> /\ r # <<>>
  /\ ValuesOf(l, Len(l)) \cup ValuesOf(r, Len(r)) = ValuesOf(list, Len(list))
  /\ \A t \in ValuesOf(l, Len(l)) : SmallerAt(points, axis, n, sum, t)
  /\ \A t \in ValuesOf(r, Len(r)) : ~SmallerAt(points, axis, n, sum, t)
  /\ \A next : BuildRule(next, list, depth, points) = <<Branch(axis, sum, n, next[l])>> \o next[l] \o next[r]

\* A list becomes a leaf, or a branch over two shorter lists.
LEMMA BuildCases ==
  ASSUME NEW points \in Seq(Located), NEW list \in Seq(DOMAIN points), NEW depth \in 0 .. TreeDepth
  PROVE  \/ \E q \in Seq(DOMAIN points) : BuildsLeaf(list, depth, points, q)
         \/ \E l \in Seq(DOMAIN points), r \in Seq(DOMAIN points), axis \in 1..3, sum \in Int, n \in Nat \ {0} :
              BuildsBranch(list, depth, points, l, r, axis, sum, n)
<1> DEFINE F == DOMAIN points
<1>1. PICK n \in Nat : n = Len(list)
  OBVIOUS
<1>2. PICK axis \in 1..3, sum \in Int : axis = SplitAxis(list, points).axis /\ sum = SplitAxis(list, points).sum
  BY SplitAxisFacts
<1>3. PICK part : part = KdPartition(list, points, axis, sum)
  OBVIOUS
<1>4. Parted(part, n, list, n, F, points, axis, sum)
  BY <1>1, <1>3, KdPartitionFacts
<1>5. PICK q \in [1..n -> F], m \in 1..n + 1 : q = part.list /\ m = part.m
  BY <1>4 DEF Parted
<1>6. q \in Seq(F) /\ Len(q) = n /\ ValuesOf(q, n) = ValuesOf(list, n)
  BY <1>4, <1>5 DEF Parted
<1> DEFINE l == SubSeq(q, 1, m - 1)
           r == SubSeq(q, m - 1 + 1, n)
           degenerate == m - 1 <= LeafSize \div 2 \/ m - 1 >= n - LeafSize \div 2 \/ depth >= TreeDepth
<1>7. \A next : BuildRule(next, list, depth, points)
                  = IF n <= LeafSize THEN Leaf(list)
                    ELSE IF degenerate THEN Leaf(q)
                    ELSE <<Branch(axis, sum, n, next[l])>> \o next[l] \o next[r]
  BY <1>1, <1>2, <1>3, <1>5, Zenon DEF BuildRule, Branch
<1>8. CASE n <= LeafSize
  <2>1. \A next : BuildRule(next, list, depth, points) = Leaf(list)
    BY <1>7, <1>8
  <2> QED
    BY <1>1, <2>1 DEF BuildsLeaf
<1>9. CASE n > LeafSize /\ degenerate
  <2>1. LeafSize \in Nat
    BY SearchAssumption
  <2>2. ~ (n <= LeafSize)
    BY <1>9, <2>1
  <2>3. \A next : BuildRule(next, list, depth, points) = Leaf(q)
    BY <1>7, <1>9, <2>2, Zenon
  <2> QED
    BY <1>1, <1>6, <2>3 DEF BuildsLeaf
<1>10. CASE n > LeafSize /\ ~degenerate
  <2>1. PICK h \in Nat : h = LeafSize \div 2
    BY SearchAssumption
  <2>2. m - 1 > h /\ m - 1 < n - h /\ depth < TreeDepth
    BY <1>10, <2>1, SearchAssumption
  <2>3. LeafSize \in Nat /\ ~ (n <= LeafSize)
    BY <1>10, SearchAssumption
  <2>4. \A next : BuildRule(next, list, depth, points)
                    = <<Branch(axis, sum, n, next[l])>> \o next[l] \o next[r]
    BY <1>7, <1>10, <2>3, Zenon
  <2>5. l = [i \in 1 .. m - 1 |-> q[i]] /\ r = [i \in 1 .. n - m + 1 |-> q[m + i - 1]]
    BY <1>6, <2>2
  <2> HIDE DEF l, r
  <2>6. l \in Seq(F) /\ Len(l) = m - 1 /\ l # <<>>
    <3>1. PICK a \in Nat : a = m - 1 /\ a >= 1
      BY <2>2
    <3>2. l \in [1..a -> F]
      BY <2>2, <2>5, <3>1
    <3>3. l \in Seq(F) /\ Len(l) = a
      BY <3>2
    <3> QED
      BY <3>1, <3>3
  <2>7. r \in Seq(F) /\ Len(r) = n - m + 1 /\ r # <<>>
    <3>1. PICK a \in Nat : a = n - m + 1 /\ a >= 1
      BY <2>2
    <3>2. r \in [1..a -> F]
      BY <2>2, <2>5, <3>1
    <3>3. r \in Seq(F) /\ Len(r) = a
      BY <3>2
    <3> QED
      BY <3>1, <3>3
  <2>8. ValuesOf(l, Len(l)) = {q[i] : i \in 1 .. m - 1}
    BY <2>5, <2>6 DEF ValuesOf
  <2>9. ValuesOf(r, Len(r)) = {q[i] : i \in m .. n}
    <3>1. ASSUME NEW x \in ValuesOf(r, Len(r)) PROVE x \in {q[i] : i \in m .. n}
      <4>1. PICK i \in 1 .. n - m + 1 : x = r[i]
        BY <2>7 DEF ValuesOf
      <4>2. m + i - 1 \in m .. n /\ x = q[m + i - 1]
        BY <2>2, <2>5, <4>1
      <4> QED
        BY <4>2
    <3>2. ASSUME NEW j \in m .. n PROVE q[j] \in ValuesOf(r, Len(r))
      <4>1. j - m + 1 \in 1 .. n - m + 1 /\ m + (j - m + 1) - 1 = j
        BY <2>2
      <4>2. r[j - m + 1] = q[j]
        BY <2>5, <4>1
      <4> QED
        BY <2>7, <4>1, <4>2 DEF ValuesOf
    <3> QED
      BY <3>1, <3>2
  <2>10. ValuesOf(l, Len(l)) \cup ValuesOf(r, Len(r)) = ValuesOf(list, n)
    <3>1. 1..n = (1 .. m - 1) \cup (m .. n)
      BY <2>2
    <3>2. {q[i] : i \in 1..n} = {q[i] : i \in 1 .. m - 1} \cup {q[i] : i \in m .. n}
      BY <3>1
    <3> QED
      BY <1>6, <2>8, <2>9, <3>2 DEF ValuesOf
  <2>11. \A t \in ValuesOf(l, Len(l)) : SmallerAt(points, axis, n, sum, t)
    BY <1>4, <1>5, <2>8 DEF Parted
  <2>12. \A t \in ValuesOf(r, Len(r)) : ~SmallerAt(points, axis, n, sum, t)
    BY <1>4, <1>5, <2>9 DEF Parted
  <2>13. n \in Nat \ {0}
    BY <2>2
  <2>14. BuildsBranch(list, depth, points, l, r, axis, sum, n)
    BY <1>1, <2>2, <2>4, <2>6, <2>7, <2>10, <2>11, <2>12 DEF BuildsBranch
  <2> QED
    BY <2>6, <2>7, <2>13, <2>14
<1>11. LeafSize \in Nat
  BY SearchAssumption
<1> HIDE DEF degenerate
<1> QED
  BY <1>8, <1>9, <1>10, <1>11

\* The node of a split is a node.
LEMMA BranchType ==
  ASSUME NEW axis \in 1..3, NEW sum \in Int, NEW n \in Nat, NEW left \in Seq(KdNodes)
  PROVE  Branch(axis, sum, n, left) \in KdNodes
<1>1. Len(left) \in Nat /\ axis \in 0..3
  OBVIOUS
<1> QED
  BY <1>1 DEF Branch, KdNodes

\* A list becomes a sequence of nodes when its parts do.
LEMMA BuildTyped ==
  ASSUME NEW points \in Seq(Located), NEW list \in Seq(DOMAIN points), NEW depth \in 0 .. TreeDepth, NEW next,
         depth < TreeDepth => next \in [Seq(DOMAIN points) -> Seq(KdNodes)]
  PROVE  BuildRule(next, list, depth, points) \in Seq(KdNodes)
<1>1. CASE \E q \in Seq(DOMAIN points) : BuildsLeaf(list, depth, points, q)
  <2>1. PICK q \in Seq(DOMAIN points) : BuildsLeaf(list, depth, points, q)
    BY <1>1
  <2> QED
    BY <2>1, LeafFacts DEF BuildsLeaf
<1>2. ASSUME NEW l \in Seq(DOMAIN points), NEW r \in Seq(DOMAIN points), NEW axis \in 1..3, NEW sum \in Int,
             NEW n \in Nat \ {0}, BuildsBranch(list, depth, points, l, r, axis, sum, n)
      PROVE  BuildRule(next, list, depth, points) \in Seq(KdNodes)
  <2>1. BuildRule(next, list, depth, points) = <<Branch(axis, sum, n, next[l])>> \o next[l] \o next[r]
    BY <1>2 DEF BuildsBranch
  <2>2. PICK a \in Seq(KdNodes), b \in Seq(KdNodes) : a = next[l] /\ b = next[r]
    BY <1>2 DEF BuildsBranch
  <2>3. <<Branch(axis, sum, n, a)>> \in Seq(KdNodes)
    BY BranchType
  <2>4. <<Branch(axis, sum, n, a)>> \o a \in Seq(KdNodes)
    BY <2>3, ConcatProperties
  <2>5. <<Branch(axis, sum, n, a)>> \o a \o b \in Seq(KdNodes)
    BY <2>4, ConcatProperties
  <2> QED
    BY <2>1, <2>2, <2>5
<1> QED
  BY <1>1, <1>2, BuildCases

\* Only the trees of the next depth matter.
LEMMA BuildSame ==
  ASSUME NEW points \in Seq(Located), NEW list \in Seq(DOMAIN points), NEW depth \in 0 .. TreeDepth, NEW g, NEW h,
         depth < TreeDepth => g = h
  PROVE  BuildRule(g, list, depth, points) = BuildRule(h, list, depth, points)
<1>1. CASE \E q \in Seq(DOMAIN points) : BuildsLeaf(list, depth, points, q)
  BY <1>1 DEF BuildsLeaf
<1>2. CASE \E l \in Seq(DOMAIN points), r \in Seq(DOMAIN points), axis \in 1..3, sum \in Int, n \in Nat \ {0} :
             BuildsBranch(list, depth, points, l, r, axis, sum, n)
  BY <1>2 DEF BuildsBranch
<1> QED
  BY <1>1, <1>2, BuildCases

\* The result for a list is a tree of its points.
TreeOf(kd, list, points) == IsTree(kd, points, DOMAIN points, ValuesOf(list, Len(list)))

\* A list becomes a tree of its points when its parts do.
LEMMA BuildTree ==
  ASSUME NEW points \in Seq(Located), NEW list \in Seq(DOMAIN points), list # <<>>, NEW depth \in 0 .. TreeDepth,
         NEW next, depth < TreeDepth => \A l \in Seq(DOMAIN points) : l # <<>> => TreeOf(next[l], l, points)
  PROVE  TreeOf(BuildRule(next, list, depth, points), list, points)
<1>1. CASE \E q \in Seq(DOMAIN points) : BuildsLeaf(list, depth, points, q)
  <2>1. PICK q \in Seq(DOMAIN points) : BuildsLeaf(list, depth, points, q)
    BY <1>1
  <2>2. q # <<>>
    BY <2>1 DEF BuildsLeaf
  <2>3. TreeOf(Leaf(q), q, points)
    BY <2>2, LeafFacts DEF TreeOf
  <2> QED
    BY <2>1, <2>3 DEF BuildsLeaf, TreeOf
<1>2. ASSUME NEW l \in Seq(DOMAIN points), NEW r \in Seq(DOMAIN points), NEW axis \in 1..3, NEW sum \in Int,
             NEW n \in Nat \ {0}, BuildsBranch(list, depth, points, l, r, axis, sum, n)
      PROVE  TreeOf(BuildRule(next, list, depth, points), list, points)
  <2>1. /\ BuildRule(next, list, depth, points) = <<Branch(axis, sum, n, next[l])>> \o next[l] \o next[r]
        /\ depth < TreeDepth /\ l # <<>> /\ r # <<>>
        /\ ValuesOf(l, Len(l)) \cup ValuesOf(r, Len(r)) = ValuesOf(list, Len(list))
    BY <1>2 DEF BuildsBranch
  <2>2. PICK a, b : a = next[l] /\ b = next[r]
    OBVIOUS
  <2>3. TreeOf(a, l, points) /\ TreeOf(b, r, points)
    BY <2>1, <2>2
  <2>4. a \in Seq(KdNodes)
    BY <2>3 DEF TreeOf, IsTree, Labelled
  <2>5. PICK node \in KdNodes : node = Branch(axis, sum, n, a)
    BY <2>4, BranchType
  <2>6. node.axis = axis /\ node.count = n /\ node.sum = sum /\ node.children = Len(a)
    BY <2>5 DEF Branch
  <2>7. ASSUME NEW t \in ValuesOf(l, Len(l)) PROVE points[t][axis] * n <= sum
    <3>1. points[t][axis] * n < sum
      BY <1>2 DEF BuildsBranch, SmallerAt
    <3>2. points[t][axis] * n \in Int
      <4>1. t \in DOMAIN points
        BY DEF ValuesOf
      <4> QED
        BY <4>1, Coordinate
    <3> QED
      BY <3>1, <3>2
  <2>8. ASSUME NEW t \in ValuesOf(r, Len(r)) PROVE sum <= points[t][axis] * n
    <3>1. ~ (points[t][axis] * n < sum)
      BY <1>2 DEF BuildsBranch, SmallerAt
    <3>2. PICK a1 \in Int : a1 = points[t][axis] * n
      <4>1. t \in DOMAIN points
        BY DEF ValuesOf
      <4>2. points[t][axis] \in Int
        BY <4>1, Coordinate
      <4> QED
        BY <4>2
    <3>3. \A y \in Int : ~(y < sum) => sum <= y
      OBVIOUS
    <3> QED
      BY <3>1, <3>2, <3>3
  <2>9. IsTree(<<node>> \o a \o b, points, DOMAIN points, ValuesOf(l, Len(l)) \cup ValuesOf(r, Len(r)))
    <3>1. PICK P, Q : P = ValuesOf(l, Len(l)) /\ Q = ValuesOf(r, Len(r))
      OBVIOUS
    <3>2. IsTree(a, points, DOMAIN points, P) /\ IsTree(b, points, DOMAIN points, Q)
      BY <2>3, <3>1 DEF TreeOf
    <3>3. node.axis \in 1..3 /\ node.count >= 1 /\ node.children = Len(a)
      BY <2>6
    <3>4. \A t \in P : points[t][node.axis] * node.count <= node.sum
      BY <2>6, <2>7, <3>1
    <3>5. \A t \in Q : node.sum <= points[t][node.axis] * node.count
      BY <2>6, <2>8, <3>1
    <3>6. IsTree(<<node>> \o a \o b, points, DOMAIN points, P \cup Q)
      BY <3>2, <3>3, <3>4, <3>5, JoinedTree
    <3> QED
      BY <3>1, <3>6
  <2> QED
    BY <2>1, <2>2, <2>5, <2>9 DEF TreeOf
<1> QED
  BY <1>1, <1>2, BuildCases

\* The tree of all points; none is switched off.
LEMMA KdBuildFacts ==
  ASSUME NEW points \in Seq(Located), points # <<>>
  PROVE  IsTree(KdBuild(points), points, DOMAIN points, DOMAIN points)
<1> DEFINE F == DOMAIN points
           S == 0 .. TreeDepth
           X == [Seq(F) -> Seq(KdNodes)]
           mu == [d \in S |-> TreeDepth - d]
           G == [p \in S \X [S -> X] |-> [list \in Seq(F) |-> BuildRule(p[2][p[1] + 1], list, p[1], points)]]
           Body(b) == [depth \in S |-> [list \in Seq(F) |-> BuildRule(b[depth + 1], list, depth, points)]]
           k == KdBuilder(points)
<1>1. TreeDepth \in Nat /\ mu \in [S -> Nat]
  BY SearchAssumption
<1>2. \A d \in S, g \in [S -> X] :
        G[<<d, g>>] = [list \in Seq(F) |-> BuildRule(g[d + 1], list, d, points)]
  OBVIOUS
<1>3. ASSUME NEW d \in S, NEW g \in [S -> X] PROVE [list \in Seq(F) |-> BuildRule(g[d + 1], list, d, points)] \in X
  <2>1. d < TreeDepth => g[d + 1] \in X
    BY <1>1
  <2>2. \A list \in Seq(F) : BuildRule(g[d + 1], list, d, points) \in Seq(KdNodes)
    BY <2>1, BuildTyped
  <2> QED
    BY <2>2
<1>4. G \in [S \X [S -> X] -> X]
  <2>1. ASSUME NEW p \in S \X [S -> X]
        PROVE  [list \in Seq(F) |-> BuildRule(p[2][p[1] + 1], list, p[1], points)] \in X
    <3>1. p[1] \in S /\ p[2] \in [S -> X]
      OBVIOUS
    <3> HIDE DEF X, S
    <3> QED
      BY <1>3, <3>1
  <2> HIDE DEF X, S
  <2> QED
    BY <2>1
<1>5. Grounded(G, S, X, mu)
  <2> SUFFICES ASSUME NEW d \in S, NEW g \in [S -> X], NEW h \in [S -> X], \A t \in S : mu[t] < mu[d] => g[t] = h[t]
               PROVE  G[<<d, g>>] = G[<<d, h>>]
    BY DEF Grounded
  <2>1. d < TreeDepth => g[d + 1] = h[d + 1]
    <3> SUFFICES ASSUME d < TreeDepth PROVE g[d + 1] = h[d + 1]
      OBVIOUS
    <3>1. d + 1 \in S /\ mu[d + 1] < mu[d]
      BY <1>1
    <3> QED
      BY <3>1
  <2>2. \A list \in Seq(F) : BuildRule(g[d + 1], list, d, points) = BuildRule(h[d + 1], list, d, points)
    BY <2>1, BuildSame
  <2>3. [list \in Seq(F) |-> BuildRule(g[d + 1], list, d, points)]
          = [list \in Seq(F) |-> BuildRule(h[d + 1], list, d, points)]
    BY <2>2
  <2>4. /\ G[<<d, g>>] = [list \in Seq(F) |-> BuildRule(g[d + 1], list, d, points)]
        /\ G[<<d, h>>] = [list \in Seq(F) |-> BuildRule(h[d + 1], list, d, points)]
    BY <1>2, Zenon
  <2> HIDE DEF G, X, S
  <2> QED
    BY <2>3, <2>4, Zenon
<1>6. X # {}
  <2>1. [list \in Seq(F) |-> <<>>] \in X
    OBVIOUS
  <2> QED
    BY <2>1
<1> HIDE DEF G, mu, X
<1>7. PICK g \in [S -> X] : TakesSteps(g, S, G)
  <2> HIDE DEF S
  <2> QED
    BY <1>1, <1>4, <1>5, <1>6, GroundedRecursion
<1>8. g = Body(g)
  <2>1. \A d \in S : g[d] = [list \in Seq(F) |-> BuildRule(g[d + 1], list, d, points)]
    BY <1>2, <1>7 DEF TakesSteps
  <2> QED
    BY <1>7, <2>1
<1>9. k = Body(k)
  <2>1. k = CHOOSE b : b = Body(b)
    BY DEF KdBuilder
  <2> HIDE DEF Body, k
  <2> QED
    BY <1>8, <2>1
<1> HIDE DEF k
<1>10. ASSUME NEW d \in S, NEW list \in Seq(F) PROVE k[d][list] = BuildRule(k[d + 1], list, d, points)
  <2>1. \A h : Body(h)[d][list] = BuildRule(h[d + 1], list, d, points)
    OBVIOUS
  <2> HIDE DEF Body
  <2> QED
    BY <1>9, <2>1
<1> HIDE DEF Body
<1> DEFINE trees(d) == \A list \in Seq(F) : list # <<>> => TreeOf(k[d][list], list, points)
           T == {n \in Nat : \A d \in S : d + n >= TreeDepth => trees(d)}
<1>11. 0 \in T
  <2> SUFFICES ASSUME NEW d \in S, d >= TreeDepth, NEW list \in Seq(F), list # <<>>
               PROVE  TreeOf(k[d][list], list, points)
    OBVIOUS
  <2>1. ~ (d < TreeDepth)
    BY <1>1
  <2> QED
    BY <1>10, <2>1, BuildTree
<1>12. ASSUME NEW n \in Nat, n \in T PROVE n + 1 \in T
  <2> SUFFICES ASSUME NEW d \in S, d + (n + 1) >= TreeDepth, NEW list \in Seq(F), list # <<>>
               PROVE  TreeOf(k[d][list], list, points)
    OBVIOUS
  <2>1. d < TreeDepth => trees(d + 1)
    <3> SUFFICES ASSUME d < TreeDepth PROVE trees(d + 1)
      OBVIOUS
    <3>1. d + 1 \in S /\ (d + 1) + n >= TreeDepth
      BY <1>1
    <3> QED
      BY <1>12, <3>1
  <2> QED
    BY <1>10, <2>1, BuildTree
<1>13. Nat \subseteq T
  <2> HIDE DEF T
  <2> QED
    BY <1>11, <1>12, NatSetInduction
<1>14. trees(0)
  <2>1. TreeDepth \in T
    <3> HIDE DEF T
    <3> QED
      BY <1>1, <1>13
  <2>2. 0 \in S /\ 0 + TreeDepth >= TreeDepth
    BY <1>1
  <2> QED
    BY <2>1, <2>2
<1>15. PICK n \in Nat : n = Len(points) /\ F = 1..n /\ n >= 1
  OBVIOUS
<1>16. PICK all \in Seq(F) : all = <<>> \o [i \in F |-> i] /\ Len(all) = n /\ \A i \in 1..n : all[i] = i
  <2>1. [i \in 1..n |-> i] \in Seq(1..n) /\ Len([i \in 1..n |-> i]) = n
    OBVIOUS
  <2>2. <<>> \o [i \in 1..n |-> i] = [i \in 1..n |-> i]
    BY <2>1, ConcatEmptySeq
  <2> QED
    BY <1>15, <2>1, <2>2
<1>17. all # <<>> /\ ValuesOf(all, Len(all)) = F
  BY <1>15, <1>16 DEF ValuesOf
<1>18. TreeOf(k[0][all], all, points)
  BY <1>14, <1>17
<1> QED
  BY <1>16, <1>17, <1>18, KdBuildForm DEF TreeOf, k

-----------------------------------------------------------------------------
(* kdtreeNearest: leaves *)

\* Distances are integers.
LEMMA DistType ==
  ASSUME NEW p \in Located, NEW position \in Located
  PROVE  Dist2(p, position) \in Int
BY DEF Located, Dist2

\* The search has found the closest live point, none of those in C being closer.
Closest(st, points, live, position, C) ==
  /\ C \subseteq live
  /\ st.result # 0 => st.result \in live /\ st.limit = Dist2(points[st.result], position)
  /\ st.result = 0 => C = {}
  /\ \A t \in C : st.limit <= Dist2(points[t], position)

\* A point of a leaf is compared with the closest one so far.
Closer(points, live, position, root, st, i) ==
  LET t == st.nodes[root + i - 1].index
      d == Dist2(points[t], position)
  IN IF t \in live /\ (st.result = 0 \/ d < st.limit)
     THEN [st EXCEPT !.result = t, !.limit = d] ELSE st

\* The states of the scan of a leaf
LeafSeen(state, root, points, live, position) ==
  CHOOSE h : h = [i \in 0 .. state.nodes[root].children |->
                    IF i = 0 THEN state ELSE Closer(points, live, position, root, h[i - 1], i)]

\* No point of the leaf is live.
LeafInactive(state, root, live) ==
  \A i \in 1 .. state.nodes[root].children : state.nodes[root + i - 1].index \notin live

\* LeafSearch by the names used here
LEMMA LeafSearchForm ==
  \A state, root, points, live, position :
    LeafSearch(state, root, points, live, position)
      = LET seen == LeafSeen(state, root, points, live, position)[state.nodes[root].children]
        IN IF LeafInactive(state, root, live) THEN [seen EXCEPT !.nodes[root].children = 0] ELSE seen
  BY DEF LeafSearch, LeafSeen, LeafInactive, Closer

\* The live ones of the first i points of the leaf
LeafPoints(nodes, root, live, i) == {nodes[root + j - 1].index : j \in 1..i} \cap live

\* States of a search of any tree
SearchState == [nodes : Seq(KdNodes), result : Nat, limit : Int]

\* After i points of the leaf
Scanned(x, i, state, root, points, live, position) ==
  /\ x \in SearchState /\ x.nodes = state.nodes
  /\ \A C : Closest(state, points, live, position, C)
              => Closest(x, points, live, position, C \cup LeafPoints(state.nodes, root, live, i))

\* The next point of the leaf is seen.
LEMMA CloserScans ==
  ASSUME NEW points \in Seq(Located), NEW live \in SUBSET (DOMAIN points), NEW position \in Located,
         NEW state \in SearchState, NEW root \in Nat, NEW i \in Nat \ {0}, root + i - 1 \in 1 .. Len(state.nodes),
         NEW x, Scanned(x, i - 1, state, root, points, live, position)
  PROVE  Scanned(Closer(points, live, position, root, x, i), i, state, root, points, live, position)
<1>1. x \in SearchState /\ x.nodes = state.nodes /\ x.result \in Nat /\ x.limit \in Int
  BY DEF Scanned, SearchState
<1>2. PICK t \in Nat : t = state.nodes[root + i - 1].index
  <2>1. state.nodes[root + i - 1] \in KdNodes
    BY DEF SearchState
  <2> QED
    BY <2>1 DEF KdNodes
<1>3. PICK y : y = Closer(points, live, position, root, x, i)
  OBVIOUS
<1>4. y = IF t \in live /\ (x.result = 0 \/ Dist2(points[t], position) < x.limit)
          THEN [x EXCEPT !.result = t, !.limit = Dist2(points[t], position)] ELSE x
  BY <1>1, <1>2, <1>3 DEF Closer
<1>5. LeafPoints(state.nodes, root, live, i) = LeafPoints(state.nodes, root, live, i - 1) \cup ({t} \cap live)
  <2>1. {state.nodes[root + j - 1].index : j \in 1..i} = {state.nodes[root + j - 1].index : j \in 1..i - 1} \cup {t}
    <3>1. 1..i = (1..i - 1) \cup {i}
      OBVIOUS
    <3> QED
      BY <1>2, <3>1
  <2> QED
    BY <2>1 DEF LeafPoints
<1>6. \A s \in live : Dist2(points[s], position) \in Int
  <2> SUFFICES ASSUME NEW s \in live PROVE Dist2(points[s], position) \in Int
    OBVIOUS
  <2>1. points[s] \in Located
    OBVIOUS
  <2> QED
    BY <2>1, DistType
<1>7. 0 \notin live
  OBVIOUS
<1>8. y \in SearchState /\ y.nodes = state.nodes
  BY <1>1, <1>2, <1>4, <1>6 DEF SearchState
<1>9. ASSUME NEW C, Closest(state, points, live, position, C)
      PROVE  Closest(y, points, live, position, C \cup LeafPoints(state.nodes, root, live, i))
  <2> DEFINE D == C \cup LeafPoints(state.nodes, root, live, i - 1)
  <2>1. Closest(x, points, live, position, D)
    BY <1>9 DEF Scanned
  <2>2. C \cup LeafPoints(state.nodes, root, live, i) = D \cup ({t} \cap live)
    BY <1>5
  <2>3. \A s \in D : x.result # 0 /\ x.limit <= Dist2(points[s], position)
    BY <2>1 DEF Closest
  <2>4. D \subseteq live
    BY <2>1 DEF Closest
  <2> HIDE DEF D
  <2>5. CASE t \in live /\ (x.result = 0 \/ Dist2(points[t], position) < x.limit)
    <3>1. PICK d \in Int : d = Dist2(points[t], position)
      BY <1>6, <2>5
    <3>2. y.result = t /\ y.limit = d /\ t # 0
      BY <1>1, <1>4, <1>7, <2>5, <3>1 DEF SearchState
    <3>3. ASSUME NEW s \in D PROVE d <= Dist2(points[s], position)
      <4>1. x.result # 0 /\ x.limit <= Dist2(points[s], position) /\ d < x.limit
        BY <2>3, <2>5, <3>1
      <4>2. Dist2(points[s], position) \in Int
        BY <1>6, <2>4
      <4> QED
        BY <1>1, <4>1, <4>2
    <3> QED
      BY <2>2, <2>5, <2>4, <3>1, <3>2, <3>3 DEF Closest
  <2>6. CASE t \in live /\ x.result # 0 /\ ~(Dist2(points[t], position) < x.limit)
    <3>1. y = x
      BY <1>4, <2>6
    <3>2. x.limit <= Dist2(points[t], position)
      BY <1>1, <1>6, <2>6
    <3> QED
      BY <2>1, <2>2, <2>6, <3>1, <3>2 DEF Closest
  <2>7. CASE t \notin live
    <3>1. y = x /\ {t} \cap live = {}
      BY <1>4, <2>7
    <3> QED
      BY <2>1, <2>2, <3>1
  <2> QED
    BY <2>5, <2>6, <2>7
<1> QED
  BY <1>3, <1>8, <1>9 DEF Scanned

\* A scan of the leaf finds its closest live point.
LEMMA LeafScanned ==
  ASSUME NEW points \in Seq(Located), NEW live \in SUBSET (DOMAIN points), NEW position \in Located,
         NEW state \in SearchState, NEW root \in Nat \ {0}, NEW n \in Nat, n = state.nodes[root].children,
         root + n - 1 <= Len(state.nodes)
  PROVE  Scanned(LeafSeen(state, root, points, live, position)[n], n, state, root, points, live, position)
<1> DEFINE in(i, x) == Scanned(x, i, state, root, points, live, position)
           xs == [i \in 0..n |-> {x \in SearchState : in(i, x)}]
           step(x, i) == Closer(points, live, position, root, x, i)
           f == [p \in (1..n) \X SearchState |-> step(p[2], p[1])]
           Body(h) == [i \in 0..n |-> IF i = 0 THEN state ELSE step(h[i - 1], i)]
           k == LeafSeen(state, root, points, live, position)
<1>1. xs \in [0..n -> SUBSET SearchState] /\ \A i \in 0..n : \A x : x \in xs[i] <=> in(i, x)
  BY DEF Scanned
<1>2. state \in xs[0]
  <2>1. LeafPoints(state.nodes, root, live, 0) = {}
    BY DEF LeafPoints
  <2>2. in(0, state)
    BY <2>1 DEF Scanned
  <2> HIDE DEF xs
  <2>3. 0 \in 0..n
    OBVIOUS
  <2> QED
    BY <1>1, <2>2, <2>3
<1>3. \A i \in 1..n, x \in SearchState : f[<<i, x>>] = step(x, i)
  OBVIOUS
<1> HIDE DEF xs, f
<1>4. ASSUME NEW i \in 1..n, NEW x \in xs[i - 1] PROVE x \in SearchState /\ f[<<i, x>>] \in xs[i]
  <2>1. i - 1 \in 0..n /\ i \in 0..n /\ i \in Nat \ {0}
    OBVIOUS
  <2>2. in(i - 1, x) /\ x \in SearchState
    BY <1>1, <2>1
  <2>3. root + i - 1 \in 1 .. Len(state.nodes)
    <3>1. Len(state.nodes) \in Nat
      BY DEF SearchState
    <3> QED
      BY <3>1, SMTT(20)
  <2>4. in(i, step(x, i))
    BY <2>1, <2>2, <2>3, CloserScans
  <2> QED
    BY <1>1, <1>3, <2>1, <2>2, <2>4
<1>5. Advances(f, n, xs)
  BY <1>4 DEF Advances
<1>6. PICK g \in [0..n -> SearchState] : Recursive(g, n, state, f)
  BY <1>1, <1>2, <1>5, StagedRecursion
<1> HIDE DEF step
<1>7. g = Body(g)
  <2>1. ASSUME NEW i \in 0..n PROVE g[i] = Body(g)[i]
    <3>1. CASE i = 0
      BY <1>6, <3>1 DEF Recursive
    <3>2. CASE i # 0
      <4>1. i \in 1..n /\ i - 1 \in 0..n
        BY <3>2
      <4>2. g[i] = f[<<i, g[i - 1]>>]
        BY <1>6, <4>1 DEF Recursive
      <4> QED
        BY <1>3, <1>6, <3>2, <4>1, <4>2
    <3> QED
      BY <3>1, <3>2
  <2> QED
    BY <1>6, <2>1
<1>8. k = Body(k)
  <2>1. k = CHOOSE h : h = Body(h)
    BY DEF LeafSeen, step
  <2> HIDE DEF Body, k
  <2> QED
    BY <1>7, <2>1
<1>9. KeepsPace(k, n, state, f, xs)
  <2>1. \A i \in 0..n : Body(k)[i] = IF i = 0 THEN state ELSE step(k[i - 1], i)
    OBVIOUS
  <2> HIDE DEF Body, k
  <2>2. \A i \in 0..n : k[i] = IF i = 0 THEN state ELSE step(k[i - 1], i)
    BY <1>8, <2>1
  <2>3. 0 \in 0..n
    OBVIOUS
  <2>4. ASSUME NEW i \in 1..n, k[i - 1] \in xs[i - 1] PROVE k[i] = f[<<i, k[i - 1]>>]
    <3>1. i \in 0..n /\ i # 0
      OBVIOUS
    <3>2. k[i] = step(k[i - 1], i)
      BY <2>2, <3>1
    <3> QED
      BY <1>3, <1>4, <2>4, <3>2
  <2> QED
    BY <2>2, <2>3, <2>4 DEF KeepsPace
<1> HIDE DEF k
<1>10. InStages(k, n, xs)
  BY <1>2, <1>5, <1>9, StageByStage
<1>11. in(n, k[n])
  <2>1. n \in 0..n
    OBVIOUS
  <2> QED
    BY <1>1, <1>10, <2>1 DEF InStages
<1> QED
  BY <1>11 DEF k

\* A subtree is switched off.
Off(st, r) == [st EXCEPT !.nodes[r].children = 0]

\* A search changes nodes only by switching them off.
LEMMA StateFacts ==
  ASSUME NEW kd \in Seq(KdNodes), NEW st \in KdStates(kd)
  PROVE  /\ st \in SearchState /\ Len(st.nodes) = Len(kd)
         /\ \A i \in 1 .. Len(kd) : st.nodes[i] = kd[i] \/ st.nodes[i] = [kd[i] EXCEPT !.children = 0]
<1>1. PICK n \in Nat : n = Len(kd) /\ DOMAIN kd = 1..n
  OBVIOUS
<1>2. /\ st = [nodes |-> st.nodes, result |-> st.result, limit |-> st.limit]
      /\ st.nodes \in [1..n -> KdNodes] /\ st.result \in Nat /\ st.limit \in Int
      /\ \A i \in 1..n : st.nodes[i] \in {kd[i], [kd[i] EXCEPT !.children = 0]}
  BY <1>1 DEF KdStates
<1>3. st.nodes \in Seq(KdNodes) /\ Len(st.nodes) = n
  BY <1>2
<1> QED
  BY <1>1, <1>2, <1>3 DEF SearchState

\* The point found does not matter to the tree.
LEMMA StateFound ==
  ASSUME NEW kd \in Seq(KdNodes), NEW st \in KdStates(kd), NEW x \in SearchState, x.nodes = st.nodes
  PROVE  x \in KdStates(kd)
BY DEF KdStates, SearchState

\* A node that is switched off is a node.
LEMMA OffNode ==
  ASSUME NEW node \in KdNodes
  PROVE  [node EXCEPT !.children = 0] \in KdNodes
<1>1. node = [axis |-> node.axis, index |-> node.index, sum |-> node.sum, count |-> node.count,
              children |-> node.children]
  BY DEF KdNodes
<1>2. node.axis \in 0..3 /\ node.index \in Nat /\ node.sum \in Int /\ node.count \in Nat
  BY DEF KdNodes
<1>3. [node EXCEPT !.children = 0]
        = [axis |-> node.axis, index |-> node.index, sum |-> node.sum, count |-> node.count, children |-> 0]
  BY <1>1
<1> QED
  BY <1>2, <1>3 DEF KdNodes

\* A search may switch off any node.
LEMMA OffFacts ==
  ASSUME NEW kd \in Seq(KdNodes), NEW st \in KdStates(kd), NEW r \in 1 .. Len(kd)
  PROVE  /\ Off(st, r) \in KdStates(kd) /\ Off(st, r).result = st.result /\ Off(st, r).limit = st.limit
         /\ Off(st, r).nodes = [st.nodes EXCEPT ![r].children = 0]
<1>1. PICK n \in Nat : n = Len(kd) /\ DOMAIN kd = 1..n
  OBVIOUS
<1>2. /\ st.nodes \in [1..n -> KdNodes] /\ st.result \in Nat /\ st.limit \in Int
      /\ \A i \in 1..n : st.nodes[i] \in {kd[i], [kd[i] EXCEPT !.children = 0]}
  BY <1>1 DEF KdStates
<1>3. PICK nodes : nodes = [st.nodes EXCEPT ![r].children = 0]
  OBVIOUS
<1>4. Off(st, r) = [st EXCEPT !.nodes = nodes]
  BY <1>3 DEF Off
<1>5. st = [nodes |-> st.nodes, result |-> st.result, limit |-> st.limit]
  BY DEF KdStates
<1>6. Off(st, r) = [nodes |-> nodes, result |-> st.result, limit |-> st.limit]
  BY <1>4, <1>5
<1>7. ASSUME NEW i \in 1..n PROVE nodes[i] \in KdNodes /\ nodes[i] \in {kd[i], [kd[i] EXCEPT !.children = 0]}
  <2>1. CASE i # r
    BY <1>2, <1>3, <2>1
  <2>2. CASE i = r
    <3>1. nodes[i] = [st.nodes[i] EXCEPT !.children = 0] /\ st.nodes[i] \in KdNodes
      BY <1>2, <1>3, <2>2
    <3>2. nodes[i] \in KdNodes
      BY <3>1, OffNode
    <3>3. nodes[i] = [kd[i] EXCEPT !.children = 0]
      <4>1. kd[i] \in KdNodes
        BY <1>1
      <4> QED
        BY <1>2, <3>1, <4>1 DEF KdNodes
    <3> QED
      BY <3>2, <3>3
  <2> QED
    BY <2>1, <2>2
<1>8. nodes \in [1..n -> KdNodes]
  BY <1>2, <1>3, <1>7
<1>9. Off(st, r) \in KdStates(kd)
  BY <1>1, <1>2, <1>6, <1>7, <1>8 DEF KdStates
<1> QED
  BY <1>3, <1>6, <1>9

\* A node without live points below it may be switched off.
LEMMA OffLabelled ==
  ASSUME NEW points, NEW live, NEW nodes, NEW U, Labelled(nodes, points, live, U),
         NEW r \in 1 .. Len(nodes), U[r] \cap live = {}
  PROVE  Labelled([nodes EXCEPT ![r].children = 0], points, live, U)
<1>1. PICK n \in Nat : n = Len(nodes) /\ DOMAIN nodes = 1..n
  BY DEF Labelled
<1>2. PICK kd : kd = [nodes EXCEPT ![r].children = 0]
  OBVIOUS
<1>3. nodes \in [1..n -> KdNodes] /\ n >= 1
  BY <1>1 DEF Labelled
<1>4. ASSUME NEW i \in 1..n
      PROVE  /\ kd[i] \in KdNodes
             /\ kd[i].axis = nodes[i].axis /\ kd[i].index = nodes[i].index
             /\ kd[i].sum = nodes[i].sum /\ kd[i].count = nodes[i].count
             /\ kd[i].children = (IF i = r THEN 0 ELSE nodes[i].children)
  <2>1. CASE i # r
    BY <1>2, <1>3, <2>1
  <2>2. CASE i = r
    <3>1. kd[i] = [nodes[i] EXCEPT !.children = 0] /\ nodes[i] \in KdNodes
      BY <1>2, <1>3, <2>2
    <3> QED
      BY <2>2, <3>1 DEF KdNodes
  <2> QED
    BY <2>1, <2>2
<1>5. kd \in Seq(KdNodes) /\ Len(kd) = n /\ kd # <<>>
  <2>1. kd \in [1..n -> KdNodes]
    BY <1>2, <1>3, <1>4
  <2>2. kd \in Seq(KdNodes) /\ Len(kd) = n
    BY <2>1
  <2> QED
    BY <1>3, <2>2
<1>6. ASSUME NEW i \in 1..n PROVE NodeFits(kd, points, live, U, i)
  <2>1. NodeFits(nodes, points, live, U, i)
    BY <1>1 DEF Labelled
  <2>2. CASE i = r
    BY <1>4, <2>2 DEF NodeFits
  <2>3. CASE i # r /\ nodes[i].children = 0
    BY <1>4, <2>1, <2>3 DEF NodeFits
  <2>4. CASE i # r /\ nodes[i].children # 0 /\ nodes[i].axis = 0
    <3>1. PICK c \in Nat : c = nodes[i].children
      BY <1>3 DEF KdNodes
    <3>2. i + c - 1 <= n /\ U[i] = {nodes[i + j - 1].index : j \in 1..c}
      BY <1>1, <2>1, <2>4, <3>1 DEF NodeFits, LeafAt
    <3>3. \A j \in 1..c : kd[i + j - 1].index = nodes[i + j - 1].index
      <4> SUFFICES ASSUME NEW j \in 1..c PROVE kd[i + j - 1].index = nodes[i + j - 1].index
        OBVIOUS
      <4>1. i + j - 1 \in 1..n
        BY <3>2
      <4> QED
        BY <1>4, <4>1
    <3>4. {kd[i + j - 1].index : j \in 1..c} = {nodes[i + j - 1].index : j \in 1..c}
      BY <3>3
    <3>5. kd[i].children = c
      BY <1>4, <2>4, <3>1
    <3>6. LeafAt(kd, U, i)
      BY <1>5, <3>2, <3>4, <3>5 DEF LeafAt
    <3> QED
      BY <1>4, <2>4, <3>6 DEF NodeFits
  <2>5. CASE i # r /\ nodes[i].children # 0 /\ nodes[i].axis # 0
    <3>1. BranchAt(nodes, points, U, i)
      BY <2>1, <2>5 DEF NodeFits
    <3>2. BranchAt(kd, points, U, i)
      BY <1>1, <1>4, <1>5, <2>5, <3>1 DEF BranchAt
    <3> QED
      BY <1>4, <2>5, <3>2 DEF NodeFits
  <2> QED
    BY <2>2, <2>3, <2>4, <2>5
<1>7. U \in [1..n -> SUBSET (DOMAIN points)]
  BY <1>1 DEF Labelled
<1> QED
  BY <1>2, <1>5, <1>6, <1>7 DEF Labelled

\* The outcome x of the search of a leaf with n points
LeafOutcome(x, st, kd, r, n, points, live, position) ==
  /\ x \in KdStates(kd)
  /\ \A C : Closest(st, points, live, position, C)
              => Closest(x, points, live, position, C \cup LeafPoints(st.nodes, r, live, n))
  /\ \/ x.nodes = st.nodes
     \/ x.nodes = [st.nodes EXCEPT ![r].children = 0] /\ LeafPoints(st.nodes, r, live, n) = {}

\* The search of a leaf
LEMMA LeafSearchFacts ==
  ASSUME NEW points \in Seq(Located), NEW live \in SUBSET (DOMAIN points), NEW position \in Located,
         NEW kd \in Seq(KdNodes), NEW st \in KdStates(kd), NEW r \in 1 .. Len(kd),
         NEW n \in Nat, n = st.nodes[r].children, r + n - 1 <= Len(kd)
  PROVE  LeafOutcome(LeafSearch(st, r, points, live, position), st, kd, r, n, points, live, position)
<1>1. PICK x : x = LeafSearch(st, r, points, live, position)
  OBVIOUS
<1>2. PICK y : y = LeafSeen(st, r, points, live, position)[n]
  OBVIOUS
<1>3. st \in SearchState /\ Len(st.nodes) = Len(kd)
  BY StateFacts
<1>4. Scanned(y, n, st, r, points, live, position)
  <2>1. r \in Nat \ {0}
    OBVIOUS
  <2> QED
    BY <1>2, <1>3, <2>1, LeafScanned
<1>5. y \in KdStates(kd) /\ y.nodes = st.nodes
  BY <1>4, StateFound DEF Scanned
<1>6. x = IF LeafInactive(st, r, live) THEN Off(y, r) ELSE y
  BY <1>1, <1>2, LeafSearchForm DEF Off
<1>7. \A C : Closest(st, points, live, position, C)
               => Closest(y, points, live, position, C \cup LeafPoints(st.nodes, r, live, n))
  BY <1>4 DEF Scanned
<1>8. CASE ~LeafInactive(st, r, live)
  BY <1>1, <1>5, <1>6, <1>7, <1>8 DEF LeafOutcome
<1>9. CASE LeafInactive(st, r, live)
  <2>1. x = Off(y, r)
    BY <1>6, <1>9
  <2>2. /\ x \in KdStates(kd) /\ x.result = y.result /\ x.limit = y.limit
        /\ x.nodes = [st.nodes EXCEPT ![r].children = 0]
    <3>1. /\ Off(y, r) \in KdStates(kd) /\ Off(y, r).result = y.result /\ Off(y, r).limit = y.limit
          /\ Off(y, r).nodes = [y.nodes EXCEPT ![r].children = 0]
      BY <1>5, OffFacts
    <3> QED
      BY <1>5, <2>1, <3>1
  <2>3. LeafPoints(st.nodes, r, live, n) = {}
    BY <1>9 DEF LeafInactive, LeafPoints
  <2>4. \A C : Closest(y, points, live, position, C) => Closest(x, points, live, position, C)
    BY <2>2 DEF Closest
  <2> QED
    BY <1>1, <1>7, <2>2, <2>3, <2>4 DEF LeafOutcome
<1> QED
  BY <1>8, <1>9

-----------------------------------------------------------------------------
(* kdtreeNearest: branches *)

\* Products with the same factor are ordered as the other factors.
LEMMA TimesOrder == \A x, y \in Int, z \in Nat : x <= y => x * z <= y * z
OBVIOUS

\* Squares are ordered as their roots.
LEMMA SquareOrder == \A x, y \in Int : 0 <= x /\ x <= y => x * x <= y * y
OBVIOUS

\* The distance along one axis is at most the whole distance.
LEMMA SquareSum ==
  ASSUME NEW p \in Located, NEW q \in Located, NEW k \in 1..3
  PROVE  (p[k] - q[k]) * (p[k] - q[k]) <= Dist2(p, q)
<1>1. \A x \in Int : x * x \in Int /\ x * x >= 0
  OBVIOUS
<1>2. PICK a \in Int, b \in Int, c \in Int : a = p[1] - q[1] /\ b = p[2] - q[2] /\ c = p[3] - q[3]
  BY DEF Located
<1>3. PICK aa \in Nat, bb \in Nat, cc \in Nat : aa = a * a /\ bb = b * b /\ cc = c * c
  BY <1>1, <1>2
<1>4. Dist2(p, q) = aa + bb + cc
  BY <1>2, <1>3 DEF Dist2
<1>5. k = 1 \/ k = 2 \/ k = 3
  OBVIOUS
<1> QED
  BY <1>2, <1>3, <1>4, <1>5

\* A point across a split that is farther from the position than the limit is not closer.
LEMMA AcrossFar ==
  ASSUME NEW p \in Located, NEW position \in Located, NEW axis \in 1..3, NEW n \in Nat \ {0}, NEW sum \in Int,
         NEW limit \in Int,
         \/ position[axis] * n <= sum /\ sum <= p[axis] * n
         \/ sum <= position[axis] * n /\ p[axis] * n <= sum,
         NEW delta \in Int, delta = position[axis] * n - sum, ~ (delta * delta <= limit * n * n)
  PROVE  limit <= Dist2(p, position)
<1>1. PICK a \in Int, b \in Int : a = p[axis] /\ b = position[axis]
  <2>1. \A q \in Located : q[axis] \in Int
    <3> SUFFICES ASSUME NEW q \in Located PROVE q[axis] \in Int
      OBVIOUS
    <3>1. q[1] \in Int /\ q[2] \in Int /\ q[3] \in Int
      BY DEF Located
    <3>2. axis = 1 \/ axis = 2 \/ axis = 3
      OBVIOUS
    <3> QED
      BY <3>1, <3>2
  <2> QED
    BY <2>1
<1>2. PICK e \in Int : e = a - b
  OBVIOUS
<1>3. PICK an \in Int, bn \in Int : an = a * n /\ bn = b * n
  OBVIOUS
<1>4. PICK en \in Int : en = e * n /\ en = an - bn
  <2>1. \A x, y \in Int, z \in Nat : (x - y) * z = x * z - y * z
    OBVIOUS
  <2>2. (a - b) * n = a * n - b * n
    BY <2>1
  <2> QED
    BY <1>2, <1>3, <2>2
<1>5. delta * delta <= en * en
  <2>1. \/ bn <= sum /\ sum <= an
        \/ sum <= bn /\ an <= sum
    BY <1>1, <1>3
  <2>2. delta = bn - sum
    BY <1>1, <1>3
  <2>3. \A x, y \in Int : (-x) * (-y) = x * y
    OBVIOUS
  <2>4. CASE bn <= sum /\ sum <= an
    <3>1. 0 <= -delta /\ -delta <= en /\ -delta \in Int
      BY <1>4, <2>2, <2>4
    <3>2. (-delta) * (-delta) <= en * en
      BY <3>1, SquareOrder
    <3> QED
      BY <2>3, <3>2
  <2>5. CASE sum <= bn /\ an <= sum
    <3>1. 0 <= delta /\ delta <= -en /\ -en \in Int
      BY <1>4, <2>2, <2>5
    <3>2. delta * delta <= (-en) * (-en)
      BY <3>1, SquareOrder
    <3> QED
      BY <2>3, <3>2
  <2> QED
    BY <2>1, <2>4, <2>5
<1>6. PICK ee \in Int, nn \in Nat : ee = e * e /\ nn = n * n
  <2>1. \A x \in Nat : x * x \in Nat
    OBVIOUS
  <2> QED
    BY <2>1
<1>7. en * en = ee * nn /\ limit * n * n = limit * nn
  <2>1. \A x, y \in Int : (x * y) * (x * y) = (x * x) * (y * y)
    OBVIOUS
  <2>2. \A x, y \in Int : x * y * y = x * (y * y)
    OBVIOUS
  <2>3. (e * n) * (e * n) = (e * e) * (n * n)
    BY <2>1
  <2>4. limit * n * n = limit * (n * n)
    BY <2>2
  <2> QED
    BY <1>4, <1>6, <2>3, <2>4
<1>8. ~ (ee * nn <= limit * nn)
  <2>1. PICK d \in Int, u \in Int, v \in Int : d = delta * delta /\ u = ee * nn /\ v = limit * nn
    OBVIOUS
  <2>2. d <= u /\ ~ (d <= v)
    BY <1>5, <1>7, <2>1
  <2>3. ~ (u <= v)
    BY <2>2
  <2> QED
    BY <2>1, <2>3
<1>9. limit <= ee
  <2> SUFFICES ASSUME ~ (limit <= ee) PROVE FALSE
    OBVIOUS
  <2>1. ee <= limit
    OBVIOUS
  <2>2. ee * nn <= limit * nn
    BY <2>1, TimesOrder
  <2> QED
    BY <1>8, <2>2
<1>10. ee <= Dist2(p, position)
  BY <1>1, <1>2, <1>6, SquareSum
<1>11. Dist2(p, position) \in Int
  BY DistType
<1> QED
  BY <1>9, <1>10, <1>11

\* The body of kdtreeNearest, for the function search that searches the sides
SearchRule(search, st, root, points, live, position) ==
  LET node == st.nodes[root]
      isLeft == position[node.axis] * node.count <= node.sum
      left == root + 1
      right == root + 1 + node.children
      off == [st EXCEPT !.nodes[root].children = IF BothOff(st.nodes, left, right) THEN 0 ELSE @]
      near == search[IF isLeft THEN left ELSE right][off]
  IN IF node.children = 0 THEN st
     ELSE IF node.axis = 0 THEN LeafSearch(st, root, points, live, position)
     ELSE IF Reaches(node, position, near)
     THEN search[IF isLeft THEN right ELSE left][near]
     ELSE near

\* kdtreeNearest for every root
KdSearch(kd, points, live, position) ==
  CHOOSE s : s = [root \in DOMAIN kd |->
                    [st \in KdStates(kd) |-> SearchRule(s, st, root, points, live, position)]]

\* KdNearest by the names used here
LEMMA KdNearestForm ==
  \A kd, points, live, position :
    KdNearest(kd, points, live, position)
      = KdSearch(kd, points, live, position)[1][[nodes |-> kd, result |-> 0, limit |-> 0]]
  BY DEF KdNearest, KdSearch, SearchRule

\* The side of the position first: first and second are the heads of the near and the far side.
Halves(node, r, position, first, second) ==
  IF position[node.axis] * node.count <= node.sum
  THEN first = r + 1 /\ second = r + 1 + node.children
  ELSE first = r + 1 + node.children /\ second = r + 1

\* The state in which a branch is entered
Entered(st, r) ==
  IF BothOff(st.nodes, r + 1, r + 1 + st.nodes[r].children) THEN Off(st, r) ELSE st

\* The sides of a branch, searched one after the other
Descent(search, st, r, position, first, second) ==
  IF Reaches(st.nodes[r], position, search[first][Entered(st, r)])
  THEN search[second][search[first][Entered(st, r)]]
  ELSE search[first][Entered(st, r)]

\* The search goes down to first, and then perhaps to second.
Descends(first, second, st, r, points, live, position) ==
  /\ Halves(st.nodes[r], r, position, first, second)
  /\ \A search : SearchRule(search, st, r, points, live, position)
                   = Descent(search, st, r, position, first, second)

\* A branch is searched by its sides.
LEMMA DescentRule ==
  ASSUME NEW kd \in Seq(KdNodes), NEW st \in KdStates(kd), NEW r \in 1 .. Len(kd), NEW points, NEW live, NEW position,
         st.nodes[r].children # 0, st.nodes[r].axis # 0
  PROVE  \E first, second : Descends(first, second, st, r, points, live, position)
<1> DEFINE node == st.nodes[r]
           isLeft == position[node.axis] * node.count <= node.sum
           first == IF isLeft THEN r + 1 ELSE r + 1 + node.children
           second == IF isLeft THEN r + 1 + node.children ELSE r + 1
           off == [st EXCEPT !.nodes[r].children =
                     IF BothOff(st.nodes, r + 1, r + 1 + node.children) THEN 0 ELSE @]
<1>1. off = Entered(st, r)
  <2>1. CASE BothOff(st.nodes, r + 1, r + 1 + node.children)
    BY <2>1 DEF Entered, Off
  <2>2. CASE ~BothOff(st.nodes, r + 1, r + 1 + node.children)
    <3>1. off = [st EXCEPT !.nodes = [st.nodes EXCEPT ![r] = [node EXCEPT !.children = node.children]]]
      BY <2>2
    <3>2. node \in KdNodes /\ st.nodes \in Seq(KdNodes) /\ st \in SearchState /\ r \in DOMAIN st.nodes
      <4>1. st \in SearchState /\ Len(st.nodes) = Len(kd)
        BY StateFacts
      <4> QED
        BY <4>1 DEF SearchState
    <3>3. [node EXCEPT !.children = node.children] = node
      BY <3>2 DEF KdNodes
    <3>4. [st.nodes EXCEPT ![r] = node] = st.nodes
      BY <3>2
    <3>5. [st EXCEPT !.nodes = st.nodes] = st
      BY <3>2 DEF SearchState
    <3> QED
      BY <2>2, <3>1, <3>3, <3>4, <3>5 DEF Entered
  <2> QED
    BY <2>1, <2>2
<1>2. Halves(node, r, position, first, second)
  BY DEF Halves
<1>3. \A search : SearchRule(search, st, r, points, live, position)
                    = IF Reaches(node, position, search[first][off])
                      THEN search[second][search[first][off]] ELSE search[first][off]
  BY Zenon DEF SearchRule
<1> HIDE DEF first, second, off
<1>4. \A search : SearchRule(search, st, r, points, live, position) = Descent(search, st, r, position, first, second)
  BY <1>1, <1>3, Zenon DEF Descent
<1> QED
  BY <1>2, <1>4 DEF Descends

\* Entering a branch switches off at most the branch.
LEMMA EnteredFacts ==
  ASSUME NEW kd \in Seq(KdNodes), NEW st \in KdStates(kd), NEW r \in 1 .. Len(kd)
  PROVE  /\ Entered(st, r) \in KdStates(kd)
         /\ Entered(st, r).result = st.result /\ Entered(st, r).limit = st.limit
         /\ \/ Entered(st, r).nodes = st.nodes
            \/ /\ Entered(st, r).nodes = [st.nodes EXCEPT ![r].children = 0]
               /\ BothOff(st.nodes, r + 1, r + 1 + st.nodes[r].children)
<1>1. CASE BothOff(st.nodes, r + 1, r + 1 + st.nodes[r].children)
  BY <1>1, OffFacts, SMTT(20) DEF Entered
<1>2. CASE ~BothOff(st.nodes, r + 1, r + 1 + st.nodes[r].children)
  BY <1>2 DEF Entered
<1> QED
  BY <1>1, <1>2

\* A node that is not switched off is as it was built.
LEMMA NodeKept ==
  ASSUME NEW kd \in Seq(KdNodes), NEW st \in KdStates(kd), NEW r \in 1 .. Len(kd), st.nodes[r].children # 0
  PROVE  st.nodes[r] = kd[r] /\ kd[r].children \in Nat \ {0} /\ kd[r].axis \in 0..3 /\ kd[r].count \in Nat
         /\ kd[r].sum \in Int
<1>1. kd[r] \in KdNodes
  OBVIOUS
<1>2. st.nodes[r] = kd[r] \/ st.nodes[r] = [kd[r] EXCEPT !.children = 0]
  BY StateFacts
<1> QED
  BY <1>1, <1>2 DEF KdNodes

\* Both sides of a branch are behind it, and in the tree.
LEMMA SidesInside ==
  ASSUME NEW points, NEW live, NEW kd, NEW U, Labelled(kd, points, live, U),
         NEW st \in KdStates(kd), NEW r \in 1 .. Len(kd), st.nodes[r].children # 0, st.nodes[r].axis # 0,
         NEW position, NEW first, NEW second, Halves(st.nodes[r], r, position, first, second)
  PROVE  first \in 1 .. Len(kd) /\ second \in 1 .. Len(kd) /\ first > r /\ second > r
<1>1. kd \in Seq(KdNodes)
  BY DEF Labelled
<1>2. PICK c \in Nat : c = kd[r].children /\ c # 0 /\ st.nodes[r] = kd[r]
  BY <1>1, NodeKept
<1>3. BranchAt(kd, points, U, r)
  BY <1>2 DEF Labelled, NodeFits
<1>4. r + 1 + c <= Len(kd) /\ Len(kd) \in Nat
  BY <1>1, <1>2, <1>3 DEF BranchAt
<1>5. (first = r + 1 /\ second = r + 1 + c) \/ (first = r + 1 + c /\ second = r + 1)
  BY <1>2 DEF Halves
<1> QED
  BY <1>4, <1>5

\* The points of a leaf are in the tree.
LEMMA LeafInside ==
  ASSUME NEW points, NEW live, NEW kd, NEW U, Labelled(kd, points, live, U),
         NEW st \in KdStates(kd), NEW r \in 1 .. Len(kd), st.nodes[r].children # 0, st.nodes[r].axis = 0
  PROVE  \E n \in Nat : n = st.nodes[r].children /\ r + n - 1 <= Len(kd)
<1>1. kd \in Seq(KdNodes)
  BY DEF Labelled
<1>2. PICK n \in Nat : n = kd[r].children /\ n # 0 /\ st.nodes[r] = kd[r]
  BY <1>1, NodeKept
<1>3. LeafAt(kd, U, r)
  BY <1>2 DEF Labelled, NodeFits
<1> QED
  BY <1>2, <1>3 DEF LeafAt

\* A search ends in a state of the tree when those behind its root do.
LEMMA SearchTyped ==
  ASSUME NEW points \in Seq(Located), NEW live \in SUBSET (DOMAIN points), NEW position \in Located,
         NEW kd, NEW U, Labelled(kd, points, live, U), NEW st \in KdStates(kd), NEW r \in 1 .. Len(kd),
         NEW search \in [1 .. Len(kd) -> [KdStates(kd) -> KdStates(kd)]]
  PROVE  SearchRule(search, st, r, points, live, position) \in KdStates(kd)
<1>1. kd \in Seq(KdNodes)
  BY DEF Labelled
<1>2. CASE st.nodes[r].children = 0
  BY <1>2 DEF SearchRule
<1>3. CASE st.nodes[r].children # 0 /\ st.nodes[r].axis = 0
  <2>1. PICK n \in Nat : n = st.nodes[r].children /\ r + n - 1 <= Len(kd)
    BY <1>3, LeafInside
  <2>2. LeafSearch(st, r, points, live, position) \in KdStates(kd)
    BY <1>1, <2>1, LeafSearchFacts DEF LeafOutcome
  <2> QED
    BY <1>3, <2>2 DEF SearchRule
<1>4. CASE st.nodes[r].children # 0 /\ st.nodes[r].axis # 0
  <2>1. PICK first, second : Descends(first, second, st, r, points, live, position)
    BY <1>1, <1>4, DescentRule
  <2>2. first \in 1 .. Len(kd) /\ second \in 1 .. Len(kd)
    BY <1>4, <2>1, SidesInside DEF Descends
  <2>3. Entered(st, r) \in KdStates(kd)
    BY <1>1, EnteredFacts
  <2>4. PICK near \in KdStates(kd) : near = search[first][Entered(st, r)]
    BY <2>2, <2>3
  <2>5. search[second][near] \in KdStates(kd)
    BY <2>2
  <2> QED
    BY <2>1, <2>4, <2>5 DEF Descends, Descent
<1> QED
  BY <1>2, <1>3, <1>4

\* Only the searches from the nodes behind the root matter.
LEMMA SearchSame ==
  ASSUME NEW points, NEW live, NEW position,
         NEW kd, NEW U, Labelled(kd, points, live, U), NEW st \in KdStates(kd), NEW r \in 1 .. Len(kd),
         NEW g, NEW h, \A t \in 1 .. Len(kd) : t > r => g[t] = h[t]
  PROVE  SearchRule(g, st, r, points, live, position) = SearchRule(h, st, r, points, live, position)
<1>1. kd \in Seq(KdNodes)
  BY DEF Labelled
<1>2. CASE st.nodes[r].children = 0
  BY <1>2 DEF SearchRule
<1>3. CASE st.nodes[r].children # 0 /\ st.nodes[r].axis = 0
  BY <1>3 DEF SearchRule
<1>4. CASE st.nodes[r].children # 0 /\ st.nodes[r].axis # 0
  <2>1. PICK first, second : Descends(first, second, st, r, points, live, position)
    BY <1>1, <1>4, DescentRule
  <2>2. first \in 1 .. Len(kd) /\ second \in 1 .. Len(kd) /\ first > r /\ second > r
    BY <1>4, <2>1, SidesInside DEF Descends
  <2>3. g[first] = h[first] /\ g[second] = h[second]
    BY <2>2
  <2>4. Descent(g, st, r, position, first, second) = Descent(h, st, r, position, first, second)
    BY <2>3 DEF Descent
  <2> QED
    BY <2>1, <2>4 DEF Descends
<1> QED
  BY <1>2, <1>3, <1>4

\* After the search from r no live point below it is closer than the one that is known.
Searched(x, st, kd, r, points, live, position, U) ==
  /\ x \in KdStates(kd)
  /\ Labelled(st.nodes, points, live, U) =>
       /\ Labelled(x.nodes, points, live, U)
       /\ \A C : Closest(st, points, live, position, C)
                   => Closest(x, points, live, position, C \cup (U[r] \cap live))

\* What is known when the far side is left out
LEMMA ReachesForm ==
  ASSUME NEW node, NEW position, NEW st, st.result # 0, ~Reaches(node, position, st)
  PROVE  LET delta == position[node.axis] * node.count - node.sum
         IN ~ (delta * delta <= st.limit * node.count * node.count)
BY DEF Reaches

\* The far side is left out only when it cannot have a closer point.
LEMMA FarSide ==
  ASSUME NEW points \in Seq(Located), NEW live \in SUBSET (DOMAIN points), NEW position \in Located,
         NEW kd, NEW U, Labelled(kd, points, live, U), NEW r \in 1 .. Len(kd),
         kd[r].children # 0, kd[r].axis # 0, NEW first, NEW second, Halves(kd[r], r, position, first, second),
         NEW st \in SearchState, ~Reaches(kd[r], position, st)
  PROVE  st.result # 0 /\ \A t \in U[second] : st.limit <= Dist2(points[t], position)
<1>1. kd \in Seq(KdNodes) /\ U \in [1 .. Len(kd) -> SUBSET (DOMAIN points)]
  BY DEF Labelled
<1>2. kd[r] \in KdNodes
  BY <1>1
<1>3. BranchAt(kd, points, U, r)
  BY DEF Labelled, NodeFits
<1>4. PICK axis \in 1..3, n \in Nat \ {0}, sum \in Int, c \in Nat :
        axis = kd[r].axis /\ n = kd[r].count /\ sum = kd[r].sum /\ c = kd[r].children
  <2>1. kd[r].axis \in 1..3 /\ kd[r].count >= 1
    BY <1>3 DEF BranchAt
  <2>2. kd[r].count \in Nat /\ kd[r].sum \in Int /\ kd[r].children \in Nat
    BY <1>2 DEF KdNodes
  <2> QED
    BY <2>1, <2>2
<1>5. st.result # 0
  BY DEF Reaches
<1>6. position[axis] \in Int
  <2>1. <<position>> \in Seq(Located) /\ 1 \in DOMAIN <<position>> /\ <<position>>[1] = position
    OBVIOUS
  <2>2. <<position>>[1][axis] \in Int
    BY <2>1, Coordinate
  <2> QED
    BY <2>1, <2>2
<1>7. PICK delta \in Int : delta = position[axis] * n - sum
  BY <1>6
<1>8. ~ (delta * delta <= st.limit * n * n)
  BY <1>4, <1>5, <1>7, ReachesForm
<1>9. ASSUME NEW t \in U[second] PROVE st.limit <= Dist2(points[t], position)
  <2>1. PICK p \in Located : p = points[t]
    <3>1. r + 1 + c <= Len(kd) /\ Len(kd) \in Nat
      BY <1>1, <1>3, <1>4 DEF BranchAt
    <3>2. second \in 1 .. Len(kd)
      BY <1>4, <3>1 DEF Halves
    <3>3. t \in DOMAIN points
      BY <1>1, <3>2
    <3> QED
      BY <3>3
  <2>2. \/ position[axis] * n <= sum /\ sum <= p[axis] * n
        \/ sum <= position[axis] * n /\ p[axis] * n <= sum
    <3>1. CASE position[axis] * n <= sum
      <4>1. second = r + 1 + c
        BY <1>4, <3>1 DEF Halves
      <4> QED
        BY <1>3, <1>4, <2>1, <3>1, <4>1 DEF BranchAt
    <3>2. CASE ~ (position[axis] * n <= sum)
      <4>1. second = r + 1
        BY <1>4, <3>2 DEF Halves
      <4>2. p[axis] * n <= sum
        BY <1>3, <1>4, <2>1, <4>1 DEF BranchAt
      <4>3. position[axis] * n \in Int
        BY <1>6
      <4> QED
        BY <3>2, <4>2, <4>3
    <3> QED
      BY <3>1, <3>2
  <2>3. st.limit \in Int
    BY DEF SearchState
  <2> QED
    BY <1>7, <1>8, <2>1, <2>2, <2>3, AcrossFar
<1> QED
  BY <1>5, <1>9

\* A branch whose sides are switched off has no live points below it.
LEMMA EnteredLabelled ==
  ASSUME NEW points, NEW live, NEW U, NEW kd \in Seq(KdNodes), NEW st \in KdStates(kd),
         Labelled(st.nodes, points, live, U), NEW r \in 1 .. Len(kd),
         st.nodes[r].children # 0, st.nodes[r].axis # 0
  PROVE  Labelled(Entered(st, r).nodes, points, live, U)
<1>1. Len(st.nodes) = Len(kd)
  BY StateFacts
<1>2. CASE Entered(st, r).nodes = st.nodes
  BY <1>2
<1>3. CASE /\ Entered(st, r).nodes = [st.nodes EXCEPT ![r].children = 0]
           /\ BothOff(st.nodes, r + 1, r + 1 + st.nodes[r].children)
  <2>1. st.nodes \in Seq(KdNodes) /\ Len(st.nodes) \in Nat
    BY DEF Labelled
  <2>2. PICK c \in Nat : c = st.nodes[r].children
    <3>1. st.nodes[r] \in KdNodes
      BY <1>1, <2>1
    <3> QED
      BY <3>1 DEF KdNodes
  <2>3. BranchAt(st.nodes, points, U, r)
    BY <1>1 DEF Labelled, NodeFits
  <2>4. r + 1 \in 1 .. Len(st.nodes) /\ r + 1 + c \in 1 .. Len(st.nodes)
    BY <2>1, <2>2, <2>3 DEF BranchAt
  <2>5. U[r + 1] \cap live = {} /\ U[r + 1 + c] \cap live = {}
    BY <1>3, <2>2, <2>4 DEF Labelled, NodeFits, BothOff
  <2>6. U[r] \cap live = {}
    BY <2>2, <2>3, <2>5 DEF BranchAt
  <2> QED
    BY <1>1, <1>3, <2>6, OffLabelled
<1> QED
  BY <1>2, <1>3, EnteredFacts

\* The search of a leaf finds its closest live point.
LEMMA LeafSearched ==
  ASSUME NEW points \in Seq(Located), NEW live \in SUBSET (DOMAIN points), NEW position \in Located,
         NEW kd, NEW U, Labelled(kd, points, live, U), NEW st \in KdStates(kd), NEW r \in 1 .. Len(kd),
         st.nodes[r].children # 0, st.nodes[r].axis = 0
  PROVE  Searched(LeafSearch(st, r, points, live, position), st, kd, r, points, live, position, U)
<1>1. kd \in Seq(KdNodes)
  BY DEF Labelled
<1>2. PICK n \in Nat : n = st.nodes[r].children /\ r + n - 1 <= Len(kd)
  BY LeafInside
<1>3. PICK x : x = LeafSearch(st, r, points, live, position)
  OBVIOUS
<1>4. LeafOutcome(x, st, kd, r, n, points, live, position)
  BY <1>1, <1>2, <1>3, LeafSearchFacts
<1>5. Len(st.nodes) = Len(kd)
  BY <1>1, StateFacts
<1>6. ASSUME Labelled(st.nodes, points, live, U)
      PROVE  /\ Labelled(x.nodes, points, live, U)
             /\ \A C : Closest(st, points, live, position, C)
                         => Closest(x, points, live, position, C \cup (U[r] \cap live))
  <2>1. LeafAt(st.nodes, U, r)
    BY <1>5, <1>6 DEF Labelled, NodeFits
  <2>2. LeafPoints(st.nodes, r, live, n) = U[r] \cap live
    BY <1>2, <2>1 DEF LeafAt, LeafPoints
  <2>3. Labelled(x.nodes, points, live, U)
    <3>1. CASE x.nodes = st.nodes
      BY <1>6, <3>1
    <3>2. CASE x.nodes = [st.nodes EXCEPT ![r].children = 0] /\ LeafPoints(st.nodes, r, live, n) = {}
      BY <1>5, <1>6, <2>2, <3>2, OffLabelled, SMTT(20)
    <3> QED
      BY <1>4, <3>1, <3>2 DEF LeafOutcome
  <2> QED
    BY <1>4, <2>2, <2>3 DEF LeafOutcome
<1> QED
  BY <1>3, <1>4, <1>6 DEF LeafOutcome, Searched

\* A search is right when those from the nodes behind its root are.
LEMMA SearchStep ==
  ASSUME NEW points \in Seq(Located), NEW live \in SUBSET (DOMAIN points), NEW position \in Located,
         NEW kd, NEW U, Labelled(kd, points, live, U), NEW st \in KdStates(kd), NEW r \in 1 .. Len(kd),
         NEW search, \A t \in 1 .. Len(kd), s \in KdStates(kd) :
                       t > r => Searched(search[t][s], s, kd, t, points, live, position, U)
  PROVE  Searched(SearchRule(search, st, r, points, live, position), st, kd, r, points, live, position, U)
<1>1. kd \in Seq(KdNodes) /\ U \in [1 .. Len(kd) -> SUBSET (DOMAIN points)]
  BY DEF Labelled
<1>2. Len(st.nodes) = Len(kd) /\ st \in SearchState
  BY <1>1, StateFacts
<1>3. CASE st.nodes[r].children = 0
  <2>1. SearchRule(search, st, r, points, live, position) = st
    BY <1>3 DEF SearchRule
  <2>2. Labelled(st.nodes, points, live, U) => U[r] \cap live = {}
    BY <1>2, <1>3 DEF Labelled, NodeFits
  <2> QED
    BY <2>1, <2>2 DEF Searched
<1>4. CASE st.nodes[r].children # 0 /\ st.nodes[r].axis = 0
  <2>1. SearchRule(search, st, r, points, live, position) = LeafSearch(st, r, points, live, position)
    BY <1>4 DEF SearchRule
  <2> QED
    BY <1>4, <2>1, LeafSearched
<1>5. CASE st.nodes[r].children # 0 /\ st.nodes[r].axis # 0
  <2>1. PICK first, second : Descends(first, second, st, r, points, live, position)
    BY <1>1, <1>5, DescentRule
  <2>2. Halves(st.nodes[r], r, position, first, second)
    BY <2>1 DEF Descends
  <2>3. first \in 1 .. Len(kd) /\ second \in 1 .. Len(kd) /\ first > r /\ second > r
    BY <1>5, <2>2, SidesInside
  <2>4. PICK off \in KdStates(kd) : off = Entered(st, r) /\ off.result = st.result /\ off.limit = st.limit
    BY <1>1, EnteredFacts
  <2>5. PICK near : near = search[first][off]
    OBVIOUS
  <2>6. Searched(near, off, kd, first, points, live, position, U)
    BY <2>3, <2>4, <2>5
  <2>7. near \in KdStates(kd)
    BY <2>6 DEF Searched
  <2>8. PICK far : far = search[second][near]
    OBVIOUS
  <2>9. Searched(far, near, kd, second, points, live, position, U)
    BY <2>3, <2>7, <2>8
  <2>10. SearchRule(search, st, r, points, live, position) = IF Reaches(st.nodes[r], position, near) THEN far ELSE near
    BY <2>1, <2>4, <2>5, <2>8 DEF Descends, Descent
  <2>11. far \in KdStates(kd)
    BY <2>9 DEF Searched
  <2>12. ASSUME Labelled(st.nodes, points, live, U), NEW C, Closest(st, points, live, position, C)
         PROVE  /\ Labelled(near.nodes, points, live, U)
                /\ Closest(near, points, live, position, C \cup (U[first] \cap live))
    <3>1. Labelled(off.nodes, points, live, U)
      BY <1>1, <1>5, <2>4, <2>12, EnteredLabelled
    <3>2. Closest(off, points, live, position, C)
      BY <2>4, <2>12 DEF Closest
    <3> QED
      BY <2>6, <3>1, <3>2 DEF Searched
  <2>13. U[first] \cup U[second] = U[r] /\ st.nodes[r] = kd[r]
    <3>1. st.nodes[r] = kd[r] /\ kd[r].children \in Nat
      BY <1>1, <1>5, NodeKept
    <3>2. BranchAt(kd, points, U, r)
      BY <1>5, <3>1 DEF Labelled, NodeFits
    <3> QED
      BY <2>2, <3>1, <3>2 DEF BranchAt, Halves
  <2>14. CASE Reaches(st.nodes[r], position, near)
    <3>1. ASSUME Labelled(st.nodes, points, live, U), NEW C, Closest(st, points, live, position, C)
          PROVE  /\ Labelled(far.nodes, points, live, U)
                 /\ Closest(far, points, live, position, C \cup (U[r] \cap live))
      <4>1. /\ Labelled(near.nodes, points, live, U)
            /\ Closest(near, points, live, position, C \cup (U[first] \cap live))
        BY <2>12, <3>1
      <4>2. /\ Labelled(far.nodes, points, live, U)
            /\ Closest(far, points, live, position, (C \cup (U[first] \cap live)) \cup (U[second] \cap live))
        BY <2>9, <4>1 DEF Searched
      <4>3. (C \cup (U[first] \cap live)) \cup (U[second] \cap live) = C \cup (U[r] \cap live)
        BY <2>13
      <4> QED
        BY <4>2, <4>3
    <3>2. Labelled(st.nodes, points, live, U) => Labelled(far.nodes, points, live, U)
      BY <2>6, <2>9, <1>1, <1>5, <2>4, EnteredLabelled DEF Searched
    <3> QED
      BY <2>10, <2>11, <2>14, <3>1, <3>2 DEF Searched
  <2>15. CASE ~Reaches(st.nodes[r], position, near)
    <3>1. near \in SearchState
      BY <1>1, <2>7, StateFacts
    <3>2. near.result # 0 /\ \A t \in U[second] : near.limit <= Dist2(points[t], position)
      <4>1. kd[r].children # 0 /\ kd[r].axis # 0 /\ Halves(kd[r], r, position, first, second)
        BY <1>5, <2>2, <2>13
      <4>2. ~Reaches(kd[r], position, near)
        BY <2>13, <2>15
      <4> QED
        BY <3>1, <4>1, <4>2, FarSide
    <3>3. ASSUME Labelled(st.nodes, points, live, U), NEW C, Closest(st, points, live, position, C)
          PROVE  Closest(near, points, live, position, C \cup (U[r] \cap live))
      <4>1. Closest(near, points, live, position, C \cup (U[first] \cap live))
        BY <2>12, <3>3
      <4>2. C \cup (U[r] \cap live) = (C \cup (U[first] \cap live)) \cup (U[second] \cap live)
        BY <2>13
      <4> QED
        BY <3>2, <4>1, <4>2 DEF Closest
    <3>4. Labelled(st.nodes, points, live, U) => Labelled(near.nodes, points, live, U)
      BY <2>6, <1>1, <1>5, <2>4, EnteredLabelled DEF Searched
    <3> QED
      BY <2>7, <2>10, <2>15, <3>3, <3>4 DEF Searched
  <2> QED
    BY <2>14, <2>15
<1> QED
  BY <1>3, <1>4, <1>5

\* A search finds the closest live point, and leaves a tree in which no live one is hidden.
LEMMA KdNearestFacts ==
  ASSUME NEW points \in Seq(Located), NEW live \in SUBSET (DOMAIN points), NEW position \in Located,
         NEW kd, IsTree(kd, points, live, DOMAIN points)
  PROVE  LET x == KdNearest(kd, points, live, position)
         IN /\ IsTree(x.nodes, points, live, DOMAIN points)
            /\ Closest(x, points, live, position, live)
<1>1. PICK U : Labelled(kd, points, live, U) /\ U[1] = DOMAIN points
  BY DEF IsTree
<1>2. PICK n \in Nat : n = Len(kd) /\ DOMAIN kd = 1..n /\ n >= 1 /\ kd \in Seq(KdNodes)
  BY <1>1 DEF Labelled
<1> DEFINE S == 1..n
           K == KdStates(kd)
           X == [K -> K]
           mu == [r \in S |-> n - r]
           Rule(s, st, r) == SearchRule(s, st, r, points, live, position)
           G == [p \in S \X [S -> X] |-> [st \in K |-> Rule(p[2], st, p[1])]]
           Body(s) == [r \in S |-> [st \in K |-> Rule(s, st, r)]]
           k == KdSearch(kd, points, live, position)
<1>3. mu \in [S -> Nat]
  OBVIOUS
<1>4. \A r \in S, g \in [S -> X] : G[<<r, g>>] = [st \in K |-> Rule(g, st, r)]
  OBVIOUS
<1>5. ASSUME NEW r \in S, NEW g \in [S -> X] PROVE [st \in K |-> Rule(g, st, r)] \in X
  <2>1. \A st \in K : Rule(g, st, r) \in K
    BY <1>1, <1>2, SearchTyped
  <2> HIDE DEF Rule
  <2> QED
    BY <2>1
<1>6. G \in [S \X [S -> X] -> X]
  <2>1. ASSUME NEW p \in S \X [S -> X] PROVE [st \in K |-> Rule(p[2], st, p[1])] \in X
    <3>1. p[1] \in S /\ p[2] \in [S -> X]
      OBVIOUS
    <3> HIDE DEF X, S, Rule
    <3> QED
      BY <1>5, <3>1
  <2> HIDE DEF X, S, Rule
  <2> QED
    BY <2>1
<1>7. Grounded(G, S, X, mu)
  <2> SUFFICES ASSUME NEW r \in S, NEW g \in [S -> X], NEW h \in [S -> X], \A t \in S : mu[t] < mu[r] => g[t] = h[t]
               PROVE  G[<<r, g>>] = G[<<r, h>>]
    BY DEF Grounded
  <2>1. \A t \in S : t > r => g[t] = h[t]
    OBVIOUS
  <2>2. \A st \in K : Rule(g, st, r) = Rule(h, st, r)
    BY <1>1, <1>2, <2>1, SearchSame
  <2> HIDE DEF Rule
  <2>3. [st \in K |-> Rule(g, st, r)] = [st \in K |-> Rule(h, st, r)]
    BY <2>2
  <2>4. G[<<r, g>>] = [st \in K |-> Rule(g, st, r)] /\ G[<<r, h>>] = [st \in K |-> Rule(h, st, r)]
    BY <1>4, Zenon
  <2> HIDE DEF G, X, S
  <2> QED
    BY <2>3, <2>4, Zenon
<1>8. X # {}
  <2>1. [st \in K |-> st] \in X
    OBVIOUS
  <2> QED
    BY <2>1
<1> HIDE DEF G, mu, X, Rule
<1>9. PICK g \in [S -> X] : TakesSteps(g, S, G)
  <2> HIDE DEF S
  <2> QED
    BY <1>3, <1>6, <1>7, <1>8, GroundedRecursion
<1>10. g = Body(g)
  <2>1. \A r \in S : g[r] = [st \in K |-> Rule(g, st, r)]
    BY <1>4, <1>9 DEF TakesSteps
  <2> QED
    BY <1>9, <2>1
<1>11. k = Body(k)
  <2>1. k = CHOOSE s : s = Body(s)
    BY <1>2 DEF KdSearch, Rule
  <2> HIDE DEF Body, k
  <2> QED
    BY <1>10, <2>1
<1> HIDE DEF k
<1>12. ASSUME NEW r \in S, NEW st \in K PROVE k[r][st] = Rule(k, st, r)
  <2>1. \A h : Body(h)[r][st] = Rule(h, st, r)
    OBVIOUS
  <2> HIDE DEF Body
  <2> QED
    BY <1>11, <2>1
<1> HIDE DEF Body
<1> DEFINE done(r) == \A st \in K : Searched(k[r][st], st, kd, r, points, live, position, U)
           T == {m \in Nat : \A r \in S : r + m >= n => done(r)}
<1>13. ASSUME NEW r \in S, \A t \in S : t > r => done(t) PROVE done(r)
  <2> SUFFICES ASSUME NEW st \in K PROVE Searched(k[r][st], st, kd, r, points, live, position, U)
    OBVIOUS
  <2>1. \A t \in 1 .. Len(kd), s \in KdStates(kd) : t > r => Searched(k[t][s], s, kd, t, points, live, position, U)
    BY <1>2, <1>13
  <2>2. Searched(Rule(k, st, r), st, kd, r, points, live, position, U)
    BY <1>1, <1>2, <2>1, SearchStep DEF Rule
  <2> QED
    BY <1>12, <2>2
<1> HIDE DEF done
<1>14. 0 \in T
  <2> SUFFICES ASSUME NEW r \in S, r >= n PROVE done(r)
    OBVIOUS
  <2>1. \A t \in S : ~ (t > r)
    OBVIOUS
  <2> QED
    BY <1>13, <2>1
<1>15. ASSUME NEW m \in Nat, m \in T PROVE m + 1 \in T
  <2> SUFFICES ASSUME NEW r \in S, r + (m + 1) >= n PROVE done(r)
    OBVIOUS
  <2>1. \A t \in S : t > r => t + m >= n
    OBVIOUS
  <2> QED
    BY <1>13, <1>15, <2>1
<1>16. Nat \subseteq T
  <2> HIDE DEF T
  <2> QED
    BY <1>14, <1>15, NatSetInduction
<1>17. done(1)
  <2>1. n \in T
    <3> HIDE DEF T
    <3> QED
      BY <1>16
  <2>2. 1 \in S /\ 1 + n >= n
    BY <1>2
  <2> QED
    BY <2>1, <2>2
<1>18. PICK st : st = [nodes |-> kd, result |-> 0, limit |-> 0]
  OBVIOUS
<1>19. st \in K
  <2>1. kd \in [DOMAIN kd -> KdNodes]
    BY <1>2
  <2> QED
    BY <1>18, <2>1 DEF KdStates
<1>20. Closest(st, points, live, position, {})
  BY <1>18 DEF Closest
<1>21. Searched(k[1][st], st, kd, 1, points, live, position, U)
  BY <1>17, <1>19 DEF done
<1>22. PICK x : x = KdNearest(kd, points, live, position)
  OBVIOUS
<1>23. Searched(x, st, kd, 1, points, live, position, U)
  BY <1>18, <1>21, <1>22, KdNearestForm DEF k
<1>24. Labelled(x.nodes, points, live, U)
  BY <1>1, <1>18, <1>23 DEF Searched
<1>25. Closest(x, points, live, position, {} \cup (U[1] \cap live))
  BY <1>1, <1>18, <1>20, <1>23 DEF Searched
<1>26. {} \cup (U[1] \cap live) = live
  BY <1>1
<1> QED
  BY <1>1, <1>22, <1>24, <1>25, <1>26 DEF IsTree

-----------------------------------------------------------------------------
(* The builder with its tree *)

\* The tree is one of all triangles, with subtrees without live triangles switched off.
TreeInv == phase = "flex" => IsTree(tree, mesh.centroids, Live, Faces)

\* The inductive invariant of the builder with its tree
SearchInv == IInv /\ TreeInv /\ FindsNearest

\* There is a point for each triangle.
LEMMA CentroidFacts ==
  ASSUME Arguments
  PROVE  mesh.centroids \in Seq(Located) /\ mesh.centroids # <<>> /\ Faces = DOMAIN mesh.centroids
<1>1. /\ FaceCount \in Nat \ {0} /\ Faces = 1 .. FaceCount
      /\ mesh.centroids \in Seq(Int \X Int \X Int) /\ Len(mesh.centroids) = FaceCount
  BY InputFacts
<1>2. PICK points \in Seq(Located) : points = mesh.centroids
  BY <1>1 DEF Located
<1>3. DOMAIN points = 1 .. FaceCount
  BY <1>1, <1>2
<1> QED
  BY <1>1, <1>2, <1>3

\* Points that are no longer live do not matter to a tree.
LEMMA TreeLasts ==
  ASSUME NEW kd, NEW points, NEW live, NEW fewer \in SUBSET live, NEW S, IsTree(kd, points, live, S)
  PROVE  IsTree(kd, points, fewer, S)
<1>1. PICK U : Labelled(kd, points, live, U) /\ U[1] = S
  BY DEF IsTree
<1>2. ASSUME NEW r \in 1 .. Len(kd) PROVE NodeFits(kd, points, fewer, U, r)
  <2>1. NodeFits(kd, points, live, U, r)
    BY <1>1 DEF Labelled
  <2> QED
    BY <2>1 DEF NodeFits
<1>3. Labelled(kd, points, fewer, U)
  BY <1>1, <1>2 DEF Labelled
<1> QED
  BY <1>1, <1>3 DEF IsTree

\* A step keeps the mesh, and appends at most one triangle.
LEMMA StepForm ==
  ASSUME [Next]_vars
  PROVE  /\ mesh' = mesh /\ (phase' = "flex" => phase = "flex")
         /\ order' = order \/ \E t : order' = Append(order, t)
<1>1. ASSUME NEW t, NEW split, AppendMeshlet(t, split) PROVE order' = Append(order, t)
  BY <1>1 DEF AppendMeshlet
<1>2. ASSUME NEW best, NEW split, FlexEmit(best, split)
      PROVE  mesh' = mesh /\ phase' = phase /\ \E t : order' = Append(order, t)
  BY <1>1, <1>2 DEF FlexEmit
<1>3. CASE ScanNext
  BY <1>1, <1>3 DEF ScanNext, ScanTriangle, ScanFinish, Finish
<1>4. CASE FlexFirst \/ FlexNeighbor \/ \E t \in Live, far \in BOOLEAN : FlexNearest(t, far)
  BY <1>2, <1>4 DEF FlexFirst, FlexNeighbor, FlexNearest
<1>5. CASE FlexFinish
  BY <1>5 DEF FlexFinish, Finish
<1>6. CASE SplitLeaf \/ SplitTail \/ SplitRange \/ SplitDone
  BY <1>6 DEF SplitLeaf, SplitTail, SplitRange, SplitAt, SplitDone, outVars
<1>7. CASE PackTriangle \/ PackFinish
  BY <1>1, <1>7 DEF PackTriangle, PackFinish, Finish
<1>8. CASE UNCHANGED vars
  BY <1>8 DEF vars, outVars
<1> QED
  BY <1>3, <1>4, <1>5, <1>6, <1>7, <1>8 DEF Next, FlexNext, SpatialNext, Returned

\* No triangle becomes live again.
LEMMA LiveShrinks ==
  ASSUME IInv, [Next]_vars
  PROVE  Live' \subseteq Live
<1>1. mesh' = mesh /\ (order' = order \/ \E t : order' = Append(order, t))
  BY StepForm
<1>2. Faces' = Faces
  BY <1>1 DEF Faces
<1>3. order \in Seq(Faces)
  BY DEF IInv, Output, Ready
<1>4. CASE order' = order
  BY <1>2, <1>4 DEF Live
<1>5. ASSUME NEW t, order' = Append(order, t) PROVE Live' \subseteq Live
  <2>1. order \in Seq(Faces \cup {t})
    BY <1>3
  <2>2. PICK n \in Nat : n = Len(order) /\ DOMAIN order = 1..n
    BY <1>3
  <2>3. DOMAIN Append(order, t) = 1 .. n + 1 /\ \A i \in 1..n : Append(order, t)[i] = order[i]
    BY <2>1, <2>2, AppendProperties
  <2>4. Range(order) \subseteq Range(order')
    BY <1>5, <2>2, <2>3 DEF Range
  <2> QED
    BY <1>2, <2>4 DEF Live
<1> QED
  BY <1>1, <1>4, <1>5

\* What a search of the loop returns
LEMMA NearestFacts ==
  ASSUME SearchInv, NEW position \in Positions, Nearest(position)
  PROVE  /\ found' = [position |-> position, live |-> Live, result |-> found.result']
         /\ IsTree(tree', mesh.centroids, Live, Faces)
         /\ Closest([result |-> found.result', limit |-> Dist2(mesh.centroids[found.result'], position)],
                    mesh.centroids, Live, position, Live)
         /\ [Next]_vars
<1> DEFINE points == mesh.centroids
           x == KdNearest(tree, points, Live, position)
<1>1. points \in Seq(Located) /\ Faces = DOMAIN points /\ Live \subseteq DOMAIN points
  BY CentroidFacts DEF SearchInv, IInv, Live
<1>2. position \in Located
  BY SearchAssumption DEF Located
<1>3. /\ FlexDone /\ tree' = x.nodes
      /\ found' = [position |-> position, live |-> Live, result |-> x.result]
      /\ IF x.result = 0 THEN Finish ELSE \E far \in BOOLEAN : FlexNearest(x.result, far)
  BY DEF Nearest
<1>4. IsTree(tree, points, Live, DOMAIN points)
  BY <1>1, <1>3 DEF SearchInv, TreeInv, FlexDone
<1>5. IsTree(x.nodes, points, Live, DOMAIN points) /\ Closest(x, points, Live, position, Live)
  BY <1>1, <1>2, <1>4, KdNearestFacts
<1>6. found.result' = x.result
  BY <1>3
<1>7. [Next]_vars
  <2>1. CASE x.result = 0
    <3>1. Live = {}
      BY <1>5, <2>1 DEF Closest
    <3> QED
      BY <1>3, <2>1, <3>1 DEF Next, FlexNext, FlexFinish
  <2>2. CASE x.result # 0
    <3>1. x.result \in Live
      BY <1>5, <2>2 DEF Closest
    <3> QED
      BY <1>3, <2>2, <3>1 DEF Next, FlexNext
  <2> QED
    BY <2>1, <2>2
<1>8. Closest([result |-> x.result, limit |-> Dist2(points[x.result], position)], points, Live, position, Live)
  <2>1. PICK c : c = [result |-> x.result, limit |-> Dist2(points[x.result], position)]
    OBVIOUS
  <2>2. c.result = x.result /\ c.limit = Dist2(points[x.result], position)
    BY <2>1
  <2>3. /\ Live \subseteq Live
        /\ x.result # 0 => x.result \in Live /\ x.limit = Dist2(points[x.result], position)
        /\ x.result = 0 => Live = {}
        /\ \A t \in Live : x.limit <= Dist2(points[t], position)
    BY <1>5 DEF Closest
  <2>4. Closest(c, points, Live, position, Live)
    BY <2>2, <2>3 DEF Closest
  <2> QED
    BY <2>1, <2>4
<1> QED
  BY <1>1, <1>3, <1>5, <1>6, <1>7, <1>8

\* Every step of the composition is a step of the builder.
LEMMA SearchStepForm ==
  ASSUME SearchInv, [SearchNext]_searchVars
  PROVE  [Next]_vars
<1>1. CASE (ScanNext \/ FlexFirst \/ FlexNeighbor \/ SpatialNext \/ Returned) /\ UNCHANGED <<tree, found>>
  BY <1>1 DEF Next, FlexNext
<1>2. CASE \E position \in Positions : Nearest(position)
  BY <1>2, NearestFacts
<1>3. CASE UNCHANGED searchVars
  BY <1>3 DEF searchVars
<1> QED
  BY <1>1, <1>2, <1>3 DEF SearchNext

\* The first tree has all triangles, which are all live.
LEMMA SearchInvInit == SearchInit => SearchInv
<1> SUFFICES ASSUME SearchInit PROVE SearchInv
  OBVIOUS
<1>1. IInv
  BY InitStep DEF SearchInit
<1>2. ASSUME phase = "flex" PROVE IsTree(tree, mesh.centroids, Live, Faces)
  <2>1. /\ mesh.centroids \in Seq(Located) /\ mesh.centroids # <<>> /\ Faces = DOMAIN mesh.centroids
    BY <1>1, CentroidFacts DEF IInv
  <2>2. tree = KdBuild(mesh.centroids) /\ order = <<>>
    BY <1>2 DEF SearchInit, Init
  <2>3. Live = Faces
    BY <2>2 DEF Live, Range
  <2> QED
    BY <2>1, <2>2, <2>3, KdBuildFacts
<1>3. FindsNearest
  BY DEF SearchInit, NoSearch, FindsNearest
<1> QED
  BY <1>1, <1>2, <1>3 DEF SearchInv, TreeInv

\* Each step keeps the invariant.
LEMMA SearchInvNext == SearchInv /\ [SearchNext]_searchVars => SearchInv'
<1> SUFFICES ASSUME SearchInv, [SearchNext]_searchVars PROVE SearchInv'
  OBVIOUS
<1>1. [Next]_vars
  BY SearchStepForm
<1>2. IInv /\ IInv'
  BY <1>1, NextStep DEF SearchInv
<1>3. mesh' = mesh /\ Faces' = Faces /\ (phase' = "flex" => phase = "flex") /\ Live' \subseteq Live
  BY <1>1, <1>2, StepForm, LiveShrinks DEF Faces
<1>4. CASE UNCHANGED <<tree, found>>
  <2>1. TreeInv'
    BY <1>3, <1>4, TreeLasts DEF SearchInv, TreeInv
  <2>2. FindsNearest'
    BY <1>3, <1>4 DEF SearchInv, FindsNearest, Dist2
  <2> QED
    BY <1>2, <2>1, <2>2 DEF SearchInv
<1>5. ASSUME NEW position \in Positions, Nearest(position) PROVE SearchInv'
  <2>1. PICK result : /\ found' = [position |-> position, live |-> Live, result |-> result]
                      /\ IsTree(tree', mesh.centroids, Live, Faces)
                      /\ Closest([result |-> result, limit |-> Dist2(mesh.centroids[result], position)],
                                 mesh.centroids, Live, position, Live)
    BY <1>5, NearestFacts
  <2>2. TreeInv'
    BY <1>3, <2>1, TreeLasts DEF TreeInv
  <2>3. FindsNearest'
    BY <1>3, <2>1 DEF FindsNearest, Closest, Dist2
  <2> QED
    BY <1>2, <2>2, <2>3 DEF SearchInv
<1> QED
  BY <1>4, <1>5 DEF SearchNext, searchVars

-----------------------------------------------------------------------------
(* Theorems *)

\* The strengthened invariant holds in every state of every call.
LEMMA Invariance == Spec => []IInv
<1> QED
  BY InitStep, NextStep, PTL DEF Spec

\* Every place, vertex and triangle that a builder stores is in its range: a place in used[] is
\* below max_vertices, which is at most kMeshletMaxVertices, so that it fits into a byte of
\* meshlet_triangles (appendMeshlet).
THEOREM TypeCorrect == Spec => []TypeOK
<1> QED
  BY Invariance, InvTypeOK, PTL

\* used[] is the inverse of the vertices of the current meshlet, and the lists of the flex
\* builder are those of the live triangles, each once per corner (appendMeshlet,
\* meshopt_buildMeshletsFlex, getNeighborTriangle).
THEOREM BookkeepingCorrect == Spec => []Bookkeeping
<1> QED
  BY Invariance, InvBookkeeping, PTL

\* The meshlets together are the mesh, each within its limits, and there are never more of
\* them than meshopt_buildMeshletsBound says, whatever the scores and splits are.
THEOREM CompleteCorrect == Spec => []Complete
<1> QED
  BY Invariance, InvComplete, PTL

\* The invariant holds in every state of the builder with its tree.
LEMMA SearchInvariance == SearchSpec => []SearchInv
<1> QED
  BY SearchInvInit, SearchInvNext, PTL DEF SearchSpec

\* The builder that searches with the tree is a builder that may take any live triangle next.
THEOREM SearchImplementsBuilder == SearchSpec => BuilderSpec
<1>1. SearchInit => Init
  BY DEF SearchInit
<1>2. SearchInv /\ [SearchNext]_searchVars => [Next]_vars
  BY SearchStepForm
<1> QED
  BY <1>1, <1>2, SearchInvariance, PTL DEF SearchSpec, BuilderSpec, Spec

\* Every search returns a live triangle closest to its position.
THEOREM NearestFound == SearchSpec => []FindsNearest
<1>1. SearchInv => FindsNearest
  BY DEF SearchInv
<1> QED
  BY <1>1, SearchInvariance, PTL
=============================================================================
