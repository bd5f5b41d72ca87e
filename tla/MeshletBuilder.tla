---------------------------- MODULE MeshletBuilder ----------------------------
(***************************************************************************)
(* Meshlet building, src/clusterizer.cpp: meshopt_buildMeshletsScan,       *)
(* meshopt_buildMeshletsFlex and meshopt_buildMeshletsSpatial.             *)
(*                                                                         *)
(* A behaviour is one call.  Scan and flex append a triangle per step,     *)
(* spatial first splits the sorted triangles into ranges and then appends  *)
(* them in order.  What only floating point scores decide (the best        *)
(* neighbour among those of the same priority, the cheapest split) is a    *)
(* free choice; sizes, limits, live lists, seeds and boundaries are as in  *)
(* the code.  Positions are triangle centroids with integer coordinates.   *)
(* The search for the nearest live triangle returns any live triangle      *)
(* here; MeshletSearch replaces it by the tree of the code.                *)
(***************************************************************************)
EXTENDS Integers, Sequences, FiniteSets, SequencesExt

CONSTANTS
  Inputs,        \* arguments, a set of [mesh, call]: mesh is [indices, centroids], the corners and
                 \* the centroid of each triangle, and call is
                 \* [mode, maxVertices, minTriangles, maxTriangles, splits]
  MaxSeeds,      \* kMeshletMaxSeeds
  AddSeeds,      \* kMeshletAddSeeds
  MaxTreeDepth   \* kMeshletMaxTreeDepth

ASSUME SeedsAssumption == AddSeeds \in Nat /\ MaxSeeds \in Nat /\ AddSeeds <= MaxSeeds

ASSUME InputsAssumption ==
  \A input \in Inputs :
    /\ input.call.mode \in {"scan", "flex", "split"} /\ input.call.splits \in BOOLEAN
    /\ input.call.maxVertices \in Nat /\ input.call.maxVertices >= 3
    /\ input.call.maxTriangles \in Nat /\ input.call.minTriangles \in 1 .. input.call.maxTriangles
    /\ input.mesh.indices \in Seq(Nat \X Nat \X Nat) /\ input.mesh.indices # <<>>
    /\ input.mesh.centroids \in Seq(Int \X Int \X Int)
    /\ Len(input.mesh.centroids) = Len(input.mesh.indices)

VARIABLES
  phase,      \* "scan", "flex", "split", "pack" or "done"
  mesh, call, \* the arguments
  used,       \* index of each vertex in the current meshlet, or -1
  meshlet,    \* the current meshlet: offsets and counts
  meshlets, meshletVertices, meshletTriangles,   \* the output
  neighbors,  \* live triangles of each vertex (flex)
  seeds,      \* triangles to continue from when a meshlet is full (flex)
  axes,       \* triangles ordered along each axis (spatial)
  ranges,     \* ranges of the order still to split (spatial)
  boundary,   \* first triangles of meshlets in the order (spatial)
  order       \* triangles in the order they were appended

flexVars == <<neighbors, seeds>>
spatialVars == <<axes, ranges, boundary>>
outVars == <<used, meshlet, meshlets, meshletVertices, meshletTriangles, order>>
vars == <<phase, mesh, call, outVars, flexVars, spatialVars>>

Faces == DOMAIN mesh.indices
Corners(t) == {mesh.indices[t][k] : k \in 1..3}
Vertices == UNION {Corners(t) : t \in Faces}
Ceil(n, d) == (n + d - 1) \div d

\* The elements of a sequence that are in a set, in their order
Only(s, S) ==
  LET only[n \in 0 .. Len(s)] ==
        IF n = 0 THEN <<>>
        ELSE IF s[n] \in S THEN Append(only[n - 1], s[n]) ELSE only[n - 1]
  IN only[Len(s)]

\* Lexicographic comparison of scores; a position as the last one prefers the first of a list.
LexLeq(p, q) ==
  \/ p[1] < q[1]
  \/ p[1] = q[1] /\ (p[2] < q[2] \/ (p[2] = q[2] /\ p[3] <= q[3]))

\* Triangles that no step has appended: emitted_flags is 0.
Live == Faces \ Range(order)

\* meshopt_buildMeshletsBound
Bound(faces, maxVertices, maxTriangles) ==
  LET byVertices == Ceil(3 * faces, maxVertices - 2)
      byTriangles == Ceil(faces, maxTriangles)
  IN IF byVertices > byTriangles THEN byVertices ELSE byTriangles

-----------------------------------------------------------------------------
(* Appending a triangle to the current meshlet *)

\* Corners without a place in the current meshlet; a repeated corner counts again.
Extra(t) == Cardinality({k \in 1..3 : used[mesh.indices[t][k]] < 0})

\* Mistake: a triangle is added although its vertices do not fit.
FullIgnoringVertices(t) == meshlet.triangleCount >= call.maxTriangles

Full(t) ==
  \/ meshlet.vertexCount + Extra(t) > call.maxVertices
  \/ meshlet.triangleCount >= call.maxTriangles

EmptyMeshlet == [vertexOffset |-> 0, triangleOffset |-> 0, vertexCount |-> 0, triangleCount |-> 0]

\* Where the data of a meshlet ends
VertexEnd(m)   == m.vertexOffset + m.vertexCount
TriangleEnd(m) == m.triangleOffset + 3 * m.triangleCount

\* The current meshlet is written out and the next one starts behind it.
NextMeshlet ==
  [vertexOffset |-> VertexEnd(meshlet), triangleOffset |-> TriangleEnd(meshlet),
   vertexCount |-> 0, triangleCount |-> 0]

MeshletVertex(m, i) == meshletVertices[m.vertexOffset + i + 1]
VerticesOf(m) == {MeshletVertex(m, i) : i \in 0 .. m.vertexCount - 1}

\* Mistake: the vertices of the closed meshlet keep their places.
NothingReleased == used

\* used[] after the vertices of the closed meshlet are released
Released == [v \in DOMAIN used |-> IF v \in VerticesOf(meshlet) THEN -1 ELSE used[v]]

\* Corners of t that get a place now, in the order of their first occurrence.
NewCorners(t, places) ==
  LET tri == mesh.indices[t]
      isNew(k) == places[tri[k]] < 0 /\ \A j \in 1 .. k - 1 : tri[j] # tri[k]
  IN (IF isNew(1) THEN <<tri[1]>> ELSE <<>>)
     \o (IF isNew(2) THEN <<tri[2]>> ELSE <<>>)
     \o (IF isNew(3) THEN <<tri[3]>> ELSE <<>>)

\* appendMeshlet
AppendMeshlet(t, split) ==
  LET closes == Full(t) \/ split
      start == IF closes THEN NextMeshlet ELSE meshlet
      places == IF closes THEN Released ELSE used
      new == NewCorners(t, places)
      place(v) == start.vertexCount + (CHOOSE i \in DOMAIN new : new[i] = v) - 1
      placed == [v \in DOMAIN used |-> IF v \in Range(new) THEN place(v) ELSE places[v]]
  IN /\ meshlets' = IF closes THEN Append(meshlets, meshlet) ELSE meshlets
     /\ used' = placed
     /\ meshletVertices' = meshletVertices \o new
     /\ meshletTriangles' =
          meshletTriangles \o [k \in 1..3 |-> placed[mesh.indices[t][k]]]
     /\ meshlet' = [start EXCEPT !.vertexCount = @ + Len(new), !.triangleCount = @ + 1]
     /\ order' = Append(order, t)

\* The last meshlet is written out.
Finish ==
  /\ meshlets' = IF meshlet.triangleCount > 0 THEN Append(meshlets, meshlet) ELSE meshlets
  /\ phase' = "done"
  /\ UNCHANGED <<mesh, call, used, meshlet, meshletVertices, meshletTriangles, order,
                 flexVars, spatialVars>>

-----------------------------------------------------------------------------
(* Start of a call *)

\* buildTriangleAdjacency: triangles of a vertex in index order, once per corner
Adjacency(m) ==
  LET tri(i) == (i - 1) \div 3 + 1
      corner(i) == m.indices[tri(i)][((i - 1) % 3) + 1]
      corners == [i \in 1 .. 3 * Len(m.indices) |-> i]
  IN [v \in {corner(i) : i \in DOMAIN corners} |->
        LET own == Only(corners, {i \in DOMAIN corners : corner(i) = v})
        IN [j \in DOMAIN own |-> tri(own[j])]]

\* The stable sort of the triangles by their centroids along an axis
AxisOrder(m, k) ==
  LET upTo(t) == {s \in DOMAIN m.indices :
                    LexLeq(<<m.centroids[s][k], s, 0>>, <<m.centroids[t][k], t, 0>>)}
  IN [i \in DOMAIN m.indices |-> CHOOSE t \in DOMAIN m.indices : Cardinality(upTo(t)) = i]

Init ==
  /\ \E input \in Inputs : mesh = input.mesh /\ call = input.call
  /\ phase = call.mode
  /\ used = [v \in Vertices |-> -1]
  /\ meshlet = EmptyMeshlet
  /\ meshlets = <<>> /\ meshletVertices = <<>> /\ meshletTriangles = <<>>
  /\ neighbors = IF phase = "flex" THEN Adjacency(mesh) ELSE <<>>
  /\ seeds = <<>>
  /\ axes = IF phase = "split" THEN [k \in 1..3 |-> AxisOrder(mesh, k)] ELSE <<>>
  /\ ranges = IF phase = "split" THEN <<[first |-> 1, count |-> Cardinality(Faces), depth |-> 0]>>
              ELSE <<>>
  /\ boundary = {}
  /\ order = <<>>

-----------------------------------------------------------------------------
(* meshopt_buildMeshletsScan *)

ScanTriangle ==
  /\ phase = "scan" /\ Len(order) < Cardinality(Faces)
  /\ AppendMeshlet(Len(order) + 1, FALSE)
  /\ UNCHANGED <<phase, mesh, call, flexVars, spatialVars>>

ScanFinish == phase = "scan" /\ Len(order) = Cardinality(Faces) /\ Finish

-----------------------------------------------------------------------------
(* meshopt_buildMeshletsFlex *)

LiveCount(v) == Len(neighbors[v])
LiveSum(t) == LET tri == mesh.indices[t]
              IN LiveCount(tri[1]) + LiveCount(tri[2]) + LiveCount(tri[3])

\* The corner of the mesh, and squared distances of centroids to it
CornerOf(m) == [k \in 1..3 |->
  LET all == {m.centroids[t][k] : t \in DOMAIN m.centroids}
  IN CHOOSE x \in all : \A y \in all : x <= y]
FromCorner(t) ==
  LET d(k) == mesh.centroids[t][k] - CornerOf(mesh)[k]
  IN d(1) * d(1) + d(2) * d(2) + d(3) * d(3)

\* The first triangle closest to the corner
InitialSeed == CHOOSE t \in Faces : \A u \in Faces :
  LexLeq(<<FromCorner(t), t, 0>>, <<FromCorner(u), u, 0>>)

\* Topology priority of a neighbour; scores only decide among equals.
Priority(t) ==
  LET withLive(n) == {k \in 1..3 : LiveCount(mesh.indices[t][k]) = n}
  IN IF Extra(t) = 0 THEN 0
     ELSE IF withLive(1) # {} THEN 1
     ELSE IF Cardinality(withLive(2)) >= 2 THEN 1 + Extra(t)
     ELSE 2 + Extra(t)

\* getNeighborTriangle: the triangles it may return
MeshletNeighbors == UNION {Range(neighbors[v]) : v \in VerticesOf(meshlet)}
BestNeighbors == {t \in MeshletNeighbors : \A u \in MeshletNeighbors : Priority(t) <= Priority(u)}

\* The neighbour of a vertex with the fewest live triangles, the first one
SeedOf(v) == LET ns == neighbors[v] IN
  ns[CHOOSE i \in DOMAIN ns : \A j \in DOMAIN ns :
       LexLeq(<<LiveSum(ns[i]), i, 0>>, <<LiveSum(ns[j]), j, 0>>)]

\* appendSeedTriangles: each vertex offers a seed, which replaces the first slot it beats
AddedSeeds ==
  LET beats(t, s) == \/ s = 0
                     \/ LexLeq(<<LiveSum(t), FromCorner(t), 0>>, <<LiveSum(s), FromCorner(s), 0>>)
      offer(slots, v) ==
        LET t == SeedOf(v)
            beaten == {j \in 1 .. AddSeeds : beats(t, slots[j])}
        IN IF beaten = {} THEN slots
           ELSE [slots EXCEPT ![CHOOSE j \in beaten : \A i \in beaten : j <= i] = t]
      next(slots, v) == IF neighbors[v] = <<>> THEN slots ELSE offer(slots, v)
      kept[n \in 0 .. meshlet.vertexCount] ==
        IF n = 0 THEN [j \in 1 .. AddSeeds |-> 0]
        ELSE next(kept[n - 1], MeshletVertex(meshlet, n - 1))
  IN Only(kept[meshlet.vertexCount], Faces)

\* Mistake: seeds that were emitted in the meantime stay in the list.
StaleSeeds == seeds

\* pruneSeedTriangles
PrunedSeeds == Only(seeds, Live)

\* The seeds when a meshlet is full: pruned, cut to leave room, and extended
NewSeeds ==
  LET room == MaxSeeds - AddSeeds
  IN (IF Len(PrunedSeeds) <= room THEN PrunedSeeds ELSE SubSeq(PrunedSeeds, 1, room)) \o AddedSeeds

\* selectSeedTriangle
SelectSeed(list) ==
  list[CHOOSE i \in DOMAIN list : \A j \in DOMAIN list :
         LexLeq(<<LiveSum(list[i]), FromCorner(list[i]), i>>,
                <<LiveSum(list[j]), FromCorner(list[j]), j>>)]

\* Mistake: the entry is overwritten and the list keeps its length.
OverwriteIn(list, t) ==
  [i \in DOMAIN list |-> IF list[i] = t THEN list[Len(list)] ELSE list[i]]

\* The triangle is removed from the lists of its corners, the last entry taking its place.
RemoveFrom(list, t) ==
  LET hits == {i \in DOMAIN list : list[i] = t}
      first == CHOOSE i \in hits : \A j \in hits : i <= j
  IN IF hits = {} THEN list
     ELSE SubSeq([list EXCEPT ![first] = list[Len(list)]], 1, Len(list) - 1)

RemoveTriangle(t) ==
  LET tri == mesh.indices[t]
      from(lists, v) == [lists EXCEPT ![v] = RemoveFrom(@, t)]
  IN from(from(from(neighbors, tri[1]), tri[2]), tri[3])

\* Rest of the loop body, once the best triangle is known: re-selection with the
\* seeds when the meshlet is full, and emission.
FlexEmit(best, split) ==
  LET full == split \/ Full(best)
      chosen == IF full /\ NewSeeds # <<>> THEN SelectSeed(NewSeeds) ELSE best
  IN /\ seeds' = IF full THEN NewSeeds ELSE seeds
     /\ AppendMeshlet(chosen, split)
     /\ neighbors' = RemoveTriangle(chosen)
     /\ UNCHANGED <<phase, mesh, call, spatialVars>>

FlexFirst == phase = "flex" /\ order = <<>> /\ FlexEmit(InitialSeed, FALSE)

FlexNeighbor ==
  /\ phase = "flex" /\ order # <<>>
  /\ \E t \in BestNeighbors : FlexEmit(t, FALSE)

\* No neighbour is left, and the spatial search returned t; a meshlet with enough
\* triangles is split when t is far away.
FlexNearest(t, far) ==
  /\ phase = "flex" /\ order # <<>> /\ MeshletNeighbors = {}
  /\ FlexEmit(t, call.splits /\ far /\ meshlet.triangleCount >= call.minTriangles)

FlexDone == phase = "flex" /\ order # <<>> /\ MeshletNeighbors = {}

FlexFinish == FlexDone /\ Live = {} /\ Finish

-----------------------------------------------------------------------------
(* meshopt_buildMeshletsSpatial *)

\* Mistake: the different vertices are counted.
DistinctVertices(first, count) ==
  Cardinality(UNION {Corners(axes[1][i]) : i \in first .. first + count - 1})

\* bvhCountVertices: corners in a range of the order along the first axis that no triangle
\* before them in the range has; a repeated corner counts again.
CountVertices(first, count) ==
  Cardinality({c \in (first .. first + count - 1) \X (1..3) :
                 \A i \in first .. c[1] - 1 : mesh.indices[axes[1][c[1]]][c[2]] \notin Corners(axes[1][i])})

\* bvhDivisible: count is a sum of values between min and max
Divisible(count, min, max) ==
  IF min * 2 <= max THEN count >= min ELSE count % min <= (count \div min) * (max - min)

Fits(r) == r.count <= call.maxTriangles /\ CountVertices(r.first, r.count) <= call.maxVertices

\* bvhPivot: sizes of the left side that it considers
Pivots(r) ==
  LET max == call.maxTriangles
      vertexBound == r.count <= max
      min == IF vertexBound /\ call.maxVertices \div 3 < call.minTriangles
             THEN call.maxVertices \div 3 ELSE call.minTriangles
      step == IF call.minTriangles = max /\ r.count > max THEN max ELSE 1
      aligned == r.count >= min * 2 /\ Divisible(r.count, min, max)
      end == IF aligned THEN r.count - min ELSE r.count - 1
  IN {s \in min .. end : /\ (s - min) % step = 0
                         /\ Divisible(s, min, max)
                         /\ aligned => Divisible(r.count - s, min, max)}

\* bvhPackTail: meshlets of the largest size, or of a third of the vertices
TailChunk(r, i) ==
  LET chunk == IF i + call.maxTriangles <= r.count THEN call.maxTriangles ELSE r.count - i
  IN IF CountVertices(r.first + i, chunk) <= call.maxVertices THEN chunk
     ELSE call.maxVertices \div 3

TailBoundary(r) ==
  LET start[n \in 0 .. r.count] ==
        IF n = 0 THEN 0
        ELSE IF start[n - 1] < r.count THEN start[n - 1] + TailChunk(r, start[n - 1])
        ELSE r.count
  IN {r.first + start[n] : n \in {m \in 0 .. r.count : start[m] < r.count}}

\* bvhPartition: the range in the order of an axis, left side first
PartitionAxis(axis, r, left) ==
  LET part == SubSeq(axis, r.first, r.first + r.count - 1)
  IN SubSeq(axis, 1, r.first - 1)
     \o Only(part, left) \o Only(part, Faces \ left)
     \o SubSeq(axis, r.first + r.count, Len(axis))

\* bvhSplit packs the range as one meshlet.
SplitLeaf ==
  /\ phase = "split" /\ ranges # <<>> /\ Fits(Head(ranges))
  /\ boundary' = boundary \cup {Head(ranges).first}
  /\ ranges' = Tail(ranges)
  /\ UNCHANGED <<phase, mesh, call, outVars, flexVars, axes>>

\* The tree is too deep, or no split has a finite cost (bounds may overflow).
SplitTail ==
  /\ phase = "split" /\ ranges # <<>> /\ ~Fits(Head(ranges))
  /\ boundary' = boundary \cup TailBoundary(Head(ranges))
  /\ ranges' = Tail(ranges)
  /\ UNCHANGED <<phase, mesh, call, outVars, flexVars, axes>>

\* The cheapest split has s triangles of axis k on its left.
SplitAt(k, s) ==
  LET r == Head(ranges)
      left == {axes[k][i] : i \in r.first .. r.first + s - 1}
  IN /\ axes' = [j \in 1..3 |-> PartitionAxis(axes[j], r, left)]
     /\ ranges' = <<[first |-> r.first, count |-> s, depth |-> r.depth + 1],
                    [first |-> r.first + s, count |-> r.count - s, depth |-> r.depth + 1]>>
                  \o Tail(ranges)
     /\ UNCHANGED <<phase, mesh, call, outVars, flexVars, boundary>>

SplitRange ==
  /\ phase = "split" /\ ranges # <<>> /\ ~Fits(Head(ranges)) /\ Head(ranges).depth < MaxTreeDepth
  /\ \E k \in 1..3, s \in Pivots(Head(ranges)) : SplitAt(k, s)

SplitDone ==
  /\ phase = "split" /\ ranges = <<>>
  /\ phase' = "pack"
  /\ UNCHANGED <<mesh, call, outVars, flexVars, spatialVars>>

MinBound == Bound(Cardinality(Faces), call.maxVertices, call.minTriangles)

\* Mistake: boundaries are used even when there are too many of them.
SplitsAlways(i) == i > 1 /\ i \in boundary

\* Whether the meshlet is closed in front of position i: boundaries are ignored
\* while there are more of them than the bound allows.
Splits(i) ==
  LET pending == Cardinality({b \in boundary : b >= i})
  IN /\ i > 1 /\ i \in boundary
     /\ ~(/\ Cardinality(boundary) > MinBound
          /\ Len(meshlets) + pending >= MinBound)

PackTriangle ==
  /\ phase = "pack" /\ Len(order) < Cardinality(Faces)
  /\ LET i == Len(order) + 1 IN AppendMeshlet(axes[1][i], Splits(i))
  /\ UNCHANGED <<phase, mesh, call, flexVars, spatialVars>>

PackFinish == phase = "pack" /\ Len(order) = Cardinality(Faces) /\ Finish

-----------------------------------------------------------------------------
(* Specification *)

Returned == phase = "done" /\ UNCHANGED vars

ScanNext == ScanTriangle \/ ScanFinish
FlexNext == \/ FlexFirst \/ FlexNeighbor \/ FlexFinish
            \/ \E t \in Live, far \in BOOLEAN : FlexNearest(t, far)
SpatialNext ==
  SplitLeaf \/ SplitTail \/ SplitRange \/ SplitDone \/ PackTriangle \/ PackFinish

Next == ScanNext \/ FlexNext \/ SpatialNext \/ Returned

Spec == Init /\ [][Next]_vars

-----------------------------------------------------------------------------
(* Properties *)

TypeOK ==
  /\ phase \in {"scan", "flex", "split", "pack", "done"}
  /\ used \in [Vertices -> -1 .. call.maxVertices - 1]
  /\ meshletVertices \in Seq(Vertices) /\ meshletTriangles \in Seq(Nat)
  /\ order \in Seq(Faces)
  /\ boundary \subseteq Faces

\* The finished meshlets and the current one
AllMeshlets == IF phase = "done" THEN meshlets ELSE Append(meshlets, meshlet)

\* The triangles that the output of meshlet m stands for
Decoded(m) ==
  [i \in 1 .. m.triangleCount |->
     [k \in 1..3 |-> MeshletVertex(m, meshletTriangles[m.triangleOffset + 3 * (i - 1) + k])]]

\* The three records of what is done agree at the head of each loop: used[] holds exactly
\* the vertices of the current meshlet, so that appendMeshlet shares them, the lists of the
\* flex builder hold exactly the live triangles, once per corner, and a neighbour of a
\* meshlet adds at most two vertices (asserted in getNeighborTriangle).
Bookkeeping ==
  /\ TypeOK
  /\ phase # "done" =>
       /\ \A v \in Vertices : used[v] >= 0 <=> v \in VerticesOf(meshlet)
       /\ \A i \in 0 .. meshlet.vertexCount - 1 : used[MeshletVertex(meshlet, i)] = i
  /\ phase = "flex" =>
       /\ \A v \in Vertices, t \in Faces :
            Cardinality({i \in DOMAIN neighbors[v] : neighbors[v][i] = t})
              = IF t \in Live THEN Cardinality({k \in 1..3 : mesh.indices[t][k] = v}) ELSE 0
       /\ \A t \in MeshletNeighbors : Extra(t) <= 2
       /\ Len(seeds) <= MaxSeeds

\* Whatever was appended can be read back from the output: the meshlets together give
\* the appended triangles in order, no triangle twice, and all of them when the call
\* returns (meshopt_Meshlet, offsets into meshlet_vertices and meshlet_triangles).
\* Meshlets respect the limits, start where the one before ends, and their number stays
\* within meshopt_buildMeshletsBound, for which buffers are allocated: scan and flex since
\* a meshlet is closed only with min_triangles triangles or no room for three vertices,
\* spatial since boundaries over the bound are ignored.
Complete ==
  /\ \A i \in DOMAIN AllMeshlets :
       LET m == AllMeshlets[i] IN
       /\ \A j \in 1 .. m.triangleCount : Decoded(m)[j] = mesh.indices[order[m.triangleOffset \div 3 + j]]
       /\ m.vertexCount <= call.maxVertices /\ m.triangleCount <= call.maxTriangles
       /\ m.vertexOffset = IF i = 1 THEN 0 ELSE VertexEnd(AllMeshlets[i - 1])
       /\ m.triangleOffset = IF i = 1 THEN 0 ELSE TriangleEnd(AllMeshlets[i - 1])
       /\ i <= Len(meshlets) => m.triangleCount >= 1
       /\ i < Len(AllMeshlets) /\ call.mode # "split" =>
            m.triangleCount >= call.minTriangles \/ m.vertexCount > call.maxVertices - 3
  /\ AllMeshlets # <<>>
  /\ VertexEnd(Last(AllMeshlets)) = Len(meshletVertices)
  /\ TriangleEnd(Last(AllMeshlets)) = 3 * Len(order)
  /\ IsInjective(order)
  /\ phase = "done" => Range(order) = Faces
  /\ Len(meshlets) <= Bound(Cardinality(Faces), call.maxVertices,
                            IF call.mode = "scan" THEN call.maxTriangles ELSE call.minTriangles)
=============================================================================
