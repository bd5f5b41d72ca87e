---------------------------- MODULE IndexPipeline ----------------------------
(***************************************************************************)
(* The pipeline of the documentation (README.md, "Core pipeline"): a mesh  *)
(* is indexed, filtered, put in spatial order, optimized for vertex        *)
(* cache, overdraw and vertex fetch, and at its end shadow, adjacency,     *)
(* tessellation and provoking index buffers are made of it.  Beside it the *)
(* mesh's positions are put into chunks.                                   *)
(*                                                                         *)
(* A step is a call, or one round of the loop of a longer call.            *)
(***************************************************************************)
EXTENDS VertexCache, SpatialOrder

CONSTANTS
  Meshes,        (* [vertices, indices]; indices = None when not indexed.  *)
  PointOf(_),    (* The point of a position, for the spatial order.        *)
  ClusterSizes,  (* Sizes of chunks.                                       *)
  Warps          (* <<warp_size, primgroup_size>> to analyze with.         *)

VARIABLES
  stage,      (* The last call made.                                       *)
  vertices,   (* The vertex buffer,                                        *)
  triangles,  (* the index buffer,                                         *)
  previous,   (* both of them before the last call,                        *)
  clusters,   (* overdraw: boundaries                                      *)
  variants,   (* and the index buffers made at the end.                    *)
  pieces      (* The chunks of points.                                     *)

pipelineVars == <<stage, vertices, triangles, previous, clusters, variants, pieces, cacheVars>>

Grouped(indices) == [t \in 1..(Len(indices) \div 3) |-> <<indices[3 * t - 2], indices[3 * t - 1], indices[3 * t]>>]
Indices(mesh) == IF mesh.indices = None THEN Iota(Len(mesh.vertices)) ELSE mesh.indices

Points == [v \in DOMAIN vertices |-> PointOf(vertices[v].pos)]

PipelineInit ==
  /\ \E mesh \in Meshes : vertices = mesh.vertices /\ triangles = Grouped(Indices(mesh))
  /\ stage = "input"
  /\ previous = None
  /\ clusters = <<>>
  /\ variants = None
  /\ pieces = <<>>
  /\ given = <<>> /\ table = None /\ adjacency = <<>> /\ order = <<>> /\ current = 0 /\ input_cursor = 0
  /\ cache = <<>> /\ vertex_scores = <<>> /\ triangle_scores = <<>>
  /\ live_triangles = <<>> /\ cache_timestamps = <<>> /\ timestamp = 0 /\ dead_end = <<>>

\* A call that leaves the state of the vertex cache optimizer alone.
Call(from, to) ==
  /\ stage \in from
  /\ stage' = to
  /\ previous' = [vertices |-> vertices, triangles |-> triangles]
  /\ CacheIdle
  /\ UNCHANGED pieces

\* meshopt_generateVertexRemap or meshopt_generateVertexRemapCustom, meshopt_remapVertexBuffer, meshopt_remapIndexBuffer
IndexMesh ==
  /\ Call({"input"}, "remapped")
  /\ \E kind \in {"vertex", "custom"} :
       LET flat == FlattenSeq(triangles)
           made == generateVertexRemap(vertices, flat, kind)
       IN  /\ vertices' = remapVertexBuffer(vertices, made.remap, made.next_vertex)
           /\ triangles' = Grouped(remapIndexBuffer(flat, made.remap))
           /\ variants' = made.remap
  /\ UNCHANGED clusters

\* meshopt_filterIndexBuffer over positions
FilterIndices ==
  /\ Call({"remapped"}, "filtered")
  /\ triangles' = filterIndexBuffer(triangles, generateVertexRemap(vertices, FlattenSeq(triangles), "bits").remap)
  /\ variants' = None
  /\ UNCHANGED <<vertices, clusters>>

SortSpatially ==
  /\ Call({"remapped", "filtered"}, "sorted")
  /\ triangles # <<>>
  /\ triangles' = spatialSortTriangles(triangles, Points)
  /\ variants' = None
  /\ UNCHANGED <<vertices, clusters>>

\* meshopt_optimizeVertexCache, ...Strip or ...Fifo; an empty mesh is left as it is.
BeginVertexCache ==
  /\ stage \in {"filtered", "sorted"}
  /\ triangles # <<>>
  /\ stage' = "caching"
  /\ previous' = [vertices |-> vertices, triangles |-> triangles]
  /\ \E scores \in Tables \cup {None} : StartCache(triangles, Len(vertices), scores)
  /\ UNCHANGED <<vertices, triangles, clusters, variants, pieces>>

StepVertexCache ==
  /\ stage = "caching"
  /\ EmitTriangle \/ FanVertex
  /\ UNCHANGED <<stage, vertices, triangles, previous, clusters, variants, pieces>>

EndVertexCache ==
  /\ stage = "caching" /\ CacheDone
  /\ stage' = "cached"
  /\ triangles' = Reordered
  /\ UNCHANGED <<vertices, previous, clusters, variants, pieces, cacheVars>>

\* meshopt_optimizeOverdraw in three steps
CutHard ==
  /\ Call({"cached"}, "hard")
  /\ clusters' = generateHardBoundaries(triangles, Len(vertices))
  /\ UNCHANGED <<vertices, triangles, variants>>

CutSoft ==
  /\ Call({"hard"}, "soft")
  /\ clusters' = generateSoftBoundaries(triangles, Len(vertices), clusters)
  /\ UNCHANGED <<vertices, triangles, variants>>

OrderClusters ==
  /\ Call({"soft"}, "ordered")
  /\ \E keys \in [DOMAIN clusters -> 0..Keys - 1] : triangles' = SortClusters(triangles, clusters, keys)
  /\ UNCHANGED <<vertices, clusters, variants>>

\* meshopt_optimizeVertexFetch
FetchVertices ==
  /\ Call({"ordered"}, "fetched")
  /\ LET made == optimizeVertexFetch(vertices, FlattenSeq(triangles))
     IN  vertices' = made.vertices /\ triangles' = Grouped(made.indices)
  /\ UNCHANGED <<clusters, variants>>

\* The index buffers for other ways of rendering: of a mesh as it is given, whose indices may come in any order, and
\* of an indexed, a sorted or a finished one.
MakeVariants ==
  /\ Call({"input", "remapped", "sorted", "fetched"}, "variants")
  /\ LET flat == FlattenSeq(triangles)
         near == positionRemap(vertices, "bits")
         edges == EdgeTable(triangles, near)
     IN  variants' = [shadow    |-> Grouped(generateShadowBuffer(vertices, flat, "bits")),
                      positions |-> positionRemap(vertices, "float"),
                      adjacency |-> [t \in DOMAIN triangles |-> AdjacencyPatch(triangles[t], edges, near)],
                      tessellation |-> [t \in DOMAIN triangles |-> TessellationPatch(triangles[t], edges, near)],
                      provoking |-> generateProvokingIndexBuffer(triangles, Len(vertices))]
  /\ UNCHANGED <<vertices, triangles, clusters>>

\* meshopt_spatialClusterPoints
BeginPoints ==
  /\ stage = "input"
  /\ stage' = "points"
  /\ \E size \in ClusterSizes : clusters' = size
  /\ pieces' = <<AxisOrders(Points)>>
  /\ UNCHANGED <<vertices, triangles, previous, variants, cacheVars>>

SplitPoints ==
  /\ stage = "points"
  /\ \E i \in DOMAIN pieces : Len(pieces[i][1]) > clusters
  /\ pieces' = SplitPieces(pieces, Scaled(Points), clusters)
  /\ UNCHANGED <<stage, vertices, triangles, previous, clusters, variants, cacheVars>>

PipelineNext ==
  \/ IndexMesh \/ FilterIndices \/ SortSpatially
  \/ BeginVertexCache \/ StepVertexCache \/ EndVertexCache
  \/ CutHard \/ CutSoft \/ OrderClusters \/ FetchVertices
  \/ MakeVariants \/ BeginPoints \/ SplitPoints

Spec == PipelineInit /\ [][PipelineNext]_pipelineVars

-----------------------------------------------------------------------------
(* The properties *)

Same(a, b) == \A x \in ToSet(a) \cup ToSet(b) : Count(a, x) = Count(b, x)

\* What a triangle shows: the values of its corners, -0 as 0.
Shown(buffer, t) == [n \in 1..3 |-> <<PosValue(buffer[t[n]]), buffer[t[n]].attr>>]
Picture(buffer, list) == [t \in DOMAIN list |-> Shown(buffer, list[t])]

\* The triangles a filter must keep: the first of all its rotations, no two corners at one position.
At(t) == [n \in 1..3 |-> previous.vertices[t[n]].pos]
Kept(list) ==
  SelectSeq(Iota(Len(list)), LAMBDA t : /\ ~Degenerate(At(list[t]))
                                        /\ \A s \in 1..t - 1, k \in 0..2 : At(list[s]) # Turn(At(list[t]), k))

\* No stage changes the picture: indexing shows the same triangles in the same order with vertices that are
\* all different and all used, filtering takes out exactly the degenerate and repeated ones, every reordering
\* keeps them all with their winding, and vertex fetch stores the vertices in the order of their first use
\* (meshoptimizer.h:55, :108, :202, :243).
SamePicture ==
  /\ stage = "remapped" =>
       /\ Picture(vertices, triangles) = Picture(previous.vertices, previous.triangles)
       /\ ToSet(FlattenSeq(triangles)) = DOMAIN vertices
       /\ \A v, w \in DOMAIN vertices : v # w /\ vertices[v].pos # NaN => vertices[v] # vertices[w]
  /\ stage = "filtered" => triangles = [i \in 1..Len(Kept(previous.triangles)) |-> previous.triangles[Kept(previous.triangles)[i]]]
  /\ stage \in {"sorted", "cached", "ordered"} => Same(triangles, previous.triangles)
  /\ stage = "fetched" =>
       /\ Picture(vertices, triangles) = Picture(previous.vertices, previous.triangles)
       /\ LET flat == FlattenSeq(triangles)
          IN  \A i \in DOMAIN flat : flat[i] <= 1 + Max({0} \cup {flat[j] : j \in 1..i - 1})

Where(v) == vertices[v].pos
Turns(t) == {Turn(t, k) : k \in 0..2}
EdgesAt(a, b) == {<<t, e>> \in (DOMAIN triangles) \X (1..3) :
                     Where(Edge(triangles[t], e)[1]) = a /\ Where(Edge(triangles[t], e)[2]) = b}

\* The index buffers for other ways of rendering.  A shadow index is the one that the index buffer names first of those
\* with its key (the loop of generateShadowBuffer, indexgenerator.cpp:312; not the first in the vertex buffer, of
\* which meshoptimizer.h:129 speaks), whatever the order of the indices, and the position remap leads to the first
\* vertex of the buffer at the position; every triangle's neighbours in its adjacency and tessellation patches
\* are those of the first triangle across the edge, corners at one position have one dominant vertex, and an
\* edge of two triangles is seen the same way from both (no cracks); and the first index of a provoking
\* triangle is the triangle's number, while the reorder table leads back to the triangle in its winding and
\* behind the provoking vertices holds only vertices that are none, once each: vertices + triangles suffice
\* (meshoptimizer.h:149, :159, :172, :189, :196).
Generated ==
  stage = "variants" =>
    LET Positions == variants.positions
        flat == FlattenSeq(triangles)
        Across(t, e) == EdgesAt(Where(Edge(triangles[t], e)[2]), Where(Edge(triangles[t], e)[1]))
    IN  /\ \A t \in DOMAIN triangles, n \in 1..3 :
             variants.shadow[t][n] = flat[Min({i \in DOMAIN flat : Where(flat[i]) = Where(triangles[t][n])})]
        /\ \A v \in DOMAIN vertices :
             Positions[v] = Min({v} \cup {w \in DOMAIN vertices : PosEqual(vertices[v], vertices[w])})
        /\ \A t \in DOMAIN triangles, e \in 1..3 :
             LET own  == Edge(triangles[t], e)
                 seen == SubSeq(variants.tessellation[t], 2 + 2 * e, 3 + 2 * e)
                 first == CHOOSE te \in Across(t, e) :
                            \A uf \in Across(t, e) : te[1] < uf[1] \/ (te[1] = uf[1] /\ te[2] <= uf[2])
             IN  /\ variants.adjacency[t][2 * e - 1] = own[1]
                 /\ variants.adjacency[t][2 * e] = (IF Across(t, e) = {} THEN own[1]
                                                    ELSE Opposite(triangles[first[1]], first[2]))
                 /\ Where(seen[1]) = Where(own[1]) /\ Where(seen[2]) = Where(own[2])
                 /\ Across(t, e) = {} => seen = own
                 /\ Cardinality(Across(t, e)) = 1 /\ Cardinality(EdgesAt(Where(own[1]), Where(own[2]))) = 1 =>
                      Reverse2(SubSeq(variants.tessellation[first[1]], 2 + 2 * first[2], 3 + 2 * first[2])) = own
                 /\ variants.tessellation[t][e] = own[1]
                 /\ \A s \in DOMAIN triangles, f \in 1..3 :
                      Where(own[1]) = Where(triangles[s][f]) <=> variants.tessellation[t][9 + e] = variants.tessellation[s][9 + f]
        /\ \A i, j \in DOMAIN variants.provoking.reorder :
             i < j /\ j > Len(triangles) => variants.provoking.reorder[i] # variants.provoking.reorder[j]
        /\ \A t \in DOMAIN triangles :
             LET drawn == variants.provoking.output[t]
             IN  drawn[1] = t /\ [n \in 1..3 |-> variants.provoking.reorder[drawn[n]]] \in Turns(triangles[t])

\* The place of a vertex in the cache, 0 outside.
PlaceOf(v) == SelectInSeq(cache, LAMBDA c : c = v)

\* The running figures of the vertex cache optimizer are what a new count would give: the lists hold the
\* triangles not emitted, scores and timestamps never drift, no triangle that is left has a score of 0 (it
\* would never be chosen) and the current one is new; overdraw cuts into clusters that are never empty, and
\* all triangles are reached when the call ends (the assertions of vcacheoptimizer.cpp:320, :341, :466 and
\* overdrawoptimizer.cpp:202, :263, :326); the analysis of the result counts every vertex once or more, and a group
\* of primitives never holds more than its size.
Bookkeeping ==
  /\ stage = "caching" =>
       LET left == {t \in DOMAIN given : ~Emitted(t)}
           Uses(v) == MapThenSumSet(LAMBDA t : Count(given[t], v), left)
       IN  /\ IsInjective(order)
           /\ current = Unset => left = {}
           /\ table # None =>
                /\ current # Unset => current \in left
                /\ \A v \in Vertices :
                     /\ Len(adjacency[v]) = Uses(v)
                     /\ \A t \in left : Count(adjacency[v], t) = Count(given[t], v)
                     /\ Uses(v) > 0 /\ Count(cache, v) <= 1 /\ (\A t \in DOMAIN given : Count(given[t], v) <= 1) =>
                          vertex_scores[v] = vertexScore(table, PlaceOf(v), Uses(v))
                /\ \A t \in left :
                     /\ triangle_scores[t] = MapThenSumSet(LAMBDA n : vertex_scores[given[t][n]], 1..3)
                     /\ triangle_scores[t] > 0
           /\ table = None =>
                /\ \A v \in Vertices : live_triangles[v] = Uses(v) /\ cache_timestamps[v] < timestamp
                /\ Len(dead_end) <= 3 * Len(given)
                /\ current # Unset /\ order # <<>> => live_triangles[current] > 0
  /\ stage \in {"hard", "soft"} =>
       /\ clusters # <<>> /\ clusters[1] = 1
       /\ \A i \in DOMAIN clusters : clusters[i] < ClusterEnd(clusters, i, Len(triangles))
  /\ stage = "fetched" => \A w \in Warps :
       LET analysis == analyzeVertexCache(triangles, Len(vertices), w[1], w[2])
       IN  /\ analysis.unique = Len(vertices) /\ analysis.vertices_transformed >= Len(vertices)
           /\ w[2] # 0 => analysis.warps_executed * w[2] >= Len(triangles)

\* Points end up in chunks of the given size, all but the last full, every point in one, and any two chunks
\* are apart along some axis (meshoptimizer.h:876); the remap of the spatial sort is a permutation in the
\* order of the Morton codes.
Chunks ==
  stage = "points" =>
    LET keys == Scaled(Points)
        done == \A i \in DOMAIN pieces : Len(pieces[i][1]) <= clusters
        remap == spatialSortRemap(Points)
    IN  /\ \A i \in DOMAIN pieces, k \in Axes : ToSet(pieces[i][k]) = ToSet(pieces[i][1])
        /\ Same(Joined(pieces), Iota(Len(vertices)))
        /\ \A i \in 1..Len(pieces) - 1 : Len(pieces[i][1]) > 0 /\ Len(pieces[i][1]) % clusters = 0
        /\ \A i, j \in DOMAIN pieces : i < j =>
             \E k \in Axes : \A p \in ToSet(pieces[i][1]), q \in ToSet(pieces[j][1]) : keys[p][k] <= keys[q][k]
        /\ \A v, w \in DOMAIN vertices :
             remap[v] < remap[w] <=> \/ Morton(keys[v]) < Morton(keys[w])
                                     \/ Morton(keys[v]) = Morton(keys[w]) /\ v < w
=============================================================================
