----------------------------- MODULE VertexCache ------------------------------
(***************************************************************************)
(* src/vcacheoptimizer.cpp: the order of triangles for the transform        *)
(* cache, by scores (meshopt_optimizeVertexCacheTable, a step emits a       *)
(* triangle) or for a FIFO cache (meshopt_optimizeVertexCacheFifo, a step   *)
(* fans around a vertex); src/vfetchoptimizer.cpp;                          *)
(* src/overdrawoptimizer.cpp: an index buffer is cut into clusters where    *)
(* the FIFO cache starts afresh and where a cluster is efficient enough,    *)
(* and the clusters are sorted by keys; and src/indexanalyzer.cpp: the      *)
(* statistics of the vertex cache.                                          *)
(*                                                                          *)
(* Vertices and triangles count from one, 0 is ~0u. The lists of the        *)
(* triangles of a vertex are cut where the code keeps a count, so that      *)
(* adjacency.counts[v] is Len(adjacency[v]). Scores are in thousandths.     *)
(* Boundaries of clusters are numbers of first triangles, from one. Their   *)
(* keys come from geometry in floating point and are left open.             *)
(***************************************************************************)
EXTENDS IndexGenerator

CONSTANTS
  CacheSize,   (* Vertices in the cache (16).                              *)
  ValenceMax,  (* Entries of the table of live triangles (8).              *)
  Tables       (* Score tables: [cache |-> from 0, live |-> from 0].       *)

ASSUME VertexCacheAssumption ==
  /\ CacheSize \in Nat /\ CacheSize >= 3
  /\ ValenceMax \in Nat \ {0}
  /\ \A t \in Tables : DOMAIN t.cache = 0..CacheSize /\ DOMAIN t.live = 0..ValenceMax

VARIABLES
  given,            (* The triangles before.                               *)
  table,            (* The score table, or None for the FIFO algorithm.    *)
  adjacency,        (* The triangles of each vertex, without emitted ones  *)
                    (* when there are scores.                              *)
  order,            (* The triangles emitted, in order.                    *)
  current,          (* current_triangle or current_vertex.                 *)
  input_cursor,
  cache,            (* The vertices in the cache, the latest first.        *)
  vertex_scores,
  triangle_scores,
  live_triangles,   (* FIFO: triangles left at each vertex,                *)
  cache_timestamps, (* when it entered the cache,                          *)
  timestamp,        (* the clock                                           *)
  dead_end          (* and the stack of vertices to go back to.            *)

scoreVars == <<cache, vertex_scores, triangle_scores>>
fifoVars  == <<live_triangles, cache_timestamps, timestamp, dead_end>>
cacheVars == <<given, table, adjacency, order, current, input_cursor, scoreVars, fifoVars>>

Emitted(t)   == t \in ToSet(order)
Corners(t)   == given[t]
Vertices     == DOMAIN adjacency

\* buildTriangleAdjacency: a triangle is listed once for each of its corners.
TrianglesOf(triangles, v) ==
  LET List(near, t) == near \o [k \in 1..Count(triangles[t], v) |-> t]
  IN  FoldLeft(List, <<>>, Iota(Len(triangles)))

vertexScore(scores, position, live) == scores.cache[position] + scores.live[IF live < ValenceMax THEN live ELSE ValenceMax]

StartCache(triangles, count, scores) ==
  LET near == [v \in 1..count |-> TrianglesOf(triangles, v)]
      points == [v \in 1..count |-> IF scores = None THEN 0 ELSE vertexScore(scores, 0, Len(near[v]))]
  IN  /\ given' = triangles
      /\ table' = scores
      /\ adjacency' = near
      /\ order' = <<>>
      /\ current' = 1
      /\ input_cursor' = 2
      /\ cache' = <<>>
      /\ vertex_scores' = points
      /\ triangle_scores' = [t \in 1..Len(triangles) |->
                               points[triangles[t][1]] + points[triangles[t][2]] + points[triangles[t][3]]]
      /\ live_triangles' = [v \in 1..count |-> Len(near[v])]
      /\ cache_timestamps' = [v \in 1..count |-> 0]
      /\ timestamp' = CacheSize + 1
      /\ dead_end' = <<>>

-----------------------------------------------------------------------------
(* meshopt_optimizeVertexCacheTable *)

\* The cache after a triangle, before it is cut to its size.
cache_new(corners) == corners \o SelectSeq(cache, LAMBDA v : v \notin ToSet(corners))

\* A mistake: the last triangle of the list is lost.
RemoveLast(list, t) == IF list = <<>> THEN list ELSE SubSeq(list, 1, Len(list) - 1)

\* One occurrence of t is replaced by the last of the list.
RemoveTriangle(list, t) ==
  LET i == SelectInSeq(list, LAMBDA x : x = t)
  IN  IF i = 0 THEN list ELSE SubSeq([list EXCEPT ![i] = Last(list)], 1, Len(list) - 1)

\* A mistake: vertices that leave the cache keep the score of their last place.
RescoreKept(s, i, near, cached) ==
  LET v     == cached[i]
      score == vertexScore(table, IF i > CacheSize THEN CacheSize ELSE i, Len(near[v]))
      Follow(r, t) ==
        LET total == r.triangles[t] + (score - s.vertices[v])
        IN  [r EXCEPT !.triangles[t] = total,
                      !.best = IF r.best_score < total THEN t ELSE @,
                      !.best_score = IF @ < total THEN total ELSE @]
  IN  IF near[v] = <<>> THEN s
      ELSE FoldLeft(Follow, [s EXCEPT !.vertices[v] = score], near[v])

\* The scores after vertex cache[i] has its new position; neighbours follow by the difference.
Rescore(s, i, near, cached) ==
  LET v     == cached[i]
      score == vertexScore(table, IF i > CacheSize THEN 0 ELSE i, Len(near[v]))
      Follow(r, t) ==
        LET total == r.triangles[t] + (score - s.vertices[v])
        IN  [r EXCEPT !.triangles[t] = total,
                      !.best = IF r.best_score < total THEN t ELSE @,
                      !.best_score = IF @ < total THEN total ELSE @]
  IN  IF near[v] = <<>> THEN s
      ELSE FoldLeft(Follow, [s EXCEPT !.vertices[v] = score], near[v])

\* getNextTriangleDeadEnd: [cursor, triangle]
getNextTriangleDeadEnd(done) ==
  LET open == {t \in input_cursor..Len(given) : t \notin done}
  IN  IF open = {} THEN <<Len(given) + 1, Unset>> ELSE <<Min(open), Min(open)>>

EmitTriangle ==
  LET corners == Corners(current)
      cached  == cache_new(corners)
      near    == FoldLeft(LAMBDA a, v : [a EXCEPT ![v] = RemoveTriangle(a[v], current)], adjacency, corners)
      start   == [vertices |-> vertex_scores, triangles |-> [triangle_scores EXCEPT ![current] = 0],
                  best |-> Unset, best_score |-> 0]
      scored  == FoldLeft(LAMBDA s, i : Rescore(s, i, near, cached), start, Iota(Len(cached)))
      next    == getNextTriangleDeadEnd(ToSet(order) \cup {current})
  IN  /\ table # None
      /\ current # Unset
      /\ order' = Append(order, current)
      /\ cache' = SubSeq(cached, 1, IF Len(cached) > CacheSize THEN CacheSize ELSE Len(cached))
      /\ adjacency' = near
      /\ vertex_scores' = scored.vertices
      /\ triangle_scores' = scored.triangles
      /\ \/ /\ scored.best # Unset
            /\ current' = scored.best
            /\ UNCHANGED input_cursor
         \/ /\ scored.best = Unset
            /\ input_cursor' = next[1]
            /\ current' = next[2]
      /\ UNCHANGED <<given, table, fifoVars>>

-----------------------------------------------------------------------------
(* meshopt_optimizeVertexCacheFifo *)

\* updateCache: a vertex that is not in the cache enters it.
Touch(s, v) ==
  IF s.clock - s.stamps[v] > CacheSize
    THEN [s EXCEPT !.stamps[v] = s.clock, !.clock = @ + 1, !.misses = @ + 1] ELSE s

TouchAll(s, corners) == FoldLeft(Touch, s, corners)

\* getNextVertexNeighbor: of the vertices just pushed the one longest in the cache that stays there while it is fanned.
getNextVertexNeighbor(candidates, live, s) ==
  LET Priority(v) == IF (2 * live[v]) + s.clock - s.stamps[v] <= CacheSize THEN s.clock - s.stamps[v] ELSE 0
      alive == SelectSeq(candidates, LAMBDA v : live[v] > 0)
      best  == {i \in DOMAIN alive : \A j \in DOMAIN alive : Priority(alive[j]) <= Priority(alive[i])}
  IN  IF alive = <<>> THEN Unset ELSE alive[Min(best)]

\* A mistake: the search in input order ends at the first vertex that has no triangles left.
DeadEndStops(stack, live) ==
  LET waiting == {i \in DOMAIN stack : live[stack[i]] > 0}
  IN  CASE waiting # {} -> [stack |-> SubSeq(stack, 1, Max(waiting) - 1), cursor |-> input_cursor, vertex |-> stack[Max(waiting)]]
        [] waiting = {} /\ input_cursor \in Vertices /\ live[input_cursor] > 0 ->
             [stack |-> <<>>, cursor |-> input_cursor, vertex |-> input_cursor]
        [] OTHER -> [stack |-> <<>>, cursor |-> input_cursor, vertex |-> Unset]

\* getNextVertexDeadEnd: [stack, cursor, vertex]
getNextVertexDeadEnd(stack, live) ==
  LET waiting == {i \in DOMAIN stack : live[stack[i]] > 0}
      open    == {v \in Vertices : v >= input_cursor /\ live[v] > 0}
  IN  CASE waiting # {} -> [stack |-> SubSeq(stack, 1, Max(waiting) - 1), cursor |-> input_cursor, vertex |-> stack[Max(waiting)]]
        [] waiting = {} /\ open # {} -> [stack |-> <<>>, cursor |-> Min(open), vertex |-> Min(open)]
        [] OTHER -> [stack |-> <<>>, cursor |-> Max(Vertices) + 1, vertex |-> Unset]

\* Emits the triangles of the current vertex that are left, and chooses the next vertex.
FanVertex ==
  LET Emit(s, t) ==
        IF t \in ToSet(s.order) THEN s
        ELSE [TouchAll(s, Corners(t)) EXCEPT
                !.order = Append(@, t),
                !.stack = @ \o Corners(t),
                !.live = [v \in Vertices |-> @[v] - Count(Corners(t), v)]]
      fan  == FoldLeft(Emit, [order |-> order, stack |-> dead_end, live |-> live_triangles,
                              clock |-> timestamp, stamps |-> cache_timestamps, misses |-> 0], adjacency[current])
      near == getNextVertexNeighbor(SubSeq(fan.stack, Len(dead_end) + 1, Len(fan.stack)), fan.live, fan)
      back == getNextVertexDeadEnd(fan.stack, fan.live)
  IN  /\ table = None
      /\ current # Unset
      /\ order' = fan.order
      /\ live_triangles' = fan.live
      /\ timestamp' = fan.clock
      /\ cache_timestamps' = fan.stamps
      /\ \/ /\ near # Unset
            /\ current' = near
            /\ dead_end' = fan.stack
            /\ UNCHANGED input_cursor
         \/ /\ near = Unset
            /\ current' = back.vertex
            /\ dead_end' = back.stack
            /\ input_cursor' = back.cursor
      /\ UNCHANGED <<given, table, adjacency, scoreVars>>

CacheDone == current = Unset
Reordered == [i \in 1..Len(order) |-> given[order[i]]]
CacheIdle == UNCHANGED cacheVars

-----------------------------------------------------------------------------
(* src/vfetchoptimizer.cpp *)

\* A mistake: vertex 1 is taken for one that has its place already.
FetchRemapFirst(indices, count) ==
  FoldLeft(LAMBDA s, v : IF s.remap[v] # Unset THEN s
                         ELSE [remap |-> [s.remap EXCEPT ![v] = s.next + 1], next |-> s.next + 1],
           [remap |-> [v \in 1..count |-> IF v = 1 THEN 1 ELSE Unset], next |-> 0], indices)

\* meshopt_optimizeVertexFetchRemap: vertices in the order of their first use.
optimizeVertexFetchRemap(indices, count) ==
  FoldLeft(LAMBDA s, v : IF s.remap[v] # Unset THEN s
                         ELSE [remap |-> [s.remap EXCEPT ![v] = s.next + 1], next |-> s.next + 1],
           [remap |-> [v \in 1..count |-> Unset], next |-> 0], indices)

\* meshopt_optimizeVertexFetch: [vertices, indices] in that order.
optimizeVertexFetch(vertices, indices) ==
  LET fetch == optimizeVertexFetchRemap(indices, Len(vertices))
  IN  [vertices |-> remapVertexBuffer(vertices, fetch.remap, fetch.next),
       indices  |-> remapIndexBuffer(indices, fetch.remap)]

-----------------------------------------------------------------------------
(* Overdraw: clusters and their order *)

CONSTANTS
  Threshold,  (* How much worse than before a cluster may be: <<n, d>> for n / d. *)
  Keys        (* The number of sort keys (2048).                           *)

ASSUME OverdrawAssumption ==
  /\ Threshold \in Nat \X (Nat \ {0})
  /\ Keys \in Nat \ {0}

FreshCache(count, clock) == [stamps |-> [v \in 1..count |-> 0], clock |-> clock, misses |-> 0]

Misses(s, triangle) == TouchAll(s, triangle).misses - s.misses
FlushCache(s) == [s EXCEPT !.clock = @ + CacheSize + 1]

\* Where cluster i ends, exclusive.
ClusterEnd(clusters, i, count) == IF i < Len(clusters) THEN clusters[i + 1] ELSE count + 1

\* A mistake: the first triangle starts a cluster only when it misses three times.
HardBoundariesMisses(triangles, count) ==
  LET Visit(s, i) ==
        [cache  |-> TouchAll(s.cache, triangles[i]),
         result |-> IF Misses(s.cache, triangles[i]) = 3 THEN Append(s.result, i) ELSE s.result]
  IN  FoldLeft(Visit, [cache |-> FreshCache(count, CacheSize + 1), result |-> <<>>], Iota(Len(triangles))).result

\* generateHardBoundaries: the first triangle, and those with three misses.
generateHardBoundaries(triangles, count) ==
  LET Visit(s, i) ==
        [cache  |-> TouchAll(s.cache, triangles[i]),
         result |-> IF i = 1 \/ Misses(s.cache, triangles[i]) = 3 THEN Append(s.result, i) ELSE s.result]
  IN  FoldLeft(Visit, [cache |-> FreshCache(count, CacheSize + 1), result |-> <<>>], Iota(Len(triangles))).result

\* A mistake: the boundary at the end of the cluster stays, and the last one is empty.
PopNothing(result, start) == result

\* The last boundary goes: the end of the cluster, or the start of an incomplete one.
PopBoundary(result, start) == IF Last(result) # start THEN Front(result) ELSE result

\* One hard cluster: its boundaries are added to s.result; s.cache lives on from cluster to cluster.
SoftBoundaries(s, triangles, start, end) ==
  LET range    == [i \in 1..end - start |-> start + i - 1]
      measured == FoldLeft(LAMBDA c, i : TouchAll(c, triangles[i]), [FlushCache(s.cache) EXCEPT !.misses = 0], range)
      Efficient(misses, faces) ==
        misses * Threshold[2] * (end - start) <= Threshold[1] * measured.misses * faces
      Visit(r, i) ==
        LET c == TouchAll(r.cache, triangles[i])
        IN  IF Efficient(c.misses, r.faces + 1)
              THEN [cache |-> [FlushCache(c) EXCEPT !.misses = 0], faces |-> 0, result |-> Append(r.result, i + 1)]
              ELSE [cache |-> c, faces |-> r.faces + 1, result |-> r.result]
      cut == FoldLeft(Visit, [cache |-> [FlushCache(measured) EXCEPT !.misses = 0], faces |-> 0,
                              result |-> Append(s.result, start)], range)
  IN  [cache |-> cut.cache, result |-> PopBoundary(cut.result, start)]

generateSoftBoundaries(triangles, count, hard) ==
  FoldLeft(LAMBDA s, i : SoftBoundaries(s, triangles, hard[i], ClusterEnd(hard, i, Len(triangles))),
           [cache |-> FreshCache(count, 0), result |-> <<>>], Iota(Len(hard))).result

\* calculateSortOrderRadix: the clusters by their keys, equal keys in order.
SortPlace(keys, i) == Cardinality({j \in DOMAIN keys : keys[j] < keys[i] \/ (keys[j] = keys[i] /\ j <= i)})

\* The clusters one after the other, in the order of their places.
SortClusters(triangles, clusters, keys) ==
  LET At(place) == CHOOSE i \in DOMAIN clusters : SortPlace(keys, i) = place
      Piece(i)  == SubSeq(triangles, clusters[i], ClusterEnd(clusters, i, Len(triangles)) - 1)
  IN  FlattenSeq([place \in 1..Len(clusters) |-> Piece(At(place))])

-----------------------------------------------------------------------------
(* meshopt_analyzeVertexCache *)

analyzeVertexCache(triangles, count, warp_size, primgroup_size) ==
  LET Visit(s, t) ==
        LET missing == Cardinality({k \in 1..3 : s.clock - s.stamps[t[k]] > CacheSize})
            full    == \/ primgroup_size # 0 /\ s.group = primgroup_size
                       \/ warp_size # 0 /\ s.warp + missing > warp_size
            flushed == IF full THEN [FlushCache(s) EXCEPT !.warps = @ + (IF s.warp > 0 THEN 1 ELSE 0), !.warp = 0, !.group = 0]
                               ELSE s
            touched == TouchAll(flushed, t)
        IN  [touched EXCEPT !.warp = @ + (touched.misses - s.misses), !.group = @ + 1,
                            !.largest = Max({@, flushed.warp + (touched.misses - s.misses)})]
      last == FoldLeft(Visit, [stamps |-> [v \in 1..count |-> 0], clock |-> CacheSize + 1, misses |-> 0,
                               warp |-> 0, group |-> 0, warps |-> 0, largest |-> 0], triangles)
  IN  [vertices_transformed |-> last.misses,
       warps_executed |-> last.warps + (IF last.warp > 0 THEN 1 ELSE 0),
       unique |-> Cardinality({v \in 1..count : last.stamps[v] > 0}),
       largest |-> last.largest]
=============================================================================
