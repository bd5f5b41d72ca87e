--------------------------- MODULE MeshletOptimizer ---------------------------
(***************************************************************************)
(* A meshlet from a list of triangles, as in src/meshletutils.cpp:         *)
(* meshopt_extractMeshletIndices numbers the vertices of the triangles     *)
(* with the help of a direct mapped cache, meshopt_optimizeMeshletLevel    *)
(* reorders the triangles for locality, rotates them at levels above 0 and *)
(* renumbers the vertices.                                                 *)
(*                                                                         *)
(* A step handles one corner (extraction), one position of the output      *)
(* (reordering), one triangle (rotation) or all vertices (renumbering).    *)
(* Local indices count from 0 as in the code: local index i stands for     *)
(* vertices[i + 1].                                                        *)
(***************************************************************************)
EXTENDS Integers, Sequences, FiniteSets, SequencesExt, FiniteSetsExt

CONSTANTS
  Lists,      (* Lists of triangles: <<a, b, c>> of vertices of the mesh.  *)
  Levels,     (* Levels of optimization (0..9).                            *)
  CacheSize,  (* Entries of the direct mapped cache (1024).                *)
  Ticks       (* Values of a timestamp or a valence (256).                 *)

Cutoff == 3   \* cache_cutoff

ASSUME OptimizerAssumption ==
  /\ CacheSize \in Nat \ {0}
  /\ Ticks \in Nat /\ Ticks > 2 * Cutoff /\ Ticks % 2 = 0
  /\ Levels \subseteq 0..9

VARIABLES
  list,       (* The triangles given.                                      *)
  level,      (* The level of optimization.                                *)
  work,       (* extract, order, rotate, renumber or optimized.            *)
  vertices,   (* meshlet_vertices                                          *)
  triangles,  (* meshlet_triangles                                         *)
  at,         (* Corners extracted, or triangles in their final place.     *)
  cache,      (* The cache of the extraction; then timestamps, then marks. *)
  valence     (* Triangles that still need a vertex.                       *)

optimizerVars == <<list, level, work, vertices, triangles, at, cache, valence>>

\* The vertices that a list uses.
VerticesOf(l) == UNION {{t[1], t[2], t[3]} : t \in ToSet(l)}

ASSUME ListsAssumption == Lists \subseteq Seq([1..3 -> Nat])

Locals == 0..Len(vertices) - 1
Corner(t, n) == t[((n - 1) % 3) + 1]

\* t with its corner k + 1 in front.
Turn(t, k) == [n \in 1..3 |-> Corner(t, n + k)]
Turns(t) == {Turn(t, k) : k \in 0..2}

-----------------------------------------------------------------------------
(* meshopt_extractMeshletIndices *)

OptimizerInit ==
  /\ list \in Lists
  /\ level \in Levels
  /\ work = "extract"
  /\ vertices = <<>>
  /\ triangles = <<>>
  /\ at = 0
  /\ cache = [key \in 0..CacheSize - 1 |-> -1]
  /\ valence = <<>>

\* The position of v: the one the cache has, a new one, or the one a search finds.
Position(v, c) ==
  LET found == {n \in DOMAIN vertices : vertices[n] = v}
  IN  IF c >= 0 /\ vertices[c + 1] = v THEN c
      ELSE IF c < 0 \/ found = {} THEN Len(vertices) ELSE Min(found) - 1

ExtractCorner ==
  /\ work = "extract"
  /\ at < 3 * Len(list)
  /\ LET v   == Corner(list[at \div 3 + 1], at + 1)
         key == v % CacheSize
         pos == Position(v, cache[key])
     IN  /\ vertices' = IF pos = Len(vertices) THEN Append(vertices, v) ELSE vertices
         /\ cache' = [cache EXCEPT ![key] = pos]
         /\ triangles' = IF at % 3 = 0 THEN Append(triangles, <<pos>>)
                         ELSE [triangles EXCEPT ![Len(triangles)] = Append(@, pos)]
  /\ at' = at + 1
  /\ UNCHANGED <<list, level, work, valence>>

-----------------------------------------------------------------------------
(* meshopt_optimizeMeshletLevel: the order of the triangles *)

Ago(t, n) == (Ticks \div 2 + at - cache[Corner(t, n)]) % Ticks
Match(t)  == Cardinality({n \in 1..3 : Ago(t, n) < Cutoff})

\* Valences count modulo Ticks.
Needed(t) == [v \in DOMAIN valence |-> Cardinality({n \in 1..3 : t[n] = v})]

\* ExtractCorner leaves a whole list; the optimizer counts the triangles at each vertex.
StartOrder ==
  /\ work = "extract"
  /\ at = 3 * Len(list)
  /\ work' = "order"
  /\ at' = 0
  /\ cache' = [v \in Locals |-> 0]
  /\ valence' = [v \in Locals |->
       Cardinality({p \in (DOMAIN triangles) \X (1..3) : triangles[p[1]][p[2]] = v}) % Ticks]
  /\ UNCHANGED <<list, level, vertices, triangles>>

Score(t) ==
  IF level = 0 THEN Match(t)
  ELSE LET apart == Ago(t, 1) + Ago(t, 2) + Ago(t, 3)
           vmin  == Min({valence[v] : v \in ToSet(t)})
       IN  (Match(t) * 4 * Ticks + 4 * Ticks - 1 - apart) * Ticks + Ticks - 1 - vmin

\* The search goes on until it has seen as many edge matches as the level says.
Candidates ==
  LET edges(j) == Cardinality({n \in at + 1..j : Match(triangles[n]) >= 2})
      enough   == IF level = 0 THEN 1 ELSE level
  IN  {j \in at + 1..Len(triangles) : edges(j - 1) < enough}

Chosen ==
  Min({j \in Candidates : \A n \in Candidates : Score(triangles[n]) <= Score(triangles[j])})

\* A mistake: one triangle too few moves.
MovedShort(j) ==
  [n \in DOMAIN triangles |->
     IF n = at + 1 THEN triangles[j]
     ELSE IF n \in at + 2..j - 1 THEN triangles[n - 1] ELSE triangles[n]]

\* The triangles before the chosen one move by one place.
Moved(j) ==
  [n \in DOMAIN triangles |->
     IF n = at + 1 THEN triangles[j]
     ELSE IF n \in at + 2..j THEN triangles[n - 1] ELSE triangles[n]]

OrderTriangle ==
  /\ work = "order"
  /\ at < Len(triangles)
  /\ LET t == triangles[Chosen]
     IN  /\ triangles' = Moved(Chosen)
         /\ cache' = [v \in DOMAIN cache |->
              IF v \in ToSet(t) THEN (Ticks \div 2 + at + 1) % Ticks ELSE cache[v]]
         /\ valence' = [v \in DOMAIN valence |-> (valence[v] - Needed(t)[v] + Ticks) % Ticks]
  /\ at' = at + 1
  /\ UNCHANGED <<list, level, work, vertices>>

-----------------------------------------------------------------------------
(* Rotation and renumbering *)

StartRotate ==
  /\ work = "order"
  /\ at = Len(triangles)
  /\ IF level >= 1
     THEN work' = "rotate" /\ at' = 0 /\ cache' = [v \in Locals |-> 0]
     ELSE work' = "renumber" /\ UNCHANGED <<at, cache>>
  /\ UNCHANGED <<list, level, vertices, triangles, valence>>

\* One of the next triangles has edge k of t (a-b, b-c, c-a) the other way round.
NeedsEdge(t, k) ==
  \E j \in at + 2..at + 1 + Cutoff :
    /\ j <= Len(triangles)
    /\ \E o \in Turns(triangles[j]) : o[1] = Corner(t, k + 2) /\ o[2] = Corner(t, k + 1)

Rotation(t) ==
  LET used(n) == cache[t[n]] = 1
  IN  CASE ~used(1) /\ used(2) /\ ~used(3) -> Turn(t, 1)
        [] ~used(1) /\ ~used(2) /\ ~used(3) ->
             (CASE NeedsEdge(t, 0) /\ ~NeedsEdge(t, 1) -> Turn(t, 1)
                [] NeedsEdge(t, 1) /\ ~NeedsEdge(t, 2) -> Turn(t, 2)
                [] OTHER -> t)
        [] OTHER -> t

RotateTriangle ==
  /\ work = "rotate"
  /\ at < Len(triangles)
  /\ triangles' = [triangles EXCEPT ![at + 1] = Rotation(@)]
  /\ cache' = [v \in DOMAIN cache |-> IF v \in ToSet(triangles[at + 1]) THEN 1 ELSE cache[v]]
  /\ at' = at + 1
  /\ UNCHANGED <<list, level, work, vertices, valence>>

\* The vertices of the first n corners, in the order in which they are used first.
CornerAt(i) == Corner(triangles[i \div 3 + 1], i + 1)
FirstUses[n \in 0..3 * Len(triangles)] ==
  IF n = 0 THEN <<>>
  ELSE LET uses == FirstUses[n - 1]
       IN  IF CornerAt(n - 1) \in ToSet(uses) THEN uses ELSE Append(uses, CornerAt(n - 1))

\* Vertices get the order in which the triangles use them first.
Renumber ==
  /\ \/ work = "rotate" /\ at = Len(triangles)
     \/ work = "renumber"
  /\ work' = "optimized"
  /\ LET order   == FirstUses[3 * Len(triangles)]
         remap   == [v \in ToSet(order) |-> (CHOOSE n \in DOMAIN order : order[n] = v) - 1]
     IN  /\ triangles' = [j \in DOMAIN triangles |-> [n \in 1..3 |-> remap[triangles[j][n]]]]
         /\ vertices' = [n \in DOMAIN vertices |->
              IF n <= Len(order) THEN vertices[order[n] + 1] ELSE vertices[n]]
  /\ UNCHANGED <<list, level, at, cache, valence>>

OptimizerNext ==
  \/ ExtractCorner
  \/ StartOrder
  \/ OrderTriangle
  \/ StartRotate
  \/ RotateTriangle
  \/ Renumber

-----------------------------------------------------------------------------
(* Properties *)

\* What a triangle of the meshlet stands for, and what a triangle of the list may become.
Meant(t) == [n \in 1..3 |-> vertices[t[n] + 1]]
Allowed(t) == IF level = 0 THEN {t} ELSE Turns(t)

CountOf(s, t) == Cardinality({j \in DOMAIN s : s[j] \in Allowed(t)})

\* As many elements of s as possible are found in u, from its first one on.
IsSubsequence(s, u) ==
  LET found[n \in 0..Len(u)] ==
        IF n = 0 THEN 0
        ELSE LET k == found[n - 1] IN IF k < Len(s) /\ s[k + 1] = u[n] THEN k + 1 ELSE k
  IN  found[Len(u)] = Len(s)

\* Whatever was done so far, the meshlet has the triangles that were given, each as often as it
\* was given, turned at most, and at level 0 not even that (meshoptimizer.h:771, "levels >= 1
\* may rotate triangle corners"); no vertex has two numbers.  While triangles are reordered,
\* those that wait keep their order (meshletutils.cpp:458, "we always keep an ordered partition").
SameTriangles ==
  LET whole == IF work = "extract" THEN at \div 3 ELSE Len(list)
      given == SubSeq(list, 1, whole)
      now   == [j \in 1..whole |-> Meant(triangles[j])]
  IN  /\ \A j \in 1..whole : CountOf(now, given[j]) = CountOf(given, given[j])
      /\ IsInjective(vertices)
      /\ work = "extract" => now = given
      /\ work = "order" => IsSubsequence(SubSeq(now, at + 1, whole), list)
=============================================================================
