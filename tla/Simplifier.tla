------------------------------ MODULE Simplifier ------------------------------
(***************************************************************************)
(* src/simplifier.cpp, meshopt_simplifyEdge: the simplifier behind          *)
(* meshopt_simplify, meshopt_simplifyWithAttributes and                     *)
(* meshopt_simplifyWithUpdate.                                              *)
(*                                                                          *)
(* Before the first pass it finds out the wedges of a position, the kinds   *)
(* of vertices with the loops of open edges they lie on, and the            *)
(* components. A pass picks the edges that may be collapsed, evaluates      *)
(* them in the order of their errors and rewrites the mesh; the passes are  *)
(* followed by the pruning of small components and the update of vertices.  *)
(* What depends on the geometry is free: the order of the collapses and     *)
(* which of two directions is cheaper, whether one flips a triangle, the    *)
(* error of a component, where a vertex is moved. Errors are numbers of     *)
(* small sets, so that they can be compared with each other and with the    *)
(* limit.                                                                   *)
(*                                                                          *)
(* Vertices count from one, 0 is ~0u. A mesh is a sequence of triangles     *)
(* (triples of vertices) over vertices 1..n; position[v] is a number. The   *)
(* hash tables of the code find the first vertex with the same key: Min.    *)
(***************************************************************************)
EXTENDS Integers, Sequences, FiniteSets, SequencesExt, FiniteSetsExt, Functions, Bags

None == 0

Kinds == {"Manifold", "Border", "Seam", "Complex", "Locked"}

Iota(n) == [i \in 1..n |-> i]

\* A table written out once: TLC would evaluate a function again at each use.
Written(table) == <<>> \o table

-----------------------------------------------------------------------------
(* Half-edges, by triangle and corner *)

HalfEdges(tris) == (DOMAIN tris) \X (1..3)
From(tris, h)   == tris[h[1]][h[2]]
To(tris, h)     == tris[h[1]][(h[2] % 3) + 1]
Before(tris, h) == tris[h[1]][((h[2] + 1) % 3) + 1]

\* EdgeAdjacency: the half-edges that leave a vertex, or one of the vertices that remap takes to it.
Adjacent(tris, remap, v) == {h \in HalfEdges(tris) : remap[From(tris, h)] = v}

hasEdge(tris, remap, a, b) == \E h \in Adjacent(tris, remap, remap[a]) : remap[To(tris, h)] = remap[b]

-----------------------------------------------------------------------------
(* Positions and wedges *)

\* The vertices in the order in which the indices first use them, and the indices in these terms.
buildSparseRemap(tris) ==
  FoldLeft(LAMBDA seen, v : IF v \in ToSet(seen) THEN seen ELSE Append(seen, v), <<>>, FlattenSeq(tris))

Dense(tris, sparse_remap) ==
  Written([t \in DOMAIN tris |-> Written([k \in 1..3 |-> CHOOSE d \in DOMAIN sparse_remap : sparse_remap[d] = tris[t][k]])])

positionRemap(position) == Written([v \in DOMAIN position |-> Min({w \in DOMAIN position : position[w] = position[v]})])

\* The cycle through the vertices of a position: each one that is not the first is inserted after the first.
wedgeLoops(remap) ==
  FoldLeft(LAMBDA wedge, v : IF remap[v] = v THEN wedge
                             ELSE [wedge EXCEPT ![v] = wedge[remap[v]], ![remap[v]] = v],
           Iota(Len(remap)), Iota(Len(remap)))

Wedges(remap, v) == {w \in DOMAIN remap : remap[w] = remap[v]}

-----------------------------------------------------------------------------
(* classifyVertices *)

\* The end of the only open edge of v among "ends"; v itself when there are several or an edge from v to v.
OpenEnd(v, ends, selfEdge) ==
  IF selfEdge \/ Cardinality(DOMAIN ends) > 1 THEN v
  ELSE IF DOMAIN ends = {} THEN None ELSE ends[CHOOSE h \in DOMAIN ends : TRUE]

OpenEdges(tris, n) ==
  {h \in HalfEdges(tris) : To(tris, h) # From(tris, h) /\ ~hasEdge(tris, Iota(n), To(tris, h), From(tris, h))}

SelfEdge(tris, v) == \E h \in HalfEdges(tris) : From(tris, h) = v /\ To(tris, h) = v

openout(tris, n) ==
  LET open == OpenEdges(tris, n)
  IN  Written([v \in 1..n |-> OpenEnd(v, [h \in {g \in open : From(tris, g) = v} |-> To(tris, h)], SelfEdge(tris, v))])

openinc(tris, n) ==
  LET open == OpenEdges(tris, n)
  IN  Written([v \in 1..n |-> OpenEnd(v, [h \in {g \in open : To(tris, g) = v} |-> From(tris, h)], SelfEdge(tris, v))])

\* The two ends of a vertex' open edges are there and are not several.
OneEach(v, inc, out) == inc[v] \notin {None, v} /\ out[v] \notin {None, v}

SingleKind(v, inc, out, remap) ==
  IF inc[v] = None /\ out[v] = None THEN "Manifold"
  ELSE IF inc[v] # None /\ out[v] # None /\ inc[v] # v /\ remap[inc[v]] = remap[out[v]] THEN "Seam"
  ELSE IF inc[v] # v /\ out[v] # v THEN "Border" ELSE "Locked"

PairKind(v, w, inc, out, remap) ==
  IF /\ OneEach(v, inc, out) /\ OneEach(w, inc, out)
     /\ remap[inc[v]] = remap[out[w]] /\ remap[out[v]] = remap[inc[w]] /\ remap[inc[v]] # remap[out[v]]
  THEN "Seam" ELSE "Locked"

PrimaryKind(v, inc, out, remap, wedge) ==
  IF wedge[v] = v THEN SingleKind(v, inc, out, remap)
  ELSE IF wedge[wedge[v]] = v THEN PairKind(v, wedge[v], inc, out, remap) ELSE "Locked"

\* A seam or locked vertex keeps its kind in permissive mode: a protected wedge, or an edge of the border.
Protected(v, tris, remap, protect) ==
  \/ \E w \in Wedges(remap, v) : protect[w]
  \/ \E h \in Adjacent(tris, remap, v) : ~hasEdge(tris, remap, To(tris, h), v)

PermissiveKind(v, kind, tris, remap, protect) ==
  IF kind[v] \in {"Seam", "Locked"} /\ ~Protected(v, tris, remap, protect) THEN "Complex" ELSE kind[v]

\* A mistake: only the lock of the first wedge counts.
LockedKindFirst(v, kind, remap, lock) == IF lock[v] THEN "Locked" ELSE kind[v]

\* A lock of any wedge locks them all.
LockedKind(v, kind, remap, lock) == IF \E w \in Wedges(remap, v) : lock[w] THEN "Locked" ELSE kind[v]

BorderKind(v, kind) == IF kind[v] = "Border" THEN "Locked" ELSE kind[v]

\* The kinds of the first vertices of each position, which the other wedges inherit.
vertexKinds(tris, remap, wedge, lock, protect, options) ==
  LET V         == DOMAIN remap
      inc       == openinc(tris, Len(remap))
      out       == openout(tris, Len(remap))
      primary   == {v \in V : remap[v] = v}
      plain     == [v \in primary |-> PrimaryKind(v, inc, out, remap, wedge)]
      relaxed   == IF "Permissive" \in options
                   THEN [v \in primary |-> PermissiveKind(v, plain, tris, remap, protect)] ELSE plain
      fixed     == [v \in primary |-> LockedKind(v, relaxed, remap, lock)]
      bordered  == IF "LockBorder" \in options THEN [v \in primary |-> BorderKind(v, fixed)] ELSE fixed
  IN  Written([v \in V |-> bordered[remap[v]]])

-----------------------------------------------------------------------------
(* buildComponents *)

follow(parents, v) ==
  LET root[w \in DOMAIN parents] == IF parents[w] = w THEN w ELSE root[parents[w]] IN root[v]

\* A mistake: the roots are put in the order of the edge, not of their numbers.
UnionUnordered(parents, v, w) ==
  LET r0 == follow(parents, v)
      r1 == follow(parents, w)
  IN  IF r0 = r1 THEN parents ELSE [parents EXCEPT ![r0] = r1]

\* Larger roots are put below smaller ones.
Union(parents, v, w) ==
  LET r0 == follow(parents, v)
      r1 == follow(parents, w)
  IN  IF r0 = r1 THEN parents ELSE IF r0 < r1 THEN [parents EXCEPT ![r1] = r0] ELSE [parents EXCEPT ![r0] = r1]

Roots(tris, remap) ==
  FoldLeft(LAMBDA parents, t : FoldLeft(LAMBDA p, e : Union(p, remap[t[e]], remap[t[(e % 3) + 1]]), parents, <<1, 2, 3>>),
           Iota(Len(remap)), tris)

\* Components are numbered in the order of their roots, in place: entries below v are numbers, the others roots.
Renumber(made, v, remap) ==
  IF remap[v] # v THEN [made EXCEPT !.components[v] = made.components[remap[v]]]
  ELSE IF made.components[v] = v
       THEN [made EXCEPT !.components[v] = made.next_component, !.next_component = @ + 1]
       ELSE [made EXCEPT !.components[v] = made.components[made.components[v]]]

buildComponents(tris, remap) ==
  LET parents == Roots(tris, remap)
      rooted  == Written([v \in DOMAIN remap |-> IF remap[v] = v THEN follow(parents, v) ELSE parents[v]])
  IN  FoldLeft(LAMBDA made, v : Renumber(made, v, remap),
               [components |-> rooted, next_component |-> 1], Iota(Len(remap)))

-----------------------------------------------------------------------------
(* The state of a call *)

CONSTANTS
  Inputs,           (* [api, triangles, position, lock, protect, options, target, limit, attributes, *)
                    (* flips: positions whose triangles can be turned over]  *)
  CollapseErrors,   (* The errors a collapse may have,                     *)
  ComponentErrors,  (* and those of a component.                           *)
  Infinite          (* FLT_MAX                                             *)

ASSUME ErrorAssumption ==
  /\ CollapseErrors \subseteq Nat /\ ComponentErrors \subseteq Nat
  /\ \A e \in CollapseErrors \cup ComponentErrors : e < Infinite

VARIABLES
  input,     (* The arguments.                                             *)
  phase,     (* Where the call is.                                         *)
  result,    (* The triangles so far.                                      *)
  mesh,      (* [sparse_remap, position, remap, wedge, kind, capacity, components, component_errors] *)
  loop, loopback,
  pass,      (* The pass: collapses, rest (not yet evaluated), collapse_remap, collapse_locked, *)
             (* error (of the last one), triangle_collapses, edge_collapse_goal, triangle_collapse_goal *)
  errors,    (* [result_error, vertex_error, component_nexterror, component_nextstale] *)
  quadrics,  (* The positions whose quadrics a vertex has added up, as a bag. *)
  moved,     (* The vertices whose positions were updated.                 *)
  image,     (* Where each input position is now, and                      *)
  pruned     (* the components that were pruned: observed, not in the code. *)

vars == <<input, phase, result, mesh, loop, loopback, pass, errors, quadrics, moved, image, pruned>>

Option(o) == o \in input.options
remap     == mesh.remap
wedge     == mesh.wedge
kind      == mesh.kind
Above     == 3 * Len(result) > input.target

NoPass == [collapses |-> <<>>, rest |-> {}, collapse_remap |-> <<>>, collapse_locked |-> {}, error |-> 0,
           triangle_collapses |-> 0, edge_collapse_goal |-> 0, triangle_collapse_goal |-> 0]

-----------------------------------------------------------------------------
(* Before the first pass *)

\* A manifold or seam vertex halves the collapses its edges need; three spare ones for the check of the list.
boundEdgeCollapses(tris, kinds) ==
  (3 * Len(tris)) - (Cardinality({h \in HalfEdges(tris) : kinds[From(tris, h)] \in {"Manifold", "Seam"}}) \div 2) + 3

\* What the triangles, edges and attributes around a vertex add to its quadric stands for its position.
fillQuadrics(position) == [v \in DOMAIN position |-> SetToBag({position[v]})]

measureComponents(count) == [1..count -> ComponentErrors]

Begin ==
  /\ phase = "input"
  /\ LET all      == Iota(Len(input.position))
         sparse   == IF Option("Sparse") THEN buildSparseRemap(input.triangles) ELSE all
         tris     == IF Option("Sparse") THEN Dense(input.triangles, sparse) ELSE input.triangles
         position == Written([v \in DOMAIN sparse |-> input.position[sparse[v]]])
         firsts   == positionRemap(position)
         wedges   == wedgeLoops(firsts)
         kinds    == vertexKinds(tris, firsts, wedges, [v \in DOMAIN sparse |-> input.lock[sparse[v]]],
                                 [v \in DOMAIN sparse |-> input.protect[sparse[v]]], input.options)
         parts    == IF Option("Prune") THEN buildComponents(tris, firsts)
                     ELSE [components |-> <<>>, next_component |-> 1]
     IN  \E component_errors \in measureComponents(parts.next_component - 1) :
           /\ result' = tris
           /\ mesh' = [sparse_remap |-> sparse, position |-> position, remap |-> firsts, wedge |-> wedges,
                       kind |-> kinds, capacity |-> boundEdgeCollapses(tris, kinds),
                       components |-> parts.components, component_errors |-> component_errors]
           /\ loop' = openout(tris, Len(position))
           /\ loopback' = openinc(tris, Len(position))
           /\ errors' = [result_error |-> 0, vertex_error |-> 0, component_nextstale |-> TRUE,
                         component_nexterror |-> IF Option("Prune") THEN Min({Infinite} \cup Range(component_errors)) ELSE 0]
           /\ quadrics' = fillQuadrics(position)
           /\ image' = [p \in Range(position) |-> p]
  /\ phase' = "pass"
  /\ UNCHANGED <<input, pass, moved, pruned>>

-----------------------------------------------------------------------------
(* pickEdgeCollapses *)

\* A mistake: a border may be collapsed into the interior.
kCanCollapseInside(k0, k1) == k0 = "Manifold" \/ (k0 # "Locked" /\ k1 \in {k0, "Locked", "Manifold"})

kCanCollapse(k0, k1) == k0 = "Manifold" \/ (k0 # "Locked" /\ k1 \in {k0, "Locked"})
kHasOpposite(k0, k1) == "Manifold" \in {k0, k1} \/ ("Seam" \in {k0, k1} /\ "Complex" \notin {k0, k1})

\* A mistake: edges between two vertices of borders or seams that leave the border or the seam.
AnyLoop(i0, i1) == TRUE

\* Both ends on a border or a seam need not mean that the edge between them is.
OnOneLoop(i0, i1) ==
  /\ kind[i0] \in {"Border", "Seam"} /\ kind[i1] # "Manifold" => loop[i0] = i1
  /\ kind[i1] \in {"Border", "Seam"} /\ kind[i0] # "Manifold" => loopback[i1] = i0

Collapsible(i0, i1) ==
  /\ remap[i0] # remap[i1]
  /\ kCanCollapse(kind[i0], kind[i1]) \/ kCanCollapse(kind[i1], kind[i0])
  /\ ~(kHasOpposite(kind[i0], kind[i1]) /\ remap[i1] > remap[i0])
  /\ OnOneLoop(i0, i1)

CollapseOf(i0, i1) ==
  LET forth == kCanCollapse(kind[i0], kind[i1])
      back  == kCanCollapse(kind[i1], kind[i0])
  IN  [v0 |-> IF forth THEN i0 ELSE i1, v1 |-> IF forth THEN i1 ELSE i0, bidi |-> forth /\ back]

TrianglePicks(t) ==
  LET Ends(e) == <<t[e], t[(e % 3) + 1]>>
      picked  == SelectSeq(<<1, 2, 3>>, LAMBDA e : Collapsible(Ends(e)[1], Ends(e)[2]))
  IN  [i \in DOMAIN picked |-> CollapseOf(Ends(picked[i])[1], Ends(picked[i])[2])]

\* A list without room for another three is left as it is.
pickEdgeCollapses(tris) ==
  FoldLeft(LAMBDA list, t : IF Len(list) + 3 > mesh.capacity THEN list ELSE list \o TrianglePicks(t), <<>>, tris)

StartPass ==
  /\ phase = "pass"
  /\ LET collapses == pickEdgeCollapses(result)
         goal      == ((3 * Len(result)) - input.target) \div 3
     IN  IF Above /\ collapses # <<>>
         THEN /\ phase' = "collapse"
              /\ pass' = [collapses |-> collapses, rest |-> DOMAIN collapses, collapse_remap |-> Iota(Len(remap)),
                          collapse_locked |-> {}, error |-> 0, triangle_collapses |-> 0,
                          edge_collapse_goal |-> goal \div 2, triangle_collapse_goal |-> goal]
         ELSE phase' = "cleanup" /\ pass' = NoPass
  /\ UNCHANGED <<input, result, mesh, loop, loopback, errors, quadrics, moved, image, pruned>>

-----------------------------------------------------------------------------
(* performEdgeCollapses *)

\* The wedge of the target that a wedge of a complex vertex moves to: the one its open edge leads to.
getComplexTarget(v, target) ==
  IF loop[v] # None /\ remap[loop[v]] = remap[target] THEN loop[v]
  ELSE IF loopback[v] # None /\ remap[loopback[v]] = remap[target] THEN loopback[v] ELSE target

\* The target of the other side of a seam, opposite to i0 -> i1.
SeamTarget(i0, i1) == IF loop[i0] = i1 THEN loopback[wedge[i0]] ELSE loop[wedge[i0]]

\* A mistake: of a complex position only the vertex of the edge moves.
MovesComplexAlone(i0, i1) ==
  CASE kind[i0] = "Seam" -> [v \in {i0, wedge[i0]} |->
                              IF v # wedge[i0] THEN i1
                              ELSE IF SeamTarget(i0, i1) # None THEN SeamTarget(i0, i1) ELSE wedge[i1]]
    [] OTHER -> [v \in {i0} |-> i1]

\* A mistake: only one side of a seam moves.
MovesOneSide(i0, i1) ==
  CASE kind[i0] = "Complex" -> [v \in Wedges(remap, i0) |-> getComplexTarget(v, i1)]
    [] OTHER -> [v \in {i0} |-> i1]

\* The vertices moved by a collapse and where each one goes.
Moves(i0, i1) ==
  CASE kind[i0] = "Complex" -> [v \in Wedges(remap, i0) |-> getComplexTarget(v, i1)]
    [] kind[i0] = "Seam"    -> [v \in {i0, wedge[i0]} |->
                                 IF v # wedge[i0] THEN i1
                                 ELSE IF SeamTarget(i0, i1) # None THEN SeamTarget(i0, i1) ELSE wedge[i1]]
    [] OTHER                -> [v \in {i0} |-> i1]

\* Some triangle around r0 stays one when r0 goes to r1, and might be turned over.
MayFlip(r0, r1) ==
  /\ mesh.position[r0] \in input.flips
  /\ \E h \in Adjacent(result, remap, r0) :
       LET a == pass.collapse_remap[remap[To(result, h)]]
           b == pass.collapse_remap[remap[Before(result, h)]]
       IN  a # r1 /\ b # r1 /\ a # b

\* The ends of a collapse in the order in which it is done: the cheaper one of two directions.
Directions(c) == {<<c.v0, c.v1>>} \cup (IF c.bidi THEN {<<c.v1, c.v0>>} ELSE {})

Touched(c, locked) == remap[c.v0] \in locked \/ remap[c.v1] \in locked

\* sortEdgeCollapses: the next one to be evaluated may have this error (errors that share a bin are one here).
Ordered(error) == pass.error <= error /\ error <= input.limit

\* A collapse is done.  The ones that it locks are skipped when their turn comes.
Collapse ==
  /\ phase = "collapse"
  /\ pass.triangle_collapses < pass.triangle_collapse_goal
  /\ \E k \in pass.rest, error \in CollapseErrors :
       /\ Ordered(error)
       /\ \E ends \in Directions(pass.collapses[k]) :
            LET locked == pass.collapse_locked \cup {remap[ends[1]], remap[ends[2]]}
            IN  pass' = [pass EXCEPT
                  !.error = error,
                  !.collapse_remap = LET moves == Moves(ends[1], ends[2])
                                     IN  [v \in DOMAIN @ |-> IF v \in DOMAIN moves THEN moves[v] ELSE @[v]],
                  !.collapse_locked = locked,
                  !.rest = {j \in @ \ {k} : ~Touched(pass.collapses[j], locked)},
                  !.triangle_collapses = @ + (IF kind[ends[1]] = "Border" THEN 1 ELSE 2)]
       /\ errors' = [errors EXCEPT !.result_error = Max({@, error})]
  /\ UNCHANGED <<input, phase, result, mesh, loop, loopback, quadrics, moved, image, pruned>>

\* A collapse would flip a triangle: it does not count for the goal.
RejectFlip ==
  /\ phase = "collapse"
  /\ pass.triangle_collapses < pass.triangle_collapse_goal
  /\ \E k \in pass.rest :
       /\ \E ends \in Directions(pass.collapses[k]) : MayFlip(remap[ends[1]], remap[ends[2]])
       /\ pass' = [pass EXCEPT !.rest = @ \ {k}, !.edge_collapse_goal = @ + 1]
  /\ UNCHANGED <<input, phase, result, mesh, loop, loopback, errors, quadrics, moved, image, pruned>>

\* The next error may be 1.5 times the one at the goal: a collapse evaluated before has the place of the goal.
PastErrorGoal ==
  /\ pass.edge_collapse_goal < Len(pass.collapses) - Cardinality(pass.rest)
  /\ \E error \in CollapseErrors : Ordered(error) /\ error > errors.result_error
  /\ pass.triangle_collapses > pass.triangle_collapse_goal \div 6

\* The evaluation ends: the next collapse has too large an error, or there are enough, or there is none left.
EndCollapses ==
  /\ phase = "collapse"
  /\ \/ \E error \in CollapseErrors : error > input.limit
     \/ pass.triangle_collapses >= pass.triangle_collapse_goal
     \/ PastErrorGoal
     \/ pass.rest = {}
  /\ phase' = IF pass.collapse_locked = {} THEN "cleanup" ELSE "update"
  /\ UNCHANGED <<input, result, mesh, loop, loopback, pass, errors, quadrics, moved, image, pruned>>

-----------------------------------------------------------------------------
(* The end of a pass *)

\* A mistake: the quadric of a position is added for each of its wedges.
updateQuadricsOfWedges ==
  FoldLeft(LAMBDA q, v : IF pass.collapse_remap[v] # v
                         THEN [q EXCEPT ![remap[pass.collapse_remap[v]]] = @ (+) q[remap[v]]] ELSE q,
           quadrics, Iota(Len(remap)))

\* Each position's quadric is added once to the one it moves to, by its first vertex.
updateQuadrics ==
  FoldLeft(LAMBDA q, v : IF pass.collapse_remap[v] # v /\ remap[v] = v
                         THEN [q EXCEPT ![remap[pass.collapse_remap[v]]] = @ (+) q[v]] ELSE q,
           quadrics, Iota(Len(remap)))

\* A mistake: an edge collapsed against the loop's direction leaves a loop from the vertex to itself.
remapEdgeLoopsForward(loops) ==
  FoldLeft(LAMBDA l, v : IF l[v] = None THEN l ELSE [l EXCEPT ![v] = pass.collapse_remap[l[v]]],
           loops, Iota(Len(loops)))

\* In place; an edge of the loop that was collapsed against the loop's direction leads to the vertex after it.
remapEdgeLoops(loops) ==
  FoldLeft(LAMBDA l, v :
             IF l[v] = None THEN l
             ELSE LET r == pass.collapse_remap[l[v]]
                  IN  [l EXCEPT ![v] = IF r # v THEN r
                                       ELSE IF l[l[v]] # None THEN pass.collapse_remap[l[l[v]]] ELSE None],
           loops, Iota(Len(loops)))

Degenerate(t) == remap[t[1]] = remap[t[2]] \/ remap[t[1]] = remap[t[3]] \/ remap[t[2]] = remap[t[3]]

remapIndexBuffer(tris) ==
  LET sent == [t \in DOMAIN tris |-> [k \in 1..3 |-> pass.collapse_remap[tris[t][k]]]]
  IN  SelectSeq(sent, LAMBDA t : ~Degenerate(t))

ComponentError(t) == mesh.component_errors[mesh.components[t[1]]]

pruneComponents(tris, cutoff) ==
  LET kept == SelectSeq(tris, LAMBDA t : ComponentError(t) > cutoff)
  IN  [triangles |-> kept, nexterror |-> Min({Infinite} \cup {ComponentError(t) : t \in Range(kept)}),
       pruned |-> {c \in DOMAIN mesh.component_errors : mesh.component_errors[c] <= cutoff}]

\* With attributes the error of the positions alone is measured: it grows up to the error of the collapses.
VertexErrors ==
  IF input.attributes THEN {errors.vertex_error} \cup {e \in CollapseErrors : errors.vertex_error < e /\ e <= errors.result_error}
  ELSE {errors.result_error}

EndPass ==
  /\ phase = "update"
  /\ \E vertex_error \in VertexErrors :
       LET left   == remapIndexBuffer(result)
           prunes == Option("Prune") /\ 3 * Len(left) > input.target /\ errors.component_nexterror <= vertex_error
           made   == pruneComponents(left, vertex_error)
       IN  /\ result' = IF prunes THEN made.triangles ELSE left
           /\ pruned' = IF prunes THEN pruned \cup made.pruned ELSE pruned
           /\ errors' = [errors EXCEPT !.vertex_error = vertex_error,
                                       !.component_nexterror = IF prunes THEN made.nexterror ELSE @]
  /\ quadrics' = updateQuadrics
  /\ loop' = remapEdgeLoops(loop)
  /\ loopback' = remapEdgeLoops(loopback)
  /\ image' = [p \in DOMAIN image |->
                LET v == CHOOSE w \in DOMAIN remap : remap[w] = w /\ mesh.position[w] = image[p]
                IN  mesh.position[pass.collapse_remap[v]]]
  /\ phase' = "pass"
  /\ pass' = NoPass
  /\ UNCHANGED <<input, mesh, moved>>

-----------------------------------------------------------------------------
(* After the last pass *)

\* A mistake: the slack of the cutoff passes the limit.
CleanupCutoffUnlimited == (3 * errors.component_nexterror) \div 2

\* The loop prunes up to 1.5 times the smallest error left, not beyond the limit.
CleanupCutoff == Min({(3 * errors.component_nexterror) \div 2, input.limit})

\* A mistake: the smallest error stays stale.
CleanupErrorsStale(worst, nexterror) ==
  [result_error |-> Max({errors.result_error, worst}), vertex_error |-> Max({errors.vertex_error, worst}),
   component_nexterror |-> nexterror, component_nextstale |-> errors.component_nextstale]

\* After a round the smallest error left is known: the next round prunes something or is the last.
CleanupErrors(worst, nexterror) ==
  [result_error |-> Max({errors.result_error, worst}), vertex_error |-> Max({errors.vertex_error, worst}),
   component_nexterror |-> nexterror, component_nextstale |-> FALSE]

Cleanup ==
  /\ phase = "cleanup"
  /\ IF ~(Option("Prune") /\ Above /\ errors.component_nexterror <= input.limit)
     THEN phase' = "solve" /\ UNCHANGED <<result, errors, pruned>>
     ELSE LET made   == pruneComponents(result, CleanupCutoff)
              worst  == Max({0} \cup {e \in Range(mesh.component_errors) : e <= CleanupCutoff})
          IN  IF made.triangles = result /\ ~errors.component_nextstale
              THEN phase' = "solve" /\ UNCHANGED <<result, errors, pruned>>
              ELSE /\ result' = made.triangles
                   /\ errors' = CleanupErrors(worst, made.nexterror)
                   /\ pruned' = pruned \cup made.pruned
                   /\ UNCHANGED phase
  /\ UNCHANGED <<input, mesh, loop, loopback, pass, quadrics, moved, image>>

Used(tris) == UNION {Range(t) : t \in Range(tris)}

\* The vertices in use and the first ones of their positions
VertexUpdate == Used(result) \cup {remap[v] : v \in Used(result)}

\* solvePositions: a first vertex is moved or not, the other wedges follow it.
SolvedWith(solved) ==
  {v \in VertexUpdate : kind[v] \in {"Manifold", "Complex"} /\ remap[v] \in solved}

Finalized(solved) ==
  {v \in SolvedWith(solved) : ~input.lock[mesh.sparse_remap[v]] /\ kind[v] # "Locked"}

\* The update of the vertices and the return to the indices of the caller.
Finish ==
  /\ phase = "solve"
  /\ \E solved \in SUBSET {v \in VertexUpdate : remap[v] = v /\ kind[v] \in {"Manifold", "Complex"}} :
       /\ Option("Solve") \/ solved = {}
       /\ moved' = {mesh.sparse_remap[v] : v \in Finalized(solved)}
  /\ result' = [t \in DOMAIN result |-> [k \in 1..3 |-> mesh.sparse_remap[result[t][k]]]]
  /\ phase' = "done"
  /\ UNCHANGED <<input, mesh, loop, loopback, pass, errors, quadrics, image, pruned>>

SimplifyEdge == Begin \/ StartPass \/ Collapse \/ RejectFlip \/ EndCollapses \/ EndPass \/ Cleanup \/ Finish
=============================================================================
