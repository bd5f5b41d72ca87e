---------------------------- MODULE SimplifierApi -----------------------------
(***************************************************************************)
(* The entry points of src/simplifier.cpp side by side, and what they       *)
(* promise: meshopt_simplify and its variants, meshopt_simplifyPrune,       *)
(* meshopt_simplifySloppy and meshopt_simplifyPoints. In the last two,      *)
(* vertices in the same cell of a grid become one; the size of the grid is  *)
(* found by a search, first by interpolation, then by bisection.            *)
(*                                                                          *)
(* A point is a number of 0..Extent, the coordinate of one axis after       *)
(* rescalePositions; interpolation of floats guesses any size. The vertex   *)
(* of a cell with the least error is any vertex of it.                      *)
(***************************************************************************)
EXTENDS Simplifier

CONSTANTS
  GridInputs,           (* [api, triangles, points, lock (<<>> is NULL), target (triangles or points), min_grid] *)
  Extent,
  MaxGrid,              (* One more than the largest grid: 1025.           *)
  InterpolationPasses,  (* kInterpolationPasses                            *)
  BisectionPasses       (* 10: bisection of the sizes up to 1024           *)

ASSUME GridAssumption ==
  /\ Extent \in Nat \ {0} /\ MaxGrid \in Nat /\ InterpolationPasses \in Nat
  /\ 2 ^ BisectionPasses >= MaxGrid - 1

VARIABLE grid  (* <<>>, or the state of a call: [input, phase, pass, min_grid, max_grid, min_count, max_count, next, output] *)

-----------------------------------------------------------------------------

\* computeVertexIds: the cell of a vertex; a locked one has an id of its own.
Cell(x, size) == (2 * x * (size - 1) + Extent) \div (2 * Extent)

\* A mistake: locked vertices share the cell they are in.
computeVertexIdsUnlocked(in, size) == [v \in DOMAIN in.points |-> Cell(in.points[v], size)]

computeVertexIds(in, size) ==
  [v \in DOMAIN in.points |-> IF in.lock # <<>> /\ in.lock[v] THEN -v ELSE Cell(in.points[v], size)]

Distinct3(a, b, c) == a # b /\ a # c /\ b # c

countTriangles(in, ids) ==
  Cardinality({t \in DOMAIN in.triangles : LET s == in.triangles[t] IN Distinct3(ids[s[1]], ids[s[2]], ids[s[3]])})

countVertexCells(ids) == Cardinality({ids[v] : v \in DOMAIN ids})

\* What the search counts: triangles that stay, or points.
CountAt(in, size) ==
  IF in.api = "sloppy" THEN countTriangles(in, computeVertexIds(in, size)) ELSE countVertexCells(computeVertexIds(in, size))

\* fillVertexCells: cells are numbered in the order of their first vertices.
CellFirsts(ids) == SelectSeq([v \in DOMAIN ids |-> v], LAMBDA v : \A w \in 1..v - 1 : ids[w] # ids[v])

-----------------------------------------------------------------------------
(* The search *)

GridInit(in) ==
  grid = [input |-> in, phase |-> "begin", pass |-> 0, min_grid |-> 0, max_grid |-> MaxGrid,
          min_count |-> 0, max_count |-> 0, next |-> 0, output |-> <<>>]

\* With a limit of the error the smallest grid is counted first, locked vertices too; points start from no grid.
BeginSearch ==
  /\ grid.phase = "begin"
  /\ LET in    == grid.input
         first == IF in.api = "sloppy" THEN in.min_grid ELSE 0
     IN  \E guess \in 0..MaxGrid :
           grid' = [grid EXCEPT
             !.phase = IF in.api = "points" /\ in.target = 0 THEN "done" ELSE "search",
             !.min_grid = first,
             !.min_count = IF in.api = "sloppy" /\ (first > 1 \/ in.lock # <<>>) THEN CountAt(in, first) ELSE 0,
             !.max_count = IF in.api = "sloppy" THEN Len(in.triangles) ELSE Len(in.points),
             !.next = guess]

Narrow == grid.max_grid - grid.min_grid <= 1
LastPass == grid.pass = InterpolationPasses + BisectionPasses

\* Sloppy checks before a pass whether the search is over, points after it.
Found == IF grid.input.api = "sloppy" THEN grid.min_count >= grid.input.target \/ Narrow
         ELSE grid.pass > 0 /\ (grid.min_count = grid.input.target \/ Narrow)

\* A mistake: a guess may be one of the two sizes again.
ClampedLoosely(size) == IF size < grid.min_grid THEN grid.min_grid ELSE IF size > grid.max_grid THEN grid.max_grid ELSE size

\* The guess is kept between the two sizes that bound the answer.
Clamped(size) == IF size <= grid.min_grid THEN grid.min_grid + 1
                 ELSE IF size >= grid.max_grid THEN grid.max_grid - 1 ELSE size

Search ==
  /\ grid.phase = "search" /\ ~Found /\ ~LastPass
  /\ LET size  == Clamped(grid.next)
         count == CountAt(grid.input, size)
         low   == IF count <= grid.input.target THEN [grid EXCEPT !.min_grid = size, !.min_count = count]
                  ELSE [grid EXCEPT !.max_grid = size, !.max_count = count]
     IN  \E tip \in IF grid.pass < InterpolationPasses THEN 0..MaxGrid ELSE {(low.min_grid + low.max_grid) \div 2} :
           grid' = [low EXCEPT !.pass = @ + 1, !.next = tip]

-----------------------------------------------------------------------------
(* The result *)

\* A mistake: the table of triangles is asked for the corners in the order they have.
TurnedNot(t) == t

\* A triangle from its smallest corner on
Turned(t) == CASE t[2] < t[1] /\ t[2] < t[3] -> <<t[2], t[3], t[1]>>
               [] t[3] < t[1] /\ t[3] < t[2] -> <<t[3], t[1], t[2]>>
               [] OTHER -> t

\* Triangles in three cells, each one once.
filterTriangles(in, ids, cell_remap) ==
  FoldLeft(LAMBDA out, t :
             LET made == Turned([k \in 1..3 |-> cell_remap[ids[t[k]]]])
             IN  IF ~Distinct3(ids[t[1]], ids[t[2]], ids[t[3]]) \/ made \in ToSet(out) THEN out ELSE Append(out, made),
           <<>>, in.triangles)

\* A choice of one vertex for each cell.
CellRemaps(ids) ==
  LET cells == {ids[v] : v \in DOMAIN ids}
  IN  {f \in [cells -> DOMAIN ids] : \A c \in cells : ids[f[c]] = c}

FinishSearch ==
  /\ grid.phase = "search"
  /\ Found \/ LastPass
  /\ LET in  == grid.input
         ids == computeVertexIds(in, grid.min_grid)
     IN  IF grid.min_count = 0 THEN grid' = [grid EXCEPT !.phase = "done"]
         ELSE \E cell_remap \in CellRemaps(ids) :
                grid' = [grid EXCEPT
                  !.phase = "done",
                  !.output = IF in.api = "sloppy" THEN filterTriangles(in, ids, cell_remap)
                             ELSE LET firsts == CellFirsts(ids) IN [c \in DOMAIN firsts |-> cell_remap[ids[firsts[c]]]]]

GridSearch == BeginSearch \/ Search \/ FinishSearch

-----------------------------------------------------------------------------
(* The entry points *)

allVars == <<vars, grid>>

Init ==
  /\ phase = "input" /\ result = <<>> /\ loop = <<>> /\ loopback = <<>> /\ pass = NoPass
  /\ mesh = <<>> /\ errors = <<>> /\ quadrics = <<>> /\ moved = {} /\ image = <<>> /\ pruned = {}
  /\ \/ input \in Inputs /\ grid = <<>>
     \/ input = <<>> /\ \E in \in GridInputs : GridInit(in)

\* meshopt_simplifyPrune: the components of small error are dropped.
SimplifyPrune ==
  /\ input # <<>> /\ phase = "input" /\ input.api = "prune"
  /\ LET firsts == positionRemap(input.position)
         parts  == buildComponents(input.triangles, firsts)
     IN  \E component_errors \in measureComponents(parts.next_component - 1) :
           LET gone == {c \in DOMAIN component_errors : component_errors[c] <= input.limit}
           IN  /\ mesh' = [sparse_remap |-> Iota(Len(firsts)), position |-> input.position, remap |-> firsts,
                           wedge |-> wedgeLoops(firsts), kind |-> [v \in DOMAIN firsts |-> "Locked"], capacity |-> 0,
                           components |-> parts.components, component_errors |-> component_errors]
               /\ result' = SelectSeq(input.triangles, LAMBDA t : parts.components[t[1]] \notin gone)
               /\ pruned' = gone
  /\ errors' = [result_error |-> 0, vertex_error |-> 0, component_nexterror |-> 0, component_nextstale |-> FALSE]
  /\ image' = [p \in Range(input.position) |-> p]
  /\ quadrics' = fillQuadrics(input.position)
  /\ phase' = "done"
  /\ UNCHANGED <<input, loop, loopback, pass, moved>>

OneEdgeStep == input # <<>> /\ input.api = "edge" /\ SimplifyEdge

Returned == IF grid = <<>> THEN phase = "done" ELSE grid.phase = "done"

Next ==
  \/ (OneEdgeStep \/ SimplifyPrune) /\ UNCHANGED grid
  \/ grid # <<>> /\ GridSearch /\ UNCHANGED vars
  \/ Returned /\ UNCHANGED allVars

Spec == Init /\ [][Next]_allVars

-----------------------------------------------------------------------------
(* Properties *)

Running == input # <<>> /\ phase \notin {"input", "done"}

\* The asserts on a seam: the other wedge has a target at the same position, by the loops of both wedges.
SeamPaired(i0, i1) ==
  LET s0 == wedge[i0]
      s1 == SeamTarget(i0, i1)
  IN  /\ wedge[s0] = i0
      /\ s1 # None /\ remap[s1] = remap[i1]
      /\ kind[i1] = "Seam" => s1 = wedge[i1]
      /\ i1 \in {loop[i0], loopback[i0]} /\ s1 \in {loop[s0], loopback[s0]}

\* No collapse tears a position apart: whichever direction the ranking takes, a seam finds the other half of its
\* edge (rankEdgeCollapses, performEdgeCollapses), a vertex without wedges is one, and all wedges of a position go
\* to one position (remapIndexBuffer) that is not itself moved in the pass.  The first wedge moves with the
\* others (updateQuadrics), a loop of a border or of both sides of a seam never leads from a vertex to itself (remapEdgeLoops), a position's quadric is the
\* sum of those that came to it, no collapse is dropped for want of room beyond the capacity, and a vertex' position is not updated without its wedges (solvePositions).
CollapsesAgree ==
  /\ Running =>
       /\ Len(pass.collapses) <= mesh.capacity
       /\ \A k \in DOMAIN pass.collapses : \A ends \in Directions(pass.collapses[k]) :
            CASE kind[ends[1]] = "Seam" -> SeamPaired(ends[1], ends[2])
              [] kind[ends[1]] = "Complex" -> TRUE
              [] OTHER -> wedge[ends[1]] = ends[1]
       /\ \A v \in DOMAIN pass.collapse_remap :
            LET to == pass.collapse_remap[v]
            IN  /\ remap[to] = remap[pass.collapse_remap[remap[v]]]
                /\ pass.collapse_remap[to] = to
                /\ to # v => {remap[v], remap[to]} \subseteq pass.collapse_locked /\ pass.collapse_remap[remap[v]] # remap[v]
       /\ phase = "pass" => \A v \in Used(result) :
            kind[v] = "Border" \/ (kind[v] = "Seam" /\ wedge[v] # v) => loop[v] # v /\ loopback[v] # v
       /\ \A v \in DOMAIN remap :
            (remap[v] = v /\ image[mesh.position[v]] = mesh.position[v]) =>
              quadrics[v] = SetToBag({p \in DOMAIN image : image[p] = mesh.position[v]})
  /\ (input # <<>> /\ phase = "done") =>
       \A v, w \in Used(result) : input.position[v] = input.position[w] => (v \in moved) = (w \in moved)

PositionOf(v) == IF phase = "done" THEN input.position[v] ELSE mesh.position[v]

\* How often the triangles go from p to q, less how often they go back.
Boundary(tris, At(_), p, q) ==
  Cardinality({h \in HalfEdges(tris) : At(From(tris, h)) = p /\ At(To(tris, h)) = q})
  - Cardinality({h \in HalfEdges(tris) : At(From(tris, h)) = q /\ At(To(tris, h)) = p})

\* The input's triangles outside of pruned components, in the caller's indices.
Kept ==
  IF mesh.components = <<>> THEN input.triangles
  ELSE SelectSeq(input.triangles, LAMBDA t :
         mesh.components[CHOOSE d \in DOMAIN mesh.sparse_remap : mesh.sparse_remap[d] = t[1]] \notin pruned)

InputBoundary(p, q) == Boundary(input.triangles, LAMBDA v : input.position[v], p, q)
OnBorder(p) == \E q \in Range(input.position) : InputBoundary(p, q) # 0

\* The input goes along each edge at most once in each direction.
ManifoldInput == \A g, h \in HalfEdges(input.triangles) :
  g # h => \/ input.position[From(input.triangles, g)] # input.position[From(input.triangles, h)]
           \/ input.position[To(input.triangles, g)] # input.position[To(input.triangles, h)]

\* The surface has no holes or cracks that it did not have: its boundary, in positions, is that of the input with
\* each position where the collapses took it; on a manifold it never reaches a position inside of the
\* surface and runs at most once along an edge.  Locked vertices stay, those of the border too when it is locked.  Pruned components are
\* those within the limit, each gone as a whole, and no triangle spans two of them.  No error is above the limit,
\* and the mesh does not grow.
SameSurface ==
  (input # <<>> /\ phase \in {"pass", "cleanup", "done"}) =>
    /\ \A p, q \in DOMAIN image :
         Boundary(result, PositionOf, p, q) = Boundary(Kept, LAMBDA v : image[input.position[v]], p, q)
    /\ ManifoldInput => \A p, q \in DOMAIN image :
         /\ ~OnBorder(p) => Boundary(result, PositionOf, p, q) = 0
         /\ Boundary(result, PositionOf, p, q) <= 1
    /\ \A v \in DOMAIN mesh.position :
         \/ input.lock[mesh.sparse_remap[v]]
         \/ Option("LockBorder") /\ OnBorder(mesh.position[v])
         => image[mesh.position[v]] = mesh.position[v] /\ mesh.sparse_remap[v] \notin moved
    /\ \A c \in pruned : mesh.component_errors[c] <= input.limit
    /\ phase # "done" /\ mesh.components # <<>> =>
         \A t \in Range(result) : Cardinality({mesh.components[t[k]] : k \in 1..3}) = 1
                                  /\ mesh.components[t[1]] \notin pruned
    /\ errors.result_error <= input.limit /\ errors.vertex_error <= errors.result_error
    /\ Len(result) <= Len(input.triangles)

Less(a, b) == \E i \in DOMAIN a : a[i] < b[i] /\ \A j \in 1..i - 1 : a[j] = b[j]

\* How far a call is: its stage, then the triangles or sizes left, then what is left of a pass.
Remaining ==
  IF grid # <<>>
  THEN <<CASE grid.phase = "begin" -> 3 [] grid.phase = "search" -> 2 [] OTHER -> 1, grid.max_grid - grid.min_grid, 0>>
  ELSE CASE phase = "input"   -> <<5, 0, 0>>
         [] phase = "pass"    -> <<4, Len(result), mesh.capacity + 2>>
         [] phase = "collapse" -> <<4, Len(result), Cardinality(pass.rest) + 1>>
         [] phase = "update"  -> <<4, Len(result), 0>>
         [] phase = "cleanup" -> <<3, Len(result), IF errors.component_nextstale THEN 1 ELSE 0>>
         [] phase = "solve"   -> <<2, 0, 0>>
         [] OTHER             -> <<1, 0, 0>>

\* A call ends: every pass with a collapse removes a triangle, every round of the pruning loop removes one, but
\* for the first, whose error may be stale, and every guess of a grid narrows the search.
Terminates == [][Less(Remaining', Remaining)]_allVars

\* The counts of the search are those of its two sizes and the answer lies between them, even when the
\* passes are used up before the sizes meet.  The points fit in the target and are different; the triangles are different, have different corners that stand for
\* the cells of their vertices, fit in their table and in the target if the search started below it, and a
\* locked vertex stands for itself.
GridFits ==
  grid # <<>> =>
    LET in == grid.input
    IN  /\ grid.phase = "search" =>
             /\ grid.min_count = (IF grid.min_grid = 0 THEN 0 ELSE CountAt(in, grid.min_grid))
             /\ grid.max_grid < MaxGrid => grid.max_count = CountAt(in, grid.max_grid) /\ grid.max_count > in.target
             /\ in.api = "sloppy" /\ grid.min_grid # in.min_grid => grid.min_count <= in.target
        /\ grid.phase = "done" =>
             /\ \A i, j \in DOMAIN grid.output : i # j =>
                  IF in.api = "points" THEN grid.output[i] # grid.output[j]
                  ELSE \A turn \in 0..2 : \E k \in 1..3 : grid.output[i][k] # grid.output[j][((k + turn - 1) % 3) + 1]
             /\ Len(grid.output) <= (IF in.api = "points" THEN in.target ELSE grid.min_count)
             /\ in.api = "sloppy" =>
                  LET ids == computeVertexIds(in, grid.min_grid)
                  IN  /\ \A t \in ToSet(grid.output) : Distinct3(t[1], t[2], t[3])
                      /\ \A t \in ToSet(in.triangles) :
                           Distinct3(ids[t[1]], ids[t[2]], ids[t[3]]) /\ grid.min_count > 0 =>
                             \E o \in ToSet(grid.output), turn \in 0..2 : \A k \in 1..3 :
                               LET c == o[((k + turn) % 3) + 1]
                               IN  ids[c] = ids[t[k]] /\ (in.lock # <<>> /\ in.lock[t[k]] => c = t[k])
=============================================================================
