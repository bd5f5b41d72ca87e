---------------------------- MODULE MeshletSearch ----------------------------
(***************************************************************************)
(* The tree of points in src/clusterizer.cpp (kdtreeBuild, kdtreeNearest)  *)
(* and the flex builder that finds the nearest live triangle with it.  A   *)
(* search switches off the subtrees without live points that it meets; the *)
(* tree keeps them switched off from one search to the next, while         *)
(* triangles are emitted in between.  Points are triples of integers; the  *)
(* mean that splits a range is compared exactly, as sum and count.         *)
(***************************************************************************)
EXTENDS MeshletBuilder

CONSTANTS
  LeafSize, TreeDepth,   \* leaf_size and kMeshletMaxTreeDepth
  Positions              \* centres of the current meshlet that a search may start from

ASSUME SearchAssumption ==
  LeafSize \in Nat /\ TreeDepth \in Nat /\ Positions \subseteq Int \X Int \X Int

VARIABLES tree, found   \* the nodes; auxiliary: the last search and its result

searchVars == <<vars, tree, found>>

-----------------------------------------------------------------------------
(* The tree *)

\* Nodes are in preorder.  A leaf has axis 0 (3 in the code) and is followed by its
\* other points; the right subtree of a branch is `children` behind the left one.
Leaf(list) ==
  [i \in DOMAIN list |->
     [axis |-> 0, index |-> list[i], sum |-> 0, count |-> 1,
      children |-> IF i = 1 THEN Len(list) ELSE 0]]

Dist2(p, q) == (p[1] - q[1]) * (p[1] - q[1]) + (p[2] - q[2]) * (p[2] - q[2])
               + (p[3] - q[3]) * (p[3] - q[3])

\* kdtreePartition: smaller points first, by unconditional swaps
KdPartition(list, points, axis, sum) ==
  LET below(t) == points[t][axis] * Len(list) < sum
      swap(st, i) ==
        [list |-> [st.list EXCEPT ![st.m] = st.list[i], ![i] = st.list[st.m]],
         m |-> IF below(st.list[i]) THEN st.m + 1 ELSE st.m]
      part[i \in 0 .. Len(list)] ==
        IF i = 0 THEN [list |-> list, m |-> 1] ELSE LET st == part[i - 1] IN swap(st, i)
  IN part[Len(list)]

\* The axis with the largest variance, times the square of the count
SplitAxis(list, points) ==
  LET value(i, k) == points[list[i]][k]
      total(k) == SumFunctionOnSet([i \in DOMAIN list |-> value(i, k)], DOMAIN list)
      squares(k) == SumFunctionOnSet([i \in DOMAIN list |-> value(i, k) * value(i, k)], DOMAIN list)
      var(k) == Len(list) * squares(k) - total(k) * total(k)
      axis == IF var(1) >= var(2) /\ var(1) >= var(3) THEN 1 ELSE IF var(2) >= var(3) THEN 2 ELSE 3
  IN [axis |-> axis, sum |-> total(axis)]

\* kdtreeBuild; a degenerate partition becomes a large leaf.
KdBuild(points) ==
  LET build[depth \in 0 .. TreeDepth] == [list \in Seq(DOMAIN points) |->
        LET split == SplitAxis(list, points)
            part == KdPartition(list, points, split.axis, split.sum)
            middle == part.m - 1
            left == build[depth + 1][SubSeq(part.list, 1, middle)]
            right == build[depth + 1][SubSeq(part.list, middle + 1, Len(list))]
        IN IF Len(list) <= LeafSize THEN Leaf(list)
           ELSE IF \/ middle <= LeafSize \div 2
                   \/ middle >= Len(list) - LeafSize \div 2
                   \/ depth >= TreeDepth
           THEN Leaf(part.list)
           ELSE <<[axis |-> split.axis, index |-> 0, sum |-> split.sum, count |-> Len(list),
                   children |-> Len(left)]>> \o left \o right]
  IN build[0][<<>> \o [i \in DOMAIN points |-> i]]

\* A leaf is switched off when none of its points is live.
LeafSearch(state, root, points, live, position) ==
  LET node == state.nodes[root]
      closer(st, i) ==
        LET t == st.nodes[root + i - 1].index
            d == Dist2(points[t], position)
        IN IF t \in live /\ (st.result = 0 \/ d < st.limit)
           THEN [st EXCEPT !.result = t, !.limit = d] ELSE st
      seen[i \in 0 .. node.children] ==
        IF i = 0 THEN state ELSE LET st == seen[i - 1] IN closer(st, i)
      inactive == \A i \in 1 .. node.children : state.nodes[root + i - 1].index \notin live
  IN IF inactive THEN [seen[node.children] EXCEPT !.nodes[root].children = 0]
     ELSE seen[node.children]

\* Mistake: a branch is switched off as soon as one of its sides is.
EitherOff(nodes, left, right) == nodes[left].children = 0 \/ nodes[right].children = 0

\* Both subtrees of a branch are switched off.
BothOff(nodes, left, right) == nodes[left].children = 0 /\ nodes[right].children = 0

\* Mistake: the far side is skipped once any live point is known.
ReachesOnlyAtFirst(node, position, state) == state.result = 0

\* Whether the far side of a split may hold a closer point than the limit
Reaches(node, position, state) ==
  LET delta == position[node.axis] * node.count - node.sum
  IN state.result = 0 \/ delta * delta <= state.limit * node.count * node.count

KdNodes == [axis : 0..3, index : Nat, sum : Int, count : Nat, children : Nat]

\* Subtrees of kd may be switched off, with a point and its distance found
KdStates(kd) ==
  [nodes : {nodes \in [DOMAIN kd -> KdNodes] :
              \A i \in DOMAIN kd : nodes[i] \in {kd[i], [kd[i] EXCEPT !.children = 0]}},
   result : Nat, limit : Int]

\* kdtreeNearest: the closest live point and the tree with subtrees switched off.  A search
\* from a root is a function of the state.
KdNearest(kd, points, live, position) ==
  LET search[root \in DOMAIN kd] == [st \in KdStates(kd) |->
        LET node == st.nodes[root]
            isLeft == position[node.axis] * node.count <= node.sum
            left == root + 1
            right == root + 1 + node.children
            off == [st EXCEPT !.nodes[root].children =
                      IF BothOff(st.nodes, left, right) THEN 0 ELSE @]
            near == search[IF isLeft THEN left ELSE right][off]
        IN IF node.children = 0 THEN st
           ELSE IF node.axis = 0 THEN LeafSearch(st, root, points, live, position)
           ELSE IF Reaches(node, position, near)
           THEN search[IF isLeft THEN right ELSE left][near]
           ELSE near]
  IN search[1][[nodes |-> kd, result |-> 0, limit |-> 0]]

-----------------------------------------------------------------------------
(* The builder with its tree *)

NoSearch == [position |-> <<0, 0, 0>>, live |-> {}, result |-> 0]

SearchInit ==
  /\ Init
  /\ tree = IF phase = "flex" THEN KdBuild(mesh.centroids) ELSE <<>>
  /\ found = NoSearch

\* The search of a step of the loop that has no neighbour, from any position: the centre is
\* an average of centroids.  Nothing found ends the call.
Nearest(position) ==
  LET s == KdNearest(tree, mesh.centroids, Live, position)
  IN /\ FlexDone
     /\ tree' = s.nodes
     /\ found' = [position |-> position, live |-> Live, result |-> s.result]
     /\ IF s.result = 0 THEN Finish ELSE \E far \in BOOLEAN : FlexNearest(s.result, far)

SearchNext ==
  \/ (ScanNext \/ FlexFirst \/ FlexNeighbor \/ SpatialNext \/ Returned) /\ UNCHANGED <<tree, found>>
  \/ \E position \in Positions : Nearest(position)

SearchSpec == SearchInit /\ [][SearchNext]_searchVars

-----------------------------------------------------------------------------
(* Properties *)

\* The composition is a flex builder that may take any live triangle next, so that the
\* call never ends with a live triangle left: switching off subtrees hides none of them.
BuilderSpec == Spec

\* A search returns a live triangle closest to its position, as if the tree had been
\* built from the live triangles only (kdtreeNearest).
FindsNearest ==
  found.live # {} =>
    /\ found.result \in found.live
    /\ \A t \in found.live : Dist2(mesh.centroids[found.result], found.position)
                               <= Dist2(mesh.centroids[t], found.position)
=============================================================================
