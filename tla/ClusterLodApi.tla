---------------------------- MODULE ClusterLodApi -----------------------------
(***************************************************************************)
(* src/demo/clusterlod.h: clodBuildHierarchy, clodBuildHierarchyBound, and  *)
(* the traversal that src/demo/nanite.cpp draws with; and the calls behind  *)
(* a continuous level of detail side by side: meshopt_partitionClusters on  *)
(* its own, clodBuild, and clodBuildHierarchy on the groups that clodBuild  *)
(* has put out (nanite.cpp) or on groups of a file.                         *)
(*                                                                          *)
(* The groups of each level become the leaves of a tree of their own; the   *)
(* roots come first. The order of a row is that of                          *)
(* meshopt_spatialClusterPoints, which is free here. Bounds are errors.     *)
(***************************************************************************)
EXTENDS Partitioner, ClusterLod

CONSTANTS
  NodeWidths    (* the values of node_width *)

ASSUME HierarchyAssumption == NodeWidths \subseteq Nat \ {0, 1}

VARIABLE tree   (* <<>>, or [groups, node_width, level_count, level, row, offset, nodes] *)

Internal == 0
NoNode == <<>>

\* Children are at child_offset..child_offset + child_count - 1; places count from one.
Node(error, group, child_offset, child_count) ==
  [error |-> error, group |-> group, child_offset |-> child_offset, child_count |-> child_count]

-----------------------------------------------------------------------------
(* clodBuildHierarchyBound *)

RoundUp(n, d) == (n + d - 1) \div d

\* Mistake: the rows of one tree over all groups.
BoundOfOneTree(group_count, node_width, level_count) ==
  LET rows[frontier \in 0..group_count] ==
        IF frontier <= 1 THEN 0 ELSE frontier + rows[RoundUp(frontier, node_width)]
  IN  level_count + rows[group_count]

\* The nodes of each row, with one more per level for levels that do not fill it.
clodBuildHierarchyBound(group_count, node_width, level_count) ==
  LET rows[frontier \in 0..group_count] ==
        IF frontier <= 1 THEN 0 ELSE frontier + level_count + rows[RoundUp(frontier, node_width)]
  IN  level_count + rows[group_count]

-----------------------------------------------------------------------------
(* clodBuildHierarchy *)

Leaves(groups, level) ==
  LET members == SelectSeq([g \in DOMAIN groups |-> g], LAMBDA g : groups[g].depth = level)
  IN  [i \in DOMAIN members |-> Node(groups[members[i]].error, members[i], 0, 0)]

Tree(groups, node_width) ==
  LET level_count == Max({groups[g].depth : g \in DOMAIN groups}) + 1
  IN  [groups |-> groups, node_width |-> node_width, level_count |-> level_count, level |-> 0,
       row |-> Leaves(groups, 0), offset |-> level_count, nodes |-> [i \in 1..level_count |-> NoNode]]

\* Mistake: the error of the first child.
FirstError(nodes, offset, count) == Node(nodes[offset].error, Internal, offset, count)

mergeNodes(nodes, offset, count) ==
  Node(Max({0} \cup {nodes[n].error : n \in offset..offset + count - 1}), Internal, offset, count)

\* A row is written in its spatial order and gives one parent for every node_width nodes, fewer for the last.
ClusterRow ==
  /\ tree.level < tree.level_count /\ Len(tree.row) > 1
  /\ LET count == Len(tree.row)
     IN  \E order \in {f \in [1..count -> 1..count] : \A i, j \in 1..count : i # j => f[i] # f[j]} :
           LET nodes   == tree.nodes \o [i \in 1..count |-> tree.row[order[i]]]
               First(p) == tree.offset + ((p - 1) * tree.node_width) + 1
               parents == [p \in 1..RoundUp(count, tree.node_width) |->
                             mergeNodes(nodes, First(p), Min({tree.node_width, count - ((p - 1) * tree.node_width)}))]
           IN  tree' = [tree EXCEPT !.nodes = nodes, !.row = parents, !.offset = @ + count]

\* The root of a level goes to the front.
NextLevel ==
  /\ tree.level < tree.level_count /\ Len(tree.row) <= 1
  /\ tree' = [tree EXCEPT !.nodes[tree.level + 1] = tree.row[1],
                          !.row = Leaves(tree.groups, tree.level + 1),
                          !.level = @ + 1]

BuildHierarchy == ClusterRow \/ NextLevel

-----------------------------------------------------------------------------
(* countTriangles *)

\* The groups that a traversal draws from a node, one after the other.
Traverse(nodes, threshold, root) ==
  LET from[n \in DOMAIN nodes] ==
        LET node == nodes[n]
        IN  IF node.error <= threshold THEN <<>>
            ELSE IF node.group # Internal THEN <<node.group>>
            ELSE FoldLeft(LAMBDA found, i : found \o from[node.child_offset + i - 1], <<>>, [i \in 1..node.child_count |-> i])
  IN  from[root]

-----------------------------------------------------------------------------
(* The calls side by side *)

CONSTANTS
  GroupInputs,   (* groups to build a hierarchy over, without a build *)
  Thresholds     (* the errors at which levels of detail are drawn    *)

allVars == <<call, build, tree>>

Init ==
  \/ \E in \in PartitionInputs : StartCall(in) /\ build = <<>> /\ tree = <<>>
  \/ \E in \in LodInputs : StartBuild(in) /\ call = <<>> /\ tree = <<>>
  \/ \E groups \in GroupInputs, width \in NodeWidths : tree = Tree(groups, width) /\ call = <<>> /\ build = <<>>

\* nanite.cpp: the hierarchy is built over the groups as they were put out.
StartHierarchy ==
  /\ build # <<>> /\ build.phase = "done"
  /\ build' = <<>>
  /\ LET groups == [g \in DOMAIN build.output |-> [depth |-> build.output[g].depth, error |-> build.output[g].error]]
     IN  \E width \in NodeWidths : tree' = Tree(groups, width)

HierarchyDone == tree # <<>> /\ tree.level = tree.level_count

Next ==
  \/ call # <<>> /\ PartitionClusters /\ UNCHANGED <<build, tree>>
  \/ build # <<>> /\ BuildLod /\ UNCHANGED <<call, tree>>
  \/ StartHierarchy /\ UNCHANGED call
  \/ tree # <<>> /\ BuildHierarchy /\ UNCHANGED <<call, build>>
  \/ (HierarchyDone \/ (call # <<>> /\ call.phase = "done")) /\ UNCHANGED allVars

Spec == Init /\ [][Next]_allVars

-----------------------------------------------------------------------------
(* Partitions *)

HeapOrdered(heap) == \A i \in 2..Len(heap) : heap[i \div 2].order <= heap[i].order

\* A root is a group that still has its size; its chain has that many clusters and every cluster is in one chain.
ChainsPartition(groups) ==
  LET roots == {c \in DOMAIN groups : groups[c].size > 0}
  IN  \A c \in DOMAIN groups :
        /\ Cardinality({r \in roots : c \in ToSet(Chain(groups, r))}) = 1
        /\ c \in roots => groups[c].size = Len(Chain(groups, c)) /\ groups[c].size <= MaxPartition(call.input)

\* While groups merge, their chains hold every cluster once, within the size limit and as long as the groups' sizes
\* say; a group that may still be picked has its number at all of its clusters, and one that was taken for good at none;
\* the heap holds every live group that may still merge, smallest first, and the neighbours fit
\* their room.  The result is a partition as promised.
Partitioned ==
  call # <<>> =>
    /\ ChainsPartition(call.groups)
    /\ HeapOrdered(call.heap)
    /\ \A c \in DOMAIN call.input.clusters : Cardinality(Adjacent(call.input, c)) <= Adjacency(call.input, c)
    /\ call.phase = "merge" =>
         \A c \in DOMAIN call.groups : call.groups[c].size > 0 =>
           LET waiting == {i \in DOMAIN call.heap : call.heap[i].id = c}
               tagged  == {d \in DOMAIN call.groups : call.groups[d].group = c}
           IN  /\ Cardinality(waiting) <= 1
               /\ tagged \in {{}, ToSet(Chain(call.groups, c))}
               /\ waiting # {} <=> tagged # {}
               /\ \A i \in waiting : call.heap[i].order = call.groups[c].vertices
    /\ call.phase = "done" => partition!IsPartition(call.part, Len(call.input.clusters), call.input.target)

-----------------------------------------------------------------------------
(* Levels of detail *)

GroupOf(c) == CHOOSE g \in DOMAIN build.output : c \in build.output[g].clusters

RefinedError(cluster) == IF cluster.refined = Original THEN -1 ELSE build.output[cluster.refined].error

\* clusterlod.h, at clodGroup::simplified: the cluster is rendered at the threshold.
Drawn(c, threshold) ==
  /\ build.output[GroupOf(c)].error > threshold
  /\ RefinedError(build.clusters[c]) <= threshold

Made(g) == {c \in DOMAIN build.clusters : build.clusters[c].refined = g}

\* How many clusters are drawn on the ways from a cluster to coarser ones; a group of which nothing was left
\* counts as drawn once its error is small enough.
DrawnFrom(threshold) ==
  LET one(b) == IF b THEN 1 ELSE 0
      counts[c \in DOMAIN build.clusters] ==
        LET g == GroupOf(c)
            further == IF Made(g) # {} THEN UNION {counts[d] : d \in Made(g)}
                       ELSE {one(~build.output[g].left /\ build.output[g].error <= threshold)}
        IN  {one(Drawn(c, threshold)) + n : n \in further}
  IN  counts

\* At every threshold each part of the mesh is drawn once: every cluster is put out in one group, made from groups put
\* out before, and on the way from an original cluster to coarser ones exactly one is drawn.  The groups come by
\* depth, without a gap.
ConsistentCut ==
  (build # <<>> /\ build.phase = "done") =>
    /\ \A c \in DOMAIN build.clusters :
         /\ Cardinality({g \in DOMAIN build.output : c \in build.output[g].clusters}) = 1
         /\ build.clusters[c].refined < GroupOf(c)
         /\ build.clusters[c].refined # Original => build.output[build.clusters[c].refined].depth < build.output[GroupOf(c)].depth
    /\ \A g \in DOMAIN build.output : build.output[g].depth \in
         (IF g = 1 THEN {0} ELSE {build.output[g - 1].depth, build.output[g - 1].depth + 1})
    /\ \A threshold \in Thresholds :
         LET counts == DrawnFrom(threshold)
         IN  \A c \in DOMAIN build.clusters : build.clusters[c].refined = Original => counts[c] = {1}

\* The positions of a cluster that is drawn at the threshold and of which a group in use there has lost some.
Gaps(threshold, Counted(_)) ==
  {c \in DOMAIN build.clusters :
     /\ Drawn(c, threshold) /\ Counted(c)
     /\ \E g \in DOMAIN build.output :
          /\ build.output[g].error <= threshold
          /\ build.output[g].removed \cap {build.input.remap[v] : v \in build.clusters[c].vertices} # {}}

\* A group that could not be simplified while others went on.
Abandoned(c) ==
  LET g == build.output[GroupOf(c)]
  IN  g.error = Infinite /\ \E h \in DOMAIN build.output : build.output[h].depth > g.depth

\* The borders between clusters of different detail have no gaps: what a simplified group has lost is in no cluster drawn with its
\* result.  Clusters of an abandoned group are left out:
\* lockBoundary only knows the groups that are still pending, so that the neighbours of a group given up may later lose its border.
NoGaps ==
  (build # <<>> /\ build.phase = "done") =>
    \A threshold \in Thresholds : Gaps(threshold, LAMBDA c : ~Abandoned(c)) = {}

-----------------------------------------------------------------------------
(* Hierarchies *)

Groups == DOMAIN tree.groups

\* The nodes fit their bound, the row of a level takes the place it has, and a traversal from the roots draws the groups above the
\* threshold and no other, each once, whatever the order of the rows.
HierarchyExact ==
  tree # <<>> =>
    /\ Len(tree.nodes) = tree.offset
    /\ Len(tree.nodes) <= clodBuildHierarchyBound(Len(tree.groups), tree.node_width, tree.level_count)
    /\ HierarchyDone =>
         \A threshold \in Thresholds, level \in 1..tree.level_count :
           LET found == Traverse(tree.nodes, threshold, level)
               above == {g \in Groups : tree.groups[g].depth = level - 1 /\ tree.groups[g].error > threshold}
           IN  ToSet(found) = above /\ Len(found) = Cardinality(above)
=============================================================================
