------------------------------ MODULE ClusterLod ------------------------------
(***************************************************************************)
(* src/demo/clusterlod.h: clodBuild.                                       *)
(*                                                                         *)
(* The clusters of a mesh are grouped, each group is simplified with the   *)
(* vertices it shares with other groups locked, and the result is split    *)
(* into the clusters of the next level, until one cluster is left or no    *)
(* group gets smaller.  A cluster is a number of triangles and those of    *)
(* its vertices that other clusters have, too; which partition             *)
(* meshopt_partitionClusters makes of them, what the simplifier removes    *)
(* and at what error, and how the splitter cuts are free within what these *)
(* promise (PartitionSpec, SimplifierApi, MeshletBuilder).                 *)
(***************************************************************************)
EXTENDS Integers, Sequences, FiniteSets, SequencesExt, FiniteSetsExt, Functions

CONSTANTS
  LodInputs,          (* [clusters: Seq([vertices, triangles]), remap, vertex_lock, merge_previous, merge_additive] *)
  MaxTriangles,       (* max_triangles of the configuration                *)
  PartitionSize,      (* partition_size: the target, a third more at most  *)
  ThresholdNum, ThresholdDen,    (* simplify_threshold                     *)
  SimplifyErrors,     (* the errors a simplification may have              *)
  Infinite            (* FLT_MAX                                           *)

ASSUME LodAssumption ==
  /\ MaxTriangles \in Nat \ {0} /\ PartitionSize \in Nat \ {0}
  /\ ThresholdNum \in Nat /\ ThresholdDen \in Nat \ {0} /\ ThresholdNum < ThresholdDen
  /\ \A e \in SimplifyErrors : e \in Nat /\ e < Infinite

VARIABLE build   (* <<>>, or [input, phase, clusters, pending, groups, locks, depth, output] *)

\* cluster.refined of the original clusters.
Original == 0

partition == INSTANCE PartitionSpec

-----------------------------------------------------------------------------
(* Clusters, groups and locks *)

Cluster(vertices, triangles, refined, error) ==
  [vertices |-> vertices, triangles |-> triangles, refined |-> refined, error |-> error]

MergedVertices(clusters, group) == UNION {clusters[c].vertices : c \in group}

MergedTriangles(clusters, group) == FoldSet(LAMBDA c, sum : sum + clusters[c].triangles, 0, group)

\* mergeGroups: the error of the worst cluster.
boundsMerge(errors) == Max({0} \cup errors)

Used(input, clusters, group) == {input.remap[v] : v \in MergedVertices(clusters, group)}

\* Mistake: vertices seen in a group before are locked, not the others at their positions.
LockVertices(input, clusters, groups) ==
  LET marks == FoldLeft(LAMBDA s, group :
                          LET used == MergedVertices(clusters, group)
                          IN  [locked |-> s.locked \cup (used \cap s.seen), seen |-> s.seen \cup used],
                        [locked |-> {}, seen |-> {}], groups)
  IN  marks.locked \cup input.vertex_lock

\* A position seen in a group before is locked; a vertex of the caller's choice, too.  The last loop goes through the
\* locks in place and remap leads to the first vertex at a position, whose lock it passes on to the others there.
lockBoundary(input, clusters, groups) ==
  LET marks == FoldLeft(LAMBDA s, group :
                          LET used == Used(input, clusters, group)
                          IN  [locked |-> s.locked \cup (used \cap s.seen), seen |-> s.seen \cup used],
                        [locked |-> {}, seen |-> {}], groups)
  IN  {v \in DOMAIN input.remap : input.remap[v] \in marks.locked \cup input.vertex_lock} \cup input.vertex_lock

\* The partitions of the pending clusters: one, or as many as the partitioner makes, each the clusters of a number.
partitions(pending) ==
  IF Len(pending) <= PartitionSize THEN {<<ToSet(pending)>>}
  ELSE {[p \in 1..Max(Range(part)) |-> {pending[i] : i \in {j \in DOMAIN pending : part[j] = p}}] :
          part \in {f \in [1..Len(pending) -> 1..Len(pending)] : partition!IsPartition(f, Len(pending), PartitionSize)}}

-----------------------------------------------------------------------------
(* Building *)

StartBuild(in) ==
  build = [input |-> in, phase |-> "level", depth |-> 0, groups |-> <<>>, locks |-> {}, output |-> <<>>,
           clusters |-> [c \in DOMAIN in.clusters |-> Cluster(in.clusters[c].vertices, in.clusters[c].triangles, Original, 0)],
           pending |-> [c \in DOMAIN in.clusters |-> c]]

\* The partition and the locks between its groups.
StartLevel ==
  /\ build.phase = "level" /\ Len(build.pending) > 1
  /\ \E groups \in partitions(build.pending) :
       build' = [build EXCEPT !.phase = "groups", !.pending = <<>>, !.groups = groups,
                              !.locks = lockBoundary(build.input, build.clusters, groups)]

\* The output callback keeps groups in order; with what a simplification `removed` and whether anything was `left`.
outputGroup(group, error, removed, left) ==
  Append(build.output, [depth |-> build.depth, error |-> error, clusters |-> group, removed |-> removed, left |-> left])

\* Positions the simplifier may remove: those without a locked vertex in the group.
Removable(group) ==
  {p \in Used(build.input, build.clusters, group) :
     \A v \in MergedVertices(build.clusters, group) : build.input.remap[v] = p => v \notin build.locks}

Stuck(triangles, group) == triangles * ThresholdDen > MergedTriangles(build.clusters, group) * ThresholdNum

\* Mistake: the error of this simplification alone.
OwnError(group, error) == error

groupError(group, error) ==
  Max({boundsMerge({build.clusters[c].error : c \in group}) * build.input.merge_previous, error}) + (error * build.input.merge_additive)

\* What clusterize may make of what is left: one cluster or two (more do not occur within the bounds of a group here).
clusterize(vertices, triangles, refined, error) ==
  LET cluster(part, n) == Cluster(part, n, refined, error)
      covers == {p \in (SUBSET vertices) \X (SUBSET vertices) : p[1] \cup p[2] = vertices}
      halves == Max({1, triangles - MaxTriangles})..Min({MaxTriangles, triangles - 1})
  IN  (IF triangles = 0 THEN {<<>>} ELSE {})
      \cup (IF triangles \in 1..MaxTriangles THEN {<<cluster(vertices, triangles)>>} ELSE {})
      \cup {<<cluster(p[1], n), cluster(p[2], triangles - n)>> : p \in covers, n \in halves}

SimplifyGroup ==
  /\ build.phase = "groups" /\ build.groups # <<>>
  /\ LET group == Head(build.groups)
         rest  == Tail(build.groups)
     IN  \E triangles \in 0..MergedTriangles(build.clusters, group), error \in SimplifyErrors, removed \in SUBSET Removable(group) :
           IF Stuck(triangles, group)
           THEN /\ removed = {} /\ error = Min(SimplifyErrors)
                /\ build' = [build EXCEPT !.groups = rest, !.output = outputGroup(group, Infinite, {}, TRUE)]
           ELSE LET bound    == groupError(group, error)
                    vertices == {v \in MergedVertices(build.clusters, group) : build.input.remap[v] \notin removed}
                IN  /\ triangles = 0 => vertices = {}
                    /\ \E split \in clusterize(vertices, triangles, Len(build.output) + 1, bound) :
                         build' = [build EXCEPT !.groups = rest, !.output = outputGroup(group, bound, removed, triangles > 0),
                                                !.clusters = @ \o split,
                                                !.pending = @ \o [i \in DOMAIN split |-> Len(build.clusters) + i]]

EndLevel ==
  /\ build.phase = "groups" /\ build.groups = <<>>
  /\ build' = [build EXCEPT !.phase = "level", !.depth = @ + 1, !.locks = {}]

\* Mistake: the last group keeps the error of its cluster.
FinishOpen ==
  /\ build.phase = "level" /\ Len(build.pending) <= 1
  /\ build' = [build EXCEPT !.phase = "done",
                            !.output = IF build.pending = <<>> THEN @
                                       ELSE outputGroup(ToSet(build.pending), build.clusters[Last(build.pending)].error, {}, TRUE)]

\* The last cluster is a group of its own.
Finish ==
  /\ build.phase = "level" /\ Len(build.pending) <= 1
  /\ build' = [build EXCEPT !.phase = "done",
                            !.output = IF build.pending = <<>> THEN @ ELSE outputGroup(ToSet(build.pending), Infinite, {}, TRUE)]

BuildLod == StartLevel \/ SimplifyGroup \/ EndLevel \/ Finish
=============================================================================
