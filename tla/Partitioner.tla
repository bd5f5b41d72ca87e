----------------------------- MODULE Partitioner -----------------------------
(***************************************************************************)
(* src/partition.cpp: meshopt_partitionClusters.                           *)
(*                                                                         *)
(* The smallest group is merged with an adjacent one until it reaches the  *)
(* target size; with positions, small groups are then merged with near     *)
(* ones in the leaves of a tree.  A group is a chain of clusters.  Scores  *)
(* and centers are floating point: which adjacent or near group is the     *)
(* best, and on which side of the pivot a group is, are free.              *)
(***************************************************************************)
EXTENDS Integers, Sequences, FiniteSets, SequencesExt, FiniteSetsExt, Functions

CONSTANTS
  PartitionInputs,    (* [clusters: the indices of each, positions: BOOLEAN, target] *)
  LeafSize,           (* leaf_size of mergeSpatial                         *)
  kMergeDepthCutoff

ASSUME PartitionAssumption == LeafSize \in Nat \ {0, 1} /\ kMergeDepthCutoff \in Nat

VARIABLE call   (* <<>>, or [input, phase, groups, heap, ranges, order, next, part] *)

\* The end of a chain and of a group number; clusters count from one.
NoGroup == 0

MaxPartition(in) == in.target + (in.target \div 3)

-----------------------------------------------------------------------------
(* Clusters and what they share *)

\* filterClusterIndices: each vertex once.
Vertices(in, c) == ToSet(in.clusters[c])

Shared(in, c, d) == Cardinality(Vertices(in, c) \cap Vertices(in, d))

Refs(in, v) == Cardinality({c \in DOMAIN in.clusters : v \in Vertices(in, c)})

\* The room for the neighbours of a cluster: those of its vertices, or all others.
Adjacency(in, c) ==
  Min({FoldSet(LAMBDA v, sum : sum + Refs(in, v) - 1, 0, Vertices(in, c)), Len(in.clusters) - 1})

Adjacent(in, c) == {d \in DOMAIN in.clusters \ {c} : Shared(in, c, d) > 0}

-----------------------------------------------------------------------------
(* The heap of groups by their vertices *)

Swap(heap, i, j) == [heap EXCEPT ![i] = heap[j], ![j] = heap[i]]

Raise(s) ==
  IF s.at > 1 /\ s.heap[s.at].order < s.heap[s.at \div 2].order
  THEN [heap |-> Swap(s.heap, s.at, s.at \div 2), at |-> s.at \div 2] ELSE s

heapPush(heap, item) ==
  FoldLeft(LAMBDA s, i : Raise(s), [heap |-> Append(heap, item), at |-> Len(heap) + 1], heap).heap

\* The smaller child goes up; without a smaller child the last step is a no-op.
Sink(s) ==
  LET child == 2 * s.at
      least == IF child + 1 <= Len(s.heap) /\ s.heap[child + 1].order < s.heap[child].order THEN child + 1 ELSE child
  IN  IF child > Len(s.heap) \/ s.heap[least].order >= s.heap[s.at].order THEN s
      ELSE [heap |-> Swap(s.heap, s.at, least), at |-> least]

\* Mistake: the last one is put on top and stays there.
PopWithoutSinking(heap) == IF Len(heap) = 1 THEN <<>> ELSE Front([heap EXCEPT ![1] = Last(heap)])

\* What is left after the first one was taken: the last one sinks from the top.
heapPop(heap) ==
  IF Len(heap) = 1 THEN <<>>
  ELSE FoldLeft(LAMBDA s, i : Sink(s), [heap |-> Front([heap EXCEPT ![1] = Last(heap)]), at |-> 1], heap).heap

-----------------------------------------------------------------------------
(* Chains *)

\* The clusters linked from c on.
Chain(groups, c) ==
  LET f[n \in 0..Cardinality(DOMAIN groups), d \in DOMAIN groups] ==
        IF n = 0 \/ groups[d].next = NoGroup THEN <<d>> ELSE <<d>> \o f[n - 1, groups[d].next]
  IN  f[Cardinality(DOMAIN groups), c]

\* Mistake: the group number of the first cluster only.
AssociateFirst(groups, c, group) == [groups EXCEPT ![c].group = group]

Associate(groups, c, group) ==
  [d \in DOMAIN groups |-> IF d \in ToSet(Chain(groups, c)) THEN [groups[d] EXCEPT !.group = group] ELSE groups[d]]

\* Mistake: the chain is put behind the first cluster, whose own chain is lost.
LinkToHead(groups, target, source) ==
  [groups EXCEPT ![target].next = source, ![target].size = @ + groups[source].size, ![source].size = 0]

\* The chain of the one is put behind that of the other.
Link(groups, target, source) ==
  [groups EXCEPT ![Last(Chain(groups, target))].next = source,
                 ![target].size = @ + groups[source].size,
                 ![source].size = 0]

-----------------------------------------------------------------------------
(* The greedy merge *)

StartCall(in) ==
  LET size(c) == Cardinality(Vertices(in, c))
  IN  call = [input |-> in, phase |-> "merge",
              groups |-> [c \in DOMAIN in.clusters |-> [group |-> c, next |-> NoGroup, size |-> 1, vertices |-> size(c)]],
              heap |-> FoldLeft(LAMBDA heap, c : heapPush(heap, [id |-> c, order |-> size(c)]), <<>>,
                                [c \in DOMAIN in.clusters |-> c]),
              ranges |-> <<>>, order |-> <<>>, next |-> 0, part |-> <<>>]

SharedWith(groups, id, other) ==
  LET pairs == {p \in ToSet(Chain(groups, id)) \X DOMAIN groups : groups[p[2]].group = other /\ p[1] # p[2]}
  IN  FoldSet(LAMBDA p, sum : sum + Shared(call.input, p[1], p[2]), 0, pairs)

\* Mistake: any group that shares vertices, however large.
AnyNeighbour(groups, id) == {other \in DOMAIN groups : SharedWith(groups, id, other) > 0}

\* Groups that share vertices with this one and are small enough for both.
pickGroupToMerge(groups, id) ==
  {other \in DOMAIN groups :
     /\ SharedWith(groups, id, other) > 0
     /\ groups[id].size + groups[other].size <= MaxPartition(call.input)}

Merged(groups, id, best) ==
  LET shared   == SharedWith(groups, id, best)
      vertices == groups[id].vertices + groups[best].vertices
      linked   == [Link(groups, id, best) EXCEPT ![id].vertices = IF vertices > shared THEN vertices - shared ELSE 1,
                                                 ![best].vertices = 0]
  IN  Associate(linked, id, id)

\* The smallest group is taken: it was merged before, is large enough, finds no partner, or is merged with one.
MergeGroup ==
  /\ call.phase = "merge" /\ call.heap # <<>>
  /\ LET id   == Head(call.heap).id
         rest == heapPop(call.heap)
         free == Associate(call.groups, id, NoGroup)
         best == IF call.groups[id].size >= call.input.target THEN {} ELSE pickGroupToMerge(free, id)
     IN  IF call.groups[id].size = 0 THEN call' = [call EXCEPT !.heap = rest]
         ELSE IF best = {} THEN call' = [call EXCEPT !.heap = rest, !.groups = free]
         ELSE \E b \in best :
                LET made == Merged(free, id, b)
                IN  call' = [call EXCEPT !.groups = made, !.heap = heapPush(rest, [id |-> id, order |-> made[id].vertices])]

-----------------------------------------------------------------------------
(* The spatial merge *)

Remaining(groups) == SelectSeq([c \in DOMAIN groups |-> c], LAMBDA c : groups[c].size > 0)

StartSpatial ==
  /\ call.phase = "merge" /\ call.heap = <<>>
  /\ call' = [call EXCEPT !.phase = IF call.input.positions THEN "spatial" ELSE "output",
                          !.ranges = <<[order |-> Remaining(call.groups), depth |-> 0]>>]

\* Groups below the pivot are swapped to the front, one after the other.
mergePartition(order, below) ==
  FoldLeft(LAMBDA s, i : [order |-> Swap(s.order, s.m + 1, i), m |-> IF order[i] \in below THEN s.m + 1 ELSE s.m],
           [order |-> order, m |-> 0], [i \in DOMAIN order |-> i])

\* The half is taken when one side would be almost empty.
Middle(m, count, depth) ==
  IF m <= LeafSize \div 2 \/ count - m <= LeafSize \div 2 \/ depth >= kMergeDepthCutoff THEN count \div 2 ELSE m

IsLeaf(order) ==
  \/ FoldSeq(LAMBDA c, sum : sum + call.groups[c].size, 0, order) <= MaxPartition(call.input)
  \/ Len(order) <= LeafSize

\* A range of groups is a leaf, whose groups are merged one by one, or is split in two.
mergeSpatial ==
  /\ call.phase = "spatial" /\ call.order = <<>> /\ call.ranges # <<>>
  /\ LET order == Head(call.ranges).order
         depth == Head(call.ranges).depth
     IN  IF IsLeaf(order)
         THEN call' = [call EXCEPT !.ranges = Tail(@), !.order = order, !.next = 1]
         ELSE \E below \in SUBSET ToSet(order) :
                LET made   == mergePartition(order, below)
                    middle == Middle(made.m, Len(order), depth)
                IN  call' = [call EXCEPT !.ranges =
                      <<[order |-> SubSeq(made.order, 1, middle), depth |-> depth + 1],
                        [order |-> SubSeq(made.order, middle + 1, Len(order)), depth |-> depth + 1]>> \o Tail(@)]

NearGroups(id) ==
  {other \in ToSet(call.order) \ {id} :
     call.groups[other].size # 0 /\ call.groups[id].size + call.groups[other].size <= MaxPartition(call.input)}

\* A small group goes into the nearest one that has room.
mergeLeaf ==
  /\ call.phase = "spatial" /\ call.order # <<>>
  /\ LET id    == call.order[call.next]
         small == call.groups[id].size # 0 /\ call.groups[id].size < call.input.target
         near  == IF small THEN NearGroups(id) ELSE {}
     IN  \E groups \in IF near = {} THEN {call.groups} ELSE {Link(call.groups, best, id) : best \in near} :
           call' = [call EXCEPT !.groups = groups,
                                !.order = IF call.next = Len(call.order) THEN <<>> ELSE @,
                                !.next = IF call.next = Len(call.order) THEN 0 ELSE @ + 1]

-----------------------------------------------------------------------------
(* The result *)

Output ==
  /\ call.phase = "output" \/ (call.phase = "spatial" /\ call.order = <<>> /\ call.ranges = <<>>)
  /\ LET roots == Remaining(call.groups)
     IN  call' = [call EXCEPT !.phase = "done",
                              !.part = [c \in DOMAIN call.groups |->
                                         Max({0} \cup {n \in DOMAIN roots : c \in ToSet(Chain(call.groups, roots[n]))})]]

PartitionClusters == MergeGroup \/ StartSpatial \/ mergeSpatial \/ mergeLeaf \/ Output
=============================================================================
