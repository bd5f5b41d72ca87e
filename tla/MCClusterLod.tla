---------------------------- MODULE MCClusterLod ----------------------------
(* Clusters, meshes and groups for TLC. *)
EXTENDS ClusterLodApi

Partition(clusters, positions, target) == [clusters |-> clusters, positions |-> positions, target |-> target]

\* A path, a star and a ring of clusters, one with a repeated index, and clusters that share nothing.
Path == <<<<1, 2>>, <<2, 3, 3>>, <<3, 4>>, <<4, 5>>, <<5, 6>>>>
Star == <<<<1, 2, 3, 4>>, <<1>>, <<2>>, <<3>>, <<4>>>>
Ring == <<<<1, 2, 9>>, <<2, 3, 9>>, <<3, 4>>, <<4, 1>>>>
Apart == <<<<1>>, <<2>>, <<3>>, <<4, 5>>, <<5, 6>>>>

MCPartitionInputs ==
  {Partition(c, p, t) : c \in {Path, Star, Ring, Apart}, p \in BOOLEAN, t \in {2, 3}}
  \cup {Partition(c, TRUE, t) : c \in {Path, Apart}, t \in {1, 4}}

Mesh(vertices, remap, lock, previous, additive) ==
  [clusters |-> [c \in DOMAIN vertices |-> [vertices |-> vertices[c], triangles |-> 2]],
   remap |-> remap, vertex_lock |-> lock, merge_previous |-> previous, merge_additive |-> additive]

\* Three clusters in a row, two with a seam between them (1 and 2 are at one
\* position, and the caller may lock 1), and four around a corner.
MCLodInputs == {
  Mesh(<<{1}, {1, 2}, {2}>>, <<1, 2>>, {}, 1, 0),
  Mesh(<<{1, 3}, {2, 3}, {2}>>, <<1, 1, 3>>, {}, 1, 0),
  Mesh(<<{1, 3}, {2, 3}, {2}>>, <<1, 1, 3>>, {1}, 1, 0),
  Mesh(<<{1, 2}, {1}, {2}>>, <<1, 2>>, {2}, 2, 1),
  Mesh(<<{1}, {1}>>, <<1>>, {}, 2, 1),
  Mesh(<<{1}>>, <<1>>, {}, 1, 0)}

Group(depth, error) == [depth |-> depth, error |-> error]

MCGroupInputs ==
  {<<Group(0, a), Group(0, b), Group(0, 1), Group(0, 2), Group(1, 2), Group(1, 9)>> : a, b \in {0, 1}}
  \cup {<<Group(0, 0), Group(0, 0), Group(0, 1), Group(0, 9), Group(1, 1), Group(1, 2), Group(1, 9), Group(1, 2)>>}
=============================================================================
