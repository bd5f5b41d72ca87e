---------------------------- MODULE MCSimplifier ----------------------------
(* Meshes, options and points for TLC. *)
EXTENDS SimplifierApi

False(n) == [v \in 1..n |-> FALSE]
Only(n, S) == [v \in 1..n |-> v \in S]

Call(position, triangles, options, target, limit, attributes, lock, protect, flips) ==
  [api |-> "edge", position |-> position, triangles |-> triangles, options |-> options, target |-> target, limit |-> limit, flips |-> flips,
   attributes |-> attributes, lock |-> Only(Len(position), lock), protect |-> Only(Len(position), protect)]

Plain(position, triangles, options) == Call(position, triangles, options, 3, 2, FALSE, {}, {}, {1})

\* A fan of four around position 5 whose ring is 1..4; corners of the centre and of the ring may have wedges of
\* their own: vertices 5..8 are at the centre, 9..10 at ring positions 1 and 3.
FanPosition == <<1, 2, 3, 4, 5, 5, 5, 5, 1, 3>>
Fan(c, a, b) == <<<<c[1], 1, 2>>, <<c[2], 2, a>>, <<c[3], 3, 4>>, <<c[4], 4, b>>>>

\* The centre's corners: none apart, two and two, one apart, three and all apart.
Centres == {<<5, 5, 5, 5>>, <<5, 5, 6, 6>>, <<5, 6, 6, 6>>, <<5, 6, 6, 5>>, <<5, 6, 5, 6>>, <<5, 6, 7, 7>>, <<5, 6, 7, 8>>}
Fans == {Call(FanPosition, Fan(c, ring[1], ring[2]), o, 3, 1, FALSE, {}, {}, {5}) :
           c \in Centres, ring \in {<<3, 1>>, <<10, 1>>, <<10, 9>>}, o \in {{}, {"Permissive"}, {"LockBorder", "Sparse"}}}

\* An octahedron (1, 6 the poles, 2..5 the ring) with a second wedge 7 of vertex 2 on one side of the path 1-2-6,
\* and one with a second wedge 8 of pole 1 as well: a seam along 3-1-2-6.
Octa(w2, w1) == <<<<1, 2, 3>>, <<w1, 3, 4>>, <<w1, 4, 5>>, <<w1, 5, w2>>, <<6, 3, 2>>, <<6, 4, 3>>, <<6, 5, 4>>, <<6, w2, 5>>>>
Octahedra ==
  {Call(<<1, 2, 3, 4, 5, 6, 2, 1>>, Octa(7, w), o, 12, 1, a, {}, {}, {}) :
     w \in {1, 8}, o \in {{}, {"Permissive"}, {"Solve"}}, a \in BOOLEAN}
  \cup {Call(<<1, 2, 3, 4, 5, 6, 2>>, Octa(7, 1), {"Sparse"}, 9, 1, FALSE, {4, 5}, {}, {})}

\* Pieces of surface with two borders, apart from each other, and with a corner in common
Quad == <<<<1, 2, 3>>, <<3, 2, 4>>>>
Pieces == {
  Plain(<<1, 2, 3, 4, 5, 6, 7>>, Quad \o <<<<5, 6, 7>>>>, {"Prune"}),
  Plain(<<1, 2, 3, 4, 5, 6, 4>>, Quad \o <<<<5, 6, 7>>>>, {"Prune", "Solve"}),
  Call(<<1, 2, 3, 4, 5, 6, 7, 8, 9>>, <<<<1, 2, 3>>, <<4, 5, 6>>, <<9, 8, 7>>>>, {"Prune", "LockBorder"}, 2, 3, TRUE, {}, {}, {}),
  Plain(<<1, 2, 3, 4, 5>>, <<<<1, 2, 3>>, <<1, 2, 4>>, <<2, 1, 5>>>>, {"Permissive"}),
  Plain(<<1, 2, 3, 4>>, <<<<1, 3, 2>>, <<1, 4, 3>>, <<2, 3, 4>>, <<1, 2, 4>>>>, {"Solve"}),
  Plain(<<1, 2, 3, 1>>, <<<<1, 2, 3>>, <<1, 2, 2>>, <<4, 3, 2>>, <<3, 2, 1>>>>, {}),
  Call(<<1, 2, 3, 4, 5, 5>>, <<<<5, 1, 2>>, <<5, 2, 3>>, <<6, 3, 4>>, <<6, 4, 1>>>>, {"Permissive"}, 4, 2, TRUE, {}, {6}, {}),
  Call(<<1, 2, 3, 4, 5, 5>>, <<<<5, 1, 2>>, <<5, 2, 3>>, <<6, 3, 4>>, <<6, 4, 1>>>>, {"Permissive", "Solve"}, 4, 2, TRUE, {6}, {}, {})}

Prunes == {[api |-> "prune", position |-> <<1, 2, 3, 3, 5, 6, 7, 8, 9>>, triangles |-> <<<<6, 7, 5>>, <<1, 2, 3>>, <<4, 5, 9>>, <<8, 8, 8>>>>,
            limit |-> 2, flips |-> {}, options |-> {}, lock |-> False(9), target |-> 0, attributes |-> FALSE, protect |-> False(9)]}

MCInputs == Fans \cup Octahedra \cup Pieces \cup Prunes

Line == <<0, 3, 6, 2, 6, 5>>
Strip == <<<<1, 2, 3>>, <<3, 2, 4>>, <<5, 4, 3>>, <<3, 4, 6>>, <<6, 5, 1>>, <<2, 6, 3>>>>
MCGridInputs ==
  {[api |-> "sloppy", triangles |-> Strip, points |-> Line, lock |-> lock, target |-> target, min_grid |-> min_grid] :
     lock \in {<<>>, Only(6, {3, 5})}, target \in {0, 2, 4, 6}, min_grid \in {1, 3}}
  \cup {[api |-> "points", triangles |-> <<>>, points |-> Line, lock |-> <<>>, target |-> target, min_grid |-> 1] : target \in 0..6}
=============================================================================
