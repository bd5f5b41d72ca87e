--------------------------- MODULE MCMeshletBuilder ---------------------------
(* Meshes and limits for TLC. *)
EXTENDS MeshletSearch

\* A strip with a triangle that repeats a corner, far from two fans around vertex 20
Parts ==
  [indices |-> <<<<1, 2, 3>>, <<2, 4, 3>>, <<4, 4, 3>>, <<20, 21, 22>>, <<20, 22, 23>>, <<30, 31, 32>>>>,
   centroids |-> <<<<0, 0, 0>>, <<1, 0, 0>>, <<2, 1, 0>>, <<8, 8, 1>>, <<8, 9, 0>>, <<4, 2, 0>>>>]

\* Triangles without common vertices, some of them at the same place
Soup ==
  [indices |-> [t \in 1..9 |-> <<3 * t, 3 * t + 1, 3 * t + 2>>],
   centroids |-> [t \in 1..9 |-> <<(t * 5) % 7, IF t % 3 = 0 THEN 4 ELSE t, 0>>]]

\* A fan that closes around vertex 0
Fan ==
  [indices |-> <<<<0, 1, 2>>, <<0, 2, 3>>, <<0, 3, 4>>, <<0, 4, 5>>, <<0, 5, 6>>, <<0, 6, 1>>>>,
   centroids |-> <<<<2, 0, 0>>, <<1, 2, 0>>, <<0, 1, 0>>, <<0, 0, 0>>, <<1, 0, 1>>, <<2, 1, 1>>>>]

\* A strip
Strip ==
  [indices |-> [t \in 1..8 |-> <<t, t + 1, t + 2>>],
   centroids |-> [t \in 1..8 |-> <<t, t % 2, 0>>]]

\* Two parts of five triangles with twelve vertices, the last triangle of which repeats a corner
Repeats ==
  [indices |-> <<<<1, 2, 3>>, <<4, 5, 6>>, <<7, 8, 9>>, <<10, 11, 1>>, <<12, 12, 1>>,
                 <<21, 22, 23>>, <<24, 25, 26>>, <<27, 28, 29>>, <<30, 31, 21>>, <<32, 32, 21>>>>,
   centroids |-> [t \in 1..10 |-> <<t, 0, 0>>]]

Limits(mode, v, min, max, splits) ==
  [mode |-> mode, maxVertices |-> v, minTriangles |-> min, maxTriangles |-> max, splits |-> splits]

MCInputs ==
  [mesh : {Parts, Fan}, call : {Limits("scan", 4, 2, 2, FALSE), Limits("scan", 5, 4, 4, FALSE)}]
  \cup
  [mesh : {Parts, Fan, Strip},
   call : {Limits("flex", 4, 3, 3, FALSE), Limits("flex", 5, 2, 2, FALSE),
           Limits("flex", 6, 1, 3, TRUE), Limits("flex", 6, 4, 4, FALSE)}]
  \cup
  [mesh : {Parts, Fan, Strip}, call : {Limits("split", 6, 2, 3, FALSE), Limits("split", 4, 2, 2, FALSE)}]
  \cup
  [mesh : {Soup}, call : {Limits("flex", 6, 2, 4, FALSE), Limits("split", 8, 3, 3, FALSE)}]
  \cup
  [mesh : {Repeats}, call : {Limits("split", 12, 4, 5, FALSE)}]

MCPositions == {<<0, 0, 0>>, <<3, 2, 1>>, <<8, 8, 0>>}
=============================================================================
