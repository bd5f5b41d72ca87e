---------------------------- MODULE MCStripifier ----------------------------
(***************************************************************************)
(* Lists of up to 4 triangles over 4 vertices with a buffer for 3, and     *)
(* valences that wrap around.                                              *)
(***************************************************************************)
EXTENDS Stripifier

\* A fan around vertex 0 in different rotations, the back of one of its triangles, the triangle
\* that closes a tetrahedron and two that are degenerate.
MCTriangles == {<<0, 1, 2>>, <<2, 3, 0>>, <<3, 1, 0>>, <<1, 0, 2>>, <<3, 2, 1>>,
                <<1, 1, 2>>, <<0, 2, 0>>}
=============================================================================
