--------------------------- MODULE MCIndexPipeline ---------------------------
(* Meshes, hashes and tables for TLC. *)
EXTENDS IndexPipeline

\* A hash with many collisions: rotations and equal sums share one.
MCHash(key) == FoldLeft(LAMBDA h, x : h + x, 0, key)

V(pos, attr) == [pos |-> pos, attr |-> attr]
Mesh(list, indices) == [vertices |-> list, indices |-> indices]

\* Positions: 0 and 90 are the two zeros, 91 is not a number.
MCPoint(pos) == CASE pos = 90 -> <<0, 0, 0>>
                  [] pos = 91 -> <<0, 0, 0>>
                  [] OTHER -> <<pos % 3, pos \div 3, (pos * 5) % 7>>

Grid == [i \in 1..6 |-> V(i - 1, 1)]

\* A strip, a fan around a vertex used more often than its counter holds, a tetrahedron, an unindexed soup of
\* shared corners, seams (one position, two attributes), both zeros, NaN, degenerate and repeated
\* triangles, and a seam that is drawn before the vertex with the lower number.
Strip    == Mesh(Grid, <<1, 2, 3, 3, 2, 4, 3, 4, 5, 5, 4, 6>>)
Fan      == Mesh(Grid, <<1, 2, 3, 1, 3, 4, 1, 4, 5, 1, 5, 6, 1, 6, 2>>)
Tetra    == Mesh(SubSeq(Grid, 1, 4), <<1, 2, 3, 1, 4, 2, 2, 4, 3, 1, 3, 4>>)
Soup     == Mesh(<<V(0, 1), V(1, 1), V(2, 1), V(2, 1), V(1, 1), V(3, 1), V(5, 1), V(4, 1), V(6, 1)>>, None)
Seam     == Mesh(<<V(0, 1), V(1, 1), V(2, 1), V(2, 2), V(1, 2), V(3, 1)>>, <<1, 2, 3, 4, 5, 6>>)
Zeros    == Mesh(<<V(0, 1), V(1, 1), V(2, 1), V(90, 1), V(90, 2), V(3, 1)>>, <<1, 2, 3, 4, 3, 6, 5, 2, 1>>)
Nan      == Mesh(<<V(91, 1), V(1, 1), V(2, 1), V(91, 1)>>, <<1, 2, 3, 4, 3, 2>>)
Doubles  == Mesh(Grid, <<2, 3, 1, 1, 2, 3, 4, 5, 4, 3, 1, 2, 1, 3, 2, 6, 5, 4>>)
Folded   == Mesh(<<V(0, 1), V(0, 2), V(1, 1), V(2, 1)>>, <<1, 2, 3, 1, 3, 4, 4, 3, 2>>)
Backward == Mesh(<<V(0, 1), V(1, 1), V(2, 1), V(1, 2)>>, <<1, 4, 3, 3, 2, 1>>)
Islands  == Mesh([i \in 1..9 |-> V(i - 1, 1)], <<7, 8, 9, 1, 2, 3, 4, 5, 6, 6, 5, 7>>)

\* Every second triangle over four vertices, two of them at one position.
Pairs == {Mesh(<<V(0, 1), V(1, 1), V(2, 1), V(1, 2)>>, <<1, 2, 3, a, b, c>>) : a, b, c \in 1..4}

MCMeshes == {Strip, Fan, Tetra, Soup, Seam, Zeros, Nan, Doubles, Folded, Backward, Islands} \cup Pairs

\* The first entries of kVertexScoreTable and kVertexScoreTableStrip
MCTables == {
  [cache |-> (0 :> 0 @@ 1 :> 779 @@ 2 :> 791 @@ 3 :> 789 @@ 4 :> 981), live |-> (0 :> 0 @@ 1 :> 995 @@ 2 :> 713 @@ 3 :> 450)],
  [cache |-> (0 :> 0 @@ 1 :> 1000 @@ 2 :> 1000 @@ 3 :> 1000 @@ 4 :> 453), live |-> (0 :> 0 @@ 1 :> 956 @@ 2 :> 786 @@ 3 :> 577)]}

MCThreshold == <<11, 10>>
MCWarps == {<<0, 0>>, <<3, 0>>, <<4, 0>>, <<5, 2>>, <<0, 1>>, <<0, 2>>}
=============================================================================
