---------------------------- MODULE MCMeshletCodec ----------------------------
(* Lists of triangles and decoders for TLC. *)
EXTENDS MeshletCodec

\* A strip, a fan that closes, and triangles that share edges with older and older ones
Strip(n) == [t \in 1..n |-> IF t % 2 = 1 THEN <<t, t + 1, t + 2>> ELSE <<t + 1, t, t + 2>>]
Fan(n)   == [t \in 1..n |-> <<900, 899 - t, IF t = n THEN 898 ELSE 898 - t>>]
Star     == <<<<7, 8, 9>>, <<8, 7, 10>>, <<9, 8, 11>>, <<7, 9, 12>>, <<10, 7, 13>>, <<11, 8, 14>>, <<8, 10, 15>>>>

\* Twins, a triangle with a corner twice, one turned over, and entries of the cache in conflict
Odd == <<<<40, 41, 42>>, <<42, 40, 41>>, <<41, 41, 44>>, <<42, 41, 40>>, <<49, 41, 45>>>>

\* References far from each other: differences of one to four bytes, and all of three
Far == <<<<0, 65535, 300>>, <<4, 3000, 65535>>, <<20000, 3000, 4>>>>
Spread == <<<<1000, 3000, 5000>>, <<3000, 1000, 7000>>, <<1000, 9000, 7000>>, <<9000, 9001, 9003>>>>

MCLists == {<<>>, <<<<0, 30000, 300>>>>, Strip(4), Strip(7), Fan(6), Star, Odd, Far, Spread}

Decoder(kind, vsize, tsize, head, tail, lacks) ==
  [kind |-> kind, vsize |-> vsize, tsize |-> tsize, head |-> head, tail |-> tail, lacks |-> lacks]

MCCalls ==
  {Decoder(kind, v, t, 0, 0, 0) : kind \in {"scalar", "simd"}, v \in {2, 4}, t \in {3, 4}}
  \cup {Decoder("raw", 4, 4, 0, 0, 0), Decoder("simd", 2, 3, 0, 0, 5)}
  \cup {Decoder(kind, 4, 4, head, 0, 0) : kind \in {"scalar", "simd", "raw"}, head \in {1, 4, 40}}
  \cup {Decoder(kind, 2, t, 0, tail, 0) : kind \in {"scalar", "simd"}, t \in {3, 4}, tail \in {1, 2, 5}}
=============================================================================
