---------------------------- MODULE MCVertexCodec ----------------------------
(***************************************************************************)
(* A small vertex codec: groups of 8 bytes and blocks of at most 16        *)
(* vertices, so that a mesh of 20 vertices has two blocks and the second   *)
(* one an incomplete group.                                                *)
(***************************************************************************)
EXTENDS VertexCodec

MCTailMin == [v \in Versions |-> IF v = 0 THEN 16 ELSE 12]

\* Byte channels: constant, slow, fast, of full range, slow with a few jumps, alternating,
\* incompressible.
Pattern == <<
  [i \in Nat |-> 7],
  [i \in Nat |-> i],
  [i \in Nat |-> (5 * i) % 256],
  [i \in Nat |-> (101 * i + 77 * i * i) % 256],
  [i \in Nat |-> IF i % 7 = 3 THEN 200 ELSE i \div 2],
  [i \in Nat |-> 255 - (i % 2)],
  [i \in Nat |-> (101 * i) % 256]>>

Mesh(size, n, pattern) ==
  [size |-> size,
   vertices |-> [i \in 1..n |-> [b \in 1..size |-> Pattern[pattern[b]][i]]]]

MCMeshes ==
  {Mesh(4, n, <<1, 2, 4, 5>>) : n \in {0, 1, 8, 13, 16, 20}}
    \cup {Mesh(4, n, <<4, 4, 3, 6>>) : n \in {7, 16, 24}}
    \cup {Mesh(4, 16, <<7, 7, 7, 7>>)}
    \cup {Mesh(8, n, <<2, 1, 5, 6, 4, 4, 3, 1>>) : n \in {3, 10}}

Call(version, level, slack, cut, flip, simd) ==
  [version |-> version, level |-> level, slack |-> slack, cut |-> cut, flip |-> flip,
   simd |-> simd]

MCCalls ==
  {Call(0, 0, 0, 0, 0, simd) : simd \in BOOLEAN}
    \cup {Call(1, level, 0, 0, 0, simd) : level \in 0..3, simd \in BOOLEAN}
    \cup {Call(version, 2, 0, cut, 0, simd) :
            version \in Versions, cut \in {-1, 1, 9}, simd \in BOOLEAN}
    \cup {Call(version, 0, slack, 0, 0, FALSE) : version \in Versions, slack \in {1, 10, 20, 60}}
    \cup {Call(1, 1, 0, 0, flip, FALSE) : flip \in {2, 16}}
=============================================================================
