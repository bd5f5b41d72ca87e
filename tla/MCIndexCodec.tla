---------------------------- MODULE MCIndexCodec ----------------------------
(***************************************************************************)
(* A small codec: FIFOs of 6 entries, a table of 4 pairs, 6-bit indices    *)
(* written in groups of 3 bits, and up to 4 triangles over 6 vertices.     *)
(***************************************************************************)
EXTENDS IndexCodec

MCAuxTable ==
  [i \in 0..3 |-> CASE i = 0 -> <<0, 0>> [] i = 1 -> <<0, 1>> [] i = 2 -> <<2, 3>> [] i = 3 -> <<1, 0>>]

\* Strips that start at next and go on over cached edges, in three rotations, triangles that
\* skip vertices, a degenerate one and the one that resets the encoder.
MCInputs ==
  {<<0, 1, 2>>, <<2, 1, 3>>, <<1, 2, 0>>, <<3, 4, 5>>, <<5, 4, 0>>, <<1, 5, 2>>, <<1, 1, 4>>}

Call(version, slack, indexSize, cut) ==
  [version |-> version, slack |-> slack, indexSize |-> indexSize, cut |-> cut]

\* A whole stream of either version and index size, a buffer that is too small, a cut stream.
MCCalls == {Call(1, 0, 4, 0), Call(0, 0, 4, 0), Call(1, 0, 2, 0), Call(1, 5, 4, 0),
            Call(1, 0, 4, 1), Call(1, 0, 4, 3)}

\* Among them the reset and two explicit indices.
MCGarbage == {<<0, 0>>, <<5, 1>>, <<2, 5>>}
=============================================================================
