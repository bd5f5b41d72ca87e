--------------------------- MODULE MCIndexSequence ---------------------------
(***************************************************************************)
(* A small sequence codec: 9-bit indices in groups of 4 bits, so that an   *)
(* index has 1 to 3 bytes, and a baseline that is left at a difference of  *)
(* 3, for which two bits and the two of sign and baseline fill a byte.     *)
(***************************************************************************)
EXTENDS IndexSequence

\* Neighbours, a jump and its way back, and the two ends of the mesh.
MCInputs == {0, 1, 4, 40, 126, 127}

Call(slack, indexSize, cut) == [slack |-> slack, indexSize |-> indexSize, cut |-> cut]

\* A whole stream of either index size, a buffer that is too small, a cut stream.
MCCalls == {Call(0, 4, 0), Call(0, 2, 0), Call(2, 4, 0), Call(4, 4, 0), Call(0, 4, 1),
            Call(0, 4, 2)}

ASSUME SpareBitAssumption == SpareBit

\* Strips that are joined with the restart index, in a mesh whose vertices need one bit less
\* than a byte has for them.
MCRestartInputs == {0, 2, 3, Modulus - 1}

MCRestartCalls == {Call(0, 4, 0)}
=============================================================================
