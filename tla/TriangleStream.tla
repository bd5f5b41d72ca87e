--------------------------- MODULE TriangleStream ---------------------------
(***************************************************************************)
(* What every triangle codec of the library promises: the triangles that   *)
(* went in come out, in the order they went in, none lost, none invented,  *)
(* each one possibly rotated but never with its winding flipped            *)
(* (README.md:445, "Codec preserves the order of triangles, however it can *)
(* rotate each triangle").                                                 *)
(***************************************************************************)
EXTENDS Naturals, Sequences

CONSTANT Corner             \* The values a corner of a triangle can have.

VARIABLES sent, received    \* Triangles in, triangles out.

Triangle == Corner \X Corner \X Corner

\* t with its corner k + 1 moved to the front; the cyclic order is kept.
RotateTo(t, k) ==
  CASE k = 0 -> t
    [] k = 1 -> <<t[2], t[3], t[1]>>
    [] k = 2 -> <<t[3], t[1], t[2]>>

Rotations(t) == {RotateTo(t, k) : k \in 0..2}

Init == sent = <<>> /\ received = <<>>

\* One more triangle enters the stream.
Send ==
  /\ \E t \in Triangle : sent' = Append(sent, t)
  /\ UNCHANGED received

\* The oldest triangle still inside leaves, rotated in any way.
Deliver ==
  /\ Len(received) < Len(sent)
  /\ \E r \in Rotations(sent[Len(received) + 1]) : received' = Append(received, r)
  /\ UNCHANGED sent

Next == Send \/ Deliver

Spec == Init /\ [][Next]_<<sent, received>>
=============================================================================
