------------------------------- MODULE Varint -------------------------------
(***************************************************************************)
(* Indices of a fixed width and the variable length integers that the      *)
(* index codecs of src/indexcodec.cpp write: a difference of two indices,  *)
(* zigzag encoded, in groups of bits.                                      *)
(***************************************************************************)
EXTENDS Integers, FiniteSets

CONSTANTS
  Width,      (* Bits of an index (32).                                    *)
  ShortWidth, (* Bits of an index when index_size is 2 (16).               *)
  GroupBits   (* Payload bits of a byte of a variable length integer (7).  *)

Modulus      == 2^Width
ShortModulus == 2^ShortWidth
MaxGroups    == (Width + GroupBits - 1) \div GroupBits
Index        == 0..Modulus - 1

\* A mistake: a sum is kept in a wider type.
PlusWide(i, d) == i + d

\* Indices wrap around at Modulus.
Plus(i, d)  == IF i + d >= Modulus THEN i + d - Modulus ELSE i + d
Minus(i, d) == IF i >= d THEN i - d ELSE i - d + Modulus

ZigZag(d) == IF d < Modulus \div 2 THEN 2 * d ELSE 2 * (Modulus - d) - 1

UnZigZag(v) == IF v % 2 = 0 THEN v \div 2 ELSE Modulus - (v + 1) \div 2

\* encodeVByte writes one byte, and one more for every further group that is not zero.
IndexSize(v) == 1 + Cardinality({n \in 1..MaxGroups - 1 : v >= 2^(GroupBits * n)})

\* The bits of the indices of a mesh.
VertexBits(vertexCount) == 1 + Cardinality({b \in 1..Width - 1 : vertexCount > 2^b})

\* What is left of an index that is stored with index_size bytes.
Narrow(i, indexSize) == IF indexSize = 2 THEN i % ShortModulus ELSE i
=============================================================================
