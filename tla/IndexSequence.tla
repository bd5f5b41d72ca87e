---------------------------- MODULE IndexSequence ----------------------------
(***************************************************************************)
(* The index sequence codec of src/indexcodec.cpp: each index is written   *)
(* as a variable length integer, the zigzag difference to one of two       *)
(* baselines with the baseline's number in the low bit.  The decoder keeps *)
(* the two baselines as well and is told by that bit which one to use.     *)
(*                                                                         *)
(* A call of meshopt_encodeIndexSequence is followed by a call of          *)
(* meshopt_decodeIndexSequence on its output, whole or cut short.  The     *)
(* input is revealed one index at a time.  An encoded index is the value   *)
(* that encodeVByte is given; IndexSize is its size in bytes.              *)
(***************************************************************************)
EXTENDS Varint, Sequences

CONSTANTS
  Threshold,   (* Differences from here on switch the baseline (30).         *)
  TailSize,    (* Zero bytes that end the stream (4).                        *)
  VertexCount, (* Vertices that the mesh has.                                *)
  Inputs,      (* The indices that a sequence can hold.                      *)
  MaxIndices,  (* Bound on the indices of a sequence.                        *)
  Calls        (* Arguments of the two calls: slack (bytes by which the      *)
               (* buffer misses the documented bound), indexSize and cut     *)
               (* (bytes that the stream loses at its end).                  *)

ASSUME SizesAssumption ==
  /\ Width \in Nat /\ Modulus \in Nat /\ Modulus % 4 = 0
  /\ ShortWidth \in Nat /\ ShortModulus \in 1..Modulus
  /\ GroupBits \in Nat \ {0} /\ MaxGroups \in Nat \ {0}
  /\ Threshold \in Nat /\ MaxIndices \in Nat
  /\ TailSize \in Nat /\ TailSize >= MaxGroups - 1
  /\ Calls \subseteq [slack : Int, indexSize : {2, 4}, cut : Nat]

ASSUME InputsAssumption == VertexCount \in Nat \ {0} /\ Inputs \subseteq Index

VARIABLES
  phase,     (* Where the two calls are.                                    *)
  params,    (* Arguments: indices, buffer and index size, cut.             *)
  sequence,  (* The indices encoded so far.                                 *)
  last,      (* The two baselines of the encoder...                         *)
  current,   (* ... and the one it uses.                                    *)
  data,      (* The integers written...                                     *)
  dataSize,  (* ... and their size in bytes.                                *)
  decLast,   (* The two baselines of the decoder.                           *)
  takenSize, (* Bytes that the decoder has read.                            *)
  out,       (* Indices decoded.                                            *)
  result     (* What the last call returned: a size or an error.            *)

encoderVars == <<sequence, last, current, data, dataSize>>
decoderVars == <<decLast, takenSize, out>>
vars        == <<phase, params, encoderVars, decoderVars, result>>

NoBaselines == [b \in 0..1 |-> 0]

-----------------------------------------------------------------------------
(* meshopt_encodeIndexSequence *)

\* The absolute value of a difference, as a signed integer.
Magnitude(d) == IF d < Modulus \div 2 THEN d ELSE Modulus - d

\* The other baseline is used from here on when the difference grows too large.
Baseline(index) ==
  IF Magnitude(Minus(index, last[current])) >= Threshold THEN 1 - current ELSE current

\* A mistake: the difference to the baseline that has just been left.
EncodeIndexStale(index, base) == (2 * ZigZag(Minus(index, last[current])) + base) % Modulus

\* The bit that v << 1 loses is 0 for differences below a quarter of the range.
EncodeIndex(index, base) == (2 * ZigZag(Minus(index, last[base])) + base) % Modulus

\* A mistake: no group is counted for the bits of the sign and of the baseline.
SequenceGroupsBare == (VertexBits(VertexCount) + GroupBits - 1) \div GroupBits

SequenceGroups == (VertexBits(VertexCount) + 1 + 1 + GroupBits - 1) \div GroupBits

\* meshopt_encodeIndexSequenceBound
Bound(indices) == 1 + indices * SequenceGroups + TailSize

\* The minimum valid encoding has a byte per index.
MinSize(indices) == 1 + indices + TailSize

\* A mistake: data > data_safe_end refuses an index.
HasRoomLax == 1 + dataSize <= params.bufferSize - TailSize

\* data < data_safe_end
HasRoom == 1 + dataSize < params.bufferSize - TailSize

Init ==
  /\ phase = "idle"
  /\ \E n \in 0..MaxIndices, c \in Calls :
       params = [count |-> n, bufferSize |-> Bound(n) - c.slack, indexSize |-> c.indexSize,
                 cut |-> c.cut]
  /\ sequence = <<>> /\ last = NoBaselines /\ current = 0 /\ data = <<>> /\ dataSize = 0
  /\ decLast = NoBaselines /\ takenSize = 0 /\ out = <<>>
  /\ result = 0

EncodeStart ==
  /\ phase = "idle"
  /\ phase' = IF params.bufferSize < MinSize(params.count) THEN "refused" ELSE "encode"
  /\ UNCHANGED <<params, encoderVars, decoderVars, result>>

Encode(index) ==
  /\ phase = "encode" /\ Len(sequence) < params.count /\ HasRoom
  /\ LET base == Baseline(index)
         v    == EncodeIndex(index, base)
     IN  /\ current' = base
         /\ last' = [last EXCEPT ![base] = index]
         /\ data' = Append(data, v)
         /\ dataSize' = dataSize + IndexSize(v)
  /\ sequence' = Append(sequence, index)
  /\ UNCHANGED <<phase, params, decoderVars, result>>

\* No byte is left for the next index: return 0.
EncodeRefuse ==
  /\ phase = "encode" /\ Len(sequence) < params.count /\ ~HasRoom
  /\ phase' = "refused"
  /\ UNCHANGED <<params, encoderVars, decoderVars, result>>

\* The last index may have taken bytes of the tail: return 0, or else append the tail.
EncodeFinish ==
  /\ phase = "encode" /\ Len(sequence) = params.count
  /\ IF 1 + dataSize > params.bufferSize - TailSize
       THEN phase' = "refused" /\ UNCHANGED result
       ELSE phase' = "encoded" /\ result' = 1 + dataSize + TailSize
  /\ UNCHANGED <<params, encoderVars, decoderVars>>

-----------------------------------------------------------------------------
(* meshopt_decodeIndexSequence *)

StreamSize == result - params.cut

\* A mistake: reading may start at the tail.
HasDataLax == 1 + takenSize <= StreamSize - TailSize

\* data < data_safe_end
HasData == 1 + takenSize < StreamSize - TailSize

\* The integer that starts where the decoder reads; every one that it is allowed to start is
\* there as a whole, since the cut is at least as long as the tail that covers for it.
NextInteger == data[Len(out) + 1]

\* The header is the encoder's own, so that the error -1 of a foreign one does not arise.
DecodeStart ==
  /\ phase = "encoded"
  /\ IF StreamSize < MinSize(params.count)
       THEN phase' = "failed" /\ result' = -2
       ELSE phase' = "decode" /\ UNCHANGED result
  /\ UNCHANGED <<params, encoderVars, decoderVars>>

Decode ==
  /\ phase = "decode" /\ Len(out) < params.count /\ HasData
  /\ LET base  == NextInteger % 2
         index == Plus(decLast[base], UnZigZag(NextInteger \div 2))
     IN  /\ decLast' = [decLast EXCEPT ![base] = index]
         /\ out' = Append(out, Narrow(index, params.indexSize))
  /\ takenSize' = takenSize + IndexSize(NextInteger)
  /\ UNCHANGED <<phase, params, encoderVars, result>>

DecodeTruncated ==
  /\ phase = "decode" /\ Len(out) < params.count /\ ~HasData
  /\ phase' = "failed" /\ result' = -2
  /\ UNCHANGED <<params, encoderVars, decoderVars>>

\* A mistake: whatever follows the last index is ignored.
DecodeFinishLax ==
  /\ phase = "decode" /\ Len(out) = params.count
  /\ phase' = "done" /\ result' = 0
  /\ UNCHANGED <<params, encoderVars, decoderVars>>

\* All data bytes must have been read: return 0, or else -3.
DecodeFinish ==
  /\ phase = "decode" /\ Len(out) = params.count
  /\ IF 1 + takenSize = StreamSize - TailSize
       THEN phase' = "done" /\ result' = 0
       ELSE phase' = "failed" /\ result' = -3
  /\ UNCHANGED <<params, encoderVars, decoderVars>>

Returned ==
  /\ phase \in {"refused", "failed", "done"}
  /\ UNCHANGED vars

Next ==
  \/ EncodeStart
  \/ \E index \in Inputs : Encode(index)
  \/ EncodeRefuse
  \/ EncodeFinish
  \/ DecodeStart
  \/ Decode
  \/ DecodeTruncated
  \/ DecodeFinish
  \/ Returned

Spec == Init /\ [][Next]_vars

-----------------------------------------------------------------------------
(* What the codec has to guarantee. *)

TypeOK ==
  /\ phase \in {"idle", "encode", "refused", "encoded", "decode", "failed", "done"}
  /\ params \in [count : 0..MaxIndices, bufferSize : Int, indexSize : {2, 4}, cut : Nat]
  /\ sequence \in Seq(Inputs)
  /\ last \in [0..1 -> Index] /\ current \in 0..1 /\ decLast \in [0..1 -> Index]
  /\ data \in Seq(Index) /\ dataSize \in Nat
  /\ takenSize \in Nat
  /\ out \in Seq(Index)
  /\ result \in Int

\* The decoder gives back the sequence, index by index, as far as it has come, also from a cut
\* stream up to where it is found out (the codec neither reorders nor rotates, README.md:799).  A
\* whole stream is accepted and a cut one is rejected (demo/tests.cpp, decodeIndexSequenceMemorySafe).
Exact ==
  /\ TypeOK
  /\ \A k \in 1..Len(out) : out[k] = Narrow(sequence[k], params.indexSize)
  /\ phase = "failed" => params.cut > 0
  /\ phase = "done" => params.cut = 0 /\ Len(out) = Len(sequence)

\* A buffer of meshopt_encodeIndexSequenceBound bytes always suffices (src/meshoptimizer.h).
BoundSuffices == phase = "refused" => params.bufferSize < Bound(params.count)

\* Writes stay inside the buffer although an index may be longer than the room that is checked,
\* and reads stay inside the stream.
NoOverrun ==
  /\ phase \in {"encode", "encoded"} => 1 + dataSize <= params.bufferSize
  /\ phase = "encoded" => result <= params.bufferSize
  /\ phase = "decode" => 1 + takenSize <= StreamSize

\* Besides, a buffer of the documented size is not refused.
InBounds == BoundSuffices /\ NoOverrun

\* What the two rely on.  The difference of two indices has a bit to spare, which v << 1 drops:
\* it does for meshes of up to 2^30 vertices.  And every index is one of a vertex.
SpareBit == \A i \in Inputs, j \in Inputs \cup {0} : ZigZag(Minus(i, j)) < Modulus \div 2
InMesh   == \A i \in Inputs : i < VertexCount
=============================================================================
