------------------------------ MODULE VertexCodec ------------------------------
(***************************************************************************)
(* The vertex codec of src/vertexcodec.cpp.  Vertices are cut into blocks; *)
(* byte k of all vertices of a block forms a byte channel, whose           *)
(* differences to the vertex before are written in groups of GroupSize:    *)
(* a value that does not fit the bits of its group is replaced by the      *)
(* sentinel 1...1 and follows the group as a whole byte.                   *)
(*                                                                         *)
(* meshopt_encodeVertexBufferLevel is followed by                          *)
(* meshopt_decodeVertexBuffer on its output, which may have been cut or    *)
(* extended and may have another header.  A step handles one byte channel  *)
(* of one block.  The estimates that choose the channel encodings are      *)
(* heuristics: the model chooses any encoding that the level allows.       *)
(* Offsets count from 0 as in the code; offset n of a sequence is its      *)
(* element n + 1.                                                          *)
(***************************************************************************)
EXTENDS Integers, Sequences, FiniteSets, FiniteSetsExt, SequencesExt, Functions

CONSTANTS
  GroupSize,   (* kByteGroupSize (16).                                       *)
  DecodeLimit, (* kByteGroupDecodeLimit: the longest coded group (24).       *)
  BlockBytes,  (* kVertexBlockSizeBytes (8192).                              *)
  BlockMax,    (* kVertexBlockMaxSize (256).                                 *)
  TailMin,     (* kTailMinSizeV0 and kTailMinSizeV1 by version (32, 24).     *)
  Rotations,   (* Rotations that estimateRotate may choose (0..7).           *)
  Meshes,      (* Vertex buffers: the size of a vertex and the vertices.     *)
  Calls        (* Arguments: version, level, slack (bytes by which the buffer *)
               (* misses the bound), cut (bytes that the stream loses, or    *)
               (* wins when negative), flip (added to its header byte) and   *)
               (* simd (which decoder the build has).                        *)

Byte  == 0..255
BitsV0 == <<0, 2, 4, 8>>
BitsV1 == <<0, 1, 2, 4, 8>>
VertexHeader == 160
Versions == 0..1

ASSUME SizesAssumption ==
  /\ GroupSize \in Nat \ {0} /\ GroupSize % 8 = 0
  /\ DecodeLimit = GroupSize \div 2 + GroupSize
  /\ BlockMax \in Nat \ {0} /\ BlockMax % GroupSize = 0
  /\ BlockBytes \in Nat
  /\ TailMin \in [Versions -> Nat] /\ \A v \in Versions : TailMin[v] >= DecodeLimit
  /\ Rotations \subseteq 0..7 /\ Rotations # {}

ASSUME InputsAssumption ==
  /\ Calls \subseteq [version : Versions, level : 0..3, slack : Int, cut : Int,
                      flip : 0..254 - VertexHeader, simd : BOOLEAN]
  /\ \A m \in Meshes :
       /\ m.size \in Nat \ {0} /\ m.size % 4 = 0 /\ m.size * GroupSize <= BlockBytes
       /\ m.vertices \in Seq([1..m.size -> Byte])

VARIABLES
  phase,      (* Where the two calls are.                                   *)
  mesh,       (* The vertex buffer.                                         *)
  call,       (* The arguments of the two calls.                            *)
  channels,   (* The encoding of each word of 4 bytes.                      *)
  offset,     (* Vertices that previous blocks hold.                        *)
  k,          (* The byte channel that comes next.                          *)
  control,    (* Offset of the block's control bytes.                       *)
  lastVertex, (* The vertex before the block.                               *)
  data,       (* The bytes written; from DecodeStart on, the stream read.   *)
  taken,      (* Bytes that the decoder has read.                           *)
  reach,      (* The end of the bytes touched so far in buffer or stream.   *)
  buffer,     (* The decoder's byte channels of a word.                     *)
  block,      (* The vertices of the decoder's block.                       *)
  out,        (* The vertices of the blocks decoded.                        *)
  result      (* What the last call returned: a size or an error.           *)

encoderVars == <<channels, lastVertex, data>>
decoderVars == <<taken, buffer, block, out>>
vars == <<phase, mesh, call, channels, offset, k, control, lastVertex, data, taken, reach,
          buffer, block, out, result>>

Count  == Len(mesh.vertices)
Zeros(n) == [i \in 1..n |-> 0]

-----------------------------------------------------------------------------
(* Sizes *)

BlockSize(size) ==
  LET fit == GroupSize * (BlockBytes \div (size * GroupSize))
  IN  IF fit < BlockMax THEN fit ELSE BlockMax

Groups(n)     == (n + GroupSize - 1) \div GroupSize
Aligned(n)    == Groups(n) * GroupSize
HeaderSize(n) == (Groups(n) + 3) \div 4

ControlSize(version) == IF version = 0 THEN 0 ELSE mesh.size \div 4

TailSize(version, size) == size + IF version = 0 THEN 0 ELSE size \div 4

TailPad(version, size) == Max({TailSize(version, size), TailMin[version]})

\* A mistake: the headers of the byte channels are forgotten.
BoundWithoutHeaders(count, size) ==
  LET blocks == (count + BlockSize(size) - 1) \div BlockSize(size)
  IN  1 + blocks * size * BlockSize(size)
        + Max({TailSize(1, size), TailMin[0], TailMin[1]})

\* meshopt_encodeVertexBufferBound
Bound(count, size) ==
  LET blocks == (count + BlockSize(size) - 1) \div BlockSize(size)
  IN  1 + blocks * size * (size \div 4 + HeaderSize(BlockSize(size)) + BlockSize(size))
        + Max({TailSize(1, size), TailMin[0], TailMin[1]})

\* Vertices of the current block.
BlockCount == Min({BlockSize(mesh.size), Count - offset})

BufferSize == Max({0, Bound(Count, mesh.size) - call.slack})

\* size_t(data_end - data) < need: the difference is unsigned.
Short(end, at, need) == at <= end /\ end - at < need

-----------------------------------------------------------------------------
(* Differences of vertices, byte by byte of a word: encodeDeltas1, decodeDeltas1 *)

ZigZag(d, modulus)   == IF d < modulus \div 2 THEN 2 * d ELSE 2 * (modulus - d) - 1
UnZigZag(v, modulus) == IF v % 2 = 0 THEN v \div 2 ELSE modulus - (v + 1) \div 2

\* Parts of a word w (4 bytes, the low one first).
Half(w, j)   == w[2 * (j \div 2) + 1] + 256 * w[2 * (j \div 2) + 2]
HalfByte(h, j) == IF j % 2 = 0 THEN h % 256 ELSE h \div 256
Bit(w, b)    == (w[b \div 8 + 1] \div 2^(b % 8)) % 2

\* Byte j of the word with the given bits.
FromBits(bits, j) == SumFunction([b \in 0..7 |-> bits[8 * j + b] * 2^b])

\* Byte j of the difference of the word v to the word p of the vertex before.
Delta(v, p, j, channel) ==
  CASE channel % 4 = 0 -> ZigZag((v[j + 1] - p[j + 1]) % 256, 256)
    [] channel % 4 = 1 -> HalfByte(ZigZag((Half(v, j) - Half(p, j)) % 65536, 65536), j)
    [] channel % 4 = 2 ->
         LET from(b) == (b - (channel \div 16)) % 32
         IN  FromBits([b \in 0..31 |-> (Bit(v, from(b)) + Bit(p, from(b))) % 2], j)

\* Byte j of the word whose difference to p is d.
Restore(d, p, j, channel) ==
  CASE channel % 4 = 0 -> (UnZigZag(d[j + 1], 256) + p[j + 1]) % 256
    [] channel % 4 = 1 -> HalfByte((UnZigZag(Half(d, j), 65536) + Half(p, j)) % 65536, j)
    [] channel % 4 = 2 ->
         FromBits([b \in 0..31 |-> (Bit(d, (b + (channel \div 16)) % 32) + Bit(p, b)) % 2], j)

Word(vertex, w) == SubSeq(vertex, 4 * w + 1, 4 * w + 4)

\* Byte channel k of the block, with zeros up to the next group.
Deltas ==
  LET vertex(i) == IF i = 0 THEN lastVertex ELSE mesh.vertices[offset + i]
      w == k \div 4
  IN  [i \in 1..Aligned(BlockCount) |->
         IF i > BlockCount THEN 0
         ELSE Delta(Word(vertex(i), w), Word(vertex(i - 1), w), k % 4, channels[w + 1])]

-----------------------------------------------------------------------------
(* Groups of bytes *)

Sentinel(bits) == 2^bits - 1
Fixed(bits)    == (GroupSize * bits) \div 8
Group(values, g) == SubSeq(values, g * GroupSize + 1, (g + 1) * GroupSize)

\* The values of a group that follow it as whole bytes, among the first n.
Escapes(values, bits, n) == Cardinality({i \in 1..n : values[i] >= Sentinel(bits)})

\* Where value i of a byte starts: groups of 1 bit have them in reverse order.
Shift(bits, i) == IF bits = 1 THEN i ELSE 8 - bits * (i + 1)

\* size_t(-1): more bytes than any group takes.
NoFit == 2 * GroupSize

\* A group of zeros takes no bits; other groups do not fit none.
Measure(values, bits) ==
  CASE bits = 0 -> IF \A i \in 1..GroupSize : values[i] = 0 THEN 0 ELSE NoFit
    [] bits = 8 -> GroupSize
    [] OTHER -> Fixed(bits) + Escapes(values, bits, GroupSize)

\* Byte n of the group's values in bits each.
Packed(fits, bits, n) ==
  LET perByte == 8 \div bits
  IN  SumFunction([i \in 0..perByte - 1 |-> fits[(n - 1) * perByte + i + 1] * 2^Shift(bits, i)])

\* The values that do not fit, in order.
Whole(values, bits) ==
  LET whole[i \in 0..GroupSize] ==
        IF i = 0 THEN <<>>
        ELSE IF values[i] >= Sentinel(bits) THEN Append(whole[i - 1], values[i]) ELSE whole[i - 1]
  IN  whole[GroupSize]

\* A mistake: values are not replaced by the sentinel.
CodedGroupWhole(values, bits) ==
  CASE bits = 0 -> <<>>
    [] bits = 8 -> values
    [] OTHER -> [n \in 1..Fixed(bits) |-> Packed(values, bits, n)] \o Whole(values, bits)

\* encodeBytesGroup
CodedGroup(values, bits) ==
  LET fits == [i \in 1..GroupSize |-> IF values[i] < Sentinel(bits) THEN values[i] ELSE Sentinel(bits)]
  IN  CASE bits = 0 -> <<>>
        [] bits = 8 -> values
        [] OTHER -> [n \in 1..Fixed(bits) |-> Packed(fits, bits, n)] \o Whole(values, bits)

\* The end of what encodeBytesGroup writes: the branchless append writes every value.
GroupReach(values, bits) ==
  CASE bits = 0 -> 0
    [] bits = 8 -> GroupSize
    [] OTHER -> Fixed(bits) + Escapes(values, bits, GroupSize - 1) + 1

\* The shortest of the four encodings: literals only if they win, the bits of the group before
\* rather than others of the same size.
BestBits(values, bits, lastBits) ==
  LET Better(best, b) ==
        IF \/ Measure(values, bits[b + 1]) < Measure(values, bits[best + 1])
           \/ /\ Measure(values, bits[b + 1]) = Measure(values, bits[best + 1])
              /\ bits[b + 1] = lastBits /\ bits[best + 1] # 8
        THEN b ELSE best
  IN  Better(Better(Better(3, 0), 1), 2)

\* One round of encodeBytes: group g of the values, whose groups start at the offset start.
EncodeGroup(s, values, bits, g, start) ==
  LET grp  == Group(values, g - 1)
      best == BestBits(grp, bits, s.lastBits)
      here == start + Len(s.groups)
  IN  IF ~s.ok \/ Short(BufferSize, here, DecodeLimit) THEN [s EXCEPT !.ok = FALSE]
      ELSE [header   |-> [s.header EXCEPT ![((g - 1) \div 4) + 1] = @ + best * 2^(2 * ((g - 1) % 4))],
            groups   |-> s.groups \o CodedGroup(grp, bits[best + 1]),
            lastBits |-> bits[best + 1],
            reach    |-> Max({s.reach, here + GroupReach(grp, bits[best + 1])}),
            ok       |-> TRUE]

\* encodeBytes at the offset at: the header's bits, the groups, and whether there was room.
EncodedBytes(values, bits, at) ==
  LET n    == Len(values) \div GroupSize
      size == HeaderSize(Len(values))
      room == ~Short(BufferSize, at, size)
      step[g \in 0..n] ==
        IF g = 0
        THEN [header |-> Zeros(size), groups |-> <<>>, lastBits |-> -1,
              reach |-> IF room THEN at + size ELSE at, ok |-> room]
        ELSE EncodeGroup(step[g - 1], values, bits, g, at + size)
  IN  step[n]

\* The bytes that the four encodings of a control value choose from.
BitsOf(version, ctrl) == IF version = 0 THEN BitsV0 ELSE SubSeq(BitsV1, ctrl + 1, ctrl + 4)

\* The bytes of all groups, each in the shortest of 1, 2, 4 and last bits.
GroupsSize(values, last) ==
  SumFunction([g \in 1..Len(values) \div GroupSize |-> Min({Measure(Group(values, g - 1), b) : b \in {1, 2, 4, last}})])

\* estimateControl: 2 for zeros, 3 for literals, 0 and 1 for groups without 8 or 0 bits.
Control(values) ==
  LET estimate(last) == HeaderSize(Len(values)) + GroupsSize(values, last)
  IN  IF \A i \in DOMAIN values : values[i] = 0 THEN 2
      ELSE IF call.level = 0 THEN 1
      ELSE IF estimate(0) >= BlockCount /\ estimate(8) >= BlockCount THEN 3
      ELSE IF estimate(0) < estimate(8) THEN 0 ELSE 1

-----------------------------------------------------------------------------
(* meshopt_encodeVertexBufferLevel *)

AllowedChannels ==
  IF call.version = 0 \/ call.level <= 1 \/ Count <= 1 THEN {0}
  ELSE {0, 1} \cup IF call.level >= 3 THEN {2 + 16 * r : r \in Rotations} ELSE {}

FirstVertex == IF Count > 0 THEN mesh.vertices[1] ELSE Zeros(mesh.size)

\* A mistake: each block starts from the vertex that the first one starts from.
EncodeLastStale == lastVertex

\* last_vertex after a block.
EncodeLast == mesh.vertices[offset + BlockCount]

ControlOfChannel == IF call.version = 0 THEN 0 ELSE Control(Deltas)

\* Byte channel k as it is written at the end of data.
Coded ==
  LET at   == Len(data)
      ctrl == ControlOfChannel
      room == ~Short(BufferSize, at, BlockCount)
  IN  CASE ctrl = 2 -> [bytes |-> <<>>, reach |-> at, ok |-> TRUE]
        [] ctrl = 3 -> [bytes |-> SubSeq(Deltas, 1, BlockCount),
                        reach |-> IF room THEN at + BlockCount ELSE at, ok |-> room]
        [] OTHER ->
             LET e == EncodedBytes(Deltas, BitsOf(call.version, ctrl), at)
             IN  [bytes |-> e.header \o e.groups, reach |-> e.reach, ok |-> e.ok]

Init ==
  /\ phase = "idle"
  /\ mesh \in Meshes /\ call \in Calls
  /\ channels = Zeros(mesh.size \div 4) /\ lastVertex = Zeros(mesh.size)
  /\ offset = 0 /\ k = 0 /\ control = 0
  /\ data = <<>> /\ taken = 0 /\ reach = 0
  /\ buffer = Zeros(4 * BlockMax) /\ block = <<>> /\ out = <<>>
  /\ result = 0

Refuse == phase' = "refused" /\ result' = 0

EncodeStart ==
  /\ phase = "idle"
  /\ IF BufferSize < 1
       THEN Refuse /\ UNCHANGED <<encoderVars, reach>>
       ELSE /\ phase' = "encode" /\ UNCHANGED result
            /\ data' = <<VertexHeader + call.version>> /\ reach' = 1
            /\ lastVertex' = FirstVertex
            /\ channels' \in [1..mesh.size \div 4 -> AllowedChannels]
  /\ UNCHANGED <<mesh, call, offset, k, control, decoderVars>>

\* encodeVertexBlock up to its loop: the control bytes.
EncodeBlock ==
  /\ phase = "encode" /\ offset < Count
  /\ IF Short(BufferSize, Len(data), ControlSize(call.version))
       THEN Refuse /\ UNCHANGED <<k, control, data, reach>>
       ELSE /\ phase' = "encodeChannels" /\ UNCHANGED result
            /\ k' = 0 /\ control' = Len(data)
            /\ data' = data \o Zeros(ControlSize(call.version))
            /\ reach' = Max({reach, Len(data')})
  /\ UNCHANGED <<mesh, call, channels, offset, lastVertex, decoderVars>>

\* One byte channel; the last one ends the block.
EncodeChannel ==
  /\ phase = "encodeChannels" /\ Coded.ok
  /\ LET at == control + (k \div 4) + 1
     IN  data' = (IF call.version = 0 THEN data
                  ELSE [data EXCEPT ![at] = @ + ControlOfChannel * 2^(2 * (k % 4))]) \o Coded.bytes
  /\ reach' = Max({reach, Coded.reach})
  /\ k' = k + 1
  /\ IF k' < mesh.size
       THEN UNCHANGED <<phase, offset, lastVertex>>
       ELSE /\ phase' = "encode"
            /\ offset' = offset + BlockCount /\ lastVertex' = EncodeLast
  /\ UNCHANGED <<mesh, call, channels, control, decoderVars, result>>

\* No room for the byte channel: return 0.
EncodeRefuse ==
  /\ phase = "encodeChannels" /\ ~Coded.ok
  /\ Refuse
  /\ reach' = Max({reach, Coded.reach})
  /\ UNCHANGED <<mesh, call, encoderVars, offset, k, control, decoderVars>>

\* The tail: padding, the first vertex and the encodings of the words.
EncodeFinish ==
  /\ phase = "encode" /\ offset = Count
  /\ LET tail == TailSize(call.version, mesh.size)
         pad  == TailPad(call.version, mesh.size)
     IN  IF Short(BufferSize, Len(data), pad)
           THEN Refuse /\ UNCHANGED <<data, reach>>
           ELSE /\ phase' = "encoded"
                /\ data' = data \o Zeros(pad - tail) \o FirstVertex
                             \o (IF call.version = 0 THEN <<>> ELSE channels)
                /\ reach' = Max({reach, Len(data')})
                /\ result' = Len(data')
  /\ UNCHANGED <<mesh, call, channels, offset, k, control, lastVertex, decoderVars>>

-----------------------------------------------------------------------------
(* meshopt_decodeVertexBuffer *)

\* What the decoder is given.
Stream ==
  LET s == IF call.cut >= 0 THEN SubSeq(data, 1, Len(data) - call.cut)
           ELSE data \o Zeros(-call.cut)
  IN  IF s = <<>> THEN s ELSE [s EXCEPT ![1] = @ + call.flip]

At(n) == IF n < Len(data) THEN data[n + 1] ELSE 0

DecodedVersion == data[1] % 16

\* Bytes per byte channel of buffer.
Stride == IF call.simd THEN Aligned(BlockCount) ELSE BlockCount

\* The end of what a group's decoder reads: the vector one loads a whole group of bytes.
ReadReach(bits, at, escaped) ==
  CASE bits = 8 -> at + GroupSize
    [] bits = 0 -> IF call.simd THEN at + GroupSize ELSE at
    [] OTHER -> at + Fixed(bits) + IF call.simd THEN GroupSize ELSE escaped + 1

\* A group that is read at the offset at: decodeBytesGroup, decodeBytesGroupSimd.
ReadGroup(bits, at) ==
  LET perByte == 8 \div bits
      enc  == [i \in 1..GroupSize |->
                 (At(at + (i - 1) \div perByte) \div 2^Shift(bits, (i - 1) % perByte)) % 2^bits]
      body == Fixed(bits)
  IN  CASE bits = 0 -> [values |-> Zeros(GroupSize), next |-> at,
                        reach |-> ReadReach(bits, at, 0)]
        [] bits = 8 -> [values |-> [i \in 1..GroupSize |-> At(at + i - 1)],
                        next |-> at + GroupSize, reach |-> ReadReach(bits, at, 0)]
        [] OTHER ->
             [values |-> [i \in 1..GroupSize |->
                            IF enc[i] = Sentinel(bits)
                            THEN At(at + body + Escapes(enc, bits, i - 1)) ELSE enc[i]],
              next   |-> at + body + Escapes(enc, bits, GroupSize),
              reach  |-> ReadReach(bits, at, Escapes(enc, bits, GroupSize - 1))]

\* A mistake: a group may be read as long as a byte is left.
NoGroupLeftLax(at) == Short(Len(data), at, 1)

\* size_t(data_end - data) < kByteGroupDecodeLimit
NoGroupLeft(at) == Short(Len(data), at, DecodeLimit)

\* One round of decodeBytes: group g.
DecodeGroup(s, bits, g) ==
  LET h == (At(taken + ((g - 1) \div 4)) \div 2^(2 * ((g - 1) % 4))) % 4
      r == ReadGroup(bits[h + 1], s.next)
  IN  IF ~s.ok \/ NoGroupLeft(s.next) THEN [s EXCEPT !.ok = FALSE]
      ELSE [values |-> s.values \o r.values, next |-> r.next,
            reach |-> Max({s.reach, r.reach}), ok |-> TRUE]

\* decodeBytes and decodeBytesSimd, whose shared check for four groups is met only when the
\* check of each group would be met as well.
DecodedBytes(bits) ==
  LET n     == Groups(BlockCount)
      start == taken + HeaderSize(BlockCount)
      there == ~Short(Len(data), taken, HeaderSize(BlockCount))
      step[g \in 0..n] ==
        IF g = 0
        THEN [values |-> <<>>, next |-> start, reach |-> IF there THEN start ELSE taken,
              ok |-> there]
        ELSE DecodeGroup(step[g - 1], bits, g)
  IN  step[n]

\* A mistake: the vector decoder checks for the bytes it needs, not for those it copies.
LiteralSizeBare == BlockCount

\* Bytes of a literal channel that are copied.
LiteralSize == Stride

\* Byte channel k as it is read at the offset taken.
Decoded ==
  LET ctrl  == IF DecodedVersion = 0 THEN 0 ELSE (At(control + (k \div 4)) \div 2^(2 * (k % 4))) % 4
      there == ~Short(Len(data), taken, LiteralSize)
  IN  CASE ctrl = 3 -> [values |-> [i \in 1..Stride |-> At(taken + i - 1)],
                        next   |-> taken + BlockCount,
                        reach  |-> IF there THEN taken + Stride ELSE taken, ok |-> there]
        [] ctrl = 2 -> [values |-> Zeros(Stride), next |-> taken, reach |-> taken, ok |-> TRUE]
        [] OTHER -> DecodedBytes(BitsOf(DecodedVersion, ctrl))

\* Bytes written over a sequence from the offset at on.
Written(s, at, values) ==
  [i \in 1..Max({Len(s), at + Len(values)}) |->
     IF i \in at + 1..at + Len(values) THEN values[i - at] ELSE s[i]]

\* Word w of the block's vertices: decodeDeltas1.
Restored(w) ==
  LET d(i) == [j \in 1..4 |-> buffer[(j - 1) * Stride + i]]
      v[i \in 0..BlockCount] ==
        IF i = 0 THEN Word(lastVertex, w)
        ELSE LET p == v[i - 1]
                 r(j) == Restore(d(i), p, j, channels[w + 1])
             IN  <<r(0), r(1), r(2), r(3)>>
  IN  [i \in 1..BlockCount |-> Written(block[i], 4 * w, v[i])]

Fail(code) == phase' = "failed" /\ result' = code

DecodeStart ==
  /\ phase = "encoded"
  /\ data' = Stream
  /\ offset' = 0 /\ k' = 0 /\ control' = 0
  /\ reach' = Min({1, Len(data')}) /\ taken' = reach'
  /\ IF data' = <<>> THEN Fail(-2) /\ UNCHANGED <<lastVertex, channels>>
     ELSE LET version == data'[1] % 16
              tail    == Len(data') - TailSize(version, mesh.size)
          IN  IF data'[1] - version # VertexHeader \/ version \notin Versions
                THEN Fail(-1) /\ UNCHANGED <<lastVertex, channels>>
              ELSE IF Short(Len(data'), 1, TailPad(version, mesh.size))
                THEN Fail(-2) /\ UNCHANGED <<lastVertex, channels>>
              ELSE /\ phase' = "decode" /\ UNCHANGED result
                   /\ lastVertex' = SubSeq(data', tail + 1, tail + mesh.size)
                   /\ channels' = IF version = 0 THEN Zeros(mesh.size \div 4)
                                  ELSE SubSeq(data', tail + mesh.size + 1, Len(data'))
  /\ UNCHANGED <<mesh, call, buffer, block, out>>

\* decodeVertexBlock, decodeVertexBlockSimd up to their loop.
DecodeBlock ==
  /\ phase = "decode" /\ offset < Count
  /\ IF Short(Len(data), taken, ControlSize(DecodedVersion))
       THEN Fail(-2) /\ UNCHANGED <<k, control, taken, reach, block>>
       ELSE /\ phase' = "decodeChannels" /\ UNCHANGED result
            /\ k' = 0 /\ control' = taken
            /\ taken' = taken + ControlSize(DecodedVersion)
            /\ reach' = Max({reach, taken'})
            /\ block' = [i \in 1..BlockCount |-> Zeros(mesh.size)]
  /\ UNCHANGED <<mesh, call, encoderVars, offset, buffer, out>>

DecodeChannel ==
  /\ phase = "decodeChannels" /\ Decoded.ok
  /\ buffer' = Written(buffer, (k % 4) * Stride, Decoded.values)
  /\ taken' = Decoded.next
  /\ reach' = Max({reach, Decoded.reach})
  /\ k' = k + 1
  /\ phase' = IF k' % 4 = 0 THEN "decodeDeltas" ELSE phase
  /\ UNCHANGED <<mesh, call, encoderVars, offset, control, block, out, result>>

DecodeTruncated ==
  /\ phase = "decodeChannels" /\ ~Decoded.ok
  /\ Fail(-2)
  /\ reach' = Max({reach, Decoded.reach})
  /\ UNCHANGED <<mesh, call, encoderVars, offset, k, control, decoderVars>>

\* A word is complete; the last one ends the block.
DecodeDeltas ==
  /\ phase = "decodeDeltas" /\ channels[k \div 4] % 4 # 3
  /\ block' = Restored(k \div 4 - 1)
  /\ IF k < mesh.size
       THEN phase' = "decodeChannels" /\ UNCHANGED <<offset, lastVertex, out>>
       ELSE /\ phase' = "decode"
            /\ out' = out \o block'
            /\ lastVertex' = block'[BlockCount]
            /\ offset' = offset + BlockCount
  /\ UNCHANGED <<mesh, call, channels, k, control, data, taken, reach, buffer, result>>

\* An encoding that does not exist, in a stream whose tail has moved.
DecodeInvalid ==
  /\ phase = "decodeDeltas" /\ channels[k \div 4] % 4 = 3
  /\ Fail(-2)
  /\ UNCHANGED <<mesh, call, encoderVars, offset, k, control, reach, decoderVars>>

\* A mistake: what follows the last block is ignored.
DecodeFinishLax ==
  /\ phase = "decode" /\ offset = Count
  /\ phase' = "done" /\ result' = 0
  /\ UNCHANGED <<mesh, call, encoderVars, offset, k, control, reach, decoderVars>>

\* Exactly the tail must be left: return 0, or else -3.
DecodeFinish ==
  /\ phase = "decode" /\ offset = Count
  /\ IF Len(data) - taken # TailPad(DecodedVersion, mesh.size) THEN Fail(-3)
     ELSE phase' = "done" /\ result' = 0
  /\ UNCHANGED <<mesh, call, encoderVars, offset, k, control, reach, decoderVars>>

Returned ==
  /\ phase \in {"refused", "failed", "done"}
  /\ UNCHANGED vars

Next ==
  \/ EncodeStart
  \/ EncodeBlock
  \/ EncodeChannel
  \/ EncodeRefuse
  \/ EncodeFinish
  \/ DecodeStart
  \/ DecodeBlock
  \/ DecodeChannel
  \/ DecodeTruncated
  \/ DecodeDeltas
  \/ DecodeInvalid
  \/ DecodeFinish
  \/ Returned

Spec == Init /\ [][Next]_vars

-----------------------------------------------------------------------------
(* What the codec has to guarantee. *)

TypeOK ==
  /\ phase \in {"idle", "encode", "encodeChannels", "refused", "encoded", "decode",
                "decodeChannels", "decodeDeltas", "failed", "done"}
  /\ mesh \in Meshes /\ call \in Calls
  /\ channels \in Seq(Byte) /\ Len(channels) = mesh.size \div 4
  /\ lastVertex \in Seq(Byte) /\ Len(lastVertex) = mesh.size
  /\ offset \in 0..Count /\ k \in 0..mesh.size /\ control \in Nat
  /\ data \in Seq(Byte)
  /\ taken \in Nat /\ reach \in Nat
  /\ buffer \in Seq(Byte)
  /\ block \in Seq(Seq(Byte)) /\ out \in Seq(Seq(Byte))
  /\ result \in Int

Intact == call.cut = 0 /\ call.flip = 0

\* Every vertex comes back byte by byte, whatever the encodings, groups and blocks that it
\* passed through, from the scalar and from the vector decoder ("all vertex_size bytes of each
\* vertex are encoded verbatim", src/meshoptimizer.h).  The stream as it was written is accepted; one
\* that lost bytes, got further ones or has the header of another format is rejected
\* (demo/tests.cpp: decodeVertexMemorySafe, decodeVertexRejectExtraBytes,
\* decodeVertexRejectMalformedHeaders).
Lossless ==
  /\ TypeOK
  /\ Intact => IsPrefix(out, mesh.vertices)
  /\ phase = "failed" => ~Intact
  /\ phase = "done" => Intact /\ Len(out) = Count

\* The branchless writes of the encoder stay inside its buffer, the loads of both decoders
\* inside the stream although they read past what they use, and the padding of the byte
\* channels inside the decoder's scratch memory; a buffer of meshopt_encodeVertexBufferBound
\* bytes suffices for each level and version.
BoundSuffices == phase = "refused" => BufferSize < Bound(Count, mesh.size)
EncoderInside == phase \in {"encode", "encodeChannels", "encoded", "refused"} => reach <= BufferSize
DecoderInside ==
  /\ phase \in {"decode", "decodeChannels", "decodeDeltas", "failed", "done"} => reach <= Len(data)
  /\ Len(buffer) = 4 * BlockMax

InBounds == BoundSuffices /\ EncoderInside /\ DecoderInside
=============================================================================
