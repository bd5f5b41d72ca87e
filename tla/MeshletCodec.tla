----------------------------- MODULE MeshletCodec -----------------------------
(***************************************************************************)
(* The meshlet codec of src/meshletcodec.cpp.  A triangle is a code of 4   *)
(* bits: the edge it shares with one of the last three triangles and       *)
(* whether its third vertex is the next new one, or a restart with up to   *)
(* three vertices as extra bytes.  Vertex references are zigzag encoded    *)
(* differences, in groups of four with a control byte.  Control bytes and  *)
(* codes are at the end of the stream, where the decoder finds them from   *)
(* its size; a gap makes sure that 16 bytes can be read past the data.     *)
(*                                                                         *)
(* meshopt_encodeMeshlet is followed by a decoder: the portable one, the   *)
(* one for vector units, or its raw form.  A step handles one triangle, or *)
(* one group of vertices or triangles that the decoder checks as a whole.  *)
(* A data byte has ByteBits bits (8); the vertices of a meshlet and the    *)
(* values of next stay below ByteValues, those of vertex references below  *)
(* Modulus.  Code and control bytes have 8 bits.                           *)
(***************************************************************************)
EXTENDS Varint, MeshletOptimizer

CONSTANTS
  ByteBits,   (* Bits of a data byte (8).                                  *)
  Calls       (* Decoders: kind (scalar, simd, raw), vsize (4, 2) and      *)
              (* tsize (4, 3), bytes of the stream lost at its head and at *)
              (* its tail, and bytes that the encoder's buffer lacks.      *)

ByteValues == 2^ByteBits
OverRead   == 16

ASSUME CodecAssumption ==
  /\ ByteBits \in 1..8
  /\ Width = 4 * ByteBits /\ ShortWidth = 2 * ByteBits
  /\ Calls \subseteq [kind : {"scalar", "simd", "raw"}, vsize : {2, 4}, tsize : {3, 4},
                      head : Nat, tail : Nat, lacks : Nat]
  /\ \A c \in Calls : c.kind = "raw" => c.vsize = 4 /\ c.tsize = 4

\* A local index fits a byte (meshletcodec.cpp:916, meshletutils.cpp:617), a vertex an index.
ASSUME MeshletAssumption ==
  \A l \in Lists : VerticesOf(l) \subseteq Index /\ Cardinality(VerticesOf(l)) <= ByteValues

VARIABLES
  mesh,       (* vertices and triangles of the meshlet that is encoded.    *)
  phase,      (* idle, encode, decode or done.                             *)
  fifo,       (* The last edges, newest first.                             *)
  next,       (* The vertex that is expected to be used next.              *)
  codes,      (* The codes of the triangles.                               *)
  extra,      (* The extra vertices.                                       *)
  history,    (* Of every encoded triangle, for the proofs only: how it    *)
              (* was turned, next, and how many extra vertices came before.*)
  stream,     (* The bytes that the decoder gets.                          *)
  call,       (* The decoder.                                              *)
  dec         (* Its state.                                                *)

encoderVars == <<fifo, next, codes, extra, history>>
codecVars == <<mesh, phase, encoderVars, stream, call, dec>>

VertexCount   == Len(mesh.vertices)
TriangleCount == Len(mesh.triangles)
Up(n, unit)   == (n + unit - 1) \div unit
Total(s)      == s[1] + s[2] + s[3] + s[4]
Zeros(n)      == [i \in 1..n |-> 0]
Smaller(m, n) == IF m < n THEN m ELSE n
Larger(m, n)  == IF m < n THEN n ELSE m

\* t with its corner k + 1 in front.
Rotated(t, k) == [n \in 1..3 |-> t[((n + k - 1) % 3) + 1]]

CodesSize == Up(TriangleCount, 2)
CtrlSize  == Up(VertexCount, 4)

\* A mistake: the gap counts the control bytes twice.
GapTooSmall == IF CodesSize + 2 * CtrlSize < OverRead THEN OverRead - (CodesSize + 2 * CtrlSize) ELSE 0

GapSize == IF CodesSize + CtrlSize < OverRead THEN OverRead - (CodesSize + CtrlSize) ELSE 0

\* A mistake: the bytes of missing references in the last group are not counted.
BoundExact == CodesSize + 3 * TriangleCount + CtrlSize + 4 * VertexCount + GapSize

Bound == CodesSize + 3 * TriangleCount + CtrlSize + 16 * CtrlSize + GapSize

-----------------------------------------------------------------------------
(* The encoder *)

\* No decoder is at work.
NoDecoder == [data |-> 0, vertices |-> <<>>, triangles |-> <<>>, last |-> 0, groups |-> 0, pairs |-> 0,
              state |-> <<>>, reach |-> 0, verdict |-> 1]

CodecIdle ==
  /\ phase = "idle"
  /\ mesh = [vertices |-> <<>>, triangles |-> <<>>]
  /\ fifo = <<>> /\ next = 0 /\ codes = <<>> /\ extra = <<>> /\ history = <<>>
  /\ stream = <<>>
  /\ call \in Calls
  /\ dec = NoDecoder

\* A call of meshopt_encodeMeshlet with meshlet m.
StartEncode(m) ==
  /\ phase = "idle"
  /\ phase' = "encode"
  /\ mesh' = m
  /\ UNCHANGED <<encoderVars, stream, call, dec>>

\* The newest edge of fifo that t starts with when it is turned: its age and the turn.
StartsWith(t, e) == e = <<t[1], t[2]>>
EdgeAges(t) == {i \in 0..Len(fifo) - 1 : \E k \in 0..2 : StartsWith(Rotated(t, k), fifo[i + 1])}
EdgeAge(t) == Min(EdgeAges(t))
EdgeCorner(t, age) == Min({k \in 0..2 : StartsWith(Rotated(t, k), fifo[age + 1])})

Pushed(t) ==
  LET all == <<<<t[1], t[3]>>, <<t[3], t[2]>>>> \o fifo
  IN  SubSeq(all, 1, Smaller(8, Len(all)))

\* A mistake: an edge of a fourth triangle has no code.
ReusableTooOld(t) == EdgeAges(t) # {} /\ EdgeAge(t) < 8

\* Codes refer to the edges of three triangles.
Reusable(t) == EdgeAges(t) # {} /\ EdgeAge(t) < 6

\* The encoder turned the next triangle to t.
Noted(t) == history' = Append(history, [t |-> t, next |-> next, at |-> Len(extra)])

EncodeReuse ==
  /\ phase = "encode" /\ Len(codes) < TriangleCount
  /\ LET t   == mesh.triangles[Len(codes) + 1]
         age == EdgeAge(t)
         r   == Rotated(t, EdgeCorner(t, age))
         fec == IF r[3] = next THEN 0 ELSE 1
     IN  /\ Reusable(t)
         /\ codes' = Append(codes, age * 2 + fec)
         /\ extra' = IF fec = 1 THEN Append(extra, r[3]) ELSE extra
         /\ next' = next + 1 - fec
         /\ fifo' = Pushed(r)
         /\ Noted(r)
  /\ UNCHANGED <<mesh, phase, stream, call, dec>>

\* rotateTriangle, for corners that follow next to be the last ones.
RestartTurn(t) ==
  IF t[1] > t[2] /\ t[1] > t[3] THEN 1 ELSE IF t[2] > t[3] THEN 2 ELSE 0

\* How many corners at the end of t are next, next + 1, ...
FreshCorners(t) == Max({n \in 0..3 : \A j \in 1..n : t[3 - n + j] = next + j - 1})

EncodeRestart ==
  /\ phase = "encode" /\ Len(codes) < TriangleCount
  /\ LET t     == mesh.triangles[Len(codes) + 1]
         r     == Rotated(t, RestartTurn(t))
         fresh == FreshCorners(r)
     IN  /\ ~Reusable(t)
         /\ codes' = Append(codes, 12 + 3 - fresh)
         /\ extra' = extra \o SubSeq(r, 1, 3 - fresh)
         /\ next' = next + fresh
         /\ fifo' = Pushed(r)
         /\ Noted(r)
  /\ UNCHANGED <<mesh, phase, stream, call, dec>>

\* The zigzag encoded difference of reference i; a missing one counts as 0.
Before(i) == IF i = 1 THEN Modulus - 1 ELSE mesh.vertices[i - 1]
Reference(i) ==
  IF i > VertexCount THEN 0 ELSE ZigZag(Minus(Minus(mesh.vertices[i], Before(i)), 1))
GroupValues(g) == [n \in 1..4 |-> Reference(4 * (g - 1) + n)]

\* v without its 0 to 3 low bytes, and its bytes.
Highs(v) == <<v, v \div ByteValues, (v \div ByteValues) \div ByteValues,
              ((v \div ByteValues) \div ByteValues) \div ByteValues>>
Bytes(v) == [j \in 1..4 |-> Highs(v)[j] % ByteValues]

\* A mistake: three bytes for all values, whose control byte means four bytes.
Use4Needed(values) == \E n \in 1..4 : Highs(values[n])[4] > 0

\* All values have four bytes if one needs them, or if all would have three.
Use4(values) ==
  \/ \E n \in 1..4 : Highs(values[n])[4] > 0
  \/ \A n \in 1..4 : Highs(values[n])[3] > 0

SizeCode(values, n) ==
  LET h == Highs(values[n])
  IN  IF Use4(values) THEN 3
      ELSE IF h[1] = 0 THEN 0 ELSE IF h[2] = 0 THEN 1 ELSE IF h[3] = 0 THEN 2 ELSE 3

ValueData(values, n) == SubSeq(Bytes(values[n]), 1, IF Use4(values) THEN 4 ELSE SizeCode(values, n))

GroupData(g) ==
  LET data(n) == ValueData(GroupValues(g), n) IN ((data(1) \o data(2)) \o data(3)) \o data(4)

\* The bytes of the first groups.
DataUpTo[g \in 0..CtrlSize] == IF g = 0 THEN <<>> ELSE DataUpTo[g - 1] \o GroupData(g)

\* The low bits of the four sizes, then the high bits.
Nibble4(bits) == bits[1] + 2 * bits[2] + 4 * bits[3] + 8 * bits[4]
CtrlOf(sizes) ==
  Nibble4([n \in 1..4 |-> sizes[n] % 2]) + 16 * Nibble4([n \in 1..4 |-> sizes[n] \div 2])
GroupCtrl(g) == CtrlOf([n \in 1..4 |-> SizeCode(GroupValues(g), n)])

PackedCodes ==
  [n \in 1..CodesSize |->
     codes[2 * n - 1] + 16 * (IF 2 * n <= TriangleCount THEN codes[2 * n] ELSE 0)]

\* The references are encoded and the parts put in order, unless the buffer is too small.
FinishEncode ==
  /\ phase = "encode" /\ Len(codes) = TriangleCount
  /\ LET ctrl  == [g \in 1..CtrlSize |-> GroupCtrl(g)]
         bytes == (((DataUpTo[CtrlSize] \o extra) \o Zeros(GapSize)) \o ctrl) \o PackedCodes
         got   == SubSeq(bytes, call.head + 1, Len(bytes) - call.tail)
         fits  == Len(bytes) + call.lacks <= Bound
     IN  IF fits /\ call.head + call.tail <= Len(bytes)
         THEN stream' = got /\ phase' = "decode"
         ELSE stream' = <<>> /\ phase' = (IF fits THEN "decode" ELSE "refused")
  /\ UNCHANGED <<mesh, encoderVars, call, dec>>

-----------------------------------------------------------------------------
(* The decoders *)

CodesAt == Len(stream) - CodesSize
CtrlAt  == CodesAt - CtrlSize
DataEnd == CtrlAt - GapSize      \* bound

ByteAt(i) == IF i < Len(stream) THEN stream[i + 1] % ByteValues ELSE 0
CtrlByte(g) == stream[CtrlAt + g]
Nibble(i) == LET byte == stream[CodesAt + (i - 1) \div 2 + 1]
             IN  IF i % 2 = 1 THEN byte % 16 ELSE byte \div 16

\* values written to memory from element i (counting from 0) on
Stored(memory, i, values) ==
  [n \in 1..Larger(Len(memory), i + Len(values)) |->
     IF n \in i + 1..i + Len(values) THEN values[n - i] ELSE memory[n]]

StartDecode ==
  /\ phase = "decode" /\ dec.verdict = 1 /\ dec.reach = 0 /\ dec.state = <<>>
  /\ IF Len(stream) < CodesSize + CtrlSize + GapSize
     THEN dec' = [dec EXCEPT !.verdict = -2] /\ phase' = "done"
     ELSE /\ dec' = [dec EXCEPT !.last = Modulus - 1,
                                !.state = IF call.kind = "scalar"
                                          THEN [next |-> 0, tris |-> <<Zeros(3), Zeros(3), Zeros(3)>>]
                                          ELSE [slot \in 0..15 |-> 0]]
          /\ phase' = "vertices"
  /\ UNCHANGED <<mesh, encoderVars, stream, call>>

\* Bytes of the four values of a group: two bits each, or four bytes for all.
Bit(nibble, n) == (nibble \div <<1, 2, 4, 8>>[n]) % 2
Lengths(ctrl) ==
  [n \in 1..4 |-> IF ctrl = 255 THEN 4 ELSE Bit(ctrl % 16, n) + 2 * Bit(ctrl \div 16, n)]

\* The difference that is stored in length bytes at i, plus 1.
Word(b) == b[1] + ByteValues * (b[2] + ByteValues * (b[3] + ByteValues * b[4]))
Difference(i, length) ==
  Plus(UnZigZag(Word([j \in 1..4 |-> IF j <= length THEN ByteAt(i + j - 1) ELSE 0])), 1)

\* The references of the group whose data starts at i: one after the other, or by prefix sums.
GroupVertices(i, lengths, last) ==
  LET start == <<i, i + lengths[1], i + lengths[1] + lengths[2], i + lengths[1] + lengths[2] + lengths[3]>>
      d == [n \in 1..4 |-> Difference(start[n], lengths[n])]
      shifted(x, by) == [n \in 1..4 |-> IF n > by THEN Plus(x[n], x[n - by]) ELSE x[n]]
      total == shifted(shifted(d, 2), 1)
  IN  IF call.kind = "scalar"
      THEN <<Plus(last, d[1]), Plus(Plus(last, d[1]), d[2]), Plus(Plus(Plus(last, d[1]), d[2]), d[3]),
             Plus(Plus(Plus(Plus(last, d[1]), d[2]), d[3]), d[4])>>
      ELSE [n \in 1..4 |-> Plus(total[n], last)]

\* Groups that are written as a whole; the elements of the last one follow one by one, two
\* references of two bytes at a time.  The portable decoder never writes past the last element.
VertexGroups ==
  IF call.kind = "raw" THEN CtrlSize
  ELSE IF call.kind = "scalar" \/ call.vsize = 4 THEN VertexCount \div 4 ELSE (VertexCount + 1) \div 4

VertexStores(g) ==
  IF g <= VertexGroups THEN 4
  ELSE IF call.kind = "scalar" \/ call.vsize = 4 THEN VertexCount % 4 ELSE 2

DecodeVertices ==
  /\ phase = "vertices" /\ dec.groups < CtrlSize
  /\ LET g       == dec.groups + 1
         lengths == Lengths(CtrlByte(g))
         values  == GroupVertices(dec.data, lengths, dec.last)
         size    == Total(lengths)
         read    == IF call.kind = "scalar" THEN dec.data + size - lengths[4] + 4 ELSE dec.data + OverRead
         stored  == [n \in 1..VertexStores(g) |-> Narrow(values[n], call.vsize)]
     IN  IF dec.data > DataEnd
         THEN dec' = [dec EXCEPT !.verdict = -2] /\ phase' = "done"
         ELSE /\ dec' = [dec EXCEPT !.data = @ + size, !.last = values[4], !.groups = g,
                                    !.reach = Larger(@, read),
                                    !.vertices = Stored(@, 4 * (g - 1), stored)]
              /\ UNCHANGED phase
  /\ UNCHANGED <<mesh, encoderVars, stream, call>>

StartTriangles ==
  /\ phase = "vertices" /\ dec.groups = CtrlSize
  /\ phase' = "triangles"
  /\ UNCHANGED <<mesh, encoderVars, stream, call, dec>>

\* The corners that a code does not find in an earlier triangle: the first ones are extra bytes,
\* the others are next.
NewCorners(code) == IF code < 12 THEN 1 ELSE 3
ExtraCount(code) == IF code < 12 THEN code % 2 ELSE code - 12
NextCount(code)  == NewCorners(code) - ExtraCount(code)

\* Edge c-b or a-c of a triangle, and the triangle with a code, from another one and new corners.
Edge(t, code) == IF (code \div 2) % 2 = 1 THEN <<t[3], t[2]>> ELSE <<t[1], t[3]>>
Assembled(code, old, corner) ==
  IF code < 12 THEN <<Edge(old, code)[1], Edge(old, code)[2], corner[1]>> ELSE corner

\* What the portable decoder makes of a code; before the first triangle all corners are 0.  (With
\* more than ByteValues new vertices, which no meshlet has, its words overlap; not modelled.)
ScalarTriangle(code) ==
  LET used == ExtraCount(code)
  IN  Assembled(code, dec.state.tris[code \div 4 + 1],
        [j \in 1..3 |-> IF j <= used THEN ByteAt(dec.data + j - 1)
                         ELSE (dec.state.next + j - 1 - used) % ByteValues])

\* A triangle in memory: a word of three corners, or three bytes.
Words(t) == IF call.tsize = 4 THEN <<t>> ELSE t
WordAt(i) == IF call.tsize = 4 THEN i ELSE 3 * i

DecodeScalar ==
  /\ phase = "triangles" /\ call.kind = "scalar" /\ dec.pairs < TriangleCount
  /\ LET code == Nibble(dec.pairs + 1)
         t    == ScalarTriangle(code)
         last == dec.data + Smaller(ExtraCount(code), NewCorners(code) - 1)
     IN  IF dec.data > DataEnd
         THEN dec' = [dec EXCEPT !.verdict = -2] /\ phase' = "done"
         ELSE /\ dec' = [dec EXCEPT !.data = @ + ExtraCount(code), !.pairs = @ + 1,
                          !.reach = Larger(@, last + 1),
                          !.triangles = Stored(@, WordAt(dec.pairs), Words(t)),
                          !.state = [next |-> @.next + NextCount(code),
                                     tris |-> <<t, @.tris[1], @.tris[2]>>]]
              /\ UNCHANGED phase
  /\ UNCHANGED <<mesh, encoderVars, stream, call>>

\* decodeBuildTables: the vector decoder keeps in slots 0..5 the next extra bytes, in 6..14 the
\* last three triangles, oldest first, and in 15 next.  A pair of codes becomes the slot that each
\* slot from 6 on takes its value from, and what is added to it.
FreshSources(code, e, n) ==
  [j \in 1..3 |-> IF j <= ExtraCount(code) THEN <<e + j - 1, 0>>
                  ELSE <<15, n + j - 1 - ExtraCount(code)>>]

\* The slots of the triangle that is back triangles before the last one.
Recent(back) == [j \in 1..3 |-> <<12 - 3 * back + j - 1, 0>>]

\* A mistake: the second triangle of a pair looks for its edge one triangle too far back.
SecondSourcesLate(code, first, e, n) == Assembled(code, Recent(code \div 4), FreshSources(code, e, n))

FirstSources(code) == Assembled(code, Recent(code \div 4), FreshSources(code, 0, 0))

\* The second triangle of a pair may use an edge of the first one.
SecondSources(code, first, e, n) ==
  Assembled(code, IF code < 4 THEN first ELSE Recent(code \div 4 - 1), FreshSources(code, e, n))

TableExtra(codeA, codeB) == ExtraCount(codeA) + ExtraCount(codeB)

Table(codeA, codeB) ==
  LET first  == FirstSources(codeA)
      second == SecondSources(codeB, first, ExtraCount(codeA), NextCount(codeA))
  IN  ((Recent(0) \o first) \o second) \o <<<<15, NextCount(codeA) + NextCount(codeB)>>>>

\* decodeTriangleGroup: the state after pair p (from 1), whose extra bytes start at i.
StateAfter(state, p, i) ==
  LET table   == Table(Nibble(2 * p - 1), Nibble(2 * p))
      patched == [slot \in 0..15 |-> IF slot < 6 THEN ByteAt(i + slot) ELSE state[slot]]
  IN  [slot \in 0..15 |->
         IF slot < 6 THEN 0
         ELSE (patched[table[slot - 5][1]] + table[slot - 5][2]) % ByteValues]

PairExtra(p) == TableExtra(Nibble(2 * p - 1), Nibble(2 * p))

\* Slots from..to of the state, as bytes; past the end are zeros.
Slots(state, from, to) == [n \in 1..to - from + 1 |-> IF from + n - 1 > 15 THEN 0 ELSE state[from + n - 1]]

\* Words: two triangles per pair, one for an odd last triangle unless the count is rounded up.
DecodePair ==
  /\ phase = "triangles" /\ call.kind # "scalar" /\ call.tsize = 4 /\ dec.pairs < CodesSize
  /\ LET p     == dec.pairs + 1
         state == StateAfter(dec.state, p, dec.data)
         both  == call.kind = "raw" \/ 2 * p <= TriangleCount
         tris  == <<Slots(state, 9, 11)>> \o (IF both THEN <<Slots(state, 12, 14)>> ELSE <<>>)
     IN  IF dec.data > DataEnd
         THEN dec' = [dec EXCEPT !.verdict = -2] /\ phase' = "done"
         ELSE /\ dec' = [dec EXCEPT !.data = @ + PairExtra(p), !.pairs = p, !.state = state,
                                    !.reach = Larger(@, dec.data + 8),
                                    !.triangles = Stored(@, 2 * (p - 1), tris)]
              /\ UNCHANGED phase
  /\ UNCHANGED <<mesh, encoderVars, stream, call>>

\* Bytes: two pairs with one check, 12 bytes written as 4 and 8 ...
Groups12 == (TriangleCount + 1) \div 4

DecodeTwoPairs ==
  /\ phase = "triangles" /\ call.kind = "simd" /\ call.tsize = 3 /\ dec.pairs < 2 * Groups12
  /\ LET p      == dec.pairs + 1
         first  == StateAfter(dec.state, p, dec.data)
         middle == dec.data + PairExtra(p)
         second == StateAfter(first, p + 1, middle)
         place  == 6 * (p - 1)
     IN  IF dec.data > DataEnd
         THEN dec' = [dec EXCEPT !.verdict = -2] /\ phase' = "done"
         ELSE /\ dec' = [dec EXCEPT !.data = middle + PairExtra(p + 1), !.pairs = p + 1,
                          !.state = second,
                          !.reach = Larger(@, middle + 8),
                          !.triangles = Stored(Stored(@, place, Slots(first, 9, 12)), place + 4, Slots(second, 7, 14))]
              /\ UNCHANGED phase
  /\ UNCHANGED <<mesh, encoderVars, stream, call>>

\* ... and a last pair of one or two triangles, as one or two words of 4 bytes.
DecodeLastPair ==
  /\ phase = "triangles" /\ call.kind = "simd" /\ call.tsize = 3
  /\ dec.pairs = 2 * Groups12 /\ dec.pairs < CodesSize
  /\ LET p     == dec.pairs + 1
         state == StateAfter(dec.state, p, dec.data)
     IN  IF dec.data > DataEnd
         THEN dec' = [dec EXCEPT !.verdict = -2] /\ phase' = "done"
         ELSE /\ dec' = [dec EXCEPT !.data = @ + PairExtra(p), !.pairs = p, !.state = state,
                          !.reach = Larger(@, dec.data + 8),
                          !.triangles = Stored(@, 12 * (TriangleCount \div 4),
                                               Slots(state, 9, IF TriangleCount % 4 > 1 THEN 16 ELSE 12))]
              /\ UNCHANGED phase
  /\ UNCHANGED <<mesh, encoderVars, stream, call>>

TrianglesDone == dec.pairs = (IF call.kind = "scalar" THEN TriangleCount ELSE CodesSize)

\* All data must have been used.
Verdict ==
  /\ phase = "triangles" /\ TrianglesDone
  /\ dec' = [dec EXCEPT !.verdict = IF dec.data = DataEnd THEN 0 ELSE -3]
  /\ phase' = "done"
  /\ UNCHANGED <<mesh, encoderVars, stream, call>>

\* The calls are over.
CodecDone == phase \in {"done", "refused"} /\ UNCHANGED codecVars

CodecNext ==
  \/ EncodeReuse
  \/ EncodeRestart
  \/ FinishEncode
  \/ StartDecode
  \/ DecodeVertices
  \/ StartTriangles
  \/ DecodeScalar
  \/ DecodePair
  \/ DecodeTwoPairs
  \/ DecodeLastPair
  \/ Verdict
  \/ CodecDone

-----------------------------------------------------------------------------
(* A meshlet on its way *)

vars == <<optimizerVars, codecVars>>

Init == OptimizerInit /\ CodecIdle

Optimize == OptimizerNext /\ UNCHANGED codecVars

\* The optimized meshlet goes to the encoder.
Encode ==
  /\ work = "optimized"
  /\ StartEncode([vertices |-> vertices, triangles |-> triangles])
  /\ UNCHANGED optimizerVars

Next == Optimize \/ Encode \/ (CodecNext /\ UNCHANGED optimizerVars)

Spec == Init /\ [][Next]_vars

-----------------------------------------------------------------------------
(* Properties *)

Own == call.head = 0 /\ call.tail = 0

\* Triangles that have been decoded and are final, whatever their form in memory.
DecodedTriangles ==
  LET count == Smaller(TriangleCount, IF call.kind = "scalar" THEN dec.pairs ELSE 2 * dec.pairs)
  IN  [n \in 1..count |-> IF call.tsize = 4 THEN dec.triangles[n]
                          ELSE SubSeq(dec.triangles, 3 * n - 2, 3 * n)]

\* Every decoder gives back what the encoder was given, from the first group on: the references
\* as far as their size holds them, the triangles in their order, turned at most (README.md:445),
\* and it accepts the stream.  (tests.cpp:3113, "decodeMeshlet and decodeMeshletRaw should agree")
RoundTrip ==
  phase \in {"vertices", "triangles", "done"} /\ Own =>
    /\ dec.verdict \in {0, 1}
    /\ \A n \in 1..Smaller(4 * dec.groups, VertexCount) :
         dec.vertices[n] = Narrow(mesh.vertices[n], call.vsize)
    /\ \A n \in DOMAIN DecodedTriangles :
         \E k \in 0..2 : DecodedTriangles[n] = Rotated(mesh.triangles[n], k)
    /\ phase = "done" => Len(DecodedTriangles) = TriangleCount

\* Elements that fit memory of the documented size: aligned to 4 bytes, or 16 for raw decoding.
Room(count, size) == (IF call.kind = "raw" THEN 16 * Up(count * size, 16) ELSE 4 * Up(count * size, 4))

\* No decoder reads outside its stream or writes outside the memory that meshoptimizer.h:340-347
\* demands, for streams cut at either end too: one check covers up to two pairs of triangles.
\* A buffer of the documented worst-case size is never too small, and the encoder's arrays for the
\* parts are not either (meshletcodec.cpp:922).
InBounds ==
  /\ dec.reach <= Len(stream)
  /\ call.vsize * Len(dec.vertices) <= Room(VertexCount, call.vsize)
  /\ (IF call.tsize = 4 THEN 4 ELSE 1) * Len(dec.triangles) <= Room(TriangleCount, call.tsize)
  /\ phase = "refused" => call.lacks > 0
  /\ Len(extra) <= 3 * TriangleCount
=============================================================================
