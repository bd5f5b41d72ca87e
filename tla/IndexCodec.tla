----------------------------- MODULE IndexCodec -----------------------------
(***************************************************************************)
(* The index buffer codec of src/indexcodec.cpp: the triangles of an index *)
(* buffer are encoded into one code byte each and a stream of extra data   *)
(* bytes, against an edge FIFO, a vertex FIFO and two running indices that *)
(* the decoder has to reproduce step by step.                              *)
(*                                                                         *)
(* A call of meshopt_encodeIndexBuffer is followed by a call of            *)
(* meshopt_decodeIndexBuffer on its output, whole or cut short.  The input *)
(* is revealed one triangle at a time, so that a behaviour ranges over     *)
(* every index buffer.                                                     *)
(*                                                                         *)
(* A code byte is its pair of nibbles <<high, low>>.  An extra byte is the *)
(* token <<"aux", feb, fec>>, a variable length integer is the token       *)
(* <<"index", v>> of IndexSize(v) bytes.  A FIFO is a function from ages:  *)
(* f[i] is the entry that the code reads at fifo[(offset - 1 - i) & 15].   *)
(***************************************************************************)
EXTENDS Varint, Sequences

CONSTANTS
  FifoSize,     (* Entries of a FIFO, also the values of a nibble (16).     *)
  TailSize,     (* Bytes of the codeaux table that ends the stream (16).    *)
  AuxTable,     (* kCodeAuxEncodingTable, the entries used for encoding.    *)
  VertexCount,  (* Vertices that the mesh has.                              *)
  Inputs,       (* The triangles that an index buffer can hold.             *)
  MaxTriangles, (* Bound on the triangles of an index buffer.               *)
  Calls,        (* Arguments of the two calls: version, slack (bytes by     *)
                (* which the buffer misses the documented bound), indexSize *)
                (* and cut (bytes that the stream loses at its end).        *)
  Garbage       (* Pairs that a cut stream can show in place of its table.  *)

Top        == FifoSize - 1       \* 15: the nibble of an explicit index
Ages       == 0..Top
Fill       == Modulus - 1        \* memset(fifo, -1)
TableIndex == 0..FifoSize - 3
Versions   == {0, 1}

ASSUME SizesAssumption ==
  /\ FifoSize \in Nat /\ FifoSize >= 5
  /\ Width \in Nat /\ Modulus \in Nat /\ Modulus > 2 /\ Modulus % 2 = 0
  /\ ShortWidth \in Nat /\ ShortModulus \in Nat /\ ShortModulus \in 1..Modulus
  /\ GroupBits \in Nat \ {0}
  /\ MaxTriangles \in Nat
  /\ MaxGroups \in Nat \ {0}
  /\ TailSize \in Nat /\ TailSize >= 1 + 3 * MaxGroups
  /\ Calls \subseteq [version : Versions, slack : Int, indexSize : {2, 4}, cut : Nat]
  /\ Garbage \subseteq Ages \X Ages

\* The asserts of the encoder on its table: entry 0 is the pair <<0, 0>> and no entry refers
\* to an explicit index; nor is a pair listed twice.
ASSUME TableAssumption ==
  /\ AuxTable \in [TableIndex -> (0..Top - 1) \X (0..Top - 1)]
  /\ AuxTable[0] = <<0, 0>>
  /\ \A i, j \in TableIndex : AuxTable[i] = AuxTable[j] => i = j

\* Indices name vertices, and ~0u, which the FIFOs are filled with, names none.
ASSUME InputsAssumption ==
  /\ VertexCount \in 1..Fill
  /\ Inputs \subseteq (0..VertexCount - 1) \X (0..VertexCount - 1) \X (0..VertexCount - 1)

VARIABLES
  phase,     (* Where the two calls are.                                    *)
  params,    (* Arguments: triangles, version, buffer and index size, cut.  *)
  tris,      (* The triangles encoded so far.                               *)
  enc,       (* State of the encoder: next, last and the two FIFOs.         *)
  code,      (* Code bytes written.                                         *)
  data,      (* Tokens of the data bytes written...                         *)
  dataSize,  (* ... and their size in bytes.                                *)
  dec,       (* State of the decoder.                                       *)
  taken,     (* Tokens of data read...                                      *)
  takenSize, (* ... and their size in bytes.                                *)
  out,       (* Triangles decoded.                                          *)
  result,    (* What the last call returned: a size or an error.            *)
  history    (* Auxiliary: the encoder before each triangle, what it wrote.  *)

vars == <<phase, params, tris, enc, code, data, dataSize, dec, taken, takenSize, out, result,
          history>>

-----------------------------------------------------------------------------
(* The state that encoder and decoder share. *)

CodecState == [next : Index, last : Index, edges : [Ages -> Index \X Index],
               verts : [Ages -> Index]]

NoVertices == [i \in Ages |-> Fill]

FreshState == [next |-> 0, last |-> 0, edges |-> [i \in Ages |-> <<Fill, Fill>>],
               verts |-> NoVertices]

Push(fifo, v) == [i \in Ages |-> IF i = 0 THEN v ELSE fifo[i - 1]]

\* pushVertexFifo(fifo, v, offset, cond): the slot is written even when the offset stays.
PushIf(fifo, v, cond) == IF cond THEN Push(fifo, v) ELSE [fifo EXCEPT ![Top] = v]

PushEdges2(fifo, a, b, c) == Push(Push(fifo, <<c, b>>), <<a, c>>)

PushEdges3(fifo, a, b, c) == Push(Push(Push(fifo, <<b, a>>), <<c, b>>), <<a, c>>)

\* getVertexFifo: the age of the youngest entry v, or -1.
VertexAge(fifo, v) ==
  IF \E i \in Ages : fifo[i] = v
    THEN CHOOSE i \in Ages : fifo[i] = v /\ \A j \in Ages : j < i => fifo[j] # v
    ELSE -1

Succ(i) == Plus(i, 1)
Pred(i) == Minus(i, 1)

\* In the edge encoding codes below FecMax are vertex FIFO ages.
FecMax(version) == IF version >= 1 THEN FifoSize - 3 ELSE FifoSize - 1

\* A mistake: the last rotation flips the triangle.
RotateToFlipped(t, k) ==
  CASE k = 0 -> t
    [] k = 1 -> <<t[2], t[3], t[1]>>
    [] k = 2 -> <<t[3], t[2], t[1]>>

RotateTo(t, k) ==
  CASE k = 0 -> t
    [] k = 1 -> <<t[2], t[3], t[1]>>
    [] k = 2 -> <<t[3], t[1], t[2]>>

-----------------------------------------------------------------------------
(* Explicit indices: the zigzag difference to the last one. *)

IndexToken(i, last) == <<"index", ZigZag(Minus(i, last))>>

DecodeIndex(token, last) == Plus(last, UnZigZag(token[2]))

TokenSize(token) == IF token[1] = "aux" THEN 1 ELSE IndexSize(token[2])

\* A triangle has at most four tokens: codeaux and three explicit indices.
TokensSize(tokens) ==
  LET size(i) == IF i <= Len(tokens) THEN TokenSize(tokens[i]) ELSE 0
  IN  size(1) + size(2) + size(3) + size(4)

\* A mistake: the sign bit of a difference is forgotten.
VertexGroupsUnsigned == (VertexBits(VertexCount) + GroupBits - 1) \div GroupBits

VertexGroups == (VertexBits(VertexCount) + 1 + GroupBits - 1) \div GroupBits

\* meshopt_encodeIndexBufferBound
Bound(triangles) == 1 + triangles * (2 + 3 * VertexGroups) + TailSize

-----------------------------------------------------------------------------
(* Encoding a triangle: the state after it, its code and its tokens. *)

\* Edges of t, by rotation, that are at an age of the edge FIFO.
EdgeHits(st, t) ==
  {h \in Ages \X (0..2) : st.edges[h[1]] = <<RotateTo(t, h[2])[1], RotateTo(t, h[2])[2]>>}

\* getEdgeFifo returns the youngest one, and the first rotation that has it...
FirstHit(st, t, h) ==
  /\ h \in EdgeHits(st, t)
  /\ \A g \in EdgeHits(st, t) : h[1] < g[1] \/ (h[1] = g[1] /\ h[2] <= g[2])

\* ... which has a code unless it is the oldest of all.
EdgeHit(st, t, h) == FirstHit(st, t, h) /\ h[1] < Top

NoEdgeHit(st, t) == \A h \in EdgeHits(st, t) : h[1] >= Top

\* A mistake: ages are used up to 14 in both versions.
EdgeCodeAllAges(st, c, version) ==
  LET age == VertexAge(st.verts, c)
  IN  IF age \in 1..Top - 1 THEN age
      ELSE IF c = st.next THEN 0
      ELSE IF version >= 1 /\ Succ(c) = st.last THEN Top - 2
      ELSE IF version >= 1 /\ c = Succ(st.last) THEN Top - 1
      ELSE Top

\* The third corner of a triangle with a cached edge: an age, next, last - 1, last + 1 or explicit.
EdgeCode(st, c, version) ==
  LET age == VertexAge(st.verts, c)
  IN  IF age \in 1..FecMax(version) - 1 THEN age
      ELSE IF c = st.next THEN 0
      ELSE IF version >= 1 /\ Succ(c) = st.last THEN Top - 2
      ELSE IF version >= 1 /\ c = Succ(st.last) THEN Top - 1
      ELSE Top

EncodeEdge(st, t, version, h) ==
  LET r   == RotateTo(t, h[2])
      c   == r[3]
      fec == EdgeCode(st, c, version)
  IN  [st |-> [next  |-> IF fec = 0 THEN Succ(st.next) ELSE st.next,
               last  |-> IF fec >= FecMax(version) THEN c ELSE st.last,
               edges |-> PushEdges2(st.edges, r[1], r[2], c),
               verts |-> IF fec = 0 \/ fec >= FecMax(version) THEN Push(st.verts, c)
                                                              ELSE st.verts],
       code   |-> <<h[1], fec>>,
       tokens |-> IF fec = Top THEN <<IndexToken(c, st.last)>> ELSE <<>>]

\* A mistake: triangles are not rotated.
NoRotation(t, next) == 0

Rotation(t, next) == IF t[2] = next THEN 1 ELSE IF t[3] = next THEN 2 ELSE 0

\* A mistake: the bound on the age is forgotten.
FreeCodeAnyAge(verts, v, next) ==
  LET age == VertexAge(verts, v)
  IN  IF age # -1 THEN age + 1 ELSE IF v = next THEN 0 ELSE Top

\* The second and the third corner of other triangles: an age, next or explicit.
FreeCode(verts, v, next) ==
  LET age == VertexAge(verts, v)
  IN  IF age \in 0..Top - 2 THEN age + 1 ELSE IF v = next THEN 0 ELSE Top

InTable(pair) == \E i \in TableIndex : AuxTable[i] = pair

TableEntry(pair) == CHOOSE i \in TableIndex : AuxTable[i] = pair

EncodeFree(st, t, version) ==
  LET r      == RotateTo(t, Rotation(t, st.next))
      reset  == r = <<0, 1, 2>> /\ st.next > 0 /\ version >= 1
      verts  == IF reset THEN NoVertices ELSE st.verts
      next0  == IF reset THEN 0 ELSE st.next
      fea    == IF r[1] = next0 THEN 0 ELSE Top
      next1  == IF fea = 0 THEN Succ(next0) ELSE next0
      feb    == FreeCode(verts, r[2], next1)
      next2  == IF feb = 0 THEN Succ(next1) ELSE next1
      fec    == FreeCode(verts, r[3], next2)
      next3  == IF fec = 0 THEN Succ(next2) ELSE next2
      table  == fea = 0 /\ InTable(<<feb, fec>>) /\ ~reset
      last1  == IF fea = Top THEN r[1] ELSE st.last
      last2  == IF feb = Top THEN r[2] ELSE last1
      last3  == IF fec = Top THEN r[3] ELSE last2
      verts1 == Push(verts, r[1])
      verts2 == IF feb \in {0, Top} THEN Push(verts1, r[2]) ELSE verts1
      verts3 == IF fec \in {0, Top} THEN Push(verts2, r[3]) ELSE verts2
  IN  [st |-> [next |-> next3, last |-> last3, verts |-> verts3,
               edges |-> PushEdges3(st.edges, r[1], r[2], r[3])],
       code   |-> IF table THEN <<Top, TableEntry(<<feb, fec>>)>>
                           ELSE <<Top, IF fea = 0 THEN Top - 1 ELSE Top>>,
       tokens |-> (IF table THEN <<>> ELSE <<<<"aux", feb, fec>>>>)
                  \o (IF fea = Top THEN <<IndexToken(r[1], st.last)>> ELSE <<>>)
                  \o (IF feb = Top THEN <<IndexToken(r[2], last1)>> ELSE <<>>)
                  \o (IF fec = Top THEN <<IndexToken(r[3], last2)>> ELSE <<>>)]

-----------------------------------------------------------------------------
(* Decoding a triangle: the state after it, the triangle, and how many tokens were read. *)

\* The token at position p; past the data the decoder would read the tail of the stream.
TokenAt(p) == IF p <= Len(data) THEN data[p] ELSE <<"tail", 0, 0>>

\* writeTriangle
WriteTriangle(a, b, c, indexSize) ==
  <<Narrow(a, indexSize), Narrow(b, indexSize), Narrow(c, indexSize)>>

\* An edge of the FIFO and next or a vertex of the FIFO.
DecodeEdge(st, cd) ==
  LET a == st.edges[cd[1]][1]
      b == st.edges[cd[1]][2]
      c == IF cd[2] = 0 THEN st.next ELSE st.verts[cd[2]]
  IN  [st |-> [next  |-> IF cd[2] = 0 THEN Succ(st.next) ELSE st.next,
               last  |-> st.last,
               edges |-> PushEdges2(st.edges, a, b, c),
               verts |-> PushIf(st.verts, c, cd[2] = 0)],
       tri  |-> <<a, b, c>>,
       read |-> 0]

\* An edge of the FIFO and last - 1, last + 1 or an explicit index.
DecodeEdgeIndex(st, cd, at) ==
  LET a == st.edges[cd[1]][1]
      b == st.edges[cd[1]][2]
      c == CASE cd[2] = Top     -> DecodeIndex(TokenAt(at + 1), st.last)
             [] cd[2] = Top - 1 -> Succ(st.last)
             [] cd[2] = Top - 2 -> Pred(st.last)
  IN  [st |-> [next  |-> st.next,
               last  |-> c,
               edges |-> PushEdges2(st.edges, a, b, c),
               verts |-> Push(st.verts, c)],
       tri  |-> <<a, b, c>>,
       read |-> IF cd[2] = Top THEN 1 ELSE 0]

\* The table ends the stream; of a cut stream other bytes are taken for it.
TablePairs(i) == IF params.cut = 0 THEN {AuxTable[i]} ELSE Garbage

\* A pair of the table: the first corner is next.
DecodeTable(st, pair) ==
  LET feb   == pair[1]
      fec   == pair[2]
      a     == st.next
      next1 == Succ(st.next)
      b     == IF feb = 0 THEN next1 ELSE st.verts[feb - 1]
      next2 == IF feb = 0 THEN Succ(next1) ELSE next1
      c     == IF fec = 0 THEN next2 ELSE st.verts[fec - 1]
  IN  [st |-> [next  |-> IF fec = 0 THEN Succ(next2) ELSE next2,
               last  |-> st.last,
               edges |-> PushEdges3(st.edges, a, b, c),
               verts |-> PushIf(PushIf(Push(st.verts, a), b, feb = 0), c, fec = 0)],
       tri  |-> <<a, b, c>>,
       read |-> 0]

\* The pair of a codeaux byte, then the explicit indices; the pair <<0, 0>> is a reset.
DecodeAux(st, cd, at) ==
  LET feb   == TokenAt(at + 1)[2]
      fec   == TokenAt(at + 1)[3]
      next0 == IF feb = 0 /\ fec = 0 THEN 0 ELSE st.next
      readA == IF cd[2] = Top THEN 1 ELSE 0
      readB == IF feb = Top THEN 1 ELSE 0
      readC == IF fec = Top THEN 1 ELSE 0
      a     == IF readA = 1 THEN DecodeIndex(TokenAt(at + 2), st.last) ELSE next0
      last1 == IF readA = 1 THEN a ELSE st.last
      next1 == IF readA = 1 THEN next0 ELSE Succ(next0)
      b     == IF feb = 0 THEN next1
               ELSE IF readB = 1 THEN DecodeIndex(TokenAt(at + 2 + readA), last1)
               ELSE st.verts[feb - 1]
      last2 == IF readB = 1 THEN b ELSE last1
      next2 == IF feb = 0 THEN Succ(next1) ELSE next1
      c     == IF fec = 0 THEN next2
               ELSE IF readC = 1 THEN DecodeIndex(TokenAt(at + 2 + readA + readB), last2)
               ELSE st.verts[fec - 1]
      last3 == IF readC = 1 THEN c ELSE last2
  IN  [st |-> [next  |-> IF fec = 0 THEN Succ(next2) ELSE next2,
               last  |-> last3,
               edges |-> PushEdges3(st.edges, a, b, c),
               verts |-> PushIf(PushIf(Push(st.verts, a), b, feb \in {0, Top}),
                                c, fec \in {0, Top})],
       tri  |-> <<a, b, c>>,
       read |-> 1 + readA + readB + readC]

-----------------------------------------------------------------------------
(* meshopt_encodeIndexBuffer *)

\* A mistake: the check leaves no room for what a triangle writes.
HasRoomForByte == 1 + params.count + dataSize < params.bufferSize

\* data <= data_safe_end
HasRoom == 1 + params.count + dataSize <= params.bufferSize - TailSize

Init ==
  /\ phase = "idle"
  /\ \E n \in 0..MaxTriangles, c \in Calls :
       params = [count |-> n, version |-> c.version, bufferSize |-> Bound(n) - c.slack,
                 indexSize |-> c.indexSize, cut |-> c.cut]
  /\ tris = <<>> /\ enc = FreshState /\ code = <<>> /\ data = <<>> /\ dataSize = 0
  /\ dec = FreshState /\ taken = 0 /\ takenSize = 0 /\ out = <<>>
  /\ result = 0 /\ history = <<>>

decoderVars == <<dec, taken, takenSize, out>>
encoderVars == <<tris, enc, code, data, dataSize, history>>

\* The minimum valid encoding has to fit.
EncodeStart ==
  /\ phase = "idle"
  /\ phase' = IF params.bufferSize < 1 + params.count + TailSize THEN "refused" ELSE "encode"
  /\ UNCHANGED <<params, encoderVars, decoderVars, result>>

Write(t, coded) ==
  /\ tris' = Append(tris, t)
  /\ enc' = coded.st
  /\ code' = Append(code, coded.code)
  /\ data' = data \o coded.tokens
  /\ dataSize' = dataSize + TokensSize(coded.tokens)
  /\ history' = Append(history, [st |-> enc, at |-> Len(data), size |-> dataSize, coded |-> coded])
  /\ UNCHANGED <<phase, params, decoderVars, result>>

EncodeCachedEdge(t) ==
  /\ phase = "encode" /\ Len(tris) < params.count /\ HasRoom
  /\ \E h \in EdgeHits(enc, t) :
       /\ EdgeHit(enc, t, h)
       /\ Write(t, EncodeEdge(enc, t, params.version, h))

EncodeOther(t) ==
  /\ phase = "encode" /\ Len(tris) < params.count /\ HasRoom
  /\ NoEdgeHit(enc, t)
  /\ Write(t, EncodeFree(enc, t, params.version))

\* Before a triangle or before the tail: return 0.
EncodeRefuse ==
  /\ phase = "encode" /\ ~HasRoom
  /\ phase' = "refused"
  /\ UNCHANGED <<params, encoderVars, decoderVars, result>>

\* The table is appended and the size of the stream returned.
EncodeFinish ==
  /\ phase = "encode" /\ Len(tris) = params.count /\ HasRoom
  /\ phase' = "encoded"
  /\ result' = 1 + params.count + dataSize + TailSize
  /\ UNCHANGED <<params, encoderVars, decoderVars>>

-----------------------------------------------------------------------------
(* meshopt_decodeIndexBuffer *)

StreamSize == result - params.cut

\* A mistake: data < data_safe_end.
HasDataStrict == 1 + params.count + takenSize < StreamSize - TailSize

\* data <= data_safe_end
HasData == 1 + params.count + takenSize <= StreamSize - TailSize

NextCode == code[Len(out) + 1]

IsEdge(cd)  == cd[1] < Top /\ cd[2] < FecMax(params.version)
IsIndex(cd) == cd[1] < Top /\ cd[2] >= FecMax(params.version)
IsTable(cd) == cd[1] = Top /\ cd[2] < Top - 1
IsAux(cd)   == cd[1] = Top /\ cd[2] >= Top - 1

Decoding == phase = "decode" /\ Len(out) < params.count

\* The minimum valid encoding is checked first. The header is the encoder's own, with the version
\* of the call, so that the error -1 of a foreign header does not arise.
DecodeStart ==
  /\ phase = "encoded"
  /\ IF StreamSize < 1 + params.count + TailSize
       THEN phase' = "failed" /\ result' = -2
       ELSE phase' = "decode" /\ UNCHANGED result
  /\ UNCHANGED <<params, encoderVars, decoderVars>>

Deliver(decoded) ==
  /\ dec' = decoded.st
  /\ out' = Append(out, WriteTriangle(decoded.tri[1], decoded.tri[2], decoded.tri[3],
                                      params.indexSize))
  /\ taken' = taken + decoded.read
  /\ takenSize' = takenSize + TokensSize([i \in 1..decoded.read |-> TokenAt(taken + i)])
  /\ UNCHANGED <<phase, params, encoderVars, result>>

DecodeCachedEdge ==
  /\ Decoding /\ IsEdge(NextCode)
  /\ Deliver(DecodeEdge(dec, NextCode))

DecodeCachedEdgeIndex ==
  /\ Decoding /\ IsIndex(NextCode) /\ HasData
  /\ Deliver(DecodeEdgeIndex(dec, NextCode, taken))

DecodeTablePair ==
  /\ Decoding /\ IsTable(NextCode)
  /\ \E pair \in TablePairs(NextCode[2]) : Deliver(DecodeTable(dec, pair))

DecodeAuxPair ==
  /\ Decoding /\ IsAux(NextCode) /\ HasData
  /\ Deliver(DecodeAux(dec, NextCode, taken))

\* A triangle may read 16 bytes and they are not there: return -2.
DecodeTruncated ==
  /\ Decoding
  /\ IsIndex(NextCode) \/ IsAux(NextCode)
  /\ ~HasData
  /\ phase' = "failed" /\ result' = -2
  /\ UNCHANGED <<params, encoderVars, decoderVars>>

\* A mistake: data may have been read past data_safe_end.
DecodeFinishLax ==
  /\ phase = "decode" /\ Len(out) = params.count
  /\ IF 1 + params.count + takenSize >= StreamSize - TailSize
       THEN phase' = "done" /\ result' = 0
       ELSE phase' = "failed" /\ result' = -3
  /\ UNCHANGED <<params, encoderVars, decoderVars>>

\* All data bytes must have been read: return 0, or else -3.
DecodeFinish ==
  /\ phase = "decode" /\ Len(out) = params.count
  /\ IF 1 + params.count + takenSize = StreamSize - TailSize
       THEN phase' = "done" /\ result' = 0
       ELSE phase' = "failed" /\ result' = -3
  /\ UNCHANGED <<params, encoderVars, decoderVars>>

\* Both calls have returned, or the first one has failed.
Returned ==
  /\ phase \in {"refused", "failed", "done"}
  /\ UNCHANGED vars

Next ==
  \/ EncodeStart
  \/ \E t \in Inputs : EncodeCachedEdge(t)
  \/ \E t \in Inputs : EncodeOther(t)
  \/ EncodeRefuse
  \/ EncodeFinish
  \/ DecodeStart
  \/ DecodeCachedEdge
  \/ DecodeCachedEdgeIndex
  \/ DecodeTablePair
  \/ DecodeAuxPair
  \/ DecodeTruncated
  \/ DecodeFinish
  \/ Returned

Spec == Init /\ [][Next]_vars

-----------------------------------------------------------------------------
(* What the codec has to guarantee. *)

Token == ({"aux"} \X (0..Top) \X (0..Top)) \cup ({"index"} \X Index)

Triangle == Index \X Index \X Index

\* Every variable has its type; in particular every code is two nibbles.
TypeOK ==
  /\ phase \in {"idle", "encode", "refused", "encoded", "decode", "failed", "done"}
  /\ params \in [count : 0..MaxTriangles, version : Versions, bufferSize : Int,
                 indexSize : {2, 4}, cut : Nat]
  /\ tris \in Seq(Inputs)
  /\ enc \in CodecState /\ dec \in CodecState
  /\ code \in Seq((0..Top) \X (0..Top))
  /\ data \in Seq(Token) /\ dataSize \in Nat
  /\ taken \in Nat /\ takenSize \in Nat
  /\ out \in Seq(Triangle)
  /\ result \in Int
  /\ history \in Seq([st : CodecState, at : Nat, size : Nat,
                      coded : [st : CodecState, code : (0..Top) \X (0..Top),
                               tokens : Seq(Token)]])

\* The triangles that went in, as index_size lets them come out.
Sent == [k \in 1..Len(tris) |->
           WriteTriangle(tris[k][1], tris[k][2], tris[k][3], params.indexSize)]

Stream == INSTANCE TriangleStream WITH
  Corner   <- 0..VertexCount - 1,
  sent     <- Sent,
  received <- IF params.cut = 0 THEN out ELSE <<>>

\* A whole stream gives back the triangles in their order, each one possibly rotated and
\* never flipped (README.md:445): the codec implements TriangleStream.
StreamSpec == Stream!Spec

\* A whole stream is never rejected: neither is its data found too short for the reads of a
\* triangle (-2) nor does decoding end elsewhere than at the table (-3).
EncodedDecodes == phase = "failed" => params.cut > 0

\* A stream that has lost any bytes at its end is never accepted, whatever bytes are taken for
\* its table (demo/tests.cpp, decodeIndexMemorySafe).
TruncatedRejected == phase = "done" => params.cut = 0

\* A buffer of meshopt_encodeIndexBufferBound bytes always suffices (src/meshoptimizer.h,
\* meshopt_encodeIndexBuffer).
BoundSuffices == phase = "refused" => params.bufferSize < Bound(params.count)

\* One check per triangle keeps all its writes inside the buffer, and one check per triangle
\* with extra data keeps all reads inside the stream.
InBounds ==
  /\ phase \in {"encode", "encoded"} => 1 + params.count + dataSize <= params.bufferSize
  /\ phase = "encoded" => result <= params.bufferSize
  /\ phase = "decode" => 1 + params.count + takenSize <= StreamSize

\* The decoder state d can stand for the encoder state e: the indices and the edges are the
\* same, and so is every vertex that the encoder can refer to.
VertsAgree(e, d) == \A i \in 0..Top - 1 : e[i] # Fill => d[i] = e[i]

Agree(e, d) ==
  /\ d.next = e.next /\ d.last = e.last /\ d.edges = e.edges
  /\ VertsAgree(e.verts, d.verts)

\* While a whole stream is decoded, the decoder is where the encoder was before the same
\* triangle ("must match the encoding step *exactly*", indexcodec.cpp).
Before(k) ==
  IF k <= Len(history) THEN history[k] ELSE [st |-> enc, at |-> Len(data), size |-> dataSize]

Lockstep ==
  phase = "decode" /\ params.cut = 0 =>
    LET e == Before(Len(out) + 1)
    IN  Agree(e.st, dec) /\ taken = e.at /\ takenSize = e.size

\* Only a reset triangle is written as a codeaux byte 0, which makes the decoder reset next:
\* the rotation rules out that the second and the third corner are next and the first is not.
NoFalseReset ==
  \A k \in 1..Len(history) :
    LET coded == history[k].coded
    IN  coded.tokens # <<>> /\ coded.tokens[1] = <<"aux", 0, 0>> =>
          /\ \E r \in 0..2 : RotateTo(tris[k], r) = <<0, 1, 2>>
          /\ history[k].st.next > 0
          /\ coded.code = <<Top, Top - 1>>
=============================================================================
