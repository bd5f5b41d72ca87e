-------------------------- MODULE IndexCodecProofs --------------------------
(***************************************************************************)
(* Proofs about the index buffer codec, for every FIFO size, index width,  *)
(* table and index buffer.                                                 *)
(***************************************************************************)
EXTENDS IndexCodec, SetLemmas

-----------------------------------------------------------------------------
(* Indices and variable length integers *)

LEMMA IndexSizeType ==
  ASSUME MaxGroups \in Nat \ {0}, NEW v
  PROVE  IndexSize(v) \in 1..MaxGroups
  BY GroupsCounted DEF IndexSize

\* A value that fits into n groups has at most n bytes.
LEMMA IndexSizeLimit ==
  ASSUME MaxGroups \in Nat \ {0}, GroupBits \in Nat, NEW v \in Nat, NEW n \in Nat \ {0},
         v < 2^(GroupBits * n)
  PROVE  IndexSize(v) <= n
  BY GroupsEnough DEF IndexSize

\* The bits of a mesh are enough for its vertices, unless they are all that an index has.
LEMMA VertexBitsEnough ==
  ASSUME Width \in Nat, NEW vertexCount \in Nat
  PROVE  /\ VertexBits(vertexCount) \in Nat \ {0}
         /\ vertexCount <= 2^VertexBits(vertexCount) \/ VertexBits(vertexCount) >= Width
<1>1. VertexBits(vertexCount) = 1 + Cardinality({b \in 1..Width - 1 : vertexCount > 2^b})
  BY DEF VertexBits
<1> QED
  BY <1>1, BitsEnough

LEMMA HalfModulus ==
  ASSUME Modulus \in Nat, Modulus % 2 = 0
  PROVE  Modulus \div 2 \in Nat /\ Modulus = 2 * (Modulus \div 2)
  OBVIOUS

\* UnZigZag gives back what ZigZag was given.
LEMMA ZigZagInverse ==
  ASSUME Modulus \in Nat, Modulus % 2 = 0, NEW d \in Index
  PROVE  ZigZag(d) \in Index /\ UnZigZag(ZigZag(d)) = d
  BY ZigZagUndone DEF ZigZag, UnZigZag, Index

LEMMA UnZigZagType ==
  ASSUME Modulus \in Nat, Modulus % 2 = 0, NEW v \in Index
  PROVE  UnZigZag(v) \in Index
  BY UnZigZagRange DEF UnZigZag, Index

\* Adding the difference to a baseline gives back the index.
LEMMA DifferenceInverse ==
  ASSUME Modulus \in Nat, NEW i \in Index, NEW base \in Index
  PROVE  Minus(i, base) \in Index /\ Plus(base, Minus(i, base)) = i
  BY DEF Minus, Plus, Index

LEMMA PlusType ==
  ASSUME Modulus \in Nat, NEW i \in Index, NEW d \in Index
  PROVE  Plus(i, d) \in Index
  BY DEF Plus, Index

\* A shorter index is not larger.
LEMMA NarrowType ==
  ASSUME Modulus \in Nat, ShortModulus \in 1..Modulus, NEW i \in Index, NEW indexSize
  PROVE  Narrow(i, indexSize) \in Index /\ Narrow(i, indexSize) <= i
<1>1. i \in Nat /\ ShortModulus \in Nat \ {0}
  BY DEF Index
<1>2. i % ShortModulus \in Nat /\ i % ShortModulus <= i
  BY <1>1, ShorterRange
<1> QED
  BY <1>1, <1>2 DEF Narrow, Index

-----------------------------------------------------------------------------
(* FIFOs *)

LEMMA TopType == /\ Top \in Nat /\ Top >= 4
                 /\ Ages = 0..Top /\ 0 \in Ages /\ Top \in Ages
                 /\ Modulus \in Nat /\ Modulus > 2 /\ Fill \in Index
                 /\ TableIndex = 0..Top - 2
                 /\ Ages # {}
  BY SizesAssumption DEF Top, Ages, Fill, Index, TableIndex

LEMMA PushType ==
  ASSUME NEW S, NEW f \in [Ages -> S], NEW v \in S
  PROVE  /\ Push(f, v) \in [Ages -> S]
         /\ Push(f, v)[0] = v
         /\ \A i \in Ages : i > 0 => i - 1 \in Ages /\ Push(f, v)[i] = f[i - 1]
  BY TopType DEF Push, Ages

LEMMA PushIfType ==
  ASSUME NEW S, NEW f \in [Ages -> S], NEW v \in S, NEW cond \in BOOLEAN
  PROVE  PushIf(f, v, cond) \in [Ages -> S]
  BY TopType, PushType DEF PushIf

\* The youngest entry exists as soon as there is one.
LEMMA YoungestExists ==
  ASSUME NEW f \in [Ages -> Index], NEW v, \E i \in Ages : f[i] = v
  PROVE  \E i \in Ages : f[i] = v /\ \A j \in Ages : j < i => f[j] # v
<1> DEFINE T == {i \in Ages : f[i] = v}
<1>1. T \subseteq Nat /\ T # {}
  BY TopType DEF Ages
<1>2. \E x \in T : \A y \in T : ~ (<<y, x>> \in OpToRel(<, Nat))
  BY <1>1, WFMin, NatLessThanWellFounded
<1>3. PICK x \in T : \A y \in T : ~ (<<y, x>> \in OpToRel(<, Nat))
  BY <1>2
<1>4. ASSUME NEW j \in Ages, j < x
      PROVE  f[j] # v
  <2>1. <<j, x>> \in OpToRel(<, Nat)
    BY <1>1, <1>4, TopType DEF OpToRel, Ages
  <2> QED
    BY <1>3, <2>1
<1> QED
  BY <1>3, <1>4

\* getVertexFifo returns the age of an entry that equals v, or -1.
LEMMA VertexAgeType ==
  ASSUME NEW f \in [Ages -> Index], NEW v
  PROVE  /\ VertexAge(f, v) \in Ages \cup {-1}
         /\ VertexAge(f, v) # -1 => f[VertexAge(f, v)] = v
<1>1. CASE \E i \in Ages : f[i] = v
  <2>1. \E i \in Ages : f[i] = v /\ \A j \in Ages : j < i => f[j] # v
    BY <1>1, YoungestExists
  <2> QED
    BY <1>1, <2>1 DEF VertexAge
<1>2. CASE ~ \E i \in Ages : f[i] = v
  BY <1>2 DEF VertexAge
<1> QED
  BY <1>1, <1>2

-----------------------------------------------------------------------------
(* Indices *)

LEMMA SuccPred ==
  ASSUME NEW i \in Index
  PROVE  /\ Succ(i) \in Index /\ Pred(i) \in Index
         /\ Pred(Succ(i)) = i
  BY TopType DEF Succ, Pred, Plus, Minus, Index

LEMMA ModulusType == Modulus \in Nat /\ Modulus % 2 = 0 /\ ShortModulus \in 1..Modulus
  BY TopType, SizesAssumption

\* decodeIndex gives back the index that encodeIndex was given, against the same last index.
LEMMA IndexInverse ==
  ASSUME NEW i \in Index, NEW last \in Index
  PROVE  /\ IndexToken(i, last) \in Token
         /\ DecodeIndex(IndexToken(i, last), last) = i
<1>1. Minus(i, last) \in Index /\ Plus(last, Minus(i, last)) = i
  BY ModulusType, DifferenceInverse
<1>2. IndexToken(i, last)[2] = ZigZag(Minus(i, last))
  BY DEF IndexToken
<1>3. ZigZag(Minus(i, last)) \in Index /\ UnZigZag(ZigZag(Minus(i, last))) = Minus(i, last)
  BY <1>1, ModulusType, ZigZagInverse
<1>4. IndexToken(i, last) \in Token
  BY <1>3 DEF IndexToken, Token
<1> QED
  BY <1>1, <1>2, <1>3, <1>4 DEF DecodeIndex

LEMMA DecodeIndexType ==
  ASSUME NEW v \in Index, NEW last \in Index
  PROVE  DecodeIndex(<<"index", v>>, last) \in Index
<1>1. UnZigZag(v) \in Index /\ Plus(last, UnZigZag(v)) \in Index
  BY ModulusType, UnZigZagType, PlusType
<1> QED
  BY <1>1 DEF DecodeIndex

LEMMA TokensSizeType ==
  ASSUME NEW tokens
  PROVE  TokensSize(tokens) \in Nat
<1>1. \A v : IndexSize(v) \in Nat
  BY IndexSizeType, SizesAssumption
<1>2. \A token : TokenSize(token) \in Nat
  BY <1>1 DEF TokenSize
<1> QED
  BY <1>2 DEF TokensSize

-----------------------------------------------------------------------------
(* Encoding *)

LEMMA FecMaxType ==
  ASSUME NEW version \in Versions
  PROVE  /\ FecMax(version) \in {Top - 2, Top}
         /\ version = 0 => FecMax(version) = Top
         /\ version = 1 => FecMax(version) = Top - 2
  BY SizesAssumption DEF FecMax, Versions, Top

LEMMA InputType ==
  ASSUME NEW t \in Inputs
  PROVE  /\ t \in Triangle
         /\ t[1] # Fill /\ t[2] # Fill /\ t[3] # Fill
  BY InputsAssumption, TopType DEF Triangle, Index, Fill

LEMMA RotateType ==
  ASSUME NEW t \in Inputs, NEW k \in 0..2
  PROVE  /\ RotateTo(t, k) \in Triangle
         /\ \A i \in 1..3 : RotateTo(t, k)[i] \in Index \ {Fill}
<1>1. k = 0 \/ k = 1 \/ k = 2
  OBVIOUS
<1>2. t = <<t[1], t[2], t[3]>> /\ t[1] \in Index /\ t[2] \in Index /\ t[3] \in Index
  BY InputType DEF Triangle
<1>3. RotateTo(t, k) \in {<<t[1], t[2], t[3]>>, <<t[2], t[3], t[1]>>, <<t[3], t[1], t[2]>>}
  BY <1>1, <1>2 DEF RotateTo
<1> QED
  BY <1>2, <1>3, InputType DEF Triangle

\* The code of the third corner says how the decoder finds it.
LEMMA EdgeCodeMeaning ==
  ASSUME NEW st \in CodecState, NEW c \in Index, NEW version \in Versions
  PROVE  LET fec == EdgeCode(st, c, version)
         IN  /\ fec \in Ages
             /\ fec = 0 => c = st.next
             /\ fec > 0 /\ fec < FecMax(version) => st.verts[fec] = c
             /\ fec >= FecMax(version) =>
                  \/ fec = Top - 2 /\ Succ(c) = st.last
                  \/ fec = Top - 1 /\ c = Succ(st.last)
                  \/ fec = Top
<1> DEFINE age == VertexAge(st.verts, c)
<1>1. age \in Ages \cup {-1} /\ (age # -1 => st.verts[age] = c)
  BY VertexAgeType DEF CodecState
<1>2. FecMax(version) \in {Top - 2, Top} /\ Top \in Nat /\ Top >= 4 /\ Ages = 0..Top
  BY TopType, FecMaxType
<1>3. EdgeCode(st, c, version) =
        IF age \in 1..FecMax(version) - 1 THEN age
        ELSE IF c = st.next THEN 0
        ELSE IF version >= 1 /\ Succ(c) = st.last THEN Top - 2
        ELSE IF version >= 1 /\ c = Succ(st.last) THEN Top - 1
        ELSE Top
  BY DEF EdgeCode
<1>4. version >= 1 => FecMax(version) = Top - 2
  BY FecMaxType DEF Versions
<1> HIDE DEF age
<1> QED
  BY <1>1, <1>2, <1>3, <1>4

\* The code of the second and the third corner of other triangles.
LEMMA FreeCodeMeaning ==
  ASSUME NEW verts \in [Ages -> Index], NEW v, NEW next
  PROVE  LET f == FreeCode(verts, v, next)
         IN  /\ f \in Ages
             /\ f = 0 => v = next
             /\ f > 0 /\ f < Top => f - 1 \in Ages /\ f - 1 < Top /\ verts[f - 1] = v
             /\ f = Top => v # next
<1> DEFINE age == VertexAge(verts, v)
<1>1. age \in Ages \cup {-1} /\ (age # -1 => verts[age] = v)
  BY VertexAgeType
<1>2. Top \in Nat /\ Top >= 4 /\ Ages = 0..Top
  BY TopType
<1>3. FreeCode(verts, v, next) =
        IF age \in 0..Top - 2 THEN age + 1 ELSE IF v = next THEN 0 ELSE Top
  BY DEF FreeCode
<1> HIDE DEF age
<1> QED
  BY <1>1, <1>2, <1>3

LEMMA TableEntryType ==
  ASSUME NEW pair, InTable(pair)
  PROVE  TableEntry(pair) \in TableIndex /\ AuxTable[TableEntry(pair)] = pair
  BY DEF InTable, TableEntry

LEMMA PushEdgesType ==
  ASSUME NEW f \in [Ages -> Index \X Index], NEW a \in Index, NEW b \in Index, NEW c \in Index
  PROVE  /\ PushEdges2(f, a, b, c) \in [Ages -> Index \X Index]
         /\ PushEdges3(f, a, b, c) \in [Ages -> Index \X Index]
  BY PushType DEF PushEdges2, PushEdges3

\* What the encoder writes for a triangle.
Coded == [st : CodecState, code : (0..Top) \X (0..Top), tokens : Seq(Token)]

LEMMA EncodeEdgeType ==
  ASSUME NEW st \in CodecState, NEW t \in Inputs, NEW version \in Versions,
         NEW h \in EdgeHits(st, t)
  PROVE  EncodeEdge(st, t, version, h) \in Coded
<1> DEFINE r   == RotateTo(t, h[2])
           c   == r[3]
           fec == EdgeCode(st, c, version)
           st2 == [next  |-> IF fec = 0 THEN Succ(st.next) ELSE st.next,
                   last  |-> IF fec >= FecMax(version) THEN c ELSE st.last,
                   edges |-> PushEdges2(st.edges, r[1], r[2], c),
                   verts |-> IF fec = 0 \/ fec >= FecMax(version) THEN Push(st.verts, c)
                                                                  ELSE st.verts]
           tokens == IF fec = Top THEN <<IndexToken(c, st.last)>> ELSE <<>>
<1>1. EncodeEdge(st, t, version, h) = [st |-> st2, code |-> <<h[1], fec>>, tokens |-> tokens]
  BY DEF EncodeEdge
<1>2. h[1] \in Ages /\ h[2] \in 0..2
  BY DEF EdgeHits
<1>3. r[1] \in Index /\ r[2] \in Index /\ c \in Index
  BY <1>2, RotateType
<1>4. fec \in Ages
  BY <1>3, EdgeCodeMeaning
<1>5. st2 \in CodecState
  <2> st.next \in Index /\ st.last \in Index /\ st.verts \in [Ages -> Index]
      /\ st.edges \in [Ages -> Index \X Index]
    BY DEF CodecState
  <2> HIDE DEF r, c, fec
  <2> QED
    BY <1>3, SuccPred, PushEdgesType, PushType DEF CodecState
<1>6. tokens \in Seq(Token)
  <2> st.last \in Index
    BY DEF CodecState
  <2> IndexToken(c, st.last) \in Token
    BY <1>3, IndexInverse
  <2> HIDE DEF c, fec
  <2> QED
    OBVIOUS
<1> HIDE DEF st2, tokens, fec
<1> QED
  BY <1>1, <1>2, <1>4, <1>5, <1>6, TopType DEF Coded

\* After the rotation the first corner is next if any corner is.
LEMMA RotationFirst ==
  ASSUME NEW t \in Inputs, NEW next
  PROVE  LET r == RotateTo(t, Rotation(t, next))
         IN  /\ Rotation(t, next) \in 0..2
             /\ r[2] = next \/ r[3] = next => r[1] = next
<1>1. CASE t[2] = next
  BY <1>1, InputType DEF Rotation, RotateTo, Triangle
<1>2. CASE t[2] # next /\ t[3] = next
  BY <1>2, InputType DEF Rotation, RotateTo, Triangle
<1>3. CASE t[2] # next /\ t[3] # next
  BY <1>3, InputType DEF Rotation, RotateTo, Triangle
<1> QED
  BY <1>1, <1>2, <1>3

Resets(st, version, r) == r = <<0, 1, 2>> /\ st.next > 0 /\ version >= 1

UsesTable(st, version, r, fea, feb, fec) ==
  fea = 0 /\ InTable(<<feb, fec>>) /\ ~Resets(st, version, r)

\* EncodeFree with its intermediate values as parameters.
FreeCoding(st, version, r, fea, feb, fec, coded) ==
  LET verts  == IF Resets(st, version, r) THEN NoVertices ELSE st.verts
      next0  == IF Resets(st, version, r) THEN 0 ELSE st.next
      next1  == IF fea = 0 THEN Succ(next0) ELSE next0
      next2  == IF feb = 0 THEN Succ(next1) ELSE next1
      last1  == IF fea = Top THEN r[1] ELSE st.last
      last2  == IF feb = Top THEN r[2] ELSE last1
      verts1 == Push(verts, r[1])
      verts2 == IF feb \in {0, Top} THEN Push(verts1, r[2]) ELSE verts1
  IN  /\ fea \in {0, Top} /\ feb \in Ages /\ fec \in Ages
      /\ fea = 0 <=> r[1] = next0
      /\ feb = 0 => r[2] = next1
      /\ feb > 0 /\ feb < Top => feb - 1 \in 0..Top - 1 /\ verts[feb - 1] = r[2]
      /\ feb = Top => r[2] # next1
      /\ fec = 0 => r[3] = next2
      /\ fec > 0 /\ fec < Top => fec - 1 \in 0..Top - 1 /\ verts[fec - 1] = r[3]
      /\ fec = Top => r[3] # next2
      /\ r[2] = st.next \/ r[3] = st.next => r[1] = st.next
      /\ coded = [st |-> [next  |-> IF fec = 0 THEN Succ(next2) ELSE next2,
                          last  |-> IF fec = Top THEN r[3] ELSE last2,
                          verts |-> IF fec \in {0, Top} THEN Push(verts2, r[3]) ELSE verts2,
                          edges |-> PushEdges3(st.edges, r[1], r[2], r[3])],
                  code   |-> IF UsesTable(st, version, r, fea, feb, fec)
                               THEN <<Top, TableEntry(<<feb, fec>>)>>
                               ELSE <<Top, IF fea = 0 THEN Top - 1 ELSE Top>>,
                  tokens |-> (IF UsesTable(st, version, r, fea, feb, fec)
                                THEN <<>> ELSE <<<<"aux", feb, fec>>>>)
                             \o (IF fea = Top THEN <<IndexToken(r[1], st.last)>> ELSE <<>>)
                             \o (IF feb = Top THEN <<IndexToken(r[2], last1)>> ELSE <<>>)
                             \o (IF fec = Top THEN <<IndexToken(r[3], last2)>> ELSE <<>>)]

LEMMA EncodeFreeMeaning ==
  ASSUME NEW st \in CodecState, NEW t \in Inputs, NEW version \in Versions
  PROVE  \E k \in 0..2, fea, feb, fec \in Ages :
           FreeCoding(st, version, RotateTo(t, k), fea, feb, fec, EncodeFree(st, t, version))
<1> DEFINE k      == Rotation(t, st.next)
           r      == RotateTo(t, k)
           reset  == Resets(st, version, r)
           verts  == IF reset THEN NoVertices ELSE st.verts
           next0  == IF reset THEN 0 ELSE st.next
           fea    == IF r[1] = next0 THEN 0 ELSE Top
           next1  == IF fea = 0 THEN Succ(next0) ELSE next0
           feb    == FreeCode(verts, r[2], next1)
           next2  == IF feb = 0 THEN Succ(next1) ELSE next1
           fec    == FreeCode(verts, r[3], next2)
           coded  == EncodeFree(st, t, version)
<1>1. k \in 0..2
  BY RotationFirst
<1>2. r[2] = st.next \/ r[3] = st.next => r[1] = st.next
  BY RotationFirst
<1>3. verts \in [Ages -> Index]
  BY TopType DEF NoVertices, CodecState
<1>4. fea \in {0, Top} /\ (fea = 0 <=> r[1] = next0) /\ fea \in Ages
  BY TopType
<1>5. /\ feb \in Ages
      /\ feb = 0 => r[2] = next1
      /\ feb > 0 /\ feb < Top => feb - 1 \in 0..Top - 1 /\ verts[feb - 1] = r[2]
      /\ feb = Top => r[2] # next1
  <2> HIDE DEF verts, next1, r
  <2> QED
    BY <1>3, FreeCodeMeaning, TopType
<1>6. /\ fec \in Ages
      /\ fec = 0 => r[3] = next2
      /\ fec > 0 /\ fec < Top => fec - 1 \in 0..Top - 1 /\ verts[fec - 1] = r[3]
      /\ fec = Top => r[3] # next2
  <2> HIDE DEF verts, next2, r
  <2> QED
    BY <1>3, FreeCodeMeaning, TopType
<1>7. FreeCoding(st, version, r, fea, feb, fec, coded)
  BY <1>2, <1>4, <1>5, <1>6 DEF FreeCoding, EncodeFree, Resets, UsesTable
<1> HIDE DEF r, reset, fea, feb, fec, k
<1>8. RotateTo(t, k) = r
  BY DEF r
<1> QED
  BY <1>1, <1>4, <1>5, <1>6, <1>7, <1>8

\* The number of tokens of an explicit index.
Explicit(fe) == IF fe = Top THEN 1 ELSE 0

\* Where the elements of a concatenation come from.
LEMMA Concat ==
  ASSUME NEW S, NEW s \in Seq(S), NEW t \in Seq(S)
  PROVE  /\ s \o t \in Seq(S)
         /\ Len(s \o t) = Len(s) + Len(t)
         /\ \A i \in 1..Len(s) : (s \o t)[i] = s[i]
         /\ \A i \in 1..Len(t) : (s \o t)[Len(s) + i] = t[i]
  BY ConcatProperties

\* s followed by x if n is 1.
Extend(s, x, n) == s \o (IF n = 1 THEN <<x>> ELSE <<>>)

LEMMA ExtendType ==
  ASSUME NEW s \in Seq(Token), NEW x \in Token, NEW n \in 0..1
  PROVE  /\ Extend(s, x, n) \in Seq(Token)
         /\ Len(Extend(s, x, n)) = Len(s) + n
<1>1. CASE n = 1
  <2>1. <<x>> \in Seq(Token) /\ Len(<<x>>) = 1
    OBVIOUS
  <2> QED
    BY <1>1, <2>1, Concat DEF Extend
<1>2. CASE n = 0
  BY <1>2, ConcatEmptySeq DEF Extend
<1> QED
  BY <1>1, <1>2

LEMMA ExtendKeeps ==
  ASSUME NEW s \in Seq(Token), NEW x \in Token, NEW n \in 0..1
  PROVE  \A i \in 1..Len(s) : Extend(s, x, n)[i] = s[i]
<1>1. CASE n = 1
  <2>1. <<x>> \in Seq(Token)
    OBVIOUS
  <2> QED
    BY <1>1, <2>1, Concat DEF Extend
<1>2. CASE n = 0
  BY <1>2, ConcatEmptySeq DEF Extend
<1> QED
  BY <1>1, <1>2

LEMMA ExtendAdds ==
  ASSUME NEW s \in Seq(Token), NEW x \in Token
  PROVE  Extend(s, x, 1)[Len(s) + 1] = x
<1>1. <<x>> \in Seq(Token) /\ Len(<<x>>) = 1 /\ <<x>>[1] = x
  OBVIOUS
<1>2. Extend(s, x, 1) = s \o <<x>>
  BY DEF Extend
<1>3. \A i \in 1..Len(<<x>>) : (s \o <<x>>)[Len(s) + i] = <<x>>[i]
  BY <1>1, Concat
<1> QED
  BY <1>1, <1>2, <1>3

\* A pair of the table has no tokens.
LEMMA TableTokens ==
  ASSUME NEW st \in CodecState, NEW t \in Inputs, NEW k \in 0..2,
         NEW version \in Versions,
         NEW fea \in Ages, NEW feb \in Ages, NEW fec \in Ages, NEW coded,
         FreeCoding(st, version, RotateTo(t, k), fea, feb, fec, coded),
         UsesTable(st, version, RotateTo(t, k), fea, feb, fec)
  PROVE  /\ coded.tokens = <<>>
         /\ fea = 0 /\ feb < Top /\ fec < Top
         /\ coded.code[1] = Top /\ coded.code[2] \in TableIndex
         /\ AuxTable[coded.code[2]] = <<feb, fec>>
<1>1. fea = 0 /\ InTable(<<feb, fec>>)
  BY DEF UsesTable
<1>2. TableEntry(<<feb, fec>>) \in TableIndex /\ AuxTable[TableEntry(<<feb, fec>>)] = <<feb, fec>>
  BY <1>1, TableEntryType
<1>3. feb < Top /\ fec < Top /\ fea # Top
  BY <1>1, <1>2, TableAssumption, TopType
<1>4. fea # Top /\ feb # Top /\ fec # Top
  BY <1>3, TopType
<1>5. coded.tokens = <<>> \o <<>> \o <<>> \o <<>>
  BY <1>4 DEF FreeCoding
<1>6. <<>> \in Seq(Token) /\ <<>> \o <<>> = <<>>
  BY ConcatEmptySeq
<1>7. coded.code = <<Top, TableEntry(<<feb, fec>>)>>
  BY DEF FreeCoding
<1> QED
  BY <1>1, <1>2, <1>3, <1>5, <1>6, <1>7

\* Otherwise there is a codeaux byte, followed by the explicit indices in their order.
LEMMA AuxTokens ==
  ASSUME NEW st \in CodecState, NEW t \in Inputs, NEW k \in 0..2,
         NEW version \in Versions,
         NEW fea \in Ages, NEW feb \in Ages, NEW fec \in Ages, NEW coded,
         FreeCoding(st, version, RotateTo(t, k), fea, feb, fec, coded),
         ~UsesTable(st, version, RotateTo(t, k), fea, feb, fec)
  PROVE  LET r     == RotateTo(t, k)
             last1 == IF fea = Top THEN r[1] ELSE st.last
             last2 == IF feb = Top THEN r[2] ELSE last1
         IN  /\ coded.tokens \in Seq(Token)
             /\ Len(coded.tokens) = 1 + Explicit(fea) + Explicit(feb) + Explicit(fec)
             /\ coded.code = <<Top, IF fea = 0 THEN Top - 1 ELSE Top>>
             /\ coded.tokens[1] = <<"aux", feb, fec>>
             /\ fea = Top => coded.tokens[2] = IndexToken(r[1], st.last)
             /\ feb = Top => coded.tokens[2 + Explicit(fea)] = IndexToken(r[2], last1)
             /\ fec = Top => coded.tokens[2 + Explicit(fea) + Explicit(feb)]
                               = IndexToken(r[3], last2)
<1> DEFINE r     == RotateTo(t, k)
           last1 == IF fea = Top THEN r[1] ELSE st.last
           last2 == IF feb = Top THEN r[2] ELSE last1
           w == <<"aux", feb, fec>>
           x == IndexToken(r[1], st.last)
           y == IndexToken(r[2], last1)
           z == IndexToken(r[3], last2)
<1>1. r[1] \in Index /\ r[2] \in Index /\ r[3] \in Index /\ st.last \in Index
  BY RotateType DEF CodecState
<1>2. last1 \in Index /\ last2 \in Index
  BY <1>1
<1>3. w \in Token /\ x \in Token /\ y \in Token /\ z \in Token
  BY <1>1, <1>2, IndexInverse, TopType DEF Token
<1>4. coded.tokens = <<w>>
                     \o (IF fea = Top THEN <<x>> ELSE <<>>)
                     \o (IF feb = Top THEN <<y>> ELSE <<>>)
                     \o (IF fec = Top THEN <<z>> ELSE <<>>)
  BY DEF FreeCoding
<1>5. coded.code = <<Top, IF fea = 0 THEN Top - 1 ELSE Top>>
  BY DEF FreeCoding
<1> HIDE DEF r, w, x, y, z
<1> DEFINE X == Explicit(fea)
           Y == Explicit(feb)
           Z == Explicit(fec)
<1>6. X \in 0..1 /\ Y \in 0..1 /\ Z \in 0..1
  BY DEF Explicit
<1>7. (X = 1 <=> fea = Top) /\ (Y = 1 <=> feb = Top) /\ (Z = 1 <=> fec = Top)
  BY DEF Explicit
<1> HIDE DEF X, Y, Z
<1> DEFINE s1 == Extend(<<w>>, x, X)
           s2 == Extend(s1, y, Y)
           s3 == Extend(s2, z, Z)
<1>8. coded.tokens = s3
  BY <1>4, <1>7 DEF Extend
<1>9. <<w>> \in Seq(Token) /\ Len(<<w>>) = 1 /\ <<w>>[1] = w
  BY <1>3
<1>10. /\ s1 \in Seq(Token) /\ Len(s1) = 1 + X
       /\ s1[1] = w /\ (X = 1 => s1[2] = x)
  <2>1. s1 \in Seq(Token) /\ Len(s1) = Len(<<w>>) + X
    BY <1>3, <1>6, <1>9, ExtendType
  <2>2. \A i \in 1..Len(<<w>>) : s1[i] = <<w>>[i]
    BY <1>3, <1>6, <1>9, ExtendKeeps
  <2>3. X = 1 => s1[Len(<<w>>) + 1] = x
    BY <1>3, <1>6, <1>9, ExtendAdds
  <2> HIDE DEF s1
  <2> QED
    BY <1>6, <1>9, <2>1, <2>2, <2>3
<1> HIDE DEF s1
<1>11. /\ s2 \in Seq(Token) /\ Len(s2) = 1 + X + Y
       /\ s2[1] = w /\ (X = 1 => s2[2] = x) /\ (Y = 1 => s2[2 + X] = y)
  <2>1. s2 \in Seq(Token) /\ Len(s2) = Len(s1) + Y
    BY <1>3, <1>6, <1>10, ExtendType
  <2>2. \A i \in 1..Len(s1) : s2[i] = s1[i]
    BY <1>3, <1>6, <1>10, ExtendKeeps
  <2>3. Y = 1 => s2[Len(s1) + 1] = y
    BY <1>3, <1>6, <1>10, ExtendAdds
  <2> HIDE DEF s2
  <2>4. Len(s1) + 1 = 2 + X
    BY <1>6, <1>10
  <2> QED
    BY <1>6, <1>10, <2>1, <2>2, <2>3, <2>4
<1> HIDE DEF s2
<1>12. /\ s3 \in Seq(Token) /\ Len(s3) = 1 + X + Y + Z
       /\ s3[1] = w /\ (X = 1 => s3[2] = x) /\ (Y = 1 => s3[2 + X] = y)
       /\ Z = 1 => s3[2 + X + Y] = z
  <2>1. s3 \in Seq(Token) /\ Len(s3) = Len(s2) + Z
    BY <1>3, <1>6, <1>11, ExtendType
  <2>2. \A i \in 1..Len(s2) : s3[i] = s2[i]
    BY <1>3, <1>6, <1>11, ExtendKeeps
  <2>3. Z = 1 => s3[Len(s2) + 1] = z
    BY <1>3, <1>6, <1>11, ExtendAdds
  <2> HIDE DEF s3
  <2>4. Len(s2) + 1 = 2 + X + Y
    BY <1>6, <1>11
  <2>5. s3[1] = w /\ (X = 1 => s3[2] = x) /\ (Y = 1 => s3[2 + X] = y)
    BY <1>6, <1>11, <2>2
  <2>6. Z = 1 => s3[2 + X + Y] = z
    BY <2>3, <2>4
  <2> QED
    BY <1>6, <1>11, <2>1, <2>5, <2>6
<1> HIDE DEF s3
<1>13. /\ coded.tokens \in Seq(Token)
       /\ Len(coded.tokens) = 1 + X + Y + Z
       /\ coded.tokens[1] = w
       /\ fea = Top => coded.tokens[2] = x
       /\ feb = Top => coded.tokens[2 + X] = y
       /\ fec = Top => coded.tokens[2 + X + Y] = z
  BY <1>7, <1>8, <1>12
<1> QED
  BY <1>5, <1>13 DEF X, Y, Z, r, w, x, y, z
LEMMA FreeType ==
  ASSUME NEW st \in CodecState, NEW t \in Inputs, NEW k \in 0..2,
         NEW version \in Versions,
         NEW fea \in Ages, NEW feb \in Ages, NEW fec \in Ages, NEW coded,
         FreeCoding(st, version, RotateTo(t, k), fea, feb, fec, coded)
  PROVE  coded \in Coded
<1> DEFINE r      == RotateTo(t, k)
           verts  == IF Resets(st, version, r) THEN NoVertices ELSE st.verts
           next0  == IF Resets(st, version, r) THEN 0 ELSE st.next
           next1  == IF fea = 0 THEN Succ(next0) ELSE next0
           next2  == IF feb = 0 THEN Succ(next1) ELSE next1
           next3  == IF fec = 0 THEN Succ(next2) ELSE next2
           last1  == IF fea = Top THEN r[1] ELSE st.last
           last2  == IF feb = Top THEN r[2] ELSE last1
           last3  == IF fec = Top THEN r[3] ELSE last2
           verts1 == Push(verts, r[1])
           verts2 == IF feb \in {0, Top} THEN Push(verts1, r[2]) ELSE verts1
           verts3 == IF fec \in {0, Top} THEN Push(verts2, r[3]) ELSE verts2
           edges3 == PushEdges3(st.edges, r[1], r[2], r[3])
<1>1. /\ r[1] \in Index /\ r[2] \in Index /\ r[3] \in Index
      /\ st.last \in Index /\ st.next \in Index
      /\ st.verts \in [Ages -> Index] /\ st.edges \in [Ages -> Index \X Index]
  BY RotateType DEF CodecState
<1>2. coded.st = [next |-> next3, last |-> last3, verts |-> verts3, edges |-> edges3]
  BY DEF FreeCoding
<1>3. next0 \in Index /\ verts \in [Ages -> Index]
  <2>1. 0 \in Index
    BY TopType DEF Index
  <2>2. NoVertices \in [Ages -> Index]
    BY TopType DEF NoVertices
  <2> QED
    BY <1>1, <2>1, <2>2
<1> HIDE DEF r, verts, next0
<1>4. next1 \in Index
  BY <1>3, SuccPred
<1> HIDE DEF next1
<1>5. next2 \in Index
  BY <1>4, SuccPred
<1> HIDE DEF next2
<1>6. next3 \in Index
  BY <1>5, SuccPred
<1>7. last3 \in Index
  BY <1>1
<1>8. verts1 \in [Ages -> Index]
  BY <1>1, <1>3, PushType
<1> HIDE DEF verts1
<1>9. verts2 \in [Ages -> Index]
  BY <1>1, <1>8, PushType
<1> HIDE DEF verts2
<1>10. verts3 \in [Ages -> Index]
  BY <1>1, <1>9, PushType
<1>11. edges3 \in [Ages -> Index \X Index]
  BY <1>1, PushEdgesType
<1> HIDE DEF next3, last3, verts3, edges3
<1>12. coded.st \in CodecState
  BY <1>2, <1>6, <1>7, <1>10, <1>11 DEF CodecState
<1>13. coded.tokens \in Seq(Token)
  <2>1. CASE UsesTable(st, version, RotateTo(t, k), fea, feb, fec)
    <3>1. coded.tokens = <<>>
      BY <2>1, TableTokens
    <3> QED
      BY <3>1
  <2>2. CASE ~UsesTable(st, version, RotateTo(t, k), fea, feb, fec)
    BY <2>2, AuxTokens
  <2> QED
    BY <2>1, <2>2
<1>14. coded.code \in (0..Top) \X (0..Top)
  <2>1. CASE UsesTable(st, version, RotateTo(t, k), fea, feb, fec)
    <3>1. InTable(<<feb, fec>>) /\ coded.code = <<Top, TableEntry(<<feb, fec>>)>>
      BY <2>1 DEF FreeCoding, UsesTable
    <3> QED
      BY <3>1, TableEntryType, TopType
  <2>2. CASE ~UsesTable(st, version, RotateTo(t, k), fea, feb, fec)
    BY <2>2, TopType DEF FreeCoding
  <2> QED
    BY <2>1, <2>2
<1>15. coded = [st |-> coded.st, code |-> coded.code, tokens |-> coded.tokens]
  BY DEF FreeCoding
<1> QED
  BY <1>12, <1>13, <1>14, <1>15 DEF Coded

LEMMA EncodeFreeType ==
  ASSUME NEW st \in CodecState, NEW t \in Inputs, NEW version \in Versions
  PROVE  EncodeFree(st, t, version) \in Coded
  BY EncodeFreeMeaning, FreeType

-----------------------------------------------------------------------------
(* Agreement of the encoder and the decoder *)

LEMMA AgreeLookup ==
  ASSUME NEW e, NEW d, VertsAgree(e, d), NEW i \in 0..Top - 1, e[i] # Fill
  PROVE  d[i] = e[i]
  BY DEF VertsAgree

LEMMA AgreePush ==
  ASSUME NEW e \in [Ages -> Index], NEW d \in [Ages -> Index], VertsAgree(e, d), NEW v \in Index
  PROVE  VertsAgree(Push(e, v), Push(d, v))
<1> SUFFICES ASSUME NEW i \in 0..Top - 1, Push(e, v)[i] # Fill
             PROVE  Push(d, v)[i] = Push(e, v)[i]
  BY DEF VertsAgree
<1>1. CASE i = 0
  <2>1. Push(e, v)[0] = v /\ Push(d, v)[0] = v
    BY PushType, SMTT(30)
  <2> QED
    BY <1>1, <2>1
<1>2. CASE i > 0
  <2>1. i \in Ages /\ i - 1 \in 0..Top - 1
    BY <1>2, TopType
  <2>2. Push(e, v)[i] = e[i - 1] /\ Push(d, v)[i] = d[i - 1]
    BY <1>2, <2>1, PushType, SMTT(30)
  <2> QED
    BY <2>1, <2>2 DEF VertsAgree
<1> QED
  BY <1>1, <1>2, TopType

\* The decoder writes the oldest slot even when it does not push: no encoder refers to it.
LEMMA AgreeKeep ==
  ASSUME NEW e, NEW d \in [Ages -> Index], VertsAgree(e, d), NEW v
  PROVE  VertsAgree(e, [d EXCEPT ![Top] = v])
  BY TopType DEF VertsAgree

LEMMA AgreePushIf ==
  ASSUME NEW e \in [Ages -> Index], NEW d \in [Ages -> Index], VertsAgree(e, d),
         NEW v \in Index, NEW cond \in BOOLEAN
  PROVE  VertsAgree(IF cond THEN Push(e, v) ELSE e, PushIf(d, v, cond))
<1>1. CASE cond
  BY <1>1, AgreePush DEF PushIf
<1>2. CASE ~cond
  BY <1>2, AgreeKeep DEF PushIf
<1> QED
  BY <1>1, <1>2

\* What a decoded triangle has to be: the state agrees, the triangle is the one encoded, rotated.
Matches(coded, r, x) ==
  /\ Agree(coded.st, x.st)
  /\ x.tri = <<r[1], r[2], r[3]>>
  /\ x.read = Len(coded.tokens)

\* A pair of the table is decoded to the triangle it was encoded for.
LEMMA TableMatches ==
  ASSUME NEW st \in CodecState, NEW d \in CodecState, Agree(st, d),
         NEW t \in Inputs, NEW k \in 0..2,
         NEW version \in Versions,
         NEW fea \in Ages, NEW feb \in Ages, NEW fec \in Ages, NEW coded,
         FreeCoding(st, version, RotateTo(t, k), fea, feb, fec, coded),
         UsesTable(st, version, RotateTo(t, k), fea, feb, fec)
  PROVE  Matches(coded, RotateTo(t, k), DecodeTable(d, <<feb, fec>>))
<1> DEFINE r     == RotateTo(t, k)
           next1 == Succ(st.next)
           next2 == IF feb = 0 THEN Succ(next1) ELSE next1
           next3 == IF fec = 0 THEN Succ(next2) ELSE next2
           b     == IF feb = 0 THEN next1 ELSE d.verts[feb - 1]
           c     == IF fec = 0 THEN next2 ELSE d.verts[fec - 1]
           x     == DecodeTable(d, <<feb, fec>>)
           verts1 == Push(st.verts, r[1])
           verts2 == IF feb = 0 THEN Push(verts1, r[2]) ELSE verts1
           verts3 == IF fec = 0 THEN Push(verts2, r[3]) ELSE verts2
<1>1. /\ r[1] \in Index \ {Fill} /\ r[2] \in Index \ {Fill} /\ r[3] \in Index \ {Fill}
      /\ st.verts \in [Ages -> Index] /\ d.verts \in [Ages -> Index]
  BY RotateType DEF CodecState
<1>2. /\ fea = 0 /\ ~Resets(st, version, r)
      /\ coded.tokens = <<>> /\ feb < Top /\ fec < Top
  BY TableTokens DEF UsesTable
<1>3. fea # Top /\ feb # Top /\ fec # Top
  BY <1>2, TopType
<1>4. d.next = st.next /\ d.last = st.last /\ d.edges = st.edges /\ VertsAgree(st.verts, d.verts)
  BY DEF Agree
<1>5. r[1] = st.next
  BY <1>2 DEF FreeCoding
<1>6. b = r[2]
  <2>1. CASE feb = 0
    BY <1>2, <2>1 DEF FreeCoding
  <2>2. CASE feb # 0
    <3>1. feb - 1 \in 0..Top - 1 /\ st.verts[feb - 1] = r[2]
      BY <1>2, <2>2, TopType DEF FreeCoding
    <3> QED
      BY <1>1, <1>4, <2>2, <3>1, AgreeLookup
  <2> QED
    BY <2>1, <2>2
<1>7. c = r[3]
  <2>1. CASE fec = 0
    BY <1>2, <2>1 DEF FreeCoding
  <2>2. CASE fec # 0
    <3>1. fec - 1 \in 0..Top - 1 /\ st.verts[fec - 1] = r[3]
      BY <1>2, <2>2, TopType DEF FreeCoding
    <3> QED
      BY <1>1, <1>4, <2>2, <3>1, AgreeLookup
  <2> QED
    BY <2>1, <2>2
<1>8. coded.st = [next |-> next3, last |-> st.last, verts |-> verts3,
                  edges |-> PushEdges3(st.edges, r[1], r[2], r[3])]
  BY <1>2, <1>3 DEF FreeCoding
<1>9. x = [st |-> [next  |-> next3,
                   last  |-> d.last,
                   edges |-> PushEdges3(d.edges, r[1], r[2], r[3]),
                   verts |-> PushIf(PushIf(Push(d.verts, r[1]), r[2], feb = 0), r[3], fec = 0)],
           tri |-> <<r[1], r[2], r[3]>>, read |-> 0]
  BY <1>4, <1>5, <1>6, <1>7 DEF DecodeTable
<1>10. VertsAgree(verts3, PushIf(PushIf(Push(d.verts, r[1]), r[2], feb = 0), r[3], fec = 0))
  <2> DEFINE d1 == Push(d.verts, r[1])
             d2 == PushIf(d1, r[2], feb = 0)
  <2>1. VertsAgree(verts1, d1) /\ verts1 \in [Ages -> Index] /\ d1 \in [Ages -> Index]
    BY <1>1, <1>4, AgreePush, PushType
  <2> HIDE DEF verts1, d1
  <2>2. VertsAgree(verts2, d2) /\ verts2 \in [Ages -> Index] /\ d2 \in [Ages -> Index]
    BY <1>1, <2>1, AgreePushIf, PushType, PushIfType
  <2> HIDE DEF verts2, d2
  <2>3. VertsAgree(verts3, PushIf(d2, r[3], fec = 0))
    BY <1>1, <2>2, AgreePushIf
  <2> QED
    BY <2>3 DEF d1, d2
<1> HIDE DEF r, next3, verts3, x
<1>11. Matches(coded, r, x)
  BY <1>2, <1>4, <1>8, <1>9, <1>10 DEF Matches, Agree
<1> QED
  BY <1>11 DEF r, x

\* DecodeAux on the tokens of a triangle.
AuxDecoding(d, st, r, fea, feb, fec) ==
  LET last1 == IF fea = Top THEN r[1] ELSE st.last
      last2 == IF feb = Top THEN r[2] ELSE last1
      next0 == IF feb = 0 /\ fec = 0 THEN 0 ELSE d.next
      a     == IF fea = Top THEN DecodeIndex(IndexToken(r[1], st.last), d.last) ELSE next0
      d1    == IF fea = Top THEN a ELSE d.last
      next1 == IF fea = Top THEN next0 ELSE Succ(next0)
      b     == IF feb = 0 THEN next1
               ELSE IF feb = Top THEN DecodeIndex(IndexToken(r[2], last1), d1)
               ELSE d.verts[feb - 1]
      d2    == IF feb = Top THEN b ELSE d1
      next2 == IF feb = 0 THEN Succ(next1) ELSE next1
      c     == IF fec = 0 THEN next2
               ELSE IF fec = Top THEN DecodeIndex(IndexToken(r[3], last2), d2)
               ELSE d.verts[fec - 1]
      d3    == IF fec = Top THEN c ELSE d2
  IN  [st |-> [next  |-> IF fec = 0 THEN Succ(next2) ELSE next2,
               last  |-> d3,
               edges |-> PushEdges3(d.edges, a, b, c),
               verts |-> PushIf(PushIf(Push(d.verts, a), b, feb \in {0, Top}),
                                c, fec \in {0, Top})],
       tri  |-> <<a, b, c>>,
       read |-> 1 + Explicit(fea) + Explicit(feb) + Explicit(fec)]

\* What DecodeAux returns, once it is known which corners are explicit.
AuxResult(st, feb, fec, readA, readB, readC, at) ==
  LET next0 == IF feb = 0 /\ fec = 0 THEN 0 ELSE st.next
      a     == IF readA = 1 THEN DecodeIndex(TokenAt(at + 2), st.last) ELSE next0
      last1 == IF readA = 1 THEN a ELSE st.last
      next1 == IF readA = 1 THEN next0 ELSE Succ(next0)
      b     == IF feb = 0 THEN next1
               ELSE IF readB = 1 THEN DecodeIndex(TokenAt(at + 2 + readA), last1)
               ELSE st.verts[feb - 1]
      last2 == IF readB = 1 THEN b ELSE last1
      next2 == IF feb = 0 THEN Succ(next1) ELSE next1
      c     == IF fec = 0 THEN next2
               ELSE IF readC = 1 THEN DecodeIndex(TokenAt(at + 2 + readA + readB), last2)
               ELSE st.verts[fec - 1]
      last3 == IF readC = 1 THEN c ELSE last2
  IN  [st |-> [next  |-> IF fec = 0 THEN Succ(next2) ELSE next2,
               last  |-> last3,
               edges |-> PushEdges3(st.edges, a, b, c),
               verts |-> PushIf(PushIf(Push(st.verts, a), b, feb \in {0, Top}),
                                c, fec \in {0, Top})],
       tri  |-> <<a, b, c>>,
       read |-> 1 + readA + readB + readC]

\* The decoder finds every token where the encoder has put it.
LEMMA AuxShape ==
  ASSUME NEW st \in CodecState, NEW t \in Inputs, NEW k \in 0..2, NEW version \in Versions,
         NEW fea \in Ages, NEW feb \in Ages, NEW fec \in Ages, NEW coded,
         FreeCoding(st, version, RotateTo(t, k), fea, feb, fec, coded),
         ~UsesTable(st, version, RotateTo(t, k), fea, feb, fec),
         NEW d, NEW at \in Nat,
         \A j \in 1..Len(coded.tokens) : TokenAt(at + j) = coded.tokens[j]
  PROVE  DecodeAux(d, coded.code, at) = AuxDecoding(d, st, RotateTo(t, k), fea, feb, fec)
<1> DEFINE r     == RotateTo(t, k)
           last1 == IF fea = Top THEN r[1] ELSE st.last
           last2 == IF feb = Top THEN r[2] ELSE last1
           X == Explicit(fea)
           Y == Explicit(feb)
           Z == Explicit(fec)
<1>1. /\ Len(coded.tokens) = 1 + X + Y + Z
      /\ coded.code = <<Top, IF fea = 0 THEN Top - 1 ELSE Top>>
      /\ coded.tokens[1] = <<"aux", feb, fec>>
      /\ fea = Top => coded.tokens[2] = IndexToken(r[1], st.last)
      /\ feb = Top => coded.tokens[2 + X] = IndexToken(r[2], last1)
      /\ fec = Top => coded.tokens[2 + X + Y] = IndexToken(r[3], last2)
  BY AuxTokens
<1>2. /\ X \in 0..1 /\ Y \in 0..1 /\ Z \in 0..1
      /\ (X = 1 <=> fea = Top) /\ (Y = 1 <=> feb = Top) /\ (Z = 1 <=> fec = Top)
  BY DEF Explicit
<1>3. fea \in {0, Top} /\ 0 # Top
  BY TopType DEF FreeCoding
<1>4. coded.code[2] = Top <=> fea = Top
  BY <1>1, <1>3, TopType
<1> HIDE DEF X, Y, Z, r, last1, last2
<1>5. TokenAt(at + 1)[2] = feb /\ TokenAt(at + 1)[3] = fec
  BY <1>1, <1>2
<1>6. fea = Top => TokenAt(at + 2) = IndexToken(r[1], st.last)
  BY <1>1, <1>2
<1>7. feb = Top => TokenAt(at + 2 + X) = IndexToken(r[2], last1)
  <2> SUFFICES ASSUME feb = Top
               PROVE  TokenAt(at + 2 + X) = IndexToken(r[2], last1)
    OBVIOUS
  <2>1. 2 + X \in 1..Len(coded.tokens) /\ at + (2 + X) = at + 2 + X
    BY <1>1, <1>2
  <2> QED
    BY <1>1, <2>1
<1>8. fec = Top => TokenAt(at + 2 + X + Y) = IndexToken(r[3], last2)
  <2> SUFFICES ASSUME fec = Top
               PROVE  TokenAt(at + 2 + X + Y) = IndexToken(r[3], last2)
    OBVIOUS
  <2>1. 2 + X + Y \in 1..Len(coded.tokens) /\ at + (2 + X + Y) = at + 2 + X + Y
    BY <1>1, <1>2
  <2> QED
    BY <1>1, <2>1
<1>9. X = (IF coded.code[2] = Top THEN 1 ELSE 0)
  BY <1>4 DEF X, Explicit
<1>10. Y = (IF feb = Top THEN 1 ELSE 0) /\ Z = (IF fec = Top THEN 1 ELSE 0)
  BY DEF Y, Z, Explicit
<1> DEFINE next0 == IF feb = 0 /\ fec = 0 THEN 0 ELSE d.next
           a     == IF X = 1 THEN DecodeIndex(TokenAt(at + 2), d.last) ELSE next0
           d1    == IF X = 1 THEN a ELSE d.last
           next1 == IF X = 1 THEN next0 ELSE Succ(next0)
           b     == IF feb = 0 THEN next1
                    ELSE IF Y = 1 THEN DecodeIndex(TokenAt(at + 2 + X), d1)
                    ELSE d.verts[feb - 1]
           d2    == IF Y = 1 THEN b ELSE d1
           next2 == IF feb = 0 THEN Succ(next1) ELSE next1
           c     == IF fec = 0 THEN next2
                    ELSE IF Z = 1 THEN DecodeIndex(TokenAt(at + 2 + X + Y), d2)
                    ELSE d.verts[fec - 1]
           d3    == IF Z = 1 THEN c ELSE d2
           next3 == IF fec = 0 THEN Succ(next2) ELSE next2
           verts == PushIf(PushIf(Push(d.verts, a), b, feb \in {0, Top}), c, fec \in {0, Top})
<1>11. DecodeAux(d, coded.code, at)
         = [st |-> [next |-> next3, last |-> d3, edges |-> PushEdges3(d.edges, a, b, c),
                    verts |-> verts],
            tri |-> <<a, b, c>>, read |-> 1 + X + Y + Z]
  <2>1. AuxResult(d, TokenAt(at + 1)[2], TokenAt(at + 1)[3],
                  IF coded.code[2] = Top THEN 1 ELSE 0,
                  IF TokenAt(at + 1)[2] = Top THEN 1 ELSE 0,
                  IF TokenAt(at + 1)[3] = Top THEN 1 ELSE 0, at)
        = AuxResult(d, feb, fec, X, Y, Z, at)
    BY <1>5, <1>9, <1>10
  <2>2. DecodeAux(d, coded.code, at)
        = AuxResult(d, TokenAt(at + 1)[2], TokenAt(at + 1)[3],
                    IF coded.code[2] = Top THEN 1 ELSE 0,
                    IF TokenAt(at + 1)[2] = Top THEN 1 ELSE 0,
                    IF TokenAt(at + 1)[3] = Top THEN 1 ELSE 0, at)
    BY Zenon DEF DecodeAux, AuxResult
  <2>3. AuxResult(d, feb, fec, X, Y, Z, at)
        = [st |-> [next |-> next3, last |-> d3, edges |-> PushEdges3(d.edges, a, b, c),
                   verts |-> verts],
           tri |-> <<a, b, c>>, read |-> 1 + X + Y + Z]
    BY DEF AuxResult
  <2> QED
    BY <2>1, <2>2, <2>3
<1>12. AuxDecoding(d, st, r, fea, feb, fec)
         = [st |-> [next |-> next3, last |-> d3, edges |-> PushEdges3(d.edges, a, b, c),
                    verts |-> verts],
            tri |-> <<a, b, c>>, read |-> 1 + X + Y + Z]
  BY <1>2, <1>6, <1>7, <1>8 DEF AuxDecoding, X, Y, Z, last1, last2
<1> QED
  BY <1>11, <1>12 DEF r

\* What a decoding step yields, whatever the state it starts from.
Decoded == [st : CodecState, tri : Triangle, read : Nat]

LEMMA AuxType ==
  ASSUME NEW st \in CodecState, NEW t \in Inputs, NEW k \in 0..2,
         NEW fea \in Ages, NEW feb \in Ages, NEW fec \in Ages, NEW d \in CodecState
  PROVE  AuxDecoding(d, st, RotateTo(t, k), fea, feb, fec) \in Decoded
<1> DEFINE r     == RotateTo(t, k)
           last1 == IF fea = Top THEN r[1] ELSE st.last
           last2 == IF feb = Top THEN r[2] ELSE last1
           next0 == IF feb = 0 /\ fec = 0 THEN 0 ELSE d.next
           a     == IF fea = Top THEN DecodeIndex(IndexToken(r[1], st.last), d.last) ELSE next0
           d1    == IF fea = Top THEN a ELSE d.last
           next1 == IF fea = Top THEN next0 ELSE Succ(next0)
           b     == IF feb = 0 THEN next1
                    ELSE IF feb = Top THEN DecodeIndex(IndexToken(r[2], last1), d1)
                    ELSE d.verts[feb - 1]
           d2    == IF feb = Top THEN b ELSE d1
           next2 == IF feb = 0 THEN Succ(next1) ELSE next1
           c     == IF fec = 0 THEN next2
                    ELSE IF fec = Top THEN DecodeIndex(IndexToken(r[3], last2), d2)
                    ELSE d.verts[fec - 1]
           d3    == IF fec = Top THEN c ELSE d2
           next3 == IF fec = 0 THEN Succ(next2) ELSE next2
           verts1 == Push(d.verts, a)
           verts2 == PushIf(verts1, b, feb \in {0, Top})
           verts3 == PushIf(verts2, c, fec \in {0, Top})
           edges3 == PushEdges3(d.edges, a, b, c)
           read   == 1 + Explicit(fea) + Explicit(feb) + Explicit(fec)
<1>1. /\ r[1] \in Index /\ r[2] \in Index /\ r[3] \in Index
      /\ st.last \in Index /\ d.last \in Index /\ d.next \in Index
      /\ d.verts \in [Ages -> Index] /\ d.edges \in [Ages -> Index \X Index]
  BY RotateType DEF CodecState
<1>2. \A i \in Index, l \in Index, m \in Index : DecodeIndex(IndexToken(i, l), m) \in Index
  <2> SUFFICES ASSUME NEW i \in Index, NEW l \in Index, NEW m \in Index
               PROVE  DecodeIndex(IndexToken(i, l), m) \in Index
    OBVIOUS
  <2>1. Minus(i, l) \in Index
    BY TopType DEF Minus, Index
  <2>2. ZigZag(Minus(i, l)) \in Index
    BY <2>1, ModulusType, ZigZagInverse
  <2> QED
    BY <2>2, DecodeIndexType DEF IndexToken
<1>3. 0 \in Index
  BY TopType DEF Index
<1>4. (feb # 0 => d.verts[feb - 1] \in Index) /\ (fec # 0 => d.verts[fec - 1] \in Index)
  <2>1. (feb # 0 => feb - 1 \in Ages) /\ (fec # 0 => fec - 1 \in Ages)
    BY TopType
  <2> QED
    BY <1>1, <2>1
<1>5. last1 \in Index /\ last2 \in Index
  BY <1>1
<1>6. next0 \in Index
  BY <1>1, <1>3
<1> HIDE DEF r, last1, last2, next0
<1>7. a \in Index
  BY <1>1, <1>2, <1>6
<1> HIDE DEF a
<1>8. d1 \in Index /\ next1 \in Index
  BY <1>1, <1>6, <1>7, SuccPred
<1> HIDE DEF d1, next1
<1>9. b \in Index
  BY <1>1, <1>2, <1>4, <1>5, <1>8
<1> HIDE DEF b
<1>10. d2 \in Index /\ next2 \in Index
  BY <1>8, <1>9, SuccPred
<1> HIDE DEF d2, next2
<1>11. c \in Index
  BY <1>1, <1>2, <1>4, <1>5, <1>10
<1> HIDE DEF c
<1>12. d3 \in Index /\ next3 \in Index
  BY <1>10, <1>11, SuccPred
<1>13. verts1 \in [Ages -> Index]
  BY <1>1, <1>7, PushType
<1> HIDE DEF verts1
<1>14. verts2 \in [Ages -> Index]
  BY <1>9, <1>13, PushType, TopType DEF PushIf
<1> HIDE DEF verts2
<1>15. verts3 \in [Ages -> Index]
  BY <1>11, <1>14, PushType, TopType DEF PushIf
<1>16. edges3 \in [Ages -> Index \X Index]
  BY <1>1, <1>7, <1>9, <1>11, PushEdgesType
<1>17. read \in Nat
  BY DEF Explicit
<1> HIDE DEF d3, next3, verts3, edges3, read
<1>18. AuxDecoding(d, st, r, fea, feb, fec)
         = [st |-> [next |-> next3, last |-> d3, edges |-> edges3, verts |-> verts3],
            tri |-> <<a, b, c>>, read |-> read]
  BY DEF AuxDecoding, last1, last2, next0, a, d1, next1, b, d2, next2, c, d3, next3,
         verts1, verts2, verts3, edges3, read
<1>19. [next |-> next3, last |-> d3, edges |-> edges3, verts |-> verts3] \in CodecState
  BY <1>12, <1>15, <1>16 DEF CodecState
<1>20. <<a, b, c>> \in Triangle
  BY <1>7, <1>9, <1>11 DEF Triangle
<1> QED
  BY <1>17, <1>18, <1>19, <1>20 DEF Decoded, r

\* A codeaux byte 0 stands for a reset, and for nothing else.
LEMMA ResetPair ==
  ASSUME NEW st \in CodecState, NEW t \in Inputs, NEW k \in 0..2, NEW version \in Versions,
         NEW fea \in Ages, NEW feb \in Ages, NEW fec \in Ages, NEW coded,
         FreeCoding(st, version, RotateTo(t, k), fea, feb, fec, coded),
         ~UsesTable(st, version, RotateTo(t, k), fea, feb, fec)
  PROVE  feb = 0 /\ fec = 0 <=> Resets(st, version, RotateTo(t, k))
<1> DEFINE r == RotateTo(t, k)
<1>1. r[1] # Fill /\ r[2] # Fill /\ r[3] # Fill
  BY RotateType
<1>2. fea \in {0, Top} /\ 0 # Top
  BY TopType DEF FreeCoding
<1>3. ASSUME feb = 0, fec = 0, ~Resets(st, version, r)
      PROVE  FALSE
  <2>1. InTable(<<0, 0>>)
    BY TableAssumption, TopType DEF InTable
  <2>2. fea = Top
    BY <1>2, <1>3, <2>1 DEF UsesTable
  <2>3. r[2] = st.next
    BY <1>2, <1>3, <2>2 DEF FreeCoding
  <2>4. r[1] = st.next
    BY <2>3 DEF FreeCoding
  <2> QED
    BY <1>2, <1>3, <2>2, <2>4 DEF FreeCoding
<1>4. ASSUME Resets(st, version, r)
      PROVE  feb = 0 /\ fec = 0
  <2>1. r[1] = 0 /\ r[2] = 1 /\ r[3] = 2
    BY <1>4 DEF Resets
  <2>2. Succ(0) = 1 /\ Succ(1) = 2
    BY TopType DEF Succ, Plus
  <2>3. fea = 0
    BY <1>4, <2>1 DEF FreeCoding
  <2>4. feb = 0
    <3>1. feb # Top
      BY <1>4, <2>1, <2>2, <2>3 DEF FreeCoding
    <3>2. ~(feb > 0 /\ feb < Top)
      <4>1. ASSUME feb > 0, feb < Top
            PROVE  FALSE
        <5>1. feb - 1 \in 0..Top - 1 /\ NoVertices[feb - 1] = r[2]
          BY <1>4, <4>1 DEF FreeCoding
        <5>2. NoVertices[feb - 1] = Fill
          BY <5>1, TopType DEF NoVertices
        <5> QED
          BY <1>1, <5>1, <5>2
      <4> QED
        BY <4>1
    <3> QED
      BY <3>1, <3>2, TopType
  <2>5. fec = 0
    <3>1. fec # Top
      BY <1>4, <2>1, <2>2, <2>3, <2>4 DEF FreeCoding
    <3>2. ~(fec > 0 /\ fec < Top)
      <4>1. ASSUME fec > 0, fec < Top
            PROVE  FALSE
        <5>1. fec - 1 \in 0..Top - 1 /\ NoVertices[fec - 1] = r[3]
          BY <1>4, <4>1 DEF FreeCoding
        <5>2. NoVertices[fec - 1] = Fill
          BY <5>1, TopType DEF NoVertices
        <5> QED
          BY <1>1, <5>1, <5>2
      <4> QED
        BY <4>1
    <3> QED
      BY <3>1, <3>2, TopType
  <2> QED
    BY <2>4, <2>5
<1> QED
  BY <1>3, <1>4

\* A triangle with a codeaux byte is decoded to the triangle it was encoded for.
LEMMA AuxMatches ==
  ASSUME NEW st \in CodecState, NEW d \in CodecState, Agree(st, d),
         NEW t \in Inputs, NEW k \in 0..2, NEW version \in Versions,
         NEW fea \in Ages, NEW feb \in Ages, NEW fec \in Ages, NEW coded,
         FreeCoding(st, version, RotateTo(t, k), fea, feb, fec, coded),
         ~UsesTable(st, version, RotateTo(t, k), fea, feb, fec)
  PROVE  Matches(coded, RotateTo(t, k), AuxDecoding(d, st, RotateTo(t, k), fea, feb, fec))
<1> DEFINE r     == RotateTo(t, k)
           evert == IF Resets(st, version, r) THEN NoVertices ELSE st.verts
           last1 == IF fea = Top THEN r[1] ELSE st.last
           last2 == IF feb = Top THEN r[2] ELSE last1
           last3 == IF fec = Top THEN r[3] ELSE last2
           next0 == IF feb = 0 /\ fec = 0 THEN 0 ELSE d.next
           next1 == IF fea = 0 THEN Succ(next0) ELSE next0
           next2 == IF feb = 0 THEN Succ(next1) ELSE next1
           next3 == IF fec = 0 THEN Succ(next2) ELSE next2
           e1 == Push(evert, r[1])
           e2 == IF feb \in {0, Top} THEN Push(e1, r[2]) ELSE e1
           e3 == IF fec \in {0, Top} THEN Push(e2, r[3]) ELSE e2
           v1 == Push(d.verts, r[1])
           v2 == PushIf(v1, r[2], feb \in {0, Top})
           v3 == PushIf(v2, r[3], fec \in {0, Top})
           x  == AuxDecoding(d, st, r, fea, feb, fec)
<1>1. /\ r[1] \in Index \ {Fill} /\ r[2] \in Index \ {Fill} /\ r[3] \in Index \ {Fill}
      /\ st.verts \in [Ages -> Index] /\ d.verts \in [Ages -> Index]
      /\ st.last \in Index /\ st.next \in Index
  BY RotateType DEF CodecState
<1>2. d.next = st.next /\ d.last = st.last /\ d.edges = st.edges /\ VertsAgree(st.verts, d.verts)
  BY DEF Agree
<1>3. fea \in {0, Top} /\ 0 # Top /\ (fea = Top <=> fea # 0)
  BY TopType DEF FreeCoding
<1>4. next0 = IF Resets(st, version, r) THEN 0 ELSE st.next
  BY <1>2, ResetPair
<1>5. evert \in [Ages -> Index] /\ VertsAgree(evert, d.verts)
  <2>1. NoVertices \in [Ages -> Index] /\ VertsAgree(NoVertices, d.verts)
    BY TopType DEF NoVertices, VertsAgree
  <2> QED
    BY <1>1, <1>2, <2>1
<1>6. \A i \in Index, l \in Index : DecodeIndex(IndexToken(i, l), l) = i
  BY IndexInverse
<1>7. last1 \in Index /\ last2 \in Index
  BY <1>1
<1>8. /\ fea = 0 => r[1] = next0
      /\ feb = 0 => r[2] = next1
      /\ fec = 0 => r[3] = next2
  BY <1>4 DEF FreeCoding
<1>9. /\ feb # 0 /\ feb # Top => d.verts[feb - 1] = r[2]
      /\ fec # 0 /\ fec # Top => d.verts[fec - 1] = r[3]
  <2>1. ASSUME feb # 0, feb # Top
        PROVE  d.verts[feb - 1] = r[2]
    <3>1. feb - 1 \in 0..Top - 1 /\ evert[feb - 1] = r[2]
      BY <2>1, TopType DEF FreeCoding
    <3> QED
      BY <1>1, <1>5, <3>1, AgreeLookup
  <2>2. ASSUME fec # 0, fec # Top
        PROVE  d.verts[fec - 1] = r[3]
    <3>1. fec - 1 \in 0..Top - 1 /\ evert[fec - 1] = r[3]
      BY <2>2, TopType DEF FreeCoding
    <3> QED
      BY <1>1, <1>5, <3>1, AgreeLookup
  <2> QED
    BY <2>1, <2>2
<1>10. coded.st = [next |-> next3, last |-> last3, verts |-> e3,
                   edges |-> PushEdges3(st.edges, r[1], r[2], r[3])]
  BY <1>4 DEF FreeCoding
<1>11. VertsAgree(e3, v3)
  <2>1. VertsAgree(e1, v1) /\ e1 \in [Ages -> Index] /\ v1 \in [Ages -> Index]
    BY <1>1, <1>5, AgreePush, PushType
  <2> HIDE DEF e1, v1
  <2>2. VertsAgree(e2, v2) /\ e2 \in [Ages -> Index] /\ v2 \in [Ages -> Index]
    <3>1. VertsAgree(e2, v2)
      <4>1. CASE feb \in {0, Top}
        BY <1>1, <2>1, <4>1, AgreePush DEF PushIf
      <4>2. CASE feb \notin {0, Top}
        BY <2>1, <4>2, AgreeKeep DEF PushIf
      <4> QED
        BY <4>1, <4>2
    <3>2. e2 \in [Ages -> Index] /\ v2 \in [Ages -> Index]
      BY <1>1, <2>1, PushType, TopType DEF PushIf
    <3> QED
      BY <3>1, <3>2
  <2> HIDE DEF e2, v2
  <2>3. CASE fec \in {0, Top}
    BY <1>1, <2>2, <2>3, AgreePush DEF PushIf
  <2>4. CASE fec \notin {0, Top}
    BY <2>2, <2>4, AgreeKeep DEF PushIf
  <2> QED
    BY <2>3, <2>4
<1> HIDE DEF r, next0, last1, last2
<1>12. x = [st |-> [next |-> next3, last |-> last3, verts |-> v3,
                    edges |-> PushEdges3(d.edges, r[1], r[2], r[3])],
            tri |-> <<r[1], r[2], r[3]>>,
            read |-> 1 + Explicit(fea) + Explicit(feb) + Explicit(fec)]
  BY <1>1, <1>2, <1>3, <1>6, <1>7, <1>8, <1>9 DEF AuxDecoding, last1, last2, next0
<1>13. Len(coded.tokens) = 1 + Explicit(fea) + Explicit(feb) + Explicit(fec)
  BY AuxTokens
<1> HIDE DEF x, next3, last3, e3, v3
<1>14. Matches(coded, r, x)
  BY <1>2, <1>10, <1>11, <1>12, <1>13 DEF Matches, Agree
<1> QED
  BY <1>14 DEF r, x

-----------------------------------------------------------------------------
(* Triangles over a cached edge *)

LEMMA EdgeLookup ==
  ASSUME NEW st \in CodecState, NEW t \in Inputs, NEW h \in EdgeHits(st, t), h[1] < Top
  PROVE  /\ h[1] \in 0..Top - 1 /\ h[1] \in Ages /\ h[2] \in 0..2
         /\ st.edges[h[1]] = <<RotateTo(t, h[2])[1], RotateTo(t, h[2])[2]>>
  BY TopType DEF EdgeHits

LEMMA DecodeEdgeType ==
  ASSUME NEW d \in CodecState, NEW cd \in Ages \X Ages
  PROVE  DecodeEdge(d, cd) \in Decoded
<1> DEFINE a == d.edges[cd[1]][1]
           b == d.edges[cd[1]][2]
           c == IF cd[2] = 0 THEN d.next ELSE d.verts[cd[2]]
<1>1. /\ d.last \in Index /\ d.next \in Index
      /\ d.verts \in [Ages -> Index] /\ d.edges \in [Ages -> Index \X Index]
  BY DEF CodecState
<1>2. a \in Index /\ b \in Index /\ c \in Index
  BY <1>1
<1>3. DecodeEdge(d, cd) =
        [st |-> [next  |-> IF cd[2] = 0 THEN Succ(d.next) ELSE d.next,
                 last  |-> d.last,
                 edges |-> PushEdges2(d.edges, a, b, c),
                 verts |-> PushIf(d.verts, c, cd[2] = 0)],
         tri |-> <<a, b, c>>, read |-> 0]
  BY DEF DecodeEdge
<1> HIDE DEF a, b, c
<1>4. PushEdges2(d.edges, a, b, c) \in [Ages -> Index \X Index]
  BY <1>1, <1>2, PushEdgesType
<1>5. PushIf(d.verts, c, cd[2] = 0) \in [Ages -> Index]
  BY <1>1, <1>2, PushType, TopType DEF PushIf
<1>6. <<a, b, c>> \in Triangle
  BY <1>2 DEF Triangle
<1> QED
  BY <1>1, <1>3, <1>4, <1>5, <1>6, SuccPred DEF Decoded, CodecState

\* An age or next is decoded to the triangle it was encoded for.
LEMMA EdgeMatches ==
  ASSUME NEW st \in CodecState, NEW d \in CodecState, Agree(st, d),
         NEW t \in Inputs, NEW version \in Versions, NEW h \in EdgeHits(st, t), h[1] < Top,
         NEW coded, coded = EncodeEdge(st, t, version, h), coded.code[2] < FecMax(version)
  PROVE  Matches(coded, RotateTo(t, h[2]), DecodeEdge(d, coded.code))
<1> DEFINE r   == RotateTo(t, h[2])
           fec == EdgeCode(st, r[3], version)
           e   == IF fec = 0 THEN Push(st.verts, r[3]) ELSE st.verts
           v   == PushIf(d.verts, r[3], fec = 0)
           x   == DecodeEdge(d, coded.code)
           c   == IF fec = 0 THEN d.next ELSE d.verts[fec]
<1>1. /\ h[1] \in Ages /\ h[2] \in 0..2 /\ st.edges[h[1]] = <<r[1], r[2]>>
  BY EdgeLookup
<1>2. r[1] \in Index \ {Fill} /\ r[2] \in Index \ {Fill} /\ r[3] \in Index \ {Fill}
  BY <1>1, RotateType
<1>3. d.next = st.next /\ d.last = st.last /\ d.edges = st.edges /\ VertsAgree(st.verts, d.verts)
  BY DEF Agree
<1>4. st.verts \in [Ages -> Index] /\ d.verts \in [Ages -> Index]
  BY DEF CodecState
<1>5. coded.code = <<h[1], fec>>
  BY DEF EncodeEdge
<1>6. fec < FecMax(version) /\ FecMax(version) <= Top
  BY <1>5, FecMaxType, TopType
<1>7. /\ fec \in Ages /\ (fec = 0 => r[3] = st.next)
      /\ (fec > 0 /\ fec < FecMax(version) => st.verts[fec] = r[3])
  BY <1>2, EdgeCodeMeaning
<1> HIDE DEF fec
<1>8. c = r[3]
  <2>1. CASE fec = 0
    BY <1>3, <1>7, <2>1
  <2>2. CASE fec # 0
    <3>1. fec \in 0..Top - 1 /\ st.verts[fec] = r[3]
      BY <1>6, <1>7, <2>2, TopType, FecMaxType
    <3> QED
      BY <1>2, <1>3, <2>2, <3>1, AgreeLookup
  <2> QED
    BY <2>1, <2>2
<1>9. fec # Top /\ ~(fec >= FecMax(version))
  BY <1>6, <1>7, TopType, FecMaxType
<1>10. coded = [st |-> [next  |-> IF fec = 0 THEN Succ(st.next) ELSE st.next,
                        last  |-> st.last,
                        edges |-> PushEdges2(st.edges, r[1], r[2], r[3]),
                        verts |-> e],
                code |-> <<h[1], fec>>, tokens |-> <<>>]
  BY <1>9 DEF EncodeEdge, fec
<1>11. x = [st |-> [next  |-> IF fec = 0 THEN Succ(d.next) ELSE d.next,
                    last  |-> d.last,
                    edges |-> PushEdges2(d.edges, r[1], r[2], r[3]),
                    verts |-> v],
            tri |-> <<r[1], r[2], r[3]>>, read |-> 0]
  BY <1>1, <1>3, <1>5, <1>8 DEF DecodeEdge
<1>12. VertsAgree(e, v)
  BY <1>2, <1>3, <1>4, AgreePushIf
<1> HIDE DEF r, e, v, x
<1>13. Matches(coded, r, x)
  BY <1>3, <1>10, <1>11, <1>12 DEF Matches, Agree
<1> QED
  BY <1>13 DEF r, x

LEMMA DecodeEdgeIndexType ==
  ASSUME NEW d \in CodecState, NEW cd \in Ages \X Ages, NEW at \in Nat,
         NEW v \in Index, cd[2] = Top => TokenAt(at + 1) = <<"index", v>>,
         cd[2] \in {Top - 2, Top - 1, Top}
  PROVE  /\ DecodeEdgeIndex(d, cd, at) \in Decoded
         /\ DecodeEdgeIndex(d, cd, at).read = IF cd[2] = Top THEN 1 ELSE 0
<1> DEFINE a == d.edges[cd[1]][1]
           b == d.edges[cd[1]][2]
           c == CASE cd[2] = Top     -> DecodeIndex(TokenAt(at + 1), d.last)
                  [] cd[2] = Top - 1 -> Succ(d.last)
                  [] cd[2] = Top - 2 -> Pred(d.last)
<1>1. /\ d.last \in Index /\ d.next \in Index
      /\ d.verts \in [Ages -> Index] /\ d.edges \in [Ages -> Index \X Index]
  BY DEF CodecState
<1>2. a \in Index /\ b \in Index
  BY <1>1
<1>3. c \in Index
  <2>1. CASE cd[2] = Top
    BY <1>1, <2>1, DecodeIndexType, TopType
  <2>2. CASE cd[2] = Top - 1
    BY <1>1, <2>2, SuccPred, TopType
  <2>3. CASE cd[2] = Top - 2
    BY <1>1, <2>3, SuccPred, TopType
  <2> QED
    BY <2>1, <2>2, <2>3
<1>4. DecodeEdgeIndex(d, cd, at) =
        [st |-> [next  |-> d.next,
                 last  |-> c,
                 edges |-> PushEdges2(d.edges, a, b, c),
                 verts |-> Push(d.verts, c)],
         tri |-> <<a, b, c>>, read |-> IF cd[2] = Top THEN 1 ELSE 0]
  BY DEF DecodeEdgeIndex
<1> HIDE DEF a, b, c
<1>5. PushEdges2(d.edges, a, b, c) \in [Ages -> Index \X Index]
  BY <1>1, <1>2, <1>3, PushEdgesType
<1>6. Push(d.verts, c) \in [Ages -> Index]
  BY <1>1, <1>3, PushType
<1>7. <<a, b, c>> \in Triangle
  BY <1>2, <1>3 DEF Triangle
<1> QED
  BY <1>1, <1>3, <1>4, <1>5, <1>6, <1>7 DEF Decoded, CodecState

\* last - 1, last + 1 and explicit indices are decoded to the triangle they were encoded for.
LEMMA EdgeIndexMatches ==
  ASSUME NEW st \in CodecState, NEW d \in CodecState, Agree(st, d),
         NEW t \in Inputs, NEW version \in Versions, NEW h \in EdgeHits(st, t), h[1] < Top,
         NEW coded, coded = EncodeEdge(st, t, version, h), coded.code[2] >= FecMax(version),
         NEW at \in Nat,
         coded.code[2] = Top => TokenAt(at + 1) = IndexToken(RotateTo(t, h[2])[3], st.last)
  PROVE  Matches(coded, RotateTo(t, h[2]), DecodeEdgeIndex(d, coded.code, at))
<1> DEFINE r   == RotateTo(t, h[2])
           fec == EdgeCode(st, r[3], version)
           e   == Push(st.verts, r[3])
           v   == Push(d.verts, r[3])
           x   == DecodeEdgeIndex(d, coded.code, at)
           c   == CASE fec = Top     -> DecodeIndex(TokenAt(at + 1), d.last)
                    [] fec = Top - 1 -> Succ(d.last)
                    [] fec = Top - 2 -> Pred(d.last)
<1>1. /\ h[1] \in Ages /\ h[2] \in 0..2 /\ st.edges[h[1]] = <<r[1], r[2]>>
  BY EdgeLookup
<1>2. r[1] \in Index \ {Fill} /\ r[2] \in Index \ {Fill} /\ r[3] \in Index \ {Fill}
  BY <1>1, RotateType
<1>3. d.next = st.next /\ d.last = st.last /\ d.edges = st.edges /\ VertsAgree(st.verts, d.verts)
  BY DEF Agree
<1>4. /\ st.verts \in [Ages -> Index] /\ d.verts \in [Ages -> Index]
      /\ st.last \in Index
  BY DEF CodecState
<1>5. coded.code = <<h[1], fec>>
  BY DEF EncodeEdge
<1>6. fec >= FecMax(version) /\ FecMax(version) > 0
  BY <1>5, FecMaxType, TopType
<1>7. /\ fec \in Ages
      /\ \/ fec = Top - 2 /\ Succ(r[3]) = st.last
         \/ fec = Top - 1 /\ r[3] = Succ(st.last)
         \/ fec = Top
  BY <1>2, <1>6, EdgeCodeMeaning
<1>8. fec = Top => TokenAt(at + 1) = IndexToken(r[3], st.last)
  BY <1>5
<1> HIDE DEF fec
<1>9. c = r[3]
  <2> HIDE DEF r
  <2>1. CASE fec = Top - 2 /\ Succ(r[3]) = st.last
    BY <1>2, <1>3, <2>1, SuccPred, TopType
  <2>2. CASE fec = Top - 1 /\ r[3] = Succ(st.last)
    BY <1>3, <2>2, TopType
  <2>3. CASE fec = Top
    <3>1. DecodeIndex(TokenAt(at + 1), d.last) = r[3]
      BY <1>2, <1>3, <1>4, <1>8, <2>3, IndexInverse
    <3> QED
      BY <2>3, <3>1, TopType
  <2> QED
    BY <1>7, <2>1, <2>2, <2>3
<1>10. fec # 0 /\ fec \in Nat /\ fec >= FecMax(version)
  BY <1>6, <1>7, TopType, FecMaxType
<1>11. coded = [st |-> [next  |-> st.next,
                        last  |-> r[3],
                        edges |-> PushEdges2(st.edges, r[1], r[2], r[3]),
                        verts |-> e],
                code |-> <<h[1], fec>>,
                tokens |-> IF fec = Top THEN <<IndexToken(r[3], st.last)>> ELSE <<>>]
  BY <1>10 DEF EncodeEdge, fec
<1>12. x = [st |-> [next  |-> d.next,
                    last  |-> r[3],
                    edges |-> PushEdges2(d.edges, r[1], r[2], r[3]),
                    verts |-> v],
            tri |-> <<r[1], r[2], r[3]>>, read |-> IF fec = Top THEN 1 ELSE 0]
  <2>1. x = [st |-> [next  |-> d.next,
                     last  |-> c,
                     edges |-> PushEdges2(d.edges, r[1], r[2], c),
                     verts |-> Push(d.verts, c)],
             tri |-> <<r[1], r[2], c>>, read |-> IF fec = Top THEN 1 ELSE 0]
    <3>1. d.edges[coded.code[1]][1] = r[1] /\ d.edges[coded.code[1]][2] = r[2]
      BY <1>1, <1>3, <1>5
    <3>2. coded.code[2] = fec
      BY <1>5
    <3>3. c = CASE coded.code[2] = Top     -> DecodeIndex(TokenAt(at + 1), d.last)
                [] coded.code[2] = Top - 1 -> Succ(d.last)
                [] coded.code[2] = Top - 2 -> Pred(d.last)
      BY <3>2
    <3> HIDE DEF c
    <3> QED
      BY <3>1, <3>2, <3>3 DEF DecodeEdgeIndex
  <2> HIDE DEF c, x
  <2> QED
    BY <1>9, <2>1
<1>13. VertsAgree(e, v)
  BY <1>2, <1>3, <1>4, AgreePush
<1>14. Len(coded.tokens) = IF fec = Top THEN 1 ELSE 0
  BY <1>11
<1> HIDE DEF r, e, v, x
<1>15. Matches(coded, r, x)
  BY <1>3, <1>11, <1>12, <1>13, <1>14 DEF Matches, Agree
<1> QED
  BY <1>15 DEF r, x

-----------------------------------------------------------------------------
(* A triangle and its decoding *)

LEMMA DecodeTableType ==
  ASSUME NEW d \in CodecState, NEW feb \in Ages, NEW fec \in Ages
  PROVE  /\ DecodeTable(d, <<feb, fec>>) \in Decoded
         /\ DecodeTable(d, <<feb, fec>>).read = 0
<1> DEFINE a     == d.next
           next1 == Succ(d.next)
           b     == IF feb = 0 THEN next1 ELSE d.verts[feb - 1]
           next2 == IF feb = 0 THEN Succ(next1) ELSE next1
           c     == IF fec = 0 THEN next2 ELSE d.verts[fec - 1]
           next3 == IF fec = 0 THEN Succ(next2) ELSE next2
           verts1 == Push(d.verts, a)
           verts2 == PushIf(verts1, b, feb = 0)
           verts3 == PushIf(verts2, c, fec = 0)
           edges3 == PushEdges3(d.edges, a, b, c)
<1>1. /\ d.last \in Index /\ d.next \in Index
      /\ d.verts \in [Ages -> Index] /\ d.edges \in [Ages -> Index \X Index]
  BY DEF CodecState
<1>2. (feb # 0 => d.verts[feb - 1] \in Index) /\ (fec # 0 => d.verts[fec - 1] \in Index)
  <2>1. (feb # 0 => feb - 1 \in Ages) /\ (fec # 0 => fec - 1 \in Ages)
    BY TopType
  <2> QED
    BY <1>1, <2>1
<1>3. DecodeTable(d, <<feb, fec>>) =
        [st |-> [next |-> next3, last |-> d.last, edges |-> edges3, verts |-> verts3],
         tri |-> <<a, b, c>>, read |-> 0]
  BY DEF DecodeTable
<1>4. a \in Index /\ next1 \in Index
  BY <1>1, SuccPred
<1> HIDE DEF a, next1
<1>5. b \in Index /\ next2 \in Index
  BY <1>2, <1>4, SuccPred
<1> HIDE DEF b, next2
<1>6. c \in Index /\ next3 \in Index
  BY <1>2, <1>5, SuccPred
<1> HIDE DEF c, next3
<1>7. verts1 \in [Ages -> Index]
  BY <1>1, <1>4, PushType
<1> HIDE DEF verts1
<1>8. verts2 \in [Ages -> Index]
  BY <1>5, <1>7, PushType, TopType DEF PushIf
<1> HIDE DEF verts2
<1>9. verts3 \in [Ages -> Index]
  BY <1>6, <1>8, PushType, TopType DEF PushIf
<1>10. edges3 \in [Ages -> Index \X Index]
  BY <1>1, <1>4, <1>5, <1>6, PushEdgesType
<1>11. <<a, b, c>> \in Triangle
  BY <1>4, <1>5, <1>6 DEF Triangle
<1> HIDE DEF verts3, edges3
<1>12. [next |-> next3, last |-> d.last, edges |-> edges3, verts |-> verts3] \in CodecState
  BY <1>1, <1>6, <1>9, <1>10 DEF CodecState
<1> QED
  BY <1>3, <1>11, <1>12 DEF Decoded

\* What one of the two encoding actions has written for t.
EdgeCoding(st, t, version, coded) ==
  \E h \in EdgeHits(st, t) : h[1] < Top /\ coded = EncodeEdge(st, t, version, h)

Coding(st, t, version, coded) ==
  EdgeCoding(st, t, version, coded) \/ coded = EncodeFree(st, t, version)

\* What one of the decoding actions has to make of it.
Decodes(coded, t, st, d, x) ==
  /\ x \in Decoded
  /\ x.read = Len(coded.tokens)
  /\ Agree(st, d) => \E k \in 0..2 : Matches(coded, RotateTo(t, k), x)

LEMMA CodingType ==
  ASSUME NEW st \in CodecState, NEW t \in Inputs, NEW version \in Versions,
         NEW coded, Coding(st, t, version, coded)
  PROVE  /\ coded \in Coded
         /\ coded.code[1] \in Ages /\ coded.code[2] \in Ages
         /\ coded.code \in Ages \X Ages
<1>1. coded \in Coded
  BY EncodeEdgeType, EncodeFreeType DEF Coding, EdgeCoding
<1>2. coded.code \in (0..Top) \X (0..Top)
  BY <1>1 DEF Coded
<1> QED
  BY <1>1, <1>2, TopType

\* The high nibble tells the two apart.
LEMMA CodeKind ==
  ASSUME NEW st \in CodecState, NEW t \in Inputs, NEW version \in Versions,
         NEW coded, Coding(st, t, version, coded)
  PROVE  IF coded.code[1] < Top THEN EdgeCoding(st, t, version, coded)
                                ELSE coded = EncodeFree(st, t, version)
<1>1. CASE EdgeCoding(st, t, version, coded)
  <2>1. PICK h \in EdgeHits(st, t) : h[1] < Top /\ coded = EncodeEdge(st, t, version, h)
    BY <1>1 DEF EdgeCoding
  <2>2. coded.code[1] = h[1]
    BY <2>1 DEF EncodeEdge
  <2> QED
    BY <1>1, <2>1, <2>2
<1>2. CASE coded = EncodeFree(st, t, version)
  <2>1. coded.code[1] = Top
    BY <1>2 DEF EncodeFree
  <2> QED
    BY <1>2, <2>1, TopType
<1> QED
  BY <1>1, <1>2 DEF Coding

LEMMA EdgeDecodes ==
  ASSUME NEW st \in CodecState, NEW t \in Inputs, NEW version \in Versions,
         NEW coded, Coding(st, t, version, coded), NEW d \in CodecState,
         coded.code[1] < Top, coded.code[2] < FecMax(version)
  PROVE  Decodes(coded, t, st, d, DecodeEdge(d, coded.code))
<1>1. EdgeCoding(st, t, version, coded)
  BY CodeKind
<1>2. PICK h \in EdgeHits(st, t) : h[1] < Top /\ coded = EncodeEdge(st, t, version, h)
  BY <1>1 DEF EdgeCoding
<1>3. DecodeEdge(d, coded.code) \in Decoded
  BY CodingType, DecodeEdgeType
<1>4. coded.code[2] # Top
  BY CodingType, FecMaxType, TopType
<1>5. Len(coded.tokens) = 0
  BY <1>2, <1>4 DEF EncodeEdge
<1>6. DecodeEdge(d, coded.code).read = 0
  BY DEF DecodeEdge
<1>7. Agree(st, d) => Matches(coded, RotateTo(t, h[2]), DecodeEdge(d, coded.code))
  BY <1>2, EdgeMatches
<1>8. h[2] \in 0..2
  BY <1>2, EdgeLookup
<1> QED
  BY <1>3, <1>5, <1>6, <1>7, <1>8 DEF Decodes

LEMMA EdgeIndexDecodes ==
  ASSUME NEW st \in CodecState, NEW t \in Inputs, NEW version \in Versions,
         NEW coded, Coding(st, t, version, coded), NEW d \in CodecState,
         coded.code[1] < Top, coded.code[2] >= FecMax(version), NEW at \in Nat,
         \A j \in 1..Len(coded.tokens) : TokenAt(at + j) = coded.tokens[j]
  PROVE  Decodes(coded, t, st, d, DecodeEdgeIndex(d, coded.code, at))
<1>1. EdgeCoding(st, t, version, coded)
  BY CodeKind
<1>2. PICK h \in EdgeHits(st, t) : h[1] < Top /\ coded = EncodeEdge(st, t, version, h)
  BY <1>1 DEF EdgeCoding
<1> DEFINE c == RotateTo(t, h[2])[3]
           v == ZigZag(Minus(c, st.last))
<1>3. h[2] \in 0..2
  BY <1>2, EdgeLookup
<1>4. c \in Index /\ st.last \in Index
  BY <1>3, RotateType DEF CodecState
<1>5. v \in Index
  <2>1. Minus(c, st.last) \in Index
    BY <1>4, TopType, SMTT(30) DEF Minus, Index
  <2> QED
    BY <2>1, ModulusType, ZigZagInverse
<1>6. coded.tokens = IF coded.code[2] = Top THEN <<IndexToken(c, st.last)>> ELSE <<>>
  BY <1>2 DEF EncodeEdge
<1>7. coded.code[2] = Top => TokenAt(at + 1) = IndexToken(c, st.last)
  BY <1>6
<1>8. IndexToken(c, st.last) = <<"index", v>>
  BY DEF IndexToken
<1>9. coded.code[2] \in {Top - 2, Top - 1, Top}
  <2>1. coded.code[2] = EdgeCode(st, c, version)
    BY <1>2 DEF EncodeEdge
  <2> HIDE DEF c
  <2> QED
    BY <1>4, <2>1, EdgeCodeMeaning
<1> HIDE DEF v
<1>10. /\ DecodeEdgeIndex(d, coded.code, at) \in Decoded
       /\ DecodeEdgeIndex(d, coded.code, at).read = IF coded.code[2] = Top THEN 1 ELSE 0
  BY <1>5, <1>7, <1>8, <1>9, CodingType, DecodeEdgeIndexType
<1>11. Len(coded.tokens) = IF coded.code[2] = Top THEN 1 ELSE 0
  BY <1>6
<1>12. Agree(st, d) => Matches(coded, RotateTo(t, h[2]), DecodeEdgeIndex(d, coded.code, at))
  BY <1>2, <1>7, EdgeIndexMatches
<1> QED
  BY <1>3, <1>10, <1>11, <1>12 DEF Decodes

LEMMA TableDecodes ==
  ASSUME NEW st \in CodecState, NEW t \in Inputs, NEW version \in Versions,
         NEW coded, Coding(st, t, version, coded), NEW d \in CodecState,
         coded.code[1] = Top, coded.code[2] < Top - 1, NEW pair \in Ages \X Ages
  PROVE  LET x == DecodeTable(d, pair)
         IN  /\ x \in Decoded /\ x.read = Len(coded.tokens)
             /\ pair = AuxTable[coded.code[2]] => Decodes(coded, t, st, d, x)
<1> DEFINE x == DecodeTable(d, pair)
<1>1. coded = EncodeFree(st, t, version)
  BY CodeKind, TopType
<1>2. PICK k \in 0..2, fea, feb, fec \in Ages :
        FreeCoding(st, version, RotateTo(t, k), fea, feb, fec, coded)
  BY <1>1, EncodeFreeMeaning
<1>3. UsesTable(st, version, RotateTo(t, k), fea, feb, fec)
  <2>1. CASE ~UsesTable(st, version, RotateTo(t, k), fea, feb, fec)
    <3>1. coded.code = <<Top, IF fea = 0 THEN Top - 1 ELSE Top>>
      BY <1>2, <2>1, AuxTokens
    <3> QED
      BY <3>1, TopType
  <2> QED
    BY <2>1
<1>4. Len(coded.tokens) = 0 /\ AuxTable[coded.code[2]] = <<feb, fec>>
  <2>1. coded.tokens = <<>> /\ AuxTable[coded.code[2]] = <<feb, fec>>
    BY <1>2, <1>3, TableTokens
  <2> QED
    BY <2>1
<1>5. x \in Decoded /\ x.read = 0
  <2>1. pair = <<pair[1], pair[2]>> /\ pair[1] \in Ages /\ pair[2] \in Ages
    OBVIOUS
  <2> QED
    BY <2>1, DecodeTableType
<1>6. ASSUME pair = AuxTable[coded.code[2]], Agree(st, d)
      PROVE  Matches(coded, RotateTo(t, k), x)
  <2>1. pair = <<feb, fec>>
    BY <1>4, <1>6
  <2>2. Matches(coded, RotateTo(t, k), DecodeTable(d, <<feb, fec>>))
    BY <1>2, <1>3, <1>6, TableMatches
  <2> QED
    BY <2>1, <2>2
<1> HIDE DEF x
<1>7. /\ x \in Decoded /\ x.read = Len(coded.tokens)
      /\ pair = AuxTable[coded.code[2]] => Decodes(coded, t, st, d, x)
  BY <1>2, <1>4, <1>5, <1>6 DEF Decodes
<1> QED
  BY <1>7 DEF x

LEMMA AuxDecodes ==
  ASSUME NEW st \in CodecState, NEW t \in Inputs, NEW version \in Versions,
         NEW coded, Coding(st, t, version, coded), NEW d \in CodecState,
         coded.code[1] = Top, coded.code[2] >= Top - 1, NEW at \in Nat,
         \A j \in 1..Len(coded.tokens) : TokenAt(at + j) = coded.tokens[j]
  PROVE  Decodes(coded, t, st, d, DecodeAux(d, coded.code, at))
<1> DEFINE x == DecodeAux(d, coded.code, at)
<1>1. coded = EncodeFree(st, t, version)
  BY CodeKind, TopType
<1>2. PICK k \in 0..2, fea, feb, fec \in Ages :
        FreeCoding(st, version, RotateTo(t, k), fea, feb, fec, coded)
  BY <1>1, EncodeFreeMeaning
<1>3. ~UsesTable(st, version, RotateTo(t, k), fea, feb, fec)
  <2>1. CASE UsesTable(st, version, RotateTo(t, k), fea, feb, fec)
    <3>1. coded.code[2] \in TableIndex
      BY <1>2, <2>1, TableTokens
    <3> QED
      BY <3>1, TopType
  <2> QED
    BY <2>1
<1>4. x = AuxDecoding(d, st, RotateTo(t, k), fea, feb, fec)
  BY <1>2, <1>3, AuxShape
<1>5. x \in Decoded
  BY <1>4, AuxType
<1>6. Len(coded.tokens) = 1 + Explicit(fea) + Explicit(feb) + Explicit(fec)
  BY <1>2, <1>3, AuxTokens
<1>7. x.read = 1 + Explicit(fea) + Explicit(feb) + Explicit(fec)
  BY <1>4 DEF AuxDecoding
<1>8. ASSUME Agree(st, d)
      PROVE  Matches(coded, RotateTo(t, k), x)
  <2>1. Matches(coded, RotateTo(t, k), AuxDecoding(d, st, RotateTo(t, k), fea, feb, fec))
    BY <1>2, <1>3, <1>8, AuxMatches
  <2> QED
    BY <1>4, <2>1
<1> HIDE DEF x
<1>9. Decodes(coded, t, st, d, x)
  BY <1>2, <1>5, <1>6, <1>7, <1>8 DEF Decodes
<1> QED
  BY <1>9 DEF x

-----------------------------------------------------------------------------
(* The inductive invariant *)

\* What the encoder has recorded of triangle k: the code and the tokens that the stream holds
\* for it, and the state from which the next triangle was encoded.
Recorded(k) ==
  LET r == history[k]
      n == Len(r.coded.tokens)
  IN  /\ Coding(r.st, tris[k], params.version, r.coded)
      /\ code[k] = r.coded.code
      /\ r.at + n <= Len(data)
      /\ \A j \in 1..n : data[r.at + j] = r.coded.tokens[j]
      /\ r.size + TokensSize(r.coded.tokens) <= dataSize
      /\ Before(k + 1).st = r.coded.st
      /\ Before(k + 1).at = r.at + n
      /\ Before(k + 1).size = r.size + TokensSize(r.coded.tokens)

EncoderInv ==
  /\ Len(tris) = Len(history) /\ Len(code) = Len(history)
  /\ Before(1).st = FreshState /\ Before(1).at = 0 /\ Before(1).size = 0
  /\ \A k \in 1..Len(history) : Recorded(k)
  /\ phase = "idle" => dataSize = 0
  /\ phase \in {"encoded", "decode", "done"} => Len(tris) = params.count
  /\ phase \in {"encoded", "decode"} => result = 1 + params.count + dataSize + TailSize

\* The decoder is where the encoder was before the same triangle.  Its position never depends
\* on its state, so that it keeps to the tokens of a triangle in a cut stream as well.
DecoderInv ==
  LET e == Before(Len(out) + 1)
  IN  /\ phase \in {"idle", "encode", "encoded"} => out = <<>>
      /\ Len(out) <= Len(tris)
      /\ taken = e.at /\ takenSize = e.size
      /\ params.cut = 0 => Agree(e.st, dec)
      /\ params.cut = 0 => \A k \in 1..Len(out) : \E r \in 0..2 : out[k] = RotateTo(Sent[k], r)
      /\ phase = "failed" => params.cut > 0
      /\ phase = "done" => params.cut = 0

IInv == TypeOK /\ EncoderInv /\ DecoderInv

LEMMA ConstantsType ==
  /\ MaxTriangles \in Nat /\ TailSize \in Nat
  /\ ShortModulus \in Nat /\ ShortModulus > 0 /\ ShortModulus <= Modulus
  BY SizesAssumption

LEMMA FreshType == FreshState \in CodecState
<1>1. 0 \in Index /\ Fill \in Index
  BY TopType DEF Index
<1>2. NoVertices \in [Ages -> Index] /\ [i \in Ages |-> <<Fill, Fill>>] \in [Ages -> Index \X Index]
  BY <1>1 DEF NoVertices
<1> QED
  BY <1>1, <1>2 DEF FreshState, CodecState

LEMMA AgreeReflexive ==
  ASSUME NEW st
  PROVE  Agree(st, st)
  BY DEF Agree, VertsAgree

LEMMA InitInv == Init => IInv
<1> SUFFICES ASSUME Init
             PROVE  IInv
  OBVIOUS
<1> USE DEF Init
<1>1. PICK n \in 0..MaxTriangles, c \in Calls :
        params = [count |-> n, version |-> c.version, bufferSize |-> Bound(n) - c.slack,
                  indexSize |-> c.indexSize, cut |-> c.cut]
  OBVIOUS
<1>2. c.version \in Versions /\ c.slack \in Int /\ c.indexSize \in {2, 4} /\ c.cut \in Nat
  BY SizesAssumption
<1>3. Bound(n) \in Int
  <2>1. VertexBits(VertexCount) \in Int
    <3> DEFINE S == {b \in 1..Width - 1 : VertexCount > 2^b}
    <3>1. IsFiniteSet(1..Width - 1)
      BY SizesAssumption, FS_Interval
    <3>2. IsFiniteSet(S)
      BY <3>1, FS_Subset
    <3>3. Cardinality(S) \in Nat
      BY <3>2, FS_CardinalityType
    <3> QED
      BY <3>3 DEF VertexBits
  <2>2. VertexGroups \in Int
    BY <2>1, SizesAssumption DEF VertexGroups
  <2> QED
    BY <2>2, ConstantsType DEF Bound
<1>4. params \in [count : 0..MaxTriangles, version : Versions, bufferSize : Int,
                  indexSize : {2, 4}, cut : Nat]
  BY <1>1, <1>2, <1>3
<1>5. TypeOK
  BY <1>4, FreshType DEF TypeOK
<1>6. /\ Before(1).st = FreshState /\ Before(1).at = 0 /\ Before(1).size = 0
      /\ Len(tris) = 0 /\ Len(history) = 0 /\ Len(code) = 0 /\ Len(out) = 0
  BY DEF Before
<1>7. EncoderInv
  BY <1>6 DEF EncoderInv
<1>8. DecoderInv
  <2>1. Agree(FreshState, FreshState)
    BY AgreeReflexive
  <2>2. Before(Len(out) + 1).st = FreshState /\ Before(Len(out) + 1).at = 0
        /\ Before(Len(out) + 1).size = 0
    BY <1>6
  <2> QED
    BY <1>6, <2>1, <2>2 DEF DecoderInv
<1> QED
  BY <1>5, <1>7, <1>8 DEF IInv

Entry == [st : CodecState, at : Nat, size : Nat, coded : Coded]

LEMMA Element ==
  ASSUME NEW S, NEW s \in Seq(S)
  PROVE  /\ Len(s) \in Nat
         /\ \A i \in 1..Len(s) : s[i] \in S
  OBVIOUS

LEMMA Appended ==
  ASSUME NEW S, NEW s \in Seq(S), NEW x \in S
  PROVE  /\ Append(s, x) \in Seq(S)
         /\ Len(Append(s, x)) = Len(s) + 1
         /\ \A i \in 1..Len(s) : Append(s, x)[i] = s[i]
         /\ Append(s, x)[Len(s) + 1] = x
  OBVIOUS

LEMMA HistoryType ==
  ASSUME TypeOK
  PROVE  /\ history \in Seq(Entry)
         /\ Len(history) \in Nat
         /\ \A k \in 1..Len(history) :
              /\ history[k].st \in CodecState /\ history[k].at \in Nat /\ history[k].size \in Nat
              /\ history[k].coded \in Coded /\ history[k].coded.tokens \in Seq(Token)
<1>1. history \in Seq(Entry)
  BY DEF TypeOK, Entry, Coded
<1>2. Len(history) \in Nat /\ \A k \in 1..Len(history) : history[k] \in Entry
  BY <1>1, Element
<1> QED
  BY <1>1, <1>2 DEF Entry, Coded

LEMMA BeforeType ==
  ASSUME TypeOK, NEW k \in 1..Len(history) + 1
  PROVE  /\ Before(k).st \in CodecState /\ Before(k).at \in Nat /\ Before(k).size \in Nat
         /\ k <= Len(history) => history[k].coded \in Coded
<1>1. CASE k <= Len(history)
  <2>1. Before(k) = history[k] /\ k \in 1..Len(history)
    BY <1>1, HistoryType DEF Before
  <2> QED
    BY <2>1, HistoryType
<1>2. CASE ~(k <= Len(history))
  <2>1. Before(k) = [st |-> enc, at |-> Len(data), size |-> dataSize]
    BY <1>2 DEF Before
  <2>2. enc \in CodecState /\ Len(data) \in Nat /\ dataSize \in Nat
    BY DEF TypeOK
  <2> QED
    BY <1>2, <2>1, <2>2
<1> QED
  BY <1>1, <1>2

LEMMA CodedSize ==
  ASSUME NEW coded \in Coded
  PROVE  TokensSize(coded.tokens) \in Nat /\ Len(coded.tokens) \in Nat
<1>1. coded.tokens \in Seq(Token)
  BY DEF Coded
<1> QED
  BY <1>1, TokensSizeType

LEMMA EncoderKept ==
  ASSUME UNCHANGED <<params, encoderVars>>
  PROVE  /\ \A k : Before(k)' = Before(k)
         /\ \A k : Recorded(k)' = Recorded(k)
  BY DEF encoderVars, Before, Recorded

\* Encoding a triangle adds a record and changes none.
LEMMA WriteBefore ==
  ASSUME TypeOK, NEW t, NEW coded, Write(t, coded), NEW k \in 1..Len(history) + 1
  PROVE  /\ Before(k)'.st = Before(k).st
         /\ Before(k)'.at = Before(k).at
         /\ Before(k)'.size = Before(k).size
         /\ k <= Len(history) => history'[k] = history[k]
<1>1. history \in Seq([st : CodecState, at : Nat, size : Nat,
                       coded : [st : CodecState, code : (0..Top) \X (0..Top),
                                tokens : Seq(Token)]])
  BY DEF TypeOK
<1>2. history' = Append(history, [st |-> enc, at |-> Len(data), size |-> dataSize, coded |-> coded])
  BY DEF Write
<1>3. Len(history') = Len(history) + 1
  BY <1>1, <1>2
<1>4. CASE k <= Len(history)
  <2>1. history'[k] = history[k]
    BY <1>1, <1>2, <1>4
  <2> QED
    BY <1>3, <1>4, <2>1 DEF Before
<1>5. CASE k = Len(history) + 1
  <2>1. history'[k] = [st |-> enc, at |-> Len(data), size |-> dataSize, coded |-> coded]
    BY <1>1, <1>2, <1>5
  <2>2. Before(k)' = history'[k]
    BY <1>3, <1>5 DEF Before
  <2>3. Before(k) = [st |-> enc, at |-> Len(data), size |-> dataSize]
    BY <1>1, <1>5 DEF Before
  <2>4. ~(k <= Len(history))
    BY <1>1, <1>5
  <2> QED
    BY <2>1, <2>2, <2>3, <2>4
<1> QED
  BY <1>1, <1>4, <1>5

LEMMA WriteType ==
  ASSUME TypeOK, NEW t \in Inputs, NEW coded \in Coded, Write(t, coded)
  PROVE  TypeOK'
<1>1. tris' \in Seq(Inputs) /\ code' \in Seq((0..Top) \X (0..Top)) /\ enc' \in CodecState
  BY DEF TypeOK, Write, Coded
<1>2. data' \in Seq(Token)
  BY Concat DEF TypeOK, Write, Coded
<1>3. dataSize' \in Nat
  <2>1. dataSize \in Nat /\ dataSize' = dataSize + TokensSize(coded.tokens)
    BY DEF TypeOK, Write
  <2> QED
    BY <2>1, CodedSize
<1>4. history' \in Seq([st : CodecState, at : Nat, size : Nat,
                        coded : [st : CodecState, code : (0..Top) \X (0..Top),
                                 tokens : Seq(Token)]])
  BY DEF TypeOK, Write, Coded
<1> QED
  BY <1>1, <1>2, <1>3, <1>4 DEF TypeOK, Write, decoderVars

LEMMA WriteRecorded ==
  ASSUME TypeOK, EncoderInv, NEW t \in Inputs, NEW coded, Coding(enc, t, params.version, coded),
         Write(t, coded), NEW k \in 1..Len(history) + 1
  PROVE  Recorded(k)'
<1> DEFINE n == Len(history)
           total == Len(data)
           entry == [st |-> enc, at |-> Len(data), size |-> dataSize, coded |-> coded]
<1>1. /\ history \in Seq([st : CodecState, at : Nat, size : Nat,
                          coded : [st : CodecState, code : (0..Top) \X (0..Top),
                                   tokens : Seq(Token)]])
      /\ tris \in Seq(Inputs) /\ code \in Seq((0..Top) \X (0..Top))
      /\ data \in Seq(Token) /\ dataSize \in Nat /\ enc \in CodecState
      /\ params.version \in Versions
  BY DEF TypeOK
<1>2. /\ history' = Append(history, entry) /\ tris' = Append(tris, t)
      /\ code' = Append(code, coded.code) /\ data' = data \o coded.tokens
      /\ dataSize' = dataSize + TokensSize(coded.tokens) /\ enc' = coded.st
      /\ params' = params
  BY DEF Write
<1>3. coded \in Coded
  BY <1>1, CodingType
<1>4. coded.tokens \in Seq(Token) /\ TokensSize(coded.tokens) \in Nat
  BY <1>3, CodedSize DEF Coded
<1>5. /\ Len(data') = Len(data) + Len(coded.tokens)
      /\ \A i \in 1..Len(data) : data'[i] = data[i]
      /\ \A i \in 1..Len(coded.tokens) : data'[Len(data) + i] = coded.tokens[i]
  BY <1>1, <1>2, <1>4, Concat, SMTT(30)
<1>6. Len(tris) = n /\ Len(code) = n /\ n \in Nat
  BY <1>1 DEF EncoderInv
<1>7. CASE k <= n
  <2> DEFINE r == history[k]
             m == Len(r.coded.tokens)
  <2>1. /\ Coding(r.st, tris[k], params.version, r.coded)
        /\ code[k] = r.coded.code
        /\ r.at + m <= Len(data)
        /\ \A j \in 1..m : data[r.at + j] = r.coded.tokens[j]
        /\ r.size + TokensSize(r.coded.tokens) <= dataSize
        /\ Before(k + 1).st = r.coded.st
        /\ Before(k + 1).at = r.at + m
        /\ Before(k + 1).size = r.size + TokensSize(r.coded.tokens)
    BY <1>7 DEF EncoderInv, Recorded
  <2>2. r.coded \in Coded /\ r.at \in Nat /\ r.size \in Nat /\ r.coded.tokens \in Seq(Token)
    BY <1>7, HistoryType
  <2>3. TokensSize(r.coded.tokens) \in Nat /\ m \in Nat
    BY <2>2, CodedSize
  <2>4. history'[k] = r
    BY <1>7, WriteBefore
  <2>5. tris'[k] = tris[k] /\ code'[k] = code[k]
    <3>1. coded.code \in (0..Top) \X (0..Top)
      BY <1>3 DEF Coded
    <3>2. k \in 1..Len(tris) /\ k \in 1..Len(code)
      BY <1>6, <1>7
    <3> QED
      BY <1>1, <1>2, <3>1, <3>2, Appended
  <2>6. /\ Before(k + 1)'.st = Before(k + 1).st
        /\ Before(k + 1)'.at = Before(k + 1).at
        /\ Before(k + 1)'.size = Before(k + 1).size
    <3>1. k + 1 \in 1..Len(history) + 1
      BY <1>6, <1>7
    <3> QED
      BY <3>1, WriteBefore
  <2>7. \A j \in 1..m : data'[r.at + j] = r.coded.tokens[j]
    <3> SUFFICES ASSUME NEW j \in 1..m
                 PROVE  data'[r.at + j] = r.coded.tokens[j]
      OBVIOUS
    <3>1. r.at + m <= total /\ r.at \in Nat /\ m \in Nat /\ total \in Nat
      BY <1>1, <2>1, <2>2, <2>3
    <3> HIDE DEF r, m, total
    <3>2. r.at + j \in 1..total
      BY <3>1
    <3>3. data[r.at + j] = r.coded.tokens[j]
      BY <2>1
    <3> QED
      BY <1>5, <3>2, <3>3 DEF total
  <2>8. r.at + m <= Len(data')
    <3>1. r.at + m <= total /\ r.at \in Nat /\ m \in Nat /\ total \in Nat
      BY <1>1, <2>1, <2>2, <2>3
    <3>2. Len(coded.tokens) \in Nat /\ Len(data') = total + Len(coded.tokens)
      BY <1>4, <1>5
    <3> HIDE DEF r, m, total
    <3> QED
      BY <3>1, <3>2
  <2>9. r.size + TokensSize(r.coded.tokens) <= dataSize'
    <3>1. r.size + TokensSize(r.coded.tokens) <= dataSize /\ r.size \in Nat
      BY <2>1, <2>2
    <3> HIDE DEF r
    <3> QED
      BY <1>1, <1>2, <1>4, <2>3, <3>1, SMTT(30)
  <2> HIDE DEF r
  <2> QED
    BY <1>2, <2>1, <2>4, <2>5, <2>6, <2>7, <2>8, <2>9 DEF Recorded
<1>8. CASE k = n + 1
  <2>1. history'[k] = entry /\ tris'[k] = t /\ code'[k] = coded.code
    <3>1. tris'[k] = t
      BY <1>1, <1>2, <1>6, <1>8, Appended
    <3>2. code'[k] = coded.code
      <4>1. coded.code \in (0..Top) \X (0..Top)
        BY <1>3 DEF Coded
      <4> QED
        BY <1>1, <1>2, <1>6, <1>8, <4>1, Appended
    <3>3. history'[k] = entry
      <4>1. history \in Seq(Entry) /\ entry \in Entry
        BY <1>1, <1>3, HistoryType, Element DEF Entry
      <4> HIDE DEF entry
      <4> QED
        BY <1>2, <1>8, <4>1, Appended
    <3> QED
      BY <3>1, <3>2, <3>3
  <2>2. Len(history') = n + 1
    BY <1>1, <1>2
  <2>3. Before(k + 1)' = [st |-> enc', at |-> Len(data'), size |-> dataSize']
    BY <1>6, <1>8, <2>2 DEF Before
  <2>4. /\ Len(data) + Len(coded.tokens) <= Len(data')
        /\ dataSize + TokensSize(coded.tokens) <= dataSize'
    BY <1>1, <1>2, <1>4, <1>5
  <2>5. Coding(enc, t, params'.version, coded)
    BY <1>2
  <2> DEFINE r == history'[k]
  <2>6. r.st = enc /\ r.at = Len(data) /\ r.size = dataSize /\ r.coded = coded
    BY <2>1
  <2>7. /\ Coding(r.st, tris'[k], params'.version, r.coded)
        /\ code'[k] = r.coded.code
        /\ r.at + Len(r.coded.tokens) <= Len(data')
    BY <2>1, <2>4, <2>5, <2>6
  <2>8. \A j \in 1..Len(r.coded.tokens) : data'[r.at + j] = r.coded.tokens[j]
    BY <1>5, <2>6
  <2>9. r.size + TokensSize(r.coded.tokens) <= dataSize'
    BY <2>4, <2>6
  <2>10. /\ Before(k + 1)'.st = r.coded.st
         /\ Before(k + 1)'.at = r.at + Len(r.coded.tokens)
         /\ Before(k + 1)'.size = r.size + TokensSize(r.coded.tokens)
    <3>1. /\ Before(k + 1)'.st = enc' /\ Before(k + 1)'.at = Len(data')
          /\ Before(k + 1)'.size = dataSize'
      BY <2>3
    <3>2. enc' = coded.st /\ dataSize' = dataSize + TokensSize(coded.tokens)
      BY <1>2
    <3>3. Len(data') = Len(data) + Len(coded.tokens)
      BY <1>5
    <3> HIDE DEF r
    <3> QED
      BY <2>6, <3>1, <3>2, <3>3
  <2> HIDE DEF r
  <2> QED
    BY <2>7, <2>8, <2>9, <2>10 DEF Recorded, r
<1> QED
  BY <1>6, <1>7, <1>8

\* Either encoding action.
LEMMA WriteInv ==
  ASSUME IInv, phase = "encode", Len(tris) < params.count,
         NEW t \in Inputs, NEW coded, Coding(enc, t, params.version, coded), Write(t, coded)
  PROVE  IInv'
<1>1. TypeOK /\ EncoderInv /\ DecoderInv
  BY DEF IInv
<1>2. enc \in CodecState /\ params.version \in Versions
  BY <1>1 DEF TypeOK
<1>3. coded \in Coded
  BY <1>2, CodingType
<1>4. TypeOK'
  BY <1>1, <1>3, WriteType
<1>5. /\ phase' = phase /\ params' = params /\ result' = result
      /\ dec' = dec /\ taken' = taken /\ takenSize' = takenSize /\ out' = out
  BY DEF Write, decoderVars
<1>6. /\ Len(history') = Len(history) + 1 /\ Len(tris') = Len(tris) + 1
      /\ Len(code') = Len(code) + 1 /\ Len(history) \in Nat
      /\ Len(tris) = Len(history) /\ Len(code) = Len(history)
  BY <1>1 DEF TypeOK, EncoderInv, Write
<1>7. /\ Before(1)'.st = Before(1).st
      /\ Before(1)'.at = Before(1).at
      /\ Before(1)'.size = Before(1).size
  BY <1>1, <1>6, WriteBefore
<1>8. EncoderInv'
  <2>1. \A k \in 1..Len(history) + 1 : Recorded(k)'
    BY <1>1, WriteRecorded
  <2>2. Before(1)'.st = FreshState /\ Before(1)'.at = 0 /\ Before(1)'.size = 0
    BY <1>1, <1>7 DEF EncoderInv
  <2>3. phase' = "encode"
    BY <1>5
  <2> QED
    BY <1>6, <2>1, <2>2, <2>3 DEF EncoderInv
<1>9. DecoderInv'
  <2>1. out = <<>> /\ out' = <<>>
    BY <1>1, <1>5 DEF DecoderInv
  <2>2. Len(out) + 1 = 1 /\ Len(out') + 1 = 1 /\ Len(out') = 0
    BY <2>1
  <2>3. taken = Before(1).at /\ takenSize = Before(1).size /\ (params.cut = 0 => Agree(Before(1).st, dec))
    BY <1>1, <2>2 DEF DecoderInv
  <2>4. phase' = "encode"
    BY <1>5
  <2>5. /\ taken' = Before(1)'.at /\ takenSize' = Before(1)'.size
        /\ params'.cut = 0 => Agree(Before(1)'.st, dec')
    BY <1>5, <1>7, <2>3 DEF Agree
  <2> QED
    BY <1>6, <2>1, <2>2, <2>4, <2>5 DEF DecoderInv
<1> QED
  BY <1>4, <1>8, <1>9 DEF IInv

\* The record of the triangle that is decoded next.
LEMMA CurrentRecord ==
  ASSUME IInv, Decoding, NEW k, k = Len(out) + 1
  PROVE  /\ k \in 1..Len(history) /\ Recorded(k) /\ tris[k] \in Inputs
         /\ history[k].st \in CodecState /\ history[k].coded \in Coded
         /\ Coding(history[k].st, tris[k], params.version, history[k].coded)
         /\ NextCode = history[k].coded.code
         /\ taken = history[k].at /\ takenSize = history[k].size
         /\ params.cut = 0 => Agree(history[k].st, dec)
<1>1. TypeOK /\ EncoderInv /\ DecoderInv
  BY DEF IInv
<1>2. /\ phase = "decode" /\ Len(out) < params.count /\ Len(tris) = params.count
      /\ Len(tris) = Len(history) /\ Len(out) \in Nat /\ Len(history) \in Nat
  BY <1>1, HistoryType DEF TypeOK, EncoderInv, Decoding
<1>3. k \in 1..Len(history)
  BY <1>2
<1>4. Recorded(k)
  BY <1>1, <1>3 DEF EncoderInv
<1>5. tris[k] \in Inputs
  BY <1>1, <1>2, <1>3, Element DEF TypeOK
<1>6. Before(Len(out) + 1) = history[k]
  BY <1>3 DEF Before
<1>7. /\ taken = history[k].at /\ takenSize = history[k].size
      /\ params.cut = 0 => Agree(history[k].st, dec)
  BY <1>1, <1>6 DEF DecoderInv
<1>8. history[k].st \in CodecState /\ history[k].coded \in Coded
  BY <1>1, <1>3, HistoryType
<1>9. /\ Coding(history[k].st, tris[k], params.version, history[k].coded)
      /\ code[k] = history[k].coded.code
  BY <1>4 DEF Recorded
<1>10. NextCode = code[k]
  BY DEF NextCode
<1> QED
  BY <1>3, <1>4, <1>5, <1>7, <1>8, <1>9, <1>10

\* The decoder finds the tokens of the triangle where it is.
LEMMA CurrentTokens ==
  ASSUME IInv, Decoding, NEW k, k = Len(out) + 1
  PROVE  /\ \A j \in 1..Len(history[k].coded.tokens) :
              TokenAt(taken + j) = history[k].coded.tokens[j]
         /\ [i \in 1..Len(history[k].coded.tokens) |-> TokenAt(taken + i)]
              = history[k].coded.tokens
<1> DEFINE tokens == history[k].coded.tokens
           n == Len(tokens)
           total == Len(data)
<1>1. TypeOK
  BY DEF IInv
<1>2. k \in 1..Len(history) /\ Recorded(k) /\ taken = history[k].at
  BY CurrentRecord
<1>3. /\ taken + n <= total
      /\ \A j \in 1..n : data[taken + j] = tokens[j]
  BY <1>2 DEF Recorded
<1>4. tokens \in Seq(Token) /\ n \in Nat /\ taken \in Nat /\ total \in Nat
  <2>1. tokens \in Seq(Token)
    BY <1>1, <1>2, HistoryType
  <2>2. taken \in Nat /\ data \in Seq(Token)
    BY <1>1 DEF TypeOK
  <2> QED
    BY <2>1, <2>2, Element
<1>5. tokens = [i \in 1..n |-> tokens[i]]
  BY <1>4
<1> HIDE DEF tokens, n
<1>6. ASSUME NEW j \in 1..n
      PROVE  TokenAt(taken + j) = tokens[j]
  <2>1. taken + j <= total
    <3> HIDE DEF total
    <3> QED
      BY <1>3, <1>4
  <2> QED
    BY <1>3, <2>1 DEF TokenAt
<1>7. [i \in 1..n |-> TokenAt(taken + i)] = tokens
  BY <1>5, <1>6
<1> QED
  BY <1>6, <1>7 DEF tokens, n

LEMMA DeliverType ==
  ASSUME TypeOK, NEW x \in Decoded, Deliver(x)
  PROVE  TypeOK'
<1>1. x.st \in CodecState /\ x.tri \in Triangle /\ x.read \in Nat
  BY DEF Decoded
<1>2. /\ dec' = x.st
      /\ out' = Append(out, WriteTriangle(x.tri[1], x.tri[2], x.tri[3], params.indexSize))
      /\ taken' = taken + x.read
      /\ UNCHANGED <<phase, params, encoderVars, result>>
  BY DEF Deliver
<1>3. /\ taken \in Nat /\ takenSize \in Nat /\ out \in Seq(Triangle)
      /\ params.indexSize \in {2, 4}
  BY DEF TypeOK
<1>4. WriteTriangle(x.tri[1], x.tri[2], x.tri[3], params.indexSize) \in Triangle
  <2>1. x.tri[1] \in Index /\ x.tri[2] \in Index /\ x.tri[3] \in Index
    BY <1>1 DEF Triangle
  <2> QED
    BY <1>3, <2>1, ModulusType, NarrowType DEF WriteTriangle, Triangle
<1>5. out' \in Seq(Triangle)
  BY <1>2, <1>3, <1>4, Appended
<1>6. taken' \in Nat
  BY <1>1, <1>2, <1>3
<1>7. takenSize' \in Nat
  <2> DEFINE n == TokensSize([i \in 1..x.read |-> TokenAt(taken + i)])
  <2>1. takenSize' = takenSize + n
    BY DEF Deliver
  <2>2. n \in Nat
    BY TokensSizeType
  <2> HIDE DEF n
  <2> QED
    BY <1>3, <2>1, <2>2
<1> QED
  BY <1>1, <1>2, <1>5, <1>6, <1>7 DEF TypeOK, encoderVars

LEMMA WriteRotated ==
  ASSUME NEW t \in Triangle, NEW k \in 0..2, NEW size
  PROVE  WriteTriangle(RotateTo(t, k)[1], RotateTo(t, k)[2], RotateTo(t, k)[3], size)
           = RotateTo(WriteTriangle(t[1], t[2], t[3], size), k)
<1>1. k = 0 \/ k = 1 \/ k = 2
  OBVIOUS
<1> QED
  BY <1>1 DEF WriteTriangle, RotateTo, Triangle

\* Any decoding action.
LEMMA DeliverInv ==
  ASSUME IInv, Decoding, NEW k, k = Len(out) + 1,
         NEW x \in Decoded, x.read = Len(history[k].coded.tokens),
         params.cut = 0 => Decodes(history[k].coded, tris[k], history[k].st, dec, x),
         Deliver(x)
  PROVE  IInv'
<1> DEFINE h == history[k]
           n == Len(h.coded.tokens)
           y == WriteTriangle(x.tri[1], x.tri[2], x.tri[3], params.indexSize)
<1>1. TypeOK /\ EncoderInv /\ DecoderInv
  BY DEF IInv
<1>2. TypeOK'
  BY <1>1, DeliverType
<1>3. /\ dec' = x.st /\ out' = Append(out, y) /\ taken' = taken + n
      /\ phase' = phase /\ params' = params /\ result' = result
      /\ UNCHANGED <<params, encoderVars>>
  BY DEF Deliver
<1>4. takenSize' = takenSize + TokensSize(h.coded.tokens)
  <2>1. takenSize' = takenSize + TokensSize([i \in 1..n |-> TokenAt(taken + i)])
    BY DEF Deliver
  <2>2. [i \in 1..n |-> TokenAt(taken + i)] = h.coded.tokens
    BY CurrentTokens
  <2> HIDE DEF n, h
  <2> QED
    BY <2>1, <2>2
<1>5. /\ k \in 1..Len(history) /\ Recorded(k) /\ tris[k] \in Inputs
      /\ taken = h.at /\ takenSize = h.size
      /\ params.cut = 0 => Agree(h.st, dec)
  BY CurrentRecord
<1>6. /\ Before(k + 1).st = h.coded.st
      /\ Before(k + 1).at = h.at + n
      /\ Before(k + 1).size = h.size + TokensSize(h.coded.tokens)
  BY <1>5 DEF Recorded
<1>7. EncoderInv'
  <2>1. history' = history /\ tris' = tris /\ code' = code /\ dataSize' = dataSize
    BY <1>3 DEF encoderVars
  <2>2. (\A i : Before(i)' = Before(i)) /\ (\A i : Recorded(i)' = Recorded(i))
    BY <1>3, EncoderKept
  <2> QED
    BY <1>1, <1>3, <2>1, <2>2 DEF EncoderInv
<1>8. DecoderInv'
  <2>1. Before(k + 1)' = Before(k + 1)
    BY <1>3, EncoderKept
  <2>2. out \in Seq(Triangle) /\ Len(out) \in Nat
    BY <1>1 DEF TypeOK
  <2>3. /\ Len(out') = k /\ out'[k] = y
        /\ \A i \in 1..Len(out) : out'[i] = out[i]
    BY <1>3, <2>2
  <2>4. tris' = tris /\ Sent' = Sent
    BY <1>3 DEF encoderVars, Sent
  <2>5. Len(out') <= Len(tris')
    BY <1>1, <1>5, <2>3, <2>4 DEF EncoderInv
  <2>6. taken' = Before(k + 1)'.at /\ takenSize' = Before(k + 1)'.size
    BY <1>3, <1>4, <1>5, <1>6, <2>1
  <2>7. ASSUME params.cut = 0
        PROVE  /\ Agree(Before(k + 1)'.st, dec')
               /\ \E r \in 0..2 : out'[k] = RotateTo(Sent[k], r)
    <3>1. Agree(h.st, dec)
      BY <1>5, <2>7
    <3>2. PICK r \in 0..2 : Matches(h.coded, RotateTo(tris[k], r), x)
      BY <2>7, <3>1 DEF Decodes
    <3>3. Agree(h.coded.st, x.st)
      BY <3>2 DEF Matches
    <3>4. /\ x.tri[1] = RotateTo(tris[k], r)[1] /\ x.tri[2] = RotateTo(tris[k], r)[2]
          /\ x.tri[3] = RotateTo(tris[k], r)[3]
      BY <3>2 DEF Matches
    <3>5. tris[k] \in Triangle
      BY <1>5, InputType
    <3>6. y = RotateTo(WriteTriangle(tris[k][1], tris[k][2], tris[k][3], params.indexSize), r)
      BY <3>4, <3>5, WriteRotated, ZenonT(30)
    <3>7. Sent[k] = WriteTriangle(tris[k][1], tris[k][2], tris[k][3], params.indexSize)
      <4>1. k \in 1..Len(tris)
        BY <1>1, <1>5 DEF EncoderInv
      <4> QED
        BY <4>1 DEF Sent
    <3>8. out'[k] = RotateTo(Sent[k], r)
      BY <2>3, <3>6, <3>7
    <3> QED
      BY <1>3, <1>6, <2>1, <3>3, <3>8
  <2>8. ASSUME params.cut = 0
        PROVE  \A i \in 1..Len(out') : \E r \in 0..2 : out'[i] = RotateTo(Sent'[i], r)
    <3> SUFFICES ASSUME NEW i \in 1..Len(out')
                 PROVE  \E r \in 0..2 : out'[i] = RotateTo(Sent[i], r)
      BY <2>4
    <3>1. CASE i = k
      BY <2>7, <2>8, <3>1
    <3>2. CASE i # k
      <4>1. i \in 1..Len(out)
        BY <2>2, <2>3, <3>2
      <4>2. \E r \in 0..2 : out[i] = RotateTo(Sent[i], r)
        BY <1>1, <2>8, <4>1 DEF DecoderInv
      <4> QED
        BY <2>3, <4>1, <4>2
    <3> QED
      BY <3>1, <3>2
  <2>9. phase' = "decode"
    BY <1>3 DEF Decoding
  <2> HIDE DEF h, n, y
  <2> QED
    BY <1>3, <2>3, <2>5, <2>6, <2>7, <2>8, <2>9 DEF DecoderInv
<1> QED
  BY <1>2, <1>7, <1>8 DEF IInv

LEMMA EncodeInv ==
  ASSUME IInv, NEW t \in Inputs, EncodeCachedEdge(t) \/ EncodeOther(t)
  PROVE  IInv'
<1>1. CASE EncodeCachedEdge(t)
  <2>1. PICK h \in EdgeHits(enc, t) :
          EdgeHit(enc, t, h) /\ Write(t, EncodeEdge(enc, t, params.version, h))
    BY <1>1 DEF EncodeCachedEdge
  <2>2. Coding(enc, t, params.version, EncodeEdge(enc, t, params.version, h))
    BY <2>1 DEF Coding, EdgeCoding, EdgeHit
  <2>3. phase = "encode" /\ Len(tris) < params.count
    BY <1>1 DEF EncodeCachedEdge
  <2> QED
    BY <2>1, <2>2, <2>3, WriteInv
<1>2. CASE EncodeOther(t)
  <2>1. Coding(enc, t, params.version, EncodeFree(enc, t, params.version))
    BY DEF Coding
  <2>2. phase = "encode" /\ Len(tris) < params.count
        /\ Write(t, EncodeFree(enc, t, params.version))
    BY <1>2 DEF EncodeOther
  <2> QED
    BY <2>1, <2>2, WriteInv
<1> QED
  BY <1>1, <1>2

LEMMA DecodeInv ==
  ASSUME IInv,
         DecodeCachedEdge \/ DecodeCachedEdgeIndex \/ DecodeTablePair \/ DecodeAuxPair
  PROVE  IInv'
<1> DEFINE k     == Len(out) + 1
           coded == history[k].coded
           st    == history[k].st
           t     == tris[k]
<1>1. TypeOK /\ Decoding
  BY DEF IInv, DecodeCachedEdge, DecodeCachedEdgeIndex, DecodeTablePair, DecodeAuxPair
<1>2. dec \in CodecState /\ params.version \in Versions /\ taken \in Nat
  BY <1>1 DEF TypeOK
<1>3. /\ t \in Inputs /\ st \in CodecState /\ coded \in Coded
      /\ Coding(st, t, params.version, coded)
      /\ NextCode = coded.code
  BY <1>1, CurrentRecord
<1>4. \A j \in 1..Len(coded.tokens) : TokenAt(taken + j) = coded.tokens[j]
  BY <1>1, CurrentTokens
<1>5. coded.code[1] \in Ages /\ coded.code[2] \in Ages
  BY <1>2, <1>3, CodingType
<1>6. ASSUME NEW x, Deliver(x), x \in Decoded, x.read = Len(coded.tokens),
             params.cut = 0 => Decodes(coded, t, st, dec, x)
      PROVE  IInv'
  BY <1>1, <1>6, DeliverInv
<1> HIDE DEF k, coded, st, t
<1>7. CASE DecodeCachedEdge
  <2> DEFINE x == DecodeEdge(dec, NextCode)
  <2>1. IsEdge(NextCode) /\ Deliver(x)
    BY <1>7 DEF DecodeCachedEdge
  <2>2. Decodes(coded, t, st, dec, x)
    BY <1>2, <1>3, <2>1, EdgeDecodes DEF IsEdge
  <2> HIDE DEF x
  <2> QED
    BY <1>6, <2>1, <2>2 DEF Decodes
<1>8. CASE DecodeCachedEdgeIndex
  <2> DEFINE x == DecodeEdgeIndex(dec, NextCode, taken)
  <2>1. IsIndex(NextCode) /\ Deliver(x)
    BY <1>8 DEF DecodeCachedEdgeIndex
  <2>2. Decodes(coded, t, st, dec, x)
    BY <1>2, <1>3, <1>4, <2>1, EdgeIndexDecodes DEF IsIndex
  <2> HIDE DEF x
  <2> QED
    BY <1>6, <2>1, <2>2 DEF Decodes
<1>9. CASE DecodeTablePair
  <2>1. PICK pair \in TablePairs(NextCode[2]) : Deliver(DecodeTable(dec, pair))
    BY <1>9 DEF DecodeTablePair
  <2>2. coded.code[1] = Top /\ coded.code[2] < Top - 1
    BY <1>3, <1>9 DEF DecodeTablePair, IsTable
  <2>3. coded.code[2] \in TableIndex
    BY <1>5, <2>2, TopType
  <2>4. pair \in Ages \X Ages /\ (params.cut = 0 => pair = AuxTable[coded.code[2]])
    <3>1. CASE params.cut = 0
      <4>1. pair = AuxTable[coded.code[2]]
        BY <1>3, <2>1, <3>1 DEF TablePairs
      <4>2. AuxTable[coded.code[2]] \in (0..Top - 1) \X (0..Top - 1)
        BY <2>3, TableAssumption
      <4> QED
        BY <4>1, <4>2, TopType
    <3>2. CASE params.cut # 0
      BY <2>1, <3>2, SizesAssumption DEF TablePairs
    <3> QED
      BY <3>1, <3>2
  <2> DEFINE x == DecodeTable(dec, pair)
  <2>5. /\ x \in Decoded /\ x.read = Len(coded.tokens)
        /\ pair = AuxTable[coded.code[2]] => Decodes(coded, t, st, dec, x)
    BY <1>2, <1>3, <2>2, <2>4, TableDecodes
  <2>6. Deliver(x)
    BY <2>1
  <2> HIDE DEF x
  <2> QED
    BY <1>6, <2>4, <2>5, <2>6
<1>10. CASE DecodeAuxPair
  <2> DEFINE x == DecodeAux(dec, NextCode, taken)
  <2>1. IsAux(NextCode) /\ Deliver(x)
    BY <1>10 DEF DecodeAuxPair
  <2>2. Decodes(coded, t, st, dec, x)
    BY <1>2, <1>3, <1>4, <2>1, AuxDecodes DEF IsAux
  <2> HIDE DEF x
  <2> QED
    BY <1>6, <2>1, <2>2 DEF Decodes
<1> QED
  BY <1>7, <1>8, <1>9, <1>10

\* An action that only moves on: the next phase decides what has to hold.
LEMMA PhaseInv ==
  ASSUME IInv, UNCHANGED <<params, encoderVars, decoderVars>>,
         phase' \in {"encode", "refused", "encoded", "decode", "failed", "done"}, result' \in Int,
         phase' \in {"encode", "encoded"} => out = <<>>,
         phase' \in {"encoded", "decode", "done"} => Len(tris) = params.count,
         phase' \in {"encoded", "decode"} => result' = 1 + params.count + dataSize + TailSize,
         phase' = "failed" => params.cut > 0,
         phase' = "done" => params.cut = 0
  PROVE  IInv'
<1>1. TypeOK /\ EncoderInv /\ DecoderInv
  BY DEF IInv
<1>2. /\ params' = params /\ tris' = tris /\ enc' = enc /\ code' = code /\ data' = data
      /\ dataSize' = dataSize /\ history' = history
      /\ dec' = dec /\ taken' = taken /\ takenSize' = takenSize /\ out' = out
  BY DEF encoderVars, decoderVars
<1>3. TypeOK'
  BY <1>1, <1>2 DEF TypeOK
<1>4. (\A i : Before(i)' = Before(i)) /\ (\A i : Recorded(i)' = Recorded(i)) /\ Sent' = Sent
  BY <1>2, EncoderKept DEF Sent
<1>5. EncoderInv'
  BY <1>1, <1>2, <1>4 DEF EncoderInv
<1>6. DecoderInv'
  BY <1>1, <1>2, <1>4 DEF DecoderInv
<1> QED
  BY <1>3, <1>5, <1>6 DEF IInv

\* No more data is ever read than was written.
LEMMA TakenBound ==
  ASSUME IInv
  PROVE  /\ takenSize <= dataSize /\ takenSize \in Nat /\ dataSize \in Nat
         /\ Len(out) = Len(tris) => takenSize = dataSize
<1> DEFINE k == Len(out) + 1
<1>1. TypeOK /\ EncoderInv /\ DecoderInv
  BY DEF IInv
<1>2. takenSize = Before(k).size /\ Len(out) <= Len(tris) /\ Len(tris) = Len(history)
  BY <1>1 DEF EncoderInv, DecoderInv
<1>3. /\ takenSize \in Nat /\ dataSize \in Nat /\ Len(out) \in Nat /\ Len(history) \in Nat
  BY <1>1, HistoryType DEF TypeOK
<1>4. CASE k <= Len(history)
  <2>1. k \in 1..Len(history)
    BY <1>3, <1>4
  <2>2. Before(k).size = history[k].size
    BY <1>4 DEF Before
  <2>3. history[k].size + TokensSize(history[k].coded.tokens) <= dataSize
    BY <1>1, <2>1 DEF EncoderInv, Recorded
  <2>4. TokensSize(history[k].coded.tokens) \in Nat
    BY TokensSizeType
  <2> QED
    BY <1>2, <1>3, <1>4, <2>2, <2>3, <2>4
<1>5. CASE ~(k <= Len(history))
  <2>1. Before(k).size = dataSize
    BY <1>5 DEF Before
  <2> QED
    BY <1>2, <1>3, <2>1
<1> QED
  BY <1>4, <1>5

LEMMA NextInv == IInv /\ [Next]_vars => IInv'
<1> SUFFICES ASSUME IInv, [Next]_vars
             PROVE  IInv'
  OBVIOUS
<1>1. TypeOK /\ EncoderInv /\ DecoderInv
  BY DEF IInv
<1>2. /\ params.count \in Nat /\ params.cut \in Nat /\ TailSize \in Nat /\ result \in Int
      /\ dataSize \in Nat /\ takenSize \in Nat /\ takenSize <= dataSize
      /\ Len(out) \in Nat
  BY <1>1, TakenBound, ConstantsType DEF TypeOK
<1>3. CASE EncodeStart
  <2>1. /\ phase = "idle" /\ UNCHANGED <<params, encoderVars, decoderVars, result>>
        /\ phase' \in {"refused", "encode"}
    BY <1>3 DEF EncodeStart
  <2>2. out = <<>>
    BY <1>1, <2>1 DEF DecoderInv
  <2> QED
    BY <1>2, <2>1, <2>2, PhaseInv
<1>4. ASSUME NEW t \in Inputs, EncodeCachedEdge(t)
      PROVE  IInv'
  BY <1>4, EncodeInv
<1>5. ASSUME NEW t \in Inputs, EncodeOther(t)
      PROVE  IInv'
  BY <1>5, EncodeInv
<1>6. CASE EncodeRefuse
  BY <1>2, <1>6, PhaseInv DEF EncodeRefuse
<1>7. CASE EncodeFinish
  <2>1. /\ phase = "encode" /\ Len(tris) = params.count /\ phase' = "encoded"
        /\ result' = 1 + params.count + dataSize + TailSize
        /\ UNCHANGED <<params, encoderVars, decoderVars>>
    BY <1>7 DEF EncodeFinish
  <2>2. out = <<>>
    BY <1>1, <2>1 DEF DecoderInv
  <2> QED
    BY <1>2, <2>1, <2>2, PhaseInv
<1>8. CASE DecodeStart
  <2>1. /\ phase = "encoded" /\ UNCHANGED <<params, encoderVars, decoderVars>>
    BY <1>8 DEF DecodeStart
  <2>2. Len(tris) = params.count /\ result = 1 + params.count + dataSize + TailSize
    BY <1>1, <2>1 DEF EncoderInv
  <2>3. CASE StreamSize < 1 + params.count + TailSize
    <3>1. params.cut > 0
      BY <1>2, <2>2, <2>3 DEF StreamSize
    <3>2. phase' = "failed" /\ result' = -2
      BY <1>8, <2>3 DEF DecodeStart
    <3> QED
      BY <2>1, <3>1, <3>2, PhaseInv
  <2>4. CASE ~(StreamSize < 1 + params.count + TailSize)
    <3>1. phase' = "decode" /\ result' = result
      BY <1>8, <2>4 DEF DecodeStart
    <3> QED
      BY <1>2, <2>1, <2>2, <3>1, PhaseInv
  <2> QED
    BY <2>3, <2>4
<1>9. CASE DecodeCachedEdge \/ DecodeCachedEdgeIndex \/ DecodeTablePair \/ DecodeAuxPair
  BY <1>9, DecodeInv
<1>10. CASE DecodeTruncated
  <2>1. /\ phase = "decode" /\ phase' = "failed" /\ result' = -2
        /\ ~HasData /\ UNCHANGED <<params, encoderVars, decoderVars>>
    BY <1>10 DEF DecodeTruncated, Decoding
  <2>2. result = 1 + params.count + dataSize + TailSize
    BY <1>1, <2>1 DEF EncoderInv
  <2>3. params.cut > 0
    <3>1. ~(1 + params.count + takenSize
              <= ((1 + params.count + dataSize + TailSize) - params.cut) - TailSize)
      BY <2>1, <2>2 DEF HasData, StreamSize
    <3> QED
      BY <1>2, <3>1
  <2> QED
    BY <2>1, <2>3, PhaseInv
<1>11. CASE DecodeFinish
  <2>1. /\ phase = "decode" /\ Len(out) = params.count
        /\ UNCHANGED <<params, encoderVars, decoderVars>>
    BY <1>11 DEF DecodeFinish
  <2>2. result = 1 + params.count + dataSize + TailSize /\ Len(tris) = params.count
    BY <1>1, <2>1 DEF EncoderInv
  <2>3. takenSize = dataSize
    BY <2>1, <2>2, TakenBound
  <2>4. CASE 1 + params.count + takenSize = StreamSize - TailSize
    <3>1. params.cut = 0
      BY <1>2, <2>2, <2>3, <2>4 DEF StreamSize
    <3>2. phase' = "done" /\ result' = 0
      BY <1>11, <2>4 DEF DecodeFinish
    <3> QED
      BY <2>1, <2>2, <3>1, <3>2, PhaseInv
  <2>5. CASE 1 + params.count + takenSize # StreamSize - TailSize
    <3>1. params.cut > 0
      BY <1>2, <2>2, <2>3, <2>5 DEF StreamSize
    <3>2. phase' = "failed" /\ result' = -3
      BY <1>11, <2>5 DEF DecodeFinish
    <3> QED
      BY <2>1, <3>1, <3>2, PhaseInv
  <2> QED
    BY <2>4, <2>5
<1>12. CASE UNCHANGED vars
  <2>1. /\ UNCHANGED <<phase, params, result, history>>
        /\ UNCHANGED <<params, encoderVars>> /\ UNCHANGED decoderVars
    BY <1>12 DEF vars, encoderVars, decoderVars
  <2>2. (\A i : Before(i)' = Before(i)) /\ (\A i : Recorded(i)' = Recorded(i)) /\ Sent' = Sent
    BY <2>1, EncoderKept DEF encoderVars, Sent
  <2>3. TypeOK'
    BY <1>1, <1>12 DEF TypeOK, vars
  <2>4. EncoderInv'
    BY <1>1, <1>12, <2>2 DEF EncoderInv, vars
  <2>5. DecoderInv'
    BY <1>1, <1>12, <2>2 DEF DecoderInv, vars
  <2> QED
    BY <2>3, <2>4, <2>5 DEF IInv
<1>13. CASE Returned
  BY <1>12, <1>13 DEF Returned
<1> QED
  BY <1>3, <1>4, <1>5, <1>6, <1>7, <1>8, <1>9, <1>10, <1>11, <1>12, <1>13 DEF Next

-----------------------------------------------------------------------------
(* Theorems *)

LEMMA Invariance == Spec => []IInv
  BY InitInv, NextInv, PTL DEF Spec

\* The codec's state is well typed, whatever bytes stand for the table of a cut stream: ages,
\* indices and nibbles stay in their ranges (indexcodec.cpp, meshopt_decodeIndexBuffer).
THEOREM TypeCorrect == Spec => []TypeOK
<1>1. IInv => TypeOK
  BY DEF IInv
<1> QED
  BY <1>1, Invariance, PTL

\* The decoder of a whole stream follows the encoder exactly, triangle by triangle.
THEOREM DecoderFollows == Spec => []Lockstep
<1>1. IInv => Lockstep
  BY DEF IInv, DecoderInv, Lockstep
<1> QED
  BY <1>1, Invariance, PTL

\* A stream that the encoder has written is never rejected.
THEOREM NeverRejected == Spec => []EncodedDecodes
<1>1. IInv => EncodedDecodes
  BY DEF IInv, DecoderInv, EncodedDecodes
<1> QED
  BY <1>1, Invariance, PTL

\* A stream that has lost bytes at its end is never accepted.
THEOREM CutNeverAccepted == Spec => []TruncatedRejected
<1>1. IInv => TruncatedRejected
  BY DEF IInv, DecoderInv, TruncatedRejected
<1> QED
  BY <1>1, Invariance, PTL

\* The tokens that are written for a triangle over a cached edge: at most one index.
LEMMA EdgeTokens ==
  ASSUME NEW st \in CodecState, NEW t \in Inputs, NEW version \in Versions,
         NEW coded, EdgeCoding(st, t, version, coded)
  PROVE  \E c, last : coded.tokens = <<>> \/ coded.tokens = <<IndexToken(c, last)>>
<1>1. PICK h \in EdgeHits(st, t) : coded = EncodeEdge(st, t, version, h)
  BY DEF EdgeCoding
<1> DEFINE c == RotateTo(t, h[2])[3]
<1>2. coded.tokens = <<>> \/ coded.tokens = <<IndexToken(c, st.last)>>
  BY <1>1 DEF EncodeEdge
<1> QED
  BY <1>2

\* The first corner has the code 0 if it is the next vertex, after a reset if there is one.
LEMMA FirstIsNext ==
  ASSUME NEW st, NEW version, NEW r, NEW fea, NEW feb, NEW fec, NEW coded,
         FreeCoding(st, version, r, fea, feb, fec, coded)
  PROVE  fea = 0 <=> r[1] = (IF Resets(st, version, r) THEN 0 ELSE st.next)
  BY DEF FreeCoding

\* The second and the third corner are never both next when the first is not: a codeaux byte 0
\* is a reset (indexcodec.cpp, the comment before rotateTriangle).
LEMMA ResetOnly ==
  ASSUME NEW st \in CodecState, NEW t \in Inputs, NEW version \in Versions,
         NEW coded, Coding(st, t, version, coded),
         coded.tokens # <<>>, coded.tokens[1] = <<"aux", 0, 0>>
  PROVE  /\ \E r \in 0..2 : RotateTo(t, r) = <<0, 1, 2>>
         /\ st.next > 0
         /\ coded.code = <<Top, Top - 1>>
<1>1. ~EdgeCoding(st, t, version, coded)
  <2>1. ASSUME EdgeCoding(st, t, version, coded)
        PROVE  FALSE
    <3>1. PICK c, last : coded.tokens = <<>> \/ coded.tokens = <<IndexToken(c, last)>>
      BY <2>1, EdgeTokens
    <3>2. coded.tokens = <<IndexToken(c, last)>>
      BY <3>1
    <3> DEFINE x == IndexToken(c, last)
    <3>3. x[1] = "index"
      BY DEF IndexToken
    <3> HIDE DEF x
    <3>4. coded.tokens[1] = x
      BY <3>2 DEF x
    <3>5. coded.tokens[1][1] = "aux"
      OBVIOUS
    <3> QED
      BY <3>3, <3>4, <3>5
  <2> QED
    BY <2>1
<1>2. PICK k \in 0..2, fea, feb, fec \in Ages :
        FreeCoding(st, version, RotateTo(t, k), fea, feb, fec, coded)
  BY <1>1, EncodeFreeMeaning DEF Coding
<1>3. ~UsesTable(st, version, RotateTo(t, k), fea, feb, fec)
  BY <1>2, TableTokens
<1>4. coded.tokens[1] = <<"aux", feb, fec>> /\ coded.code = <<Top, IF fea = 0 THEN Top - 1 ELSE Top>>
  BY <1>2, <1>3, AuxTokens
<1>5. feb = 0 /\ fec = 0
  BY <1>4
<1>6. Resets(st, version, RotateTo(t, k))
  BY <1>2, <1>3, <1>5, ResetPair
<1>7. RotateTo(t, k) = <<0, 1, 2>> /\ st.next > 0
  BY <1>6 DEF Resets
<1>8. fea = 0
  <2>1. RotateTo(t, k)[1] = 0
    BY <1>7
  <2> QED
    BY <1>2, <1>6, <2>1, FirstIsNext
<1> QED
  BY <1>4, <1>7, <1>8

\* Only a reset triangle makes the decoder reset.
THEOREM ResetsAreMeant == Spec => []NoFalseReset
<1>1. IInv => NoFalseReset
  <2> SUFFICES ASSUME IInv, NEW k \in 1..Len(history),
                      history[k].coded.tokens # <<>>,
                      history[k].coded.tokens[1] = <<"aux", 0, 0>>
               PROVE  /\ \E r \in 0..2 : RotateTo(tris[k], r) = <<0, 1, 2>>
                      /\ history[k].st.next > 0
                      /\ history[k].coded.code = <<Top, Top - 1>>
    BY DEF NoFalseReset
  <2>1. TypeOK /\ EncoderInv
    BY DEF IInv
  <2>2. Coding(history[k].st, tris[k], params.version, history[k].coded)
    BY <2>1 DEF EncoderInv, Recorded
  <2>3. history[k].st \in CodecState
    BY <2>1, HistoryType
  <2>4. tris[k] \in Inputs /\ params.version \in Versions
    BY <2>1, Element DEF TypeOK, EncoderInv
  <2> QED
    BY <2>2, <2>3, <2>4, ResetOnly
<1> QED
  BY <1>1, Invariance, PTL

-----------------------------------------------------------------------------
(* One check for each triangle keeps the writes and the reads in bounds *)

LEMMA TokensLimit ==
  ASSUME NEW st \in CodecState, NEW t \in Inputs, NEW version \in Versions,
         NEW coded, Coding(st, t, version, coded)
  PROVE  TokensSize(coded.tokens) <= TailSize
<1>1. /\ MaxGroups \in Nat /\ MaxGroups >= 1 /\ TailSize \in Nat
      /\ TailSize >= 1 + (MaxGroups + MaxGroups + MaxGroups)
  BY SizesAssumption
<1>2. \A v : IndexSize(v) \in 1..MaxGroups
  BY IndexSizeType, SizesAssumption
<1>3. \A token : TokenSize(token) \in 1..MaxGroups
  BY <1>1, <1>2 DEF TokenSize
<1> DEFINE s      == coded.tokens
           size(i) == IF i <= Len(s) THEN TokenSize(s[i]) ELSE 0
<1>4. TokensSize(s) = size(1) + size(2) + size(3) + size(4)
  BY DEF TokensSize
<1>5. \A i : size(i) \in 0..MaxGroups
  BY <1>1, <1>3
<1>6. CASE EdgeCoding(st, t, version, coded)
  <2>1. PICK c, last : s = <<>> \/ s = <<IndexToken(c, last)>>
    BY <1>6, EdgeTokens
  <2>2. Len(s) \in {0, 1}
    <3> DEFINE x == IndexToken(c, last)
    <3>1. s = <<>> \/ s = <<x>>
      BY <2>1
    <3> HIDE DEF x, s
    <3>2. Len(<<>>) = 0 /\ Len(<<x>>) = 1
      OBVIOUS
    <3> QED
      BY <3>1, <3>2, Zenon
  <2>3. size(2) = 0 /\ size(3) = 0 /\ size(4) = 0
    BY <2>2
  <2> HIDE DEF s, size
  <2> QED
    BY <1>1, <1>4, <1>5, <2>3 DEF s
<1>7. CASE coded = EncodeFree(st, t, version)
  <2>1. PICK k \in 0..2, fea, feb, fec \in Ages :
          FreeCoding(st, version, RotateTo(t, k), fea, feb, fec, coded)
    BY <1>7, EncodeFreeMeaning
  <2>2. size(1) <= 1
    <3>1. CASE UsesTable(st, version, RotateTo(t, k), fea, feb, fec)
      <4>1. s = <<>>
        BY <2>1, <3>1, TableTokens
      <4> QED
        BY <4>1
    <3>2. CASE ~UsesTable(st, version, RotateTo(t, k), fea, feb, fec)
      <4>1. s[1] = <<"aux", feb, fec>>
        BY <2>1, <3>2, AuxTokens
      <4> QED
        BY <4>1 DEF TokenSize
    <3> QED
      BY <3>1, <3>2
  <2> HIDE DEF s, size
  <2> QED
    BY <1>1, <1>4, <1>5, <2>2 DEF s
<1> QED
  BY <1>6, <1>7 DEF Coding

LEMMA BoundsStep == IInv /\ InBounds /\ [Next]_vars /\ IInv' => InBounds'
<1> SUFFICES ASSUME IInv, InBounds, [Next]_vars, IInv'
             PROVE  InBounds'
  OBVIOUS
<1>1. TypeOK /\ EncoderInv /\ DecoderInv /\ TypeOK'
  BY DEF IInv
<1>2. /\ params.count \in Nat /\ params.cut \in Nat /\ TailSize \in Nat
      /\ params.bufferSize \in Int /\ result \in Int
      /\ dataSize \in Nat /\ takenSize \in Nat
      /\ Len(out) \in Nat
  BY <1>1, ConstantsType DEF TypeOK
<1>3. CASE EncodeStart
  <2>1. dataSize = 0
    BY <1>1, <1>3 DEF EncoderInv, EncodeStart
  <2>2. params' = params /\ dataSize' = dataSize
    BY <1>3 DEF EncodeStart, encoderVars
  <2>3. CASE params.bufferSize < 1 + params.count + TailSize
    <3>1. phase' = "refused"
      BY <1>3, <2>3 DEF EncodeStart
    <3> QED
      BY <3>1 DEF InBounds
  <2>4. CASE ~(params.bufferSize < 1 + params.count + TailSize)
    <3>1. phase' = "encode"
      BY <1>3, <2>4 DEF EncodeStart
    <3> QED
      BY <1>2, <2>1, <2>2, <2>4, <3>1 DEF InBounds
  <2> QED
    BY <2>3, <2>4
<1>4. ASSUME NEW t \in Inputs, NEW coded, Coding(enc, t, params.version, coded),
             HasRoom, phase = "encode", Write(t, coded)
      PROVE  InBounds'
  <2>1. enc \in CodecState /\ params.version \in Versions
    BY <1>1 DEF TypeOK
  <2>2. TokensSize(coded.tokens) <= TailSize /\ TokensSize(coded.tokens) \in Nat
    BY <1>4, <2>1, TokensLimit, TokensSizeType
  <2>3. params' = params /\ phase' = "encode" /\ dataSize' = dataSize + TokensSize(coded.tokens)
    BY <1>4 DEF Write
  <2>4. 1 + params.count + dataSize <= params.bufferSize - TailSize
    BY <1>4 DEF HasRoom
  <2> QED
    BY <1>2, <2>2, <2>3, <2>4, SMTT(30) DEF InBounds
<1>5. ASSUME NEW t \in Inputs, EncodeCachedEdge(t)
      PROVE  InBounds'
  <2>1. PICK h \in EdgeHits(enc, t) :
          EdgeHit(enc, t, h) /\ Write(t, EncodeEdge(enc, t, params.version, h))
    BY <1>5 DEF EncodeCachedEdge
  <2>2. Coding(enc, t, params.version, EncodeEdge(enc, t, params.version, h))
    BY <2>1 DEF Coding, EdgeCoding, EdgeHit
  <2> QED
    BY <1>4, <1>5, <2>1, <2>2 DEF EncodeCachedEdge
<1>6. ASSUME NEW t \in Inputs, EncodeOther(t)
      PROVE  InBounds'
  BY <1>4, <1>6 DEF EncodeOther, Coding
<1>7. CASE EncodeFinish
  <2>1. /\ phase' = "encoded" /\ HasRoom /\ params' = params /\ dataSize' = dataSize
        /\ result' = 1 + params.count + dataSize + TailSize
    BY <1>7 DEF EncodeFinish, encoderVars
  <2>2. 1 + params.count + dataSize <= params.bufferSize - TailSize
    BY <2>1 DEF HasRoom
  <2> QED
    BY <1>2, <2>1, <2>2 DEF InBounds
<1>8. CASE DecodeStart
  <2>1. phase = "encoded" /\ params' = params /\ takenSize' = takenSize
    BY <1>8 DEF DecodeStart, decoderVars
  <2>2. takenSize = 0
    <3>1. Len(out) = 0
      BY <1>1, <2>1 DEF DecoderInv
    <3>2. takenSize = Before(1).size
      BY <1>1, <3>1 DEF DecoderInv
    <3> QED
      BY <1>1, <3>2 DEF EncoderInv
  <2>3. CASE StreamSize < 1 + params.count + TailSize
    <3>1. phase' = "failed"
      BY <1>8, <2>3 DEF DecodeStart
    <3> QED
      BY <3>1 DEF InBounds
  <2>4. CASE ~(StreamSize < 1 + params.count + TailSize)
    <3>1. phase' = "decode" /\ result' = result
      BY <1>8, <2>4 DEF DecodeStart
    <3> QED
      BY <1>2, <2>1, <2>2, <2>4, <3>1 DEF InBounds, StreamSize
  <2> QED
    BY <2>3, <2>4
<1>9. ASSUME NEW x, Decoding, Deliver(x), HasData \/ x.read = 0
      PROVE  InBounds'
  <2>0. PICK k : k = Len(out) + 1
    OBVIOUS
  <2>1. /\ phase' = phase /\ phase = "decode" /\ params' = params /\ result' = result
        /\ UNCHANGED <<params, encoderVars>>
    BY <1>9 DEF Deliver, Decoding
  <2>2. CASE x.read = 0
    <3> DEFINE none == [i \in 1..x.read |-> TokenAt(taken + i)]
    <3>1. Len(none) = 0
      BY <2>2
    <3>2. takenSize' = takenSize + TokensSize(none)
      BY <1>9 DEF Deliver
    <3> HIDE DEF none
    <3>3. TokensSize(none) = 0
      BY <3>1 DEF TokensSize
    <3> QED
      BY <1>2, <2>1, <3>2, <3>3 DEF InBounds, StreamSize
  <2>3. CASE HasData
    <3>1. /\ k \in 1..Len(history) /\ tris[k] \in Inputs /\ Recorded(k)
          /\ history[k].st \in CodecState
          /\ Coding(history[k].st, tris[k], params.version, history[k].coded)
          /\ takenSize = history[k].size
      BY <1>9, <2>0, CurrentRecord
    <3> DEFINE n == TokensSize(history[k].coded.tokens)
    <3>2. n <= TailSize /\ n \in Nat
      BY <1>1, <3>1, TokensLimit, TokensSizeType DEF TypeOK
    <3>3. takenSize' = takenSize + n
      <4>1. Before(k + 1).size = history[k].size + n
        BY <3>1 DEF Recorded
      <4>2. Before(k + 1)' = Before(k + 1)
        BY <2>1, EncoderKept
      <4>3. Len(out') = k
        BY <1>1, <1>9, <2>0, Appended DEF TypeOK, Deliver
      <4>4. DecoderInv'
        BY DEF IInv
      <4>5. takenSize' = Before(k + 1)'.size
        BY <4>3, <4>4 DEF DecoderInv
      <4> QED
        BY <3>1, <4>1, <4>2, <4>5
    <3>4. 1 + params.count + takenSize <= StreamSize - TailSize
      BY <2>3 DEF HasData
    <3> HIDE DEF n
    <3> QED
      BY <1>2, <2>1, <3>2, <3>3, <3>4, SMTT(30) DEF InBounds, StreamSize
  <2> QED
    BY <1>9, <2>2, <2>3
<1>10. CASE DecodeCachedEdge
  <2>1. DecodeEdge(dec, NextCode).read = 0
    BY DEF DecodeEdge
  <2> QED
    BY <1>9, <1>10, <2>1 DEF DecodeCachedEdge
<1>11. CASE DecodeCachedEdgeIndex
  BY <1>9, <1>11 DEF DecodeCachedEdgeIndex
<1>12. CASE DecodeTablePair
  <2>1. PICK pair \in TablePairs(NextCode[2]) : Deliver(DecodeTable(dec, pair))
    BY <1>12 DEF DecodeTablePair
  <2>2. DecodeTable(dec, pair).read = 0
    BY DEF DecodeTable
  <2> QED
    BY <1>9, <1>12, <2>1, <2>2 DEF DecodeTablePair
<1>13. CASE DecodeAuxPair
  BY <1>9, <1>13 DEF DecodeAuxPair
<1>14. CASE EncodeRefuse \/ DecodeTruncated \/ DecodeFinish
  <2>1. phase' \in {"refused", "failed", "done"}
    BY <1>14 DEF EncodeRefuse, DecodeTruncated, DecodeFinish
  <2> QED
    BY <2>1 DEF InBounds
<1>15. CASE UNCHANGED vars
  BY <1>15 DEF vars, InBounds, StreamSize
<1>16. CASE Returned
  BY <1>15, <1>16 DEF Returned
<1> QED
  BY <1>3, <1>5, <1>6, <1>7, <1>8, <1>10, <1>11, <1>12, <1>13, <1>14, <1>15, <1>16 DEF Next

\* No write leaves the buffer and no read leaves the stream.
THEOREM StaysInBounds == Spec => []InBounds
<1>1. Init => InBounds
  BY DEF Init, InBounds
<1> QED
  BY <1>1, BoundsStep, Invariance, PTL DEF Spec

-----------------------------------------------------------------------------
(* The codec implements TriangleStream *)

Corner == 0..VertexCount - 1

Received == IF params.cut = 0 THEN out ELSE <<>>

LEMMA NarrowCorner ==
  ASSUME NEW i \in Corner, NEW size
  PROVE  Narrow(i, size) \in Corner
<1>1. VertexCount \in Nat
  BY InputsAssumption, TopType DEF Fill
<1>2. ShortModulus \in Nat /\ ShortModulus > 0
  BY ConstantsType
<1>3. i % ShortModulus \in Nat /\ i % ShortModulus <= i
  <2>1. CASE i < ShortModulus
    BY <1>1, <1>2, <2>1 DEF Corner
  <2>2. CASE ~(i < ShortModulus)
    BY <1>1, <1>2, <2>2 DEF Corner
  <2> QED
    BY <2>1, <2>2
<1> QED
  BY <1>1, <1>3 DEF Narrow, Corner

\* Encoding a triangle sends it.
LEMMA WriteSends ==
  ASSUME IInv, phase = "encode", NEW t \in Inputs, NEW coded, Write(t, coded)
  PROVE  Stream!Send
<1>1. TypeOK /\ DecoderInv
  BY DEF IInv
<1>2. tris' = Append(tris, t) /\ params' = params /\ out' = out
  BY DEF Write, decoderVars
<1> DEFINE w == WriteTriangle(t[1], t[2], t[3], params.indexSize)
<1>3. t[1] \in Corner /\ t[2] \in Corner /\ t[3] \in Corner
  BY InputsAssumption DEF Corner
<1>4. w \in Corner \X Corner \X Corner
  BY <1>3, NarrowCorner DEF WriteTriangle
<1>5. Sent' = Append(Sent, w)
  <2>1. tris \in Seq(Inputs) /\ Len(tris) \in Nat
    BY <1>1 DEF TypeOK
  <2>2. /\ Len(tris') = Len(tris) + 1 /\ tris'[Len(tris) + 1] = t
        /\ \A i \in 1..Len(tris) : tris'[i] = tris[i]
    BY <1>2, <2>1, Appended
  <2>3. Sent' = [i \in 1..Len(tris) + 1 |->
                   WriteTriangle(tris'[i][1], tris'[i][2], tris'[i][3], params.indexSize)]
    BY <1>2, <2>2 DEF Sent
  <2>4. Len(Sent) = Len(tris)
    BY <2>1 DEF Sent
  <2>5. Append(Sent, w) = [i \in 1..Len(tris) + 1 |-> IF i = Len(tris) + 1 THEN w ELSE Sent[i]]
    BY <2>1, <2>4
  <2>6. ASSUME NEW i \in 1..Len(tris) + 1
        PROVE  WriteTriangle(tris'[i][1], tris'[i][2], tris'[i][3], params.indexSize)
                 = IF i = Len(tris) + 1 THEN w ELSE Sent[i]
    <3>1. CASE i = Len(tris) + 1
      BY <2>2, <3>1
    <3>2. CASE i # Len(tris) + 1
      <4>1. i \in 1..Len(tris)
        BY <2>1, <3>2
      <4> QED
        BY <2>2, <3>2, <4>1 DEF Sent
    <3> QED
      BY <3>1, <3>2
  <2> HIDE DEF w
  <2> QED
    BY <2>3, <2>5, <2>6
<1>6. Received' = Received
  BY <1>2 DEF Received
<1> HIDE DEF w
<1> QED
  BY <1>4, <1>5, <1>6 DEF Stream!Send, Stream!Triangle, Received, Corner

\* Decoding a triangle delivers it.
LEMMA DeliverDelivers ==
  ASSUME IInv, IInv', Decoding, NEW x, Deliver(x)
  PROVE  Stream!Deliver \/ UNCHANGED <<Sent, Received>>
<1> DEFINE y == WriteTriangle(x.tri[1], x.tri[2], x.tri[3], params.indexSize)
<1>1. TypeOK /\ EncoderInv /\ DecoderInv'
  BY DEF IInv
<1>2. /\ out' = Append(out, y) /\ params' = params /\ tris' = tris /\ Sent' = Sent
  BY DEF Deliver, encoderVars, Sent
<1>3. CASE params.cut # 0
  BY <1>2, <1>3 DEF Received
<1>4. CASE params.cut = 0
  <2>1. Received = out /\ Received' = out'
    BY <1>2, <1>4 DEF Received
  <2>2. out \in Seq(Triangle) /\ Len(out) \in Nat /\ Len(tris) \in Nat
    BY <1>1 DEF TypeOK
  <2>3. Len(Sent) = Len(tris)
    BY <2>2 DEF Sent
  <2>4. Len(out) < Len(tris)
    BY <1>1 DEF Decoding, EncoderInv
  <2>5. Len(out') = Len(out) + 1 /\ out'[Len(out) + 1] = y
    BY <1>2, <2>2
  <2>6. PICK k : k = Len(out) + 1
    OBVIOUS
  <2>7. \E r \in 0..2 : out'[k] = RotateTo(Sent'[k], r)
    <3>1. k \in 1..Len(out')
      BY <2>2, <2>5, <2>6
    <3> QED
      BY <1>1, <1>2, <1>4, <3>1 DEF DecoderInv
  <2>8. PICK r \in 0..2 : y = RotateTo(Sent[k], r)
    BY <1>2, <2>5, <2>6, <2>7
  <2>9. RotateTo(Sent[k], r) = Stream!RotateTo(Sent[k], r)
    BY DEF RotateTo, Stream!RotateTo
  <2>10. y \in Stream!Rotations(Sent[Len(out) + 1])
    BY <2>6, <2>8, <2>9 DEF Stream!Rotations
  <2> HIDE DEF y
  <2>11. Stream!Deliver
    BY <1>2, <2>1, <2>3, <2>4, <2>10 DEF Stream!Deliver, Received
  <2> QED
    BY <2>11
<1> QED
  BY <1>3, <1>4

\* Whole streams give back the triangles in their order, rotated and never flipped.
THEOREM ImplementsTriangleStream == Spec => StreamSpec
<1>1. Init => Stream!Init
  BY DEF Init, Stream!Init, Sent
<1>2. IInv /\ IInv' /\ [Next]_vars => [Stream!Next]_<<Sent, Received>>
  <2> SUFFICES ASSUME IInv, IInv', [Next]_vars
               PROVE  Stream!Next \/ UNCHANGED <<Sent, Received>>
    OBVIOUS
  <2>1. ASSUME NEW t \in Inputs, EncodeCachedEdge(t)
        PROVE  Stream!Send
    <3>1. PICK h \in EdgeHits(enc, t) : Write(t, EncodeEdge(enc, t, params.version, h))
      BY <2>1 DEF EncodeCachedEdge
    <3> QED
      BY <2>1, <3>1, WriteSends DEF EncodeCachedEdge
  <2>2. ASSUME NEW t \in Inputs, EncodeOther(t)
        PROVE  Stream!Send
    BY <2>2, WriteSends DEF EncodeOther
  <2>3. CASE DecodeCachedEdge
    BY <2>3, DeliverDelivers DEF DecodeCachedEdge, Stream!Next
  <2>4. CASE DecodeCachedEdgeIndex
    BY <2>4, DeliverDelivers DEF DecodeCachedEdgeIndex, Stream!Next
  <2>5. CASE DecodeTablePair
    BY <2>5, DeliverDelivers DEF DecodeTablePair, Stream!Next
  <2>6. CASE DecodeAuxPair
    BY <2>6, DeliverDelivers DEF DecodeAuxPair, Stream!Next
  <2>7. ASSUME UNCHANGED <<params, tris, out>>
        PROVE  UNCHANGED <<Sent, Received>>
    BY <2>7 DEF Sent, Received
  <2>8. CASE EncodeStart \/ EncodeRefuse \/ EncodeFinish \/ DecodeStart
    <3>1. UNCHANGED <<params, encoderVars, decoderVars>>
      BY <2>8 DEF EncodeStart, EncodeRefuse, EncodeFinish, DecodeStart
    <3> QED
      BY <2>7, <3>1 DEF encoderVars, decoderVars
  <2>9. CASE DecodeTruncated \/ DecodeFinish \/ Returned \/ UNCHANGED vars
    <3>1. UNCHANGED <<params, tris, out>>
      BY <2>9 DEF DecodeTruncated, DecodeFinish, Returned, vars, encoderVars, decoderVars
    <3> QED
      BY <2>7, <3>1
  <2> QED
    BY <2>1, <2>2, <2>3, <2>4, <2>5, <2>6, <2>8, <2>9 DEF Next, Stream!Next
<1>3. Spec => Stream!Spec
  BY <1>1, <1>2, Invariance, PTL DEF Spec, Stream!Spec, Received
<1> QED
  BY <1>3 DEF StreamSpec
-----------------------------------------------------------------------------
(* The bound is enough *)

LEMMA VertexGroupsType ==
  /\ VertexBits(VertexCount) \in Nat \ {0}
  /\ VertexGroups \in Nat \ {0}
  /\ VertexBits(VertexCount) + 1 <= GroupBits * VertexGroups
<1> DEFINE n == VertexBits(VertexCount)
           a == n + 1 + GroupBits - 1
<1>1. n \in Nat \ {0}
  BY SizesAssumption, InputsAssumption, TopType, VertexBitsEnough, SMTT(30) DEF Index
<1> HIDE DEF n
<1>2. a \in Nat /\ GroupBits \in Nat /\ GroupBits > 0 /\ a = n + GroupBits
  BY <1>1, SizesAssumption
<1> HIDE DEF a
<1>3. a \div GroupBits \in Nat /\ GroupBits * (a \div GroupBits) > a - GroupBits
  BY <1>2
<1>4. VertexGroups = a \div GroupBits
  BY DEF VertexGroups, a, n
<1>5. GroupBits * VertexGroups > n
  BY <1>1, <1>2, <1>3, <1>4
<1>6. VertexGroups # 0
  BY <1>1, <1>2, <1>5
<1>7. n + 1 <= GroupBits * VertexGroups
  BY <1>1, <1>2, <1>3, <1>4, <1>5
<1> QED
  BY <1>1, <1>3, <1>4, <1>6, <1>7 DEF n

\* The difference of two vertices fits into the groups that the bound counts: one bit more than a
\* vertex has, for the sign.
LEMMA VertexTokenSize ==
  ASSUME NEW i \in Corner, NEW last \in Corner
  PROVE  TokenSize(IndexToken(i, last)) <= VertexGroups
<1> DEFINE v == ZigZag(Minus(i, last))
           n == VertexBits(VertexCount)
           g == GroupBits * VertexGroups
<1>1. /\ i \in Index /\ last \in Index /\ i < VertexCount /\ last < VertexCount
      /\ VertexCount \in Nat /\ Modulus \in Nat
  BY InputsAssumption, TopType DEF Corner, Index, Fill
<1>2. v \in Index
  BY <1>1, ModulusType, DifferenceInverse, ZigZagInverse
<1>3. v < 2 * VertexCount
  <2>1. Modulus = 2 * (Modulus \div 2) /\ Modulus \div 2 \in Nat
    BY ModulusType, HalfModulus
  <2>2. CASE i >= last
    BY <1>1, <2>1, <2>2 DEF ZigZag, Minus, Index
  <2>3. CASE ~(i >= last)
    BY <1>1, <2>1, <2>3 DEF ZigZag, Minus, Index
  <2> QED
    BY <2>2, <2>3
<1>4. IndexToken(i, last) = <<"index", v>>
  BY DEF IndexToken
<1> HIDE DEF v
<1>5. v \in Nat /\ v < Modulus
  BY <1>1, <1>2 DEF Index
<1>6. n \in Nat \ {0} /\ VertexGroups \in Nat \ {0} /\ n + 1 <= g
  BY VertexGroupsType
<1>7. VertexCount <= 2^n \/ n >= Width
  BY <1>1, SizesAssumption, VertexBitsEnough
<1> HIDE DEF n
<1>8. 2^(n + 1) = 2 * 2^n /\ 2^n \in Nat
  BY <1>6, PowerDouble, PowerType
<1>9. v < 2^(n + 1)
  <2>1. CASE VertexCount <= 2^n
    BY <1>1, <1>3, <1>5, <1>8, <2>1
  <2>2. CASE n >= Width
    <3>1. 2^Width <= 2^n
      BY <1>6, <2>2, SizesAssumption, PowerMonotone
    <3>2. Modulus = 2^Width
      BY DEF Modulus
    <3> QED
      BY <1>1, <1>5, <1>8, <3>1, <3>2
  <2> QED
    BY <1>7, <2>1, <2>2
<1>10. g \in Nat
  BY <1>6, SizesAssumption
<1>11. 2^(n + 1) <= 2^g /\ 2^g \in Nat /\ 2^(n + 1) \in Nat
  <2>1. n + 1 \in Nat
    BY <1>6
  <2> HIDE DEF g
  <2> QED
    BY <1>6, <1>10, <2>1, PowerMonotone, PowerType
<1>12. v < 2^(GroupBits * VertexGroups)
  BY <1>5, <1>9, <1>11
<1>13. IndexSize(v) <= VertexGroups
  <2>1. GroupBits \in Nat /\ MaxGroups \in Nat \ {0}
    BY SizesAssumption
  <2> QED
    BY <1>5, <1>6, <1>12, <2>1, IndexSizeLimit
<1>14. TokenSize(<<"index", v>>) = IndexSize(v)
  BY DEF TokenSize
<1> QED
  BY <1>4, <1>13, <1>14

\* What the bound counts for the tokens of a triangle: a codeaux byte and three explicit indices.
TriangleMost == 1 + (VertexGroups + VertexGroups + VertexGroups)

\* A triangle takes no more, and leaves a vertex as the last index.
LEMMA TriangleSize ==
  ASSUME NEW st \in CodecState, st.last \in Corner, NEW t \in Inputs, NEW version \in Versions,
         NEW coded, Coding(st, t, version, coded)
  PROVE  TokensSize(coded.tokens) <= TriangleMost /\ coded.st.last \in Corner
<1> DEFINE s       == coded.tokens
           size(i) == IF i <= Len(s) THEN TokenSize(s[i]) ELSE 0
<1>1. VertexGroups \in Nat \ {0}
  BY VertexGroupsType
<1>2. TokensSize(s) = size(1) + size(2) + size(3) + size(4)
  BY DEF TokensSize
<1>3. \A token : TokenSize(token) \in Nat
  <2>1. \A v : IndexSize(v) \in Nat
    BY IndexSizeType, SizesAssumption
  <2> QED
    BY <2>1 DEF TokenSize
<1>4. \A k \in 0..2 : \A j \in 1..3 : RotateTo(t, k)[j] \in Corner
  <2>1. /\ t = <<t[1], t[2], t[3]>>
        /\ t[1] \in Corner /\ t[2] \in Corner /\ t[3] \in Corner
    BY InputsAssumption DEF Corner
  <2> SUFFICES ASSUME NEW k \in 0..2 PROVE \A j \in 1..3 : RotateTo(t, k)[j] \in Corner
    OBVIOUS
  <2>2. k = 0 \/ k = 1 \/ k = 2
    OBVIOUS
  <2>3. RotateTo(t, k) \in {<<t[1], t[2], t[3]>>, <<t[2], t[3], t[1]>>, <<t[3], t[1], t[2]>>}
    BY <2>1, <2>2 DEF RotateTo
  <2> QED
    BY <2>1, <2>3
<1>5. CASE EdgeCoding(st, t, version, coded)
  <2>1. PICK h \in EdgeHits(st, t) : coded = EncodeEdge(st, t, version, h)
    BY <1>5 DEF EdgeCoding
  <2> DEFINE c == RotateTo(t, h[2])[3]
  <2>2. c \in Corner
    BY <1>4 DEF EdgeHits
  <2>3. coded.st.last \in {c, st.last} /\ (s = <<>> \/ s = <<IndexToken(c, st.last)>>)
    BY <2>1 DEF EncodeEdge
  <2>4. TokensSize(s) <= VertexGroups
    <3> DEFINE x == IndexToken(c, st.last)
    <3>1. TokenSize(x) <= VertexGroups /\ TokenSize(x) \in Nat
      BY <1>3, <2>2, VertexTokenSize
    <3>2. s = <<>> \/ s = <<x>>
      BY <2>3
    <3> HIDE DEF x, c, s
    <3>3. Len(<<>>) = 0 /\ Len(<<x>>) = 1 /\ <<x>>[1] = x
      OBVIOUS
    <3>4. CASE s = <<>>
      BY <1>1, <1>2, <3>3, <3>4
    <3>5. CASE s = <<x>>
      <4>1. Len(s) = 1 /\ s[1] = x
        BY <3>3, <3>5
      <4>2. size(1) = TokenSize(x) /\ size(2) = 0 /\ size(3) = 0 /\ size(4) = 0
        BY <4>1
      <4> HIDE DEF size
      <4> QED
        BY <1>2, <3>1, <4>2
    <3> QED
      BY <3>2, <3>4, <3>5
  <2>5. TokensSize(s) <= TriangleMost
    BY <1>1, <2>4, TokensSizeType DEF TriangleMost
  <2> QED
    BY <2>2, <2>3, <2>5
<1>6. CASE coded = EncodeFree(st, t, version)
  <2>1. PICK k \in 0..2, fea, feb, fec \in Ages :
          FreeCoding(st, version, RotateTo(t, k), fea, feb, fec, coded)
    BY <1>6, EncodeFreeMeaning
  <2> DEFINE r     == RotateTo(t, k)
             last1 == IF fea = Top THEN r[1] ELSE st.last
             last2 == IF feb = Top THEN r[2] ELSE last1
  <2>2. r[1] \in Corner /\ r[2] \in Corner /\ r[3] \in Corner
    BY <1>4
  <2>3. last1 \in Corner /\ last2 \in Corner
    BY <2>2
  <2>4. coded.st.last \in Corner
    <3>1. coded.st.last = IF fec = Top THEN r[3] ELSE last2
      BY <2>1 DEF FreeCoding
    <3> QED
      BY <2>2, <2>3, <3>1
  <2>5. CASE UsesTable(st, version, r, fea, feb, fec)
    <3>1. s = <<>>
      BY <2>1, <2>5, TableTokens
    <3>2. Len(s) = 0
      BY <3>1
    <3>3. TokensSize(s) = 0
      BY <3>2 DEF TokensSize
    <3> QED
      BY <1>1, <2>4, <3>3 DEF TriangleMost
  <2>6. CASE ~UsesTable(st, version, r, fea, feb, fec)
    <3> DEFINE A == Explicit(fea)
               B == Explicit(feb)
               C == Explicit(fec)
    <3>1. /\ Len(s) = 1 + A + B + C
          /\ s[1] = <<"aux", feb, fec>>
          /\ fea = Top => s[2] = IndexToken(r[1], st.last)
          /\ feb = Top => s[2 + A] = IndexToken(r[2], last1)
          /\ fec = Top => s[2 + A + B] = IndexToken(r[3], last2)
      BY <2>1, <2>6, AuxTokens
    <3>2. TokenSize(s[1]) = 1
      BY <3>1 DEF TokenSize
    <3>3. A \in 0..1 /\ B \in 0..1 /\ C \in 0..1
      BY DEF Explicit
    <3>4. (A = 1 <=> fea = Top) /\ (B = 1 <=> feb = Top) /\ (C = 1 <=> fec = Top)
      BY DEF Explicit
    <3>5. /\ A = 1 => TokenSize(s[2]) <= VertexGroups
          /\ B = 1 => TokenSize(s[2 + A]) <= VertexGroups
          /\ C = 1 => TokenSize(s[2 + A + B]) <= VertexGroups
      <4> HIDE DEF r, last1, last2, s, A, B, C
      <4>1. A = 1 => TokenSize(s[2]) <= VertexGroups
        BY <2>2, <3>1, <3>4, VertexTokenSize
      <4>2. B = 1 => TokenSize(s[2 + A]) <= VertexGroups
        BY <2>2, <2>3, <3>1, <3>4, VertexTokenSize
      <4>3. C = 1 => TokenSize(s[2 + A + B]) <= VertexGroups
        BY <2>2, <2>3, <3>1, <3>4, VertexTokenSize
      <4> QED
        BY <4>1, <4>2, <4>3
    <3> HIDE DEF A, B, C, s, r, last1, last2
    <3>6. \A j \in 2..4 : size(j) \in Nat /\ size(j) <= VertexGroups
      <4> SUFFICES ASSUME NEW j \in 2..4 PROVE size(j) \in Nat /\ size(j) <= VertexGroups
        OBVIOUS
      <4>1. CASE j <= Len(s)
        <5>1. TokenSize(s[j]) <= VertexGroups
          <6>1. \/ A = 1 /\ j = 2
                \/ B = 1 /\ j = 2 + A
                \/ C = 1 /\ j = 2 + A + B
            BY <3>1, <3>3, <4>1
          <6> QED
            BY <3>5, <6>1
        <5> QED
          BY <1>3, <4>1, <5>1
      <4>2. CASE ~(j <= Len(s))
        BY <1>1, <4>2
      <4> QED
        BY <4>1, <4>2
    <3>7. size(1) = 1
      BY <3>1, <3>2, <3>3
    <3> HIDE DEF size
    <3>8. TokensSize(s) <= TriangleMost
      BY <1>1, <1>2, <3>6, <3>7 DEF TriangleMost
    <3> QED
      BY <2>4, <3>8 DEF s
  <2> QED
    BY <2>5, <2>6
<1> QED
  BY <1>5, <1>6 DEF Coding

\* Inductive together with IInv: the bytes written are those of the triangles so far, each of them
\* no longer than the bound counts, and the last index is one of a vertex.
BoundInv ==
  /\ Len(tris) <= params.count
  /\ enc.last \in Corner
  /\ dataSize <= Len(tris) * TriangleMost
  /\ BoundSuffices

LEMMA InitBound == Init => BoundInv
<1> SUFFICES ASSUME Init PROVE BoundInv
  OBVIOUS
<1>1. /\ dataSize = 0 /\ tris = <<>> /\ phase = "idle" /\ enc = FreshState
      /\ params.count \in Nat
  BY ConstantsType DEF Init
<1>2. 0 \in Corner
  BY InputsAssumption, TopType DEF Corner, Index
<1>3. enc.last \in Corner
  BY <1>1, <1>2 DEF FreshState
<1>4. TriangleMost \in Nat
  BY VertexGroupsType DEF TriangleMost
<1>5. 0 * TriangleMost = 0 /\ Len(tris) = 0
  BY <1>1, <1>4
<1> QED
  BY <1>1, <1>3, <1>5 DEF BoundInv, BoundSuffices

LEMMA BoundStep == IInv /\ BoundInv /\ [Next]_vars => BoundInv'
<1> SUFFICES ASSUME IInv, BoundInv, [Next]_vars
             PROVE  BoundInv'
  OBVIOUS
<1>1. TypeOK /\ EncoderInv
  BY DEF IInv
<1>2. /\ params.count \in Nat /\ params.bufferSize \in Int /\ TailSize \in Nat
      /\ dataSize \in Nat /\ Len(tris) \in Nat /\ tris \in Seq(Inputs)
      /\ enc \in CodecState /\ params.version \in Versions
  BY <1>1, ConstantsType DEF TypeOK
<1>3. /\ Len(tris) <= params.count /\ enc.last \in Corner
      /\ dataSize <= Len(tris) * TriangleMost /\ BoundSuffices
  BY DEF BoundInv
<1>4. VertexGroups \in Nat /\ TriangleMost \in Nat /\ TriangleMost' = TriangleMost /\ Corner' = Corner
  BY VertexGroupsType DEF TriangleMost, VertexGroups, Corner
<1>5. PICK n \in Nat, N \in Nat, m \in Nat :
        n = Len(tris) /\ N = params.count /\ m = TriangleMost
  BY <1>2, <1>4
<1>6. PICK p \in Nat, P \in Nat : p = n * m /\ P = N * m /\ p <= P
  <2>1. n * m \in Nat /\ N * m \in Nat
    OBVIOUS
  <2>2. n * m <= N * m
    BY <1>3, <1>5
  <2> QED
    BY <2>1, <2>2
\* 2 + 3 * VertexGroups for each triangle: its code and what TriangleMost counts.
<1>7. PICK b \in Nat : b = Bound(params.count) /\ b = 1 + N + P + TailSize
  <2>1. 2 + 3 * VertexGroups = 1 + m
    BY <1>4, <1>5 DEF TriangleMost
  <2>2. N * (1 + m) = N + N * m
    OBVIOUS
  <2>3. Bound(params.count) = 1 + N * (1 + m) + TailSize
    BY <1>5, <2>1 DEF Bound
  <2> QED
    BY <1>2, <1>6, <2>2, <2>3
<1>8. ASSUME UNCHANGED <<params, tris, enc, dataSize>>,
             phase' = "refused" => phase = "refused" \/ params.bufferSize < Bound(params.count)
      PROVE  BoundInv'
  BY <1>3, <1>4, <1>8 DEF BoundInv, BoundSuffices, Bound, VertexGroups
<1>9. CASE EncodeStart
  <2>1. phase' = "refused" => params.bufferSize < 1 + params.count + TailSize
    BY <1>9 DEF EncodeStart
  <2>2. 1 + N + TailSize <= b
    BY <1>2, <1>6, <1>7
  <2>3. phase' = "refused" => params.bufferSize < Bound(params.count)
    <3>1. ASSUME params.bufferSize < 1 + N + TailSize PROVE params.bufferSize < b
      BY <1>2, <2>2, <3>1
    <3> QED
      BY <1>5, <1>7, <2>1, <3>1
  <2> QED
    BY <1>8, <1>9, <2>3 DEF EncodeStart, encoderVars
<1>10. ASSUME NEW t \in Inputs, NEW coded, Coding(enc, t, params.version, coded),
              phase = "encode", Len(tris) < params.count, Write(t, coded)
       PROVE  BoundInv'
  <2>1. TokensSize(coded.tokens) <= TriangleMost /\ coded.st.last \in Corner
    BY <1>2, <1>3, <1>10, TriangleSize
  <2>2. TokensSize(coded.tokens) \in Nat
    BY TokensSizeType
  <2>3. /\ params' = params /\ phase' = "encode" /\ enc' = coded.st
        /\ dataSize' = dataSize + TokensSize(coded.tokens) /\ tris' = Append(tris, t)
    BY <1>10 DEF Write
  <2>4. Len(tris') = n + 1
    BY <1>2, <1>5, <1>10, <2>3, Appended
  <2>5. (n + 1) * m = p + m
    BY <1>6
  <2>6. dataSize' <= Len(tris') * TriangleMost'
    BY <1>2, <1>3, <1>4, <1>5, <1>6, <2>1, <2>2, <2>3, <2>4, <2>5
  <2>7. Len(tris') <= params'.count
    BY <1>2, <1>5, <1>10, <2>3, <2>4
  <2> QED
    BY <1>4, <2>1, <2>3, <2>6, <2>7 DEF BoundInv, BoundSuffices
<1>11. ASSUME NEW t \in Inputs, EncodeCachedEdge(t)
       PROVE  BoundInv'
  <2>1. PICK h \in EdgeHits(enc, t) :
          EdgeHit(enc, t, h) /\ Write(t, EncodeEdge(enc, t, params.version, h))
    BY <1>11 DEF EncodeCachedEdge
  <2>2. Coding(enc, t, params.version, EncodeEdge(enc, t, params.version, h))
    BY <2>1 DEF Coding, EdgeCoding, EdgeHit
  <2> QED
    BY <1>10, <1>11, <2>1, <2>2 DEF EncodeCachedEdge
<1>12. ASSUME NEW t \in Inputs, EncodeOther(t)
       PROVE  BoundInv'
  BY <1>10, <1>12 DEF EncodeOther, Coding
<1>13. CASE EncodeRefuse
  <2>1. ~ (1 + params.count + dataSize <= params.bufferSize - TailSize)
    BY <1>13 DEF EncodeRefuse, HasRoom
  <2>2. dataSize <= P
    BY <1>2, <1>3, <1>5, <1>6
  <2>3. params.bufferSize < b
    <3>1. PICK x \in Int, y \in Nat, T \in Nat : x = params.bufferSize /\ y = dataSize /\ T = TailSize
      BY <1>2
    <3>2. ~ (1 + N + y <= x - T) /\ y <= P /\ b = 1 + N + P + T
      BY <1>5, <1>7, <2>1, <2>2, <3>1
    <3>3. x < b
      BY <3>2
    <3> QED
      BY <3>1, <3>3
  <2>4. params.bufferSize < Bound(params.count)
    BY <1>7, <2>3
  <2> QED
    BY <1>8, <1>13, <2>4 DEF EncodeRefuse, encoderVars
<1>14. CASE EncodeFinish \/ DecodeStart \/ DecodeTruncated \/ DecodeFinish
  <2>1. UNCHANGED <<params, encoderVars>> /\ phase' # "refused"
    BY <1>14 DEF EncodeFinish, DecodeStart, DecodeTruncated, DecodeFinish
  <2> QED
    BY <1>8, <2>1 DEF encoderVars
<1>15. ASSUME NEW x, Decoding, Deliver(x)
       PROVE  BoundInv'
  <2>1. UNCHANGED <<phase, params, encoderVars>>
    BY <1>15 DEF Deliver
  <2> QED
    BY <1>8, <2>1 DEF encoderVars
<1>16. CASE DecodeCachedEdge \/ DecodeCachedEdgeIndex \/ DecodeTablePair \/ DecodeAuxPair
  BY <1>15, <1>16 DEF DecodeCachedEdge, DecodeCachedEdgeIndex, DecodeTablePair, DecodeAuxPair
<1>17. CASE Returned \/ UNCHANGED vars
  <2>1. UNCHANGED <<phase, params, tris, enc, dataSize>>
    BY <1>17 DEF Returned, vars
  <2> QED
    BY <1>8, <2>1
<1> QED
  BY <1>9, <1>11, <1>12, <1>13, <1>14, <1>16, <1>17 DEF Next

\* A buffer of meshopt_encodeIndexBufferBound bytes is never refused, whatever the triangles are.
THEOREM BoundIsEnough == Spec => []BoundSuffices
<1>1. Spec => []BoundInv
  BY InitBound, BoundStep, Invariance, PTL DEF Spec
<1>2. BoundInv => BoundSuffices
  BY DEF BoundInv
<1> QED
  BY <1>1, <1>2, PTL
=============================================================================
