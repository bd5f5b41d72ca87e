------------------------- MODULE IndexSequenceProofs -------------------------
(***************************************************************************)
(* Proofs about the index sequence codec, for every index width, group     *)
(* size, threshold, sequence, buffer and cut.                              *)
(***************************************************************************)
EXTENDS IndexSequence, SetLemmas

-----------------------------------------------------------------------------
(* Indices and variable length integers *)

LEMMA IndexSizeType ==
  ASSUME MaxGroups \in Nat \ {0}, NEW v
  PROVE  IndexSize(v) \in 1..MaxGroups
  BY GroupsCounted DEF IndexSize

\* A value that fits into n groups has at most n bytes.
LEMMA IndexSizeLimit ==
  ASSUME MaxGroups \in Nat \ {0}, GroupBits \in Nat, NEW v \in Nat, NEW n \in Nat \ {0},
         v < 2^(GroupBits * n)
  PROVE  IndexSize(v) <= n
  BY GroupsEnough DEF IndexSize

\* The bits of a mesh are enough for its vertices, unless they are all that an index has.
LEMMA VertexBitsEnough ==
  ASSUME Width \in Nat, NEW vertexCount \in Nat
  PROVE  /\ VertexBits(vertexCount) \in Nat \ {0}
         /\ vertexCount <= 2^VertexBits(vertexCount) \/ VertexBits(vertexCount) >= Width
<1>1. VertexBits(vertexCount) = 1 + Cardinality({b \in 1..Width - 1 : vertexCount > 2^b})
  BY DEF VertexBits
<1> QED
  BY <1>1, BitsEnough

LEMMA HalfModulus ==
  ASSUME Modulus \in Nat, Modulus % 2 = 0
  PROVE  Modulus \div 2 \in Nat /\ Modulus = 2 * (Modulus \div 2)
  OBVIOUS

\* UnZigZag gives back what ZigZag was given.
LEMMA ZigZagInverse ==
  ASSUME Modulus \in Nat, Modulus % 2 = 0, NEW d \in Index
  PROVE  ZigZag(d) \in Index /\ UnZigZag(ZigZag(d)) = d
  BY ZigZagUndone DEF ZigZag, UnZigZag, Index

LEMMA UnZigZagType ==
  ASSUME Modulus \in Nat, Modulus % 2 = 0, NEW v \in Index
  PROVE  UnZigZag(v) \in Index
  BY UnZigZagRange DEF UnZigZag, Index

\* Adding the difference to a baseline gives back the index.
LEMMA DifferenceInverse ==
  ASSUME Modulus \in Nat, NEW i \in Index, NEW base \in Index
  PROVE  Minus(i, base) \in Index /\ Plus(base, Minus(i, base)) = i
  BY DEF Minus, Plus, Index

LEMMA PlusType ==
  ASSUME Modulus \in Nat, NEW i \in Index, NEW d \in Index
  PROVE  Plus(i, d) \in Index
  BY DEF Plus, Index

\* A shorter index is not larger.
LEMMA NarrowType ==
  ASSUME Modulus \in Nat, ShortModulus \in 1..Modulus, NEW i \in Index, NEW indexSize
  PROVE  Narrow(i, indexSize) \in Index /\ Narrow(i, indexSize) <= i
<1>1. i \in Nat /\ ShortModulus \in Nat \ {0}
  BY DEF Index
<1>2. i % ShortModulus \in Nat /\ i % ShortModulus <= i
  BY <1>1, ShorterRange
<1> QED
  BY <1>1, <1>2 DEF Narrow, Index

-----------------------------------------------------------------------------
(* The inductive invariants. *)

\* The bytes of the first k integers.
Size(k) == SumFunctionOnSet([i \in 1..Len(data) |-> IndexSize(data[i])], 1..k)

\* Both sides have counted the bytes of whole integers, and the decoder is not ahead.
BaseInv ==
  /\ TypeOK
  /\ Len(data) = Len(sequence) /\ Len(sequence) <= params.count /\ Len(out) <= Len(sequence)
  /\ phase = "idle" => Len(sequence) = 0
  /\ phase \in {"idle", "encode", "encoded"} => Len(out) = 0
  /\ \A b \in 0..1 : last[b] \in Inputs \cup {0}
  /\ dataSize = Size(Len(data)) /\ takenSize = Size(Len(out))
  /\ phase \in {"encoded", "decode"} =>
       Len(sequence) = params.count /\ result = 1 + dataSize + TailSize
  /\ phase = "failed" => params.cut > 0
  /\ phase = "done" => params.cut = 0 /\ Len(out) = Len(sequence)
  /\ NoOverrun

\* A baseline after k indices: the last of them that was encoded against it.
Against(d, s, k, b)    == [j \in {i \in 1..k : d[i] % 2 = b} |-> s[j]]
Newest(f)              == IF DOMAIN f = {} THEN 0
                          ELSE f[CHOOSE j \in DOMAIN f : \A i \in DOMAIN f : i <= j]
BaselineAt(d, s, k, b) == Newest(Against(d, s, k, b))

\* The integer that stands for an index as seen from a baseline.
Code(index, l, b) == 2 * ZigZag(Minus(index, l)) + b

\* Every integer is the difference to the baseline that its low bit names; both sides have the
\* baselines of the indices they have passed.
MatchInv ==
  /\ \A b \in 0..1 : /\ last[b] = BaselineAt(data, sequence, Len(sequence), b)
                     /\ decLast[b] = BaselineAt(data, sequence, Len(out), b)
  /\ \A k \in 1..Len(sequence) :
       data[k] = Code(sequence[k], BaselineAt(data, sequence, k - 1, data[k] % 2), data[k] % 2)
  /\ \A k \in 1..Len(out) : out[k] = Narrow(sequence[k], params.indexSize)

\* What is written does not exceed the share of the bound.
BoundInv ==
  /\ dataSize <= Len(data) * SequenceGroups
  /\ BoundSuffices

-----------------------------------------------------------------------------
(* Types. *)

LEMMA Constants ==
  /\ Width \in Nat /\ Modulus \in Nat /\ Modulus % 2 = 0 /\ Modulus > 0
  /\ ShortModulus \in 1..Modulus /\ 0 \in Index
  /\ GroupBits \in Nat \ {0} /\ MaxGroups \in Nat \ {0}
  /\ MaxIndices \in Nat /\ TailSize \in Nat /\ TailSize >= MaxGroups - 1
  /\ VertexCount \in Nat \ {0} /\ Inputs \subseteq Index
  BY SizesAssumption, InputsAssumption DEF Index

LEMMA CallType ==
  ASSUME NEW c \in Calls
  PROVE  c.slack \in Int /\ c.indexSize \in {2, 4} /\ c.cut \in Nat
<1>1. \A x \in [slack : Int, indexSize : {2, 4}, cut : Nat] :
        x.slack \in Int /\ x.indexSize \in {2, 4} /\ x.cut \in Nat
  OBVIOUS
<1> QED
  BY <1>1, SizesAssumption

\* The groups of the bound hold the bits of the vertices, the sign and the baseline.
LEMMA GroupsType ==
  /\ VertexBits(VertexCount) \in Nat \ {0}
  /\ SequenceGroups \in Nat \ {0}
  /\ VertexBits(VertexCount) + 2 <= GroupBits * SequenceGroups
<1> DEFINE n == VertexBits(VertexCount)
           a == n + 1 + 1 + GroupBits - 1
<1>1. n \in Nat \ {0}
  BY Constants, VertexBitsEnough
<1> HIDE DEF n
<1>2. a \in Nat /\ GroupBits \in Nat /\ GroupBits > 0 /\ a = n + 1 + GroupBits
  BY <1>1, Constants
<1> HIDE DEF a
<1>3. a \div GroupBits \in Nat /\ GroupBits * (a \div GroupBits) > a - GroupBits
  BY <1>2
<1>4. SequenceGroups = a \div GroupBits
  BY DEF SequenceGroups, a, n
<1>5. GroupBits * SequenceGroups > n + 1
  BY <1>1, <1>2, <1>3, <1>4
<1>6. SequenceGroups # 0
  BY <1>1, <1>2, <1>5
<1>7. n + 2 <= GroupBits * SequenceGroups
  BY <1>1, <1>2, <1>3, <1>4, <1>5
<1> QED
  BY <1>1, <1>3, <1>4, <1>6, <1>7 DEF n

LEMMA BoundType ==
  ASSUME NEW n \in Nat
  PROVE  Bound(n) \in Nat /\ MinSize(n) \in Nat /\ MinSize(n) <= Bound(n)
<1>1. n * SequenceGroups \in Nat /\ n <= n * SequenceGroups
  BY GroupsType
<1> QED
  BY <1>1, Constants DEF Bound, MinSize

\* A baseline and an integer that Encode writes.
LEMMA CodeType ==
  ASSUME TypeOK, NEW index \in Inputs
  PROVE  /\ Baseline(index) \in 0..1
         /\ \A base \in 0..1 : EncodeIndex(index, base) \in Index
<1>1. Baseline(index) \in 0..1
  BY DEF Baseline, TypeOK
<1>2. ASSUME NEW base \in 0..1 PROVE EncodeIndex(index, base) \in Index
  <2>1. index \in Index /\ last[base] \in Index
    BY Constants DEF TypeOK
  <2>2. Minus(index, last[base]) \in Index
    BY <2>1, Constants, DifferenceInverse
  <2>3. ZigZag(Minus(index, last[base])) \in Nat
    BY <2>2, Constants, ZigZagInverse DEF Index
  <2> QED
    BY <2>3, Constants DEF EncodeIndex, Index
<1> QED
  BY <1>1, <1>2

LEMMA SizeOne == \A v : IndexSize(v) \in 1..MaxGroups /\ IndexSize(v) \in Nat \ {0}
  BY IndexSizeType, Constants

\* The prefix sums of the sizes.
LEMMA SizeType ==
  ASSUME TypeOK
  PROVE  /\ Len(data) \in Nat /\ Size(0) = 0
         /\ \A k \in 0..Len(data) : Size(k) \in Nat /\ k <= Size(k)
         /\ \A k \in 0..Len(data) : k < Len(data) =>
              Size(k) < Size(Len(data)) /\ Size(k + 1) = Size(k) + IndexSize(data[k + 1])
<1> DEFINE f == [i \in 1..Len(data) |-> IndexSize(data[i])]
<1>1. Len(data) \in Nat
  BY DEF TypeOK
<1>2. \A i \in 1..Len(data) : f[i] \in Nat \ {0} /\ f[i] = IndexSize(data[i])
  BY SizeOne
<1>3. \A k : Size(k) = SumFunctionOnSet(f, 1..k)
  BY DEF Size
<1> HIDE DEF f
<1>4. Size(0) = 0
  BY <1>1, <1>2, <1>3, PrefixStep
<1>5. \A k \in 0..Len(data) : Size(k) \in Nat
  BY <1>1, <1>2, <1>3, PrefixStep
<1>6. \A k \in 0..Len(data) : k < Len(data) => Size(k + 1) = Size(k) + f[k + 1]
  BY <1>1, <1>2, <1>3, PrefixStep
<1>7. \A k \in 0..Len(data) : k <= Size(k)
  BY <1>1, <1>2, <1>3, PrefixGrows
<1>8. \A k \in 0..Len(data) : k < Len(data) => Size(k) < Size(Len(data))
  BY <1>1, <1>2, <1>3, PrefixGrows
<1>9. \A k \in 0..Len(data) : k < Len(data) => f[k + 1] = IndexSize(data[k + 1])
  BY <1>1, <1>2
<1> QED
  BY <1>1, <1>4, <1>5, <1>6, <1>7, <1>8, <1>9

\* Appending an integer keeps the sizes of those before it.
LEMMA SizeAppend ==
  ASSUME TypeOK, NEW v \in Index, data' = Append(data, v), NEW n \in Nat, n = Len(data)
  PROVE  /\ Len(data') = n + 1 /\ data'[n + 1] = v /\ \A i \in 1..n : data'[i] = data[i]
         /\ \A k \in 0..n : Size(k)' = Size(k)
         /\ Size(n + 1)' = Size(n) + IndexSize(v)
<1> DEFINE f == [i \in 1..n |-> IndexSize(data[i])]
           g == [i \in 1..n + 1 |-> IndexSize(data'[i])]
<1>1. /\ Len(data') = n + 1 /\ data'[n + 1] = v
      /\ \A i \in 1..n : data'[i] = data[i]
  BY Enqueue DEF TypeOK
<1>2. \A k : Size(k) = SumFunctionOnSet(f, 1..k) /\ Size(k)' = SumFunctionOnSet(g, 1..k)
  BY <1>1 DEF Size
<1>3. /\ \A i \in 1..n + 1 : g[i] \in Nat \ {0}
      /\ \A i \in 1..n : f[i] = g[i] /\ f[i] \in Int
      /\ g[n + 1] = IndexSize(v)
  BY <1>1, SizeOne
<1> HIDE DEF f, g
<1>4. ASSUME NEW k \in 0..n PROVE Size(k)' = Size(k)
  <2>1. IsFiniteSet(1..k) /\ 1..k \subseteq 1..n
    BY Indices
  <2>2. SumFunctionOnSet(f, 1..k) = SumFunctionOnSet(g, 1..k)
    BY <1>3, <2>1, SumSame
  <2> QED
    BY <1>2, <2>2
<1>5. SumFunctionOnSet(g, 1..n + 1) = SumFunctionOnSet(g, 1..n) + g[n + 1]
  <2>1. n + 1 \in Nat /\ n \in 0..n + 1 /\ n < n + 1
    OBVIOUS
  <2> QED
    BY <1>3, <2>1, PrefixStep
<1>6. n \in 0..n
  OBVIOUS
<1>7. Size(n + 1)' = Size(n)' + IndexSize(v)
  BY <1>2, <1>3, <1>5
<1> QED
  BY <1>1, <1>4, <1>6, <1>7

\* The decoder's integer is the next one.
LEMMA NextType ==
  ASSUME TypeOK, Len(data) = Len(sequence), Len(out) < Len(data)
  PROVE  /\ Len(out) \in Nat /\ Len(out) + 1 \in 1..Len(data)
         /\ NextInteger = data[Len(out) + 1] /\ NextInteger \in Index
         /\ NextInteger % 2 \in 0..1 /\ NextInteger \div 2 \in Index
<1>1. Len(out) \in Nat /\ Len(data) \in Nat /\ Len(out) + 1 \in 1..Len(data)
  BY DEF TypeOK
<1>2. NextInteger = data[Len(out) + 1] /\ NextInteger \in Index
  BY <1>1 DEF NextInteger, TypeOK
<1> QED
  BY <1>1, <1>2, Constants DEF Index

-----------------------------------------------------------------------------
(* Sizes, verdicts and bounds. *)

LEMMA InitBase == Init => BaseInv
<1> SUFFICES ASSUME Init PROVE BaseInv
  OBVIOUS
<1>1. PICK n \in 0..MaxIndices, c \in Calls :
        params = [count |-> n, bufferSize |-> Bound(n) - c.slack, indexSize |-> c.indexSize,
                  cut |-> c.cut]
  BY DEF Init
<1>2. n \in Nat /\ Bound(n) \in Nat /\ c.slack \in Int /\ c.indexSize \in {2, 4} /\ c.cut \in Nat
  BY <1>1, BoundType, CallType, Constants
<1>3. params \in [count : 0..MaxIndices, bufferSize : Int, indexSize : {2, 4}, cut : Nat]
  BY <1>1, <1>2
<1>4. /\ sequence = <<>> /\ data = <<>> /\ out = <<>> /\ dataSize = 0 /\ takenSize = 0 /\ result = 0
      /\ last = NoBaselines /\ decLast = NoBaselines /\ current = 0 /\ phase = "idle"
  BY DEF Init
<1>5. TypeOK
  BY <1>3, <1>4, Constants DEF TypeOK, NoBaselines
<1>6. Size(0) = 0 /\ Len(sequence) = 0 /\ Len(data) = 0 /\ Len(out) = 0
  BY <1>4, <1>5, SizeType
<1>7. \A b \in 0..1 : last[b] = 0
  BY <1>4 DEF NoBaselines
<1>8. params.count \in Nat
  BY <1>3, Constants
<1> QED
  BY <1>4, <1>5, <1>6, <1>7, <1>8 DEF BaseInv, NoOverrun

LEMMA EncodeBase ==
  ASSUME BaseInv, NEW index \in Inputs, Encode(index)
  PROVE  BaseInv'
<1> DEFINE base == Baseline(index)
           v    == EncodeIndex(index, base)
<1>1. /\ phase = "encode" /\ phase' = phase /\ Len(sequence) < params.count /\ HasRoom
      /\ current' = base /\ last' = [last EXCEPT ![base] = index]
      /\ data' = Append(data, v) /\ dataSize' = dataSize + IndexSize(v)
      /\ sequence' = Append(sequence, index)
      /\ UNCHANGED <<params, decLast, takenSize, out, result>>
  BY DEF Encode, decoderVars
<1>2. TypeOK /\ Len(data) = Len(sequence) /\ Len(out) = 0 /\ dataSize = Size(Len(data))
      /\ takenSize = Size(Len(out)) /\ \A b \in 0..1 : last[b] \in Inputs \cup {0}
  BY <1>1 DEF BaseInv
<1>3. base \in 0..1 /\ v \in Index
  BY <1>2, CodeType
<1> HIDE DEF base, v
<1>4. PICK n \in Nat : n = Len(data)
  BY <1>2 DEF TypeOK
<1>5. /\ Len(data') = n + 1 /\ \A k \in 0..n : Size(k)' = Size(k)
      /\ Size(n + 1)' = Size(n) + IndexSize(v)
  BY <1>1, <1>2, <1>3, <1>4, SizeAppend
<1>6. sequence' \in Seq(Inputs) /\ Len(sequence') = n + 1
  BY <1>1, <1>2, <1>4, Enqueue DEF TypeOK
<1>7. IndexSize(v) \in 1..MaxGroups /\ dataSize \in Nat
  BY <1>2, SizeOne DEF TypeOK
<1>8. TypeOK'
  <2>1. data' \in Seq(Index)
    BY <1>1, <1>2, <1>3, Enqueue DEF TypeOK
  <2>2. last' \in [0..1 -> Index]
    <3>1. index \in Index
      BY Constants
    <3> QED
      BY <1>1, <1>2, <3>1 DEF TypeOK
  <2>3. dataSize' \in Nat
    BY <1>1, <1>7
  <2> QED
    BY <1>1, <1>2, <1>3, <1>6, <2>1, <2>2, <2>3 DEF TypeOK
<1>9. \A b \in 0..1 : last'[b] \in Inputs \cup {0}
  BY <1>1, <1>2, <1>3 DEF TypeOK
<1>10. dataSize' = Size(n + 1)' /\ takenSize' = Size(0)'
  BY <1>1, <1>2, <1>4, <1>5
<1>11. (dataSize = Size(Len(data)) /\ takenSize = Size(Len(out)))'
  BY <1>1, <1>2, <1>5, <1>10
<1>12. params.count \in Nat /\ params.bufferSize \in Int
  BY <1>2 DEF TypeOK
<1>13. n + 1 <= params.count
  BY <1>1, <1>2, <1>4, <1>12
<1>14. 1 + dataSize' <= params.bufferSize
  BY <1>1, <1>7, <1>12, Constants DEF HasRoom
<1>15. NoOverrun'
  BY <1>1, <1>14 DEF NoOverrun
<1> QED
  BY <1>1, <1>2, <1>5, <1>6, <1>8, <1>9, <1>11, <1>13, <1>15 DEF BaseInv

LEMMA DecodeBase ==
  ASSUME BaseInv, Decode
  PROVE  BaseInv'
<1> DEFINE v     == NextInteger
           index == Plus(decLast[v % 2], UnZigZag(v \div 2))
<1>1. /\ phase = "decode" /\ phase' = phase /\ Len(out) < params.count /\ HasData
      /\ decLast' = [decLast EXCEPT ![v % 2] = index]
      /\ out' = Append(out, Narrow(index, params.indexSize))
      /\ takenSize' = takenSize + IndexSize(v)
      /\ UNCHANGED <<params, sequence, last, current, data, dataSize, result>>
  BY DEF Decode, encoderVars
<1>2. /\ TypeOK /\ Len(data) = Len(sequence) /\ dataSize = Size(Len(data))
      /\ takenSize = Size(Len(out)) /\ Len(sequence) = params.count
      /\ result = 1 + dataSize + TailSize
  BY <1>1 DEF BaseInv
<1>3. PICK n \in Nat : n = Len(out)
  BY <1>2 DEF TypeOK
<1>4. n < Len(data) /\ Len(data) \in Nat /\ n \in 0..Len(data)
  <2>1. params.count \in Nat /\ Len(data) \in Nat
    BY <1>2 DEF TypeOK
  <2>2. n < Len(data)
    BY <1>1, <1>2, <1>3, <2>1
  <2> QED
    BY <2>1, <2>2
<1>5. /\ v = data[n + 1] /\ v \in Index /\ v % 2 \in 0..1 /\ v \div 2 \in Index
  BY <1>2, <1>3, <1>4, NextType
<1>6. index \in Index /\ Narrow(index, params.indexSize) \in Index
  <2>1. decLast[v % 2] \in Index
    BY <1>2, <1>5 DEF TypeOK
  <2>2. UnZigZag(v \div 2) \in Index
    BY <1>5, Constants, UnZigZagType
  <2>3. index \in Index
    BY <2>1, <2>2, Constants, PlusType
  <2> QED
    BY <2>3, Constants, NarrowType
<1> HIDE DEF index, v
<1>7. out' \in Seq(Index) /\ Len(out') = n + 1
  BY <1>1, <1>2, <1>3, <1>6, Enqueue DEF TypeOK
<1>8. IndexSize(v) \in 1..MaxGroups /\ takenSize \in Nat
  BY <1>2, SizeOne DEF TypeOK
<1>9. TypeOK'
  <2>1. decLast' \in [0..1 -> Index]
    BY <1>1, <1>2, <1>5, <1>6 DEF TypeOK
  <2>2. takenSize' \in Nat
    BY <1>1, <1>8, Constants
  <2> QED
    BY <1>1, <1>2, <1>7, <2>1, <2>2 DEF TypeOK
<1>10. \A k : Size(k)' = Size(k)
  BY <1>1 DEF Size
<1>11. Size(n + 1) = Size(n) + IndexSize(v)
  BY <1>2, <1>4, <1>5, SizeType
<1>12. (dataSize = Size(Len(data)) /\ takenSize = Size(Len(out)))'
  BY <1>1, <1>2, <1>3, <1>7, <1>10, <1>11
<1>13. n + 1 <= Len(sequence)
  BY <1>2, <1>4
<1>14. NoOverrun'
  <2>1. params.cut \in Nat /\ result \in Int
    BY <1>2 DEF TypeOK
  <2>2. 1 + takenSize' <= result - params.cut
    BY <1>1, <1>8, <2>1, Constants DEF HasData, StreamSize
  <2> QED
    BY <1>1, <2>2 DEF NoOverrun, StreamSize
<1> QED
  BY <1>1, <1>2, <1>7, <1>9, <1>12, <1>13, <1>14 DEF BaseInv

\* The other steps move between the phases.
LEMMA OtherBase ==
  ASSUME BaseInv,
         \/ EncodeStart \/ EncodeRefuse \/ EncodeFinish \/ DecodeStart
         \/ DecodeTruncated \/ DecodeFinish \/ UNCHANGED vars
  PROVE  BaseInv'
<1>1. UNCHANGED <<params, sequence, last, current, data, dataSize, decLast, takenSize, out>>
  BY DEF EncodeStart, EncodeRefuse, EncodeFinish, DecodeStart, DecodeTruncated, DecodeFinish, vars,
         encoderVars, decoderVars
<1>2. /\ TypeOK /\ Len(data) = Len(sequence) /\ dataSize = Size(Len(data)) /\ takenSize = Size(Len(out))
      /\ Len(sequence) <= params.count /\ Len(out) <= Len(sequence)
  BY DEF BaseInv
<1>3. /\ dataSize \in Nat /\ takenSize \in Nat /\ params.count \in Nat /\ params.bufferSize \in Int
      /\ params.cut \in Nat /\ result \in Int /\ Len(data) \in Nat /\ Len(out) \in Nat /\ TailSize \in Nat
  BY <1>2, Constants DEF TypeOK
<1>4. /\ (dataSize = Size(Len(data)))' /\ (takenSize = Size(Len(out)))'
      /\ (Len(data) = Len(sequence) /\ Len(sequence) <= params.count /\ Len(out) <= Len(sequence))'
      /\ (\A b \in 0..1 : last[b] \in Inputs \cup {0})'
  BY <1>1, <1>2 DEF Size, BaseInv
<1>5. Len(data) <= dataSize
  BY <1>2, <1>3, SizeType
<1>6. Len(out) < Len(data) => takenSize < dataSize
  BY <1>2, <1>3, SizeType
<1>7. CASE EncodeStart
  <2>1. phase = "idle" /\ result' = result /\ Len(sequence) = 0 /\ Len(out) = 0
        /\ phase' \in {"refused", "encode"}
        /\ (phase' = "encode" => ~ (params.bufferSize < MinSize(params.count)))
    BY <1>7 DEF EncodeStart, BaseInv
  <2>2. TypeOK'
    BY <1>1, <1>2, <2>1 DEF TypeOK
  <2>3. dataSize = 0
    BY <1>2, <2>1, SizeType
  <2>4. NoOverrun'
    BY <1>1, <1>3, <2>1, <2>3 DEF NoOverrun, MinSize
  <2> QED
    BY <1>1, <1>4, <2>1, <2>2, <2>4 DEF BaseInv
<1>8. CASE EncodeRefuse
  <2>1. phase' = "refused" /\ result' = result
    BY <1>8 DEF EncodeRefuse
  <2>2. TypeOK' /\ NoOverrun'
    BY <1>1, <1>2, <2>1 DEF TypeOK, NoOverrun
  <2> QED
    BY <1>1, <1>4, <2>1, <2>2 DEF BaseInv
<1>9. CASE EncodeFinish
  <2>1. phase = "encode" /\ Len(sequence) = params.count /\ Len(out) = 0
    BY <1>9 DEF EncodeFinish, BaseInv
  <2>2. CASE 1 + dataSize > params.bufferSize - TailSize
    <3>1. phase' = "refused" /\ result' = result
      BY <1>9, <2>2 DEF EncodeFinish
    <3>2. TypeOK' /\ NoOverrun'
      BY <1>1, <1>2, <3>1 DEF TypeOK, NoOverrun
    <3> QED
      BY <1>1, <1>4, <3>1, <3>2 DEF BaseInv
  <2>3. CASE ~ (1 + dataSize > params.bufferSize - TailSize)
    <3>1. phase' = "encoded" /\ result' = 1 + dataSize + TailSize
      BY <1>9, <2>3 DEF EncodeFinish
    <3>2. TypeOK'
      BY <1>1, <1>2, <1>3, <3>1 DEF TypeOK
    <3>3. NoOverrun'
      BY <1>1, <1>3, <2>3, <3>1 DEF NoOverrun
    <3> QED
      BY <1>1, <1>4, <2>1, <3>1, <3>2, <3>3 DEF BaseInv
  <2> QED
    BY <2>2, <2>3
<1>10. CASE DecodeStart
  <2>1. /\ phase = "encoded" /\ Len(sequence) = params.count /\ result = 1 + dataSize + TailSize
        /\ Len(out) = 0
    BY <1>10 DEF DecodeStart, BaseInv
  <2>2. CASE StreamSize < MinSize(params.count)
    <3>1. phase' = "failed" /\ result' = -2
      BY <1>10, <2>2 DEF DecodeStart
    <3>2. params.cut > 0
      BY <1>2, <1>3, <1>5, <2>1, <2>2, SMTT(30) DEF StreamSize, MinSize
    <3>3. TypeOK' /\ NoOverrun'
      BY <1>1, <1>2, <3>1 DEF TypeOK, NoOverrun
    <3> QED
      BY <1>1, <1>4, <3>1, <3>2, <3>3 DEF BaseInv
  <2>3. CASE ~ (StreamSize < MinSize(params.count))
    <3>1. phase' = "decode" /\ result' = result
      BY <1>10, <2>3 DEF DecodeStart
    <3>2. takenSize = 0
      BY <1>2, <2>1, SizeType
    <3>3. TypeOK'
      BY <1>1, <1>2, <3>1 DEF TypeOK
    <3>4. NoOverrun'
      BY <1>1, <1>3, <2>3, <3>1, <3>2 DEF NoOverrun, MinSize, StreamSize
    <3> QED
      BY <1>1, <1>4, <2>1, <3>1, <3>3, <3>4 DEF BaseInv
  <2> QED
    BY <2>2, <2>3
<1>11. CASE DecodeTruncated
  <2>1. /\ phase = "decode" /\ Len(out) < params.count /\ ~HasData
        /\ phase' = "failed" /\ result' = -2
    BY <1>11 DEF DecodeTruncated
  <2>2. Len(sequence) = params.count /\ result = 1 + dataSize + TailSize
    BY <2>1 DEF BaseInv
  <2>3. params.cut > 0
    <3>1. takenSize < dataSize
      BY <1>2, <1>6, <2>1, <2>2
    <3>2. ~ (1 + takenSize < 1 + dataSize + TailSize - params.cut - TailSize)
      BY <1>3, <2>1, <2>2 DEF HasData, StreamSize
    <3> QED
      BY <1>3, <3>1, <3>2
  <2>4. TypeOK' /\ NoOverrun'
    BY <1>1, <1>2, <2>1 DEF TypeOK, NoOverrun
  <2> QED
    BY <1>1, <1>4, <2>1, <2>3, <2>4 DEF BaseInv
<1>12. CASE DecodeFinish
  <2>1. phase = "decode" /\ Len(out) = params.count
    BY <1>12 DEF DecodeFinish
  <2>2. Len(sequence) = params.count /\ result = 1 + dataSize + TailSize /\ takenSize = dataSize
    BY <1>2, <2>1 DEF BaseInv
  <2>3. 1 + takenSize = StreamSize - TailSize <=> params.cut = 0
    BY <1>3, <2>2 DEF StreamSize
  <2>4. \/ phase' = "done" /\ result' = 0 /\ params.cut = 0
        \/ phase' = "failed" /\ result' = -3 /\ params.cut # 0
    BY <1>12, <2>3 DEF DecodeFinish
  <2>5. TypeOK' /\ NoOverrun'
    BY <1>1, <1>2, <2>4 DEF TypeOK, NoOverrun
  <2> QED
    <3>1. /\ phase' \in {"done", "failed"}
          /\ phase' = "failed" => params.cut > 0
          /\ phase' = "done" => params.cut = 0 /\ Len(out) = Len(sequence)
      BY <1>3, <2>1, <2>2, <2>4
    <3>2. /\ phase' = "failed" => params.cut' > 0
          /\ phase' = "done" => params.cut' = 0 /\ Len(out)' = Len(sequence)'
      BY <1>1, <3>1
    <3> QED
      BY <1>4, <2>5, <3>1, <3>2 DEF BaseInv
<1>13. CASE UNCHANGED vars
  <2>1. phase' = phase /\ result' = result
    BY <1>13 DEF vars
  <2>2. TypeOK' /\ NoOverrun'
    BY <1>1, <1>2, <2>1 DEF TypeOK, NoOverrun, StreamSize, BaseInv
  <2> QED
    BY <1>1, <1>4, <2>1, <2>2 DEF BaseInv
<1> QED
  BY <1>7, <1>8, <1>9, <1>10, <1>11, <1>12, <1>13

LEMMA NextBase == BaseInv /\ [Next]_vars => BaseInv'
<1> SUFFICES ASSUME BaseInv, [Next]_vars PROVE BaseInv'
  OBVIOUS
<1>1. CASE \E index \in Inputs : Encode(index)
  BY <1>1, EncodeBase
<1>2. CASE Decode
  BY <1>2, DecodeBase
<1>3. CASE \/ EncodeStart \/ EncodeRefuse \/ EncodeFinish \/ DecodeStart
           \/ DecodeTruncated \/ DecodeFinish \/ UNCHANGED vars
  BY <1>3, OtherBase
<1> QED
  BY <1>1, <1>2, <1>3 DEF Next, Returned

LEMMA BaseInvariance == Spec => []BaseInv
  BY InitBase, NextBase, PTL DEF Spec

-----------------------------------------------------------------------------
(* The bound. *)

\* The difference of two vertices of the mesh fits into the groups that the bound counts.
LEMMA InMeshSize ==
  ASSUME InMesh, NEW index \in Inputs, NEW l \in Inputs \cup {0}, NEW base \in 0..1
  PROVE  IndexSize((2 * ZigZag(Minus(index, l)) + base) % Modulus) <= SequenceGroups
<1> DEFINE z == ZigZag(Minus(index, l))
           v == (2 * z + base) % Modulus
           n == VertexBits(VertexCount)
           g == GroupBits * SequenceGroups
<1>1. index \in Index /\ l \in Index /\ index < VertexCount /\ l < VertexCount /\ VertexCount \in Nat
  BY Constants DEF InMesh
<1>2. Minus(index, l) \in Index
  BY <1>1, Constants, DifferenceInverse
<1>3. z \in Index
  BY <1>2, Constants, ZigZagInverse
<1>4. z <= 2 * (VertexCount - 1)
  <2>1. Modulus = 2 * (Modulus \div 2) /\ Modulus \div 2 \in Nat
    BY Constants, HalfModulus
  <2>2. CASE index >= l
    BY <1>1, <2>1, <2>2, Constants DEF ZigZag, Minus, Index
  <2>3. CASE ~ (index >= l)
    BY <1>1, <2>1, <2>3, Constants DEF ZigZag, Minus, Index
  <2> QED
    BY <2>2, <2>3
<1>5. 2 * z + base \in Nat /\ 2 * z + base < 4 * VertexCount
  BY <1>1, <1>3, <1>4 DEF Index
<1> HIDE DEF z
<1>6. v \in Nat /\ v < Modulus /\ v <= 2 * z + base
  <2>1. PICK x \in Nat : x = 2 * z + base
    BY <1>5
  <2>2. x % Modulus \in Nat /\ x % Modulus < Modulus
    BY Constants
  <2>3. x % Modulus <= x
    <3>1. CASE x < Modulus
      BY <3>1, Constants
    <3>2. CASE ~ (x < Modulus)
      BY <2>2, <3>2, Constants
    <3> QED
      BY <3>1, <3>2
  <2> QED
    BY <2>1, <2>2, <2>3
<1> HIDE DEF v
<1>7. n \in Nat \ {0} /\ SequenceGroups \in Nat \ {0} /\ n + 2 <= g
  BY GroupsType
<1>8. VertexCount <= 2^n \/ n >= Width
  BY <1>1, Constants, VertexBitsEnough
<1> HIDE DEF n
<1>9. 2^(n + 2) = 4 * 2^n /\ 2^n \in Nat /\ 2^(n + 2) \in Nat
  <2>1. 2^(n + 1) = 2 * 2^n /\ 2^((n + 1) + 1) = 2 * 2^(n + 1) /\ (n + 1) + 1 = n + 2
    BY <1>7, PowerDouble
  <2>2. 2^n \in Nat
    BY <1>7, PowerType
  <2> QED
    BY <2>1, <2>2
<1>10. v < 2^(n + 2)
  <2>1. CASE VertexCount <= 2^n
    BY <1>1, <1>5, <1>6, <1>9, <2>1
  <2>2. CASE n >= Width
    <3>1. 2^Width <= 2^n
      BY <1>7, <2>2, Constants, PowerMonotone
    <3>2. Modulus = 2^Width
      BY DEF Modulus
    <3> QED
      BY <1>6, <1>9, <3>1, <3>2, Constants
  <2> QED
    BY <1>8, <2>1, <2>2
<1>11. g \in Nat
  BY <1>7, Constants
<1>12. 2^(n + 2) <= 2^g /\ 2^g \in Nat
  <2>1. n + 2 \in Nat
    BY <1>7
  <2> HIDE DEF g
  <2> QED
    BY <1>7, <1>11, <2>1, PowerMonotone, PowerType
<1>13. v < 2^(GroupBits * SequenceGroups)
  BY <1>6, <1>9, <1>10, <1>12
<1>14. IndexSize(v) <= SequenceGroups
  BY <1>6, <1>7, <1>13, Constants, IndexSizeLimit
<1> QED
  BY <1>14 DEF v, z

LEMMA InitBound == Init => BoundInv
<1> SUFFICES ASSUME Init PROVE BoundInv
  OBVIOUS
<1>1. dataSize = 0 /\ data = <<>> /\ phase = "idle"
  BY DEF Init
<1>2. Len(data) * SequenceGroups = 0
  BY <1>1, GroupsType
<1> QED
  BY <1>1, <1>2 DEF BoundInv, BoundSuffices

LEMMA NextBound ==
  ASSUME InMesh, BaseInv, BoundInv, [Next]_vars
  PROVE  BoundInv'
<1>1. /\ TypeOK /\ Len(data) = Len(sequence) /\ Len(sequence) <= params.count
      /\ \A b \in 0..1 : last[b] \in Inputs \cup {0}
      /\ dataSize <= Len(data) * SequenceGroups
  BY DEF BaseInv, BoundInv
<1>2. /\ dataSize \in Nat /\ Len(data) \in Nat /\ params.count \in Nat /\ params.bufferSize \in Int
      /\ SequenceGroups \in Nat \ {0} /\ TailSize \in Nat
  BY <1>1, GroupsType, Constants DEF TypeOK
<1>3. ASSUME NEW index \in Inputs, Encode(index) PROVE BoundInv'
  <2> DEFINE base == Baseline(index)
             v    == EncodeIndex(index, base)
  <2>1. /\ phase' = "encode" /\ data' = Append(data, v) /\ dataSize' = dataSize + IndexSize(v)
    BY <1>3 DEF Encode
  <2>2. base \in 0..1 /\ v \in Index
    BY <1>1, CodeType
  <2>3. IndexSize(v) <= SequenceGroups /\ IndexSize(v) \in Nat
    BY <1>1, <2>2, InMeshSize, SizeOne DEF EncodeIndex
  <2> HIDE DEF base, v
  <2>4. Len(data') = Len(data) + 1
    BY <1>1, <2>1, <2>2, Enqueue DEF TypeOK
  <2>5. PICK n \in Nat : n = Len(data)
    BY <1>2
  <2>6. (n + 1) * SequenceGroups = n * SequenceGroups + SequenceGroups
    BY <1>2
  <2>7. dataSize' <= Len(data') * SequenceGroups'
    <3>1. SequenceGroups' = SequenceGroups /\ n * SequenceGroups \in Nat
      BY <1>2 DEF SequenceGroups
    <3> QED
      BY <1>1, <1>2, <2>1, <2>3, <2>4, <2>5, <2>6, <3>1
  <2> QED
    BY <2>1, <2>7 DEF BoundInv, BoundSuffices
<1>4. ASSUME UNCHANGED <<params, data, dataSize>>, phase' = "refused" => params.bufferSize < Bound(params.count)
      PROVE  BoundInv'
  <2>1. SequenceGroups' = SequenceGroups
    BY DEF SequenceGroups
  <2> QED
    BY <1>1, <1>4, <2>1 DEF BoundInv, BoundSuffices, Bound
<1>5. dataSize <= params.count * SequenceGroups
  <2>1. Len(data) * SequenceGroups <= params.count * SequenceGroups
        /\ Len(data) * SequenceGroups \in Nat /\ params.count * SequenceGroups \in Nat
    BY <1>1, <1>2
  <2> QED
    BY <1>1, <1>2, <2>1
<1>6. CASE EncodeStart
  <2>1. phase' = "refused" => params.bufferSize < MinSize(params.count)
    BY <1>6 DEF EncodeStart
  <2>2. MinSize(params.count) \in Nat /\ Bound(params.count) \in Nat
        /\ MinSize(params.count) <= Bound(params.count)
    BY <1>2, BoundType
  <2>3. phase' = "refused" => params.bufferSize < Bound(params.count)
    BY <1>2, <2>1, <2>2
  <2> QED
    BY <1>4, <1>6, <2>3 DEF EncodeStart, encoderVars
<1>7. CASE EncodeRefuse
  <2>1. Len(sequence) < params.count /\ ~HasRoom
    BY <1>7 DEF EncodeRefuse
  <2>2. Len(data) + 1 <= params.count
    BY <1>1, <1>2, <2>1
  <2>3. (Len(data) + 1) * SequenceGroups <= params.count * SequenceGroups
    BY <1>2, <2>2
  <2>4. (Len(data) + 1) * SequenceGroups = Len(data) * SequenceGroups + SequenceGroups
    BY <1>2
  <2>5. Len(data) * SequenceGroups \in Nat /\ params.count * SequenceGroups \in Nat
    BY <1>2
  <2>6. dataSize < params.count * SequenceGroups
    BY <1>1, <1>2, <2>3, <2>4, <2>5
  <2>7. params.bufferSize < Bound(params.count)
    BY <1>2, <2>1, <2>5, <2>6, SMTT(30) DEF HasRoom, Bound
  <2> QED
    BY <1>4, <1>7, <2>7 DEF EncodeRefuse, encoderVars
<1>8. CASE EncodeFinish
  <2>1. phase' = "refused" => 1 + dataSize > params.bufferSize - TailSize
    BY <1>8 DEF EncodeFinish
  <2>2. params.count * SequenceGroups \in Nat
    BY <1>2
  <2>3. phase' = "refused" => params.bufferSize < Bound(params.count)
    BY <1>2, <1>5, <2>1, <2>2, SMTT(30) DEF Bound
  <2> QED
    BY <1>4, <1>8, <2>3 DEF EncodeFinish, encoderVars
<1>9. CASE DecodeStart \/ Decode \/ DecodeTruncated \/ DecodeFinish
  BY <1>4, <1>9 DEF DecodeStart, Decode, DecodeTruncated, DecodeFinish, encoderVars
<1>10. CASE Returned \/ UNCHANGED vars
  <2>1. UNCHANGED <<params, data, dataSize, phase>>
    BY <1>10 DEF Returned, vars, encoderVars
  <2> QED
    BY <1>4, <2>1 DEF BoundInv, BoundSuffices
<1> QED
  BY <1>3, <1>6, <1>7, <1>8, <1>9, <1>10 DEF Next

-----------------------------------------------------------------------------
(* The decoder follows the encoder. *)

\* What an integer says: its low bit is the baseline, the rest the difference to it.
LEMMA CodeMeaning ==
  ASSUME SpareBit, NEW i \in Inputs, NEW l \in Inputs \cup {0}, NEW b \in 0..1,
         NEW v, v = Code(i, l, b)
  PROVE  /\ v % Modulus = v /\ v % 2 = b
         /\ Plus(l, UnZigZag(v \div 2)) = i
<1>1. i \in Index /\ l \in Index
  BY Constants
<1>2. Minus(i, l) \in Index /\ Plus(l, Minus(i, l)) = i
  BY <1>1, Constants, DifferenceInverse
<1>3. PICK z \in Index : z = ZigZag(Minus(i, l))
  BY <1>2, Constants, ZigZagInverse
<1>4. UnZigZag(z) = Minus(i, l)
  BY <1>2, <1>3, Constants, ZigZagInverse
<1>5. z < Modulus \div 2
  BY <1>3 DEF SpareBit
<1>6. v = 2 * z + b /\ Modulus = 2 * (Modulus \div 2) /\ Modulus \div 2 \in Nat
  BY <1>3, Constants, HalfModulus DEF Code
<1>7. v \in Nat /\ v < Modulus
  BY <1>5, <1>6 DEF Index
<1>8. v % 2 = b /\ v \div 2 = z
  BY <1>6 DEF Index
<1> QED
  BY <1>2, <1>4, <1>7, <1>8, Constants

\* A baseline changes only with the integers against it.
LEMMA BaselineStep ==
  ASSUME NEW d, NEW s, NEW k \in Nat, NEW b
  PROVE  BaselineAt(d, s, k + 1, b) = IF d[k + 1] % 2 = b THEN s[k + 1] ELSE BaselineAt(d, s, k, b)
<1> DEFINE A == {i \in 1..k + 1 : d[i] % 2 = b}
<1>0. DOMAIN Against(d, s, k + 1, b) = A /\ \A i \in A : Against(d, s, k + 1, b)[i] = s[i]
  BY DEF Against
<1>1. CASE d[k + 1] % 2 = b
  <2>1. k + 1 \in A /\ \A i \in A : i <= k + 1
    BY <1>1
  <2>2. \A j \in A : (\A i \in A : i <= j) => j = k + 1
    BY <2>1
  <2> HIDE DEF A
  <2>3. (CHOOSE j \in A : \A i \in A : i <= j) = k + 1
    BY <2>1, <2>2
  <2> QED
    BY <1>0, <1>1, <2>1, <2>3 DEF BaselineAt, Newest
<1>2. CASE d[k + 1] % 2 # b
  <2>1. {i \in 1..k + 1 : d[i] % 2 = b} = {i \in 1..k : d[i] % 2 = b}
    BY <1>2
  <2>2. Against(d, s, k + 1, b) = Against(d, s, k, b)
    BY <2>1 DEF Against
  <2> QED
    BY <1>2, <2>2 DEF BaselineAt
<1> QED
  BY <1>1, <1>2

LEMMA BaselineZero == \A d, s, b : BaselineAt(d, s, 0, b) = 0
<1>1. \A d, s, b : DOMAIN Against(d, s, 0, b) = {}
  BY DEF Against
<1> QED
  BY <1>1 DEF BaselineAt, Newest

\* A baseline is an index of the sequence or 0.
LEMMA BaselineType ==
  ASSUME NEW d, NEW s \in Seq(Inputs), NEW k \in 0..Len(s), NEW b
  PROVE  BaselineAt(d, s, k, b) \in Inputs \cup {0}
<1>1. Len(s) \in Nat /\ \A i \in 1..Len(s) : s[i] \in Inputs
  OBVIOUS
<1> DEFINE T == {n \in Nat : n <= Len(s) => BaselineAt(d, s, n, b) \in Inputs \cup {0}}
<1>2. 0 \in T
  BY BaselineZero
<1>3. ASSUME NEW n \in Nat, n \in T PROVE n + 1 \in T
  <2>1. ASSUME n + 1 <= Len(s) PROVE BaselineAt(d, s, n + 1, b) \in Inputs \cup {0}
    <3>1. n <= Len(s) /\ n + 1 \in 1..Len(s)
      BY <1>1, <2>1
    <3>2. BaselineAt(d, s, n, b) \in Inputs \cup {0}
      BY <1>3, <3>1
    <3> QED
      BY <1>1, <3>1, <3>2, BaselineStep, ZenonT(30)
  <2> QED
    BY <2>1
<1>4. Nat \subseteq T
  <2> HIDE DEF T
  <2> QED
    BY <1>2, <1>3, NatSetInduction
<1> QED
  BY <1>1, <1>4

LEMMA InitMatch == Init => MatchInv
<1> SUFFICES ASSUME Init PROVE MatchInv
  OBVIOUS
<1>1. sequence = <<>> /\ out = <<>> /\ last = NoBaselines /\ decLast = NoBaselines
  BY DEF Init
<1>2. Len(sequence) = 0 /\ Len(out) = 0 /\ 1..0 = {}
  BY <1>1
<1>3. \A b \in 0..1 : last[b] = 0 /\ decLast[b] = 0
  BY <1>1 DEF NoBaselines
<1> QED
  BY <1>2, <1>3, BaselineZero DEF MatchInv

\* Encoding an index moves the baseline that its integer names, as the decoder will.
LEMMA EncodeMatch ==
  ASSUME SpareBit, BaseInv, MatchInv, NEW index \in Inputs, Encode(index)
  PROVE  MatchInv'
<1> DEFINE base == Baseline(index)
           v    == EncodeIndex(index, base)
<1>1. /\ phase = "encode" /\ last' = [last EXCEPT ![base] = index]
      /\ data' = Append(data, v) /\ sequence' = Append(sequence, index)
      /\ UNCHANGED <<params, decLast, out>>
  BY DEF Encode, decoderVars
<1>2. TypeOK /\ Len(data) = Len(sequence) /\ Len(out) = 0 /\ \A b \in 0..1 : last[b] \in Inputs \cup {0}
  BY <1>1 DEF BaseInv
<1>3. base \in 0..1 /\ v \in Index
  BY <1>2, CodeType
<1>4. PICK n \in Nat : n = Len(sequence)
  BY <1>2 DEF TypeOK
<1>5. PICK c \in 0..1 : c = base
  BY <1>3
<1>6. PICK w : w = v
  OBVIOUS
<1>7. w = Code(index, last[c], c) /\ w % 2 = c
  <2>1. last[c] \in Inputs \cup {0}
    BY <1>2
  <2>2. Code(index, last[c], c) % Modulus = Code(index, last[c], c) /\ Code(index, last[c], c) % 2 = c
    BY <2>1, CodeMeaning
  <2> QED
    BY <1>5, <1>6, <2>2 DEF EncodeIndex, Code
<1> HIDE DEF base, v
<1>8. /\ Len(data') = n + 1 /\ data'[n + 1] = w /\ \A i \in 1..n : data'[i] = data[i]
  BY <1>1, <1>2, <1>3, <1>4, <1>6, Enqueue DEF TypeOK
<1>9. /\ Len(sequence') = n + 1 /\ sequence'[n + 1] = index
      /\ \A i \in 1..n : sequence'[i] = sequence[i]
  BY <1>1, <1>2, <1>4, Enqueue DEF TypeOK
<1>10. \A k \in 0..n : \A b : BaselineAt(data', sequence', k, b) = BaselineAt(data, sequence, k, b)
  <2> SUFFICES ASSUME NEW k \in 0..n, NEW b
               PROVE  BaselineAt(data', sequence', k, b) = BaselineAt(data, sequence, k, b)
    OBVIOUS
  <2>1. \A i \in 1..n : data'[i] = data[i] /\ sequence'[i] = sequence[i]
    BY <1>8, <1>9
  <2>2. Against(data', sequence', k, b) = Against(data, sequence, k, b)
    BY <2>1 DEF Against
  <2> QED
    BY <2>2 DEF BaselineAt
<1>11. \A b \in 0..1 : last[b] = BaselineAt(data, sequence, n, b) /\ decLast[b] = BaselineAt(data, sequence, 0, b)
  BY <1>2, <1>4 DEF MatchInv
<1>12. \A b \in 0..1 : last'[b] = (IF b = c THEN index ELSE last[b])
  BY <1>1, <1>2, <1>5 DEF TypeOK
<1>13. \A b \in 0..1 : last'[b] = BaselineAt(data', sequence', n + 1, b)
  <2> SUFFICES ASSUME NEW b \in 0..1 PROVE last'[b] = BaselineAt(data', sequence', n + 1, b)
    OBVIOUS
  <2>1. BaselineAt(data', sequence', n + 1, b)
          = IF data'[n + 1] % 2 = b THEN sequence'[n + 1] ELSE BaselineAt(data', sequence', n, b)
    BY BaselineStep
  <2>2. BaselineAt(data', sequence', n, b) = last[b]
    BY <1>10, <1>11
  <2> QED
    BY <1>7, <1>8, <1>9, <1>12, <2>1, <2>2
<1>14. \A b \in 0..1 : decLast'[b] = BaselineAt(data', sequence', 0, b)
  BY <1>1, <1>10, <1>11
<1>15. ASSUME NEW k \in 1..n + 1
       PROVE  data'[k] = Code(sequence'[k], BaselineAt(data', sequence', k - 1, data'[k] % 2), data'[k] % 2)
  <2>1. CASE k = n + 1
    <3>1. BaselineAt(data', sequence', n, c) = last[c]
      BY <1>10, <1>11
    <3>2. data'[k] = w /\ data'[k] % 2 = c /\ sequence'[k] = index /\ k - 1 = n
      BY <1>7, <1>8, <1>9, <2>1
    <3> QED
      BY <1>7, <3>1, <3>2
  <2>2. CASE k # n + 1
    <3>1. k \in 1..n /\ k - 1 \in 0..n
      BY <2>2
    <3>2. data'[k] = data[k] /\ sequence'[k] = sequence[k]
      BY <1>8, <1>9, <3>1
    <3>3. BaselineAt(data', sequence', k - 1, data[k] % 2) = BaselineAt(data, sequence, k - 1, data[k] % 2)
      BY <1>10, <3>1
    <3>4. data[k] = Code(sequence[k], BaselineAt(data, sequence, k - 1, data[k] % 2), data[k] % 2)
      BY <1>4, <3>1 DEF MatchInv
    <3> QED
      BY <3>2, <3>3, <3>4
  <2> QED
    BY <2>1, <2>2
<1>16. (\A b \in 0..1 : /\ last[b] = BaselineAt(data, sequence, Len(sequence), b)
                        /\ decLast[b] = BaselineAt(data, sequence, Len(out), b))'
  BY <1>1, <1>2, <1>9, <1>13, <1>14
<1>17. (\A k \in 1..Len(sequence) :
          data[k] = Code(sequence[k], BaselineAt(data, sequence, k - 1, data[k] % 2), data[k] % 2))'
  BY <1>9, <1>15 DEF Code, ZigZag, Minus
<1>18. (\A k \in 1..Len(out) : out[k] = Narrow(sequence[k], params.indexSize))'
  BY <1>1, <1>2
<1> QED
  BY <1>16, <1>17, <1>18 DEF MatchInv

\* The next integer names the baseline it was taken from, so that its index comes back.
LEMMA DecodeMatch ==
  ASSUME SpareBit, BaseInv, MatchInv, Decode
  PROVE  MatchInv'
<1> DEFINE v     == NextInteger
           index == Plus(decLast[v % 2], UnZigZag(v \div 2))
<1>1. /\ phase = "decode" /\ Len(out) < params.count
      /\ decLast' = [decLast EXCEPT ![v % 2] = index]
      /\ out' = Append(out, Narrow(index, params.indexSize))
      /\ UNCHANGED <<params, sequence, last, data>>
  BY DEF Decode, encoderVars
<1>2. TypeOK /\ Len(data) = Len(sequence) /\ Len(sequence) = params.count
  BY <1>1 DEF BaseInv
<1>3. PICK n \in Nat : n = Len(out)
  BY <1>2 DEF TypeOK
<1>4. /\ n < Len(sequence) /\ n + 1 \in 1..Len(sequence) /\ n \in 0..Len(sequence)
      /\ v = data[n + 1] /\ v % 2 \in 0..1 /\ (n + 1) - 1 = n
  <2>1. v = data[n + 1] /\ v % 2 \in 0..1
    BY <1>1, <1>2, <1>3, NextType
  <2> QED
    BY <1>1, <1>2, <1>3, <2>1 DEF TypeOK
<1>5. sequence[n + 1] \in Inputs
  BY <1>2, <1>4 DEF TypeOK
<1> HIDE DEF v
<1>6. PICK c \in 0..1 : c = v % 2
  BY <1>4
<1>7. PICK l : l = BaselineAt(data, sequence, n, c)
  OBVIOUS
<1>8. decLast[c] = l /\ l \in Inputs \cup {0}
  BY <1>2, <1>3, <1>4, <1>7, BaselineType DEF MatchInv, TypeOK
<1>9. v = Code(sequence[n + 1], l, c)
  BY <1>4, <1>6, <1>7 DEF MatchInv
<1>10. index = sequence[n + 1]
  <2>1. Plus(l, UnZigZag(v \div 2)) = sequence[n + 1]
    BY <1>5, <1>8, <1>9, CodeMeaning
  <2> QED
    BY <1>6, <1>8, <2>1
<1> HIDE DEF index
<1>11. Narrow(index, params.indexSize) \in Index
  BY <1>5, <1>10, Constants, NarrowType
<1>12. /\ Len(out') = n + 1 /\ out'[n + 1] = Narrow(index, params.indexSize)
       /\ \A i \in 1..n : out'[i] = out[i]
  BY <1>1, <1>2, <1>3, <1>11, Enqueue DEF TypeOK
<1>13. \A b \in 0..1 : decLast'[b] = BaselineAt(data, sequence, n + 1, b)
  <2> SUFFICES ASSUME NEW b \in 0..1 PROVE decLast'[b] = BaselineAt(data, sequence, n + 1, b)
    OBVIOUS
  <2>1. BaselineAt(data, sequence, n + 1, b)
          = IF data[n + 1] % 2 = b THEN sequence[n + 1] ELSE BaselineAt(data, sequence, n, b)
    BY BaselineStep
  <2>2. decLast[b] = BaselineAt(data, sequence, n, b)
    BY <1>3 DEF MatchInv
  <2>3. decLast'[b] = IF b = c THEN index ELSE decLast[b]
    BY <1>1, <1>2, <1>6 DEF TypeOK
  <2> QED
    BY <1>4, <1>6, <1>10, <2>1, <2>2, <2>3
<1>14. \A b \in 0..1 : last[b] = BaselineAt(data, sequence, Len(sequence), b)
  BY DEF MatchInv
<1>15. ASSUME NEW k \in 1..n + 1 PROVE out'[k] = Narrow(sequence[k], params.indexSize)
  <2>1. CASE k = n + 1
    BY <1>10, <1>12, <2>1
  <2>2. CASE k # n + 1
    <3>1. k \in 1..n
      BY <2>2
    <3> QED
      BY <1>3, <1>12, <3>1 DEF MatchInv
  <2> QED
    BY <2>1, <2>2
<1>16. (\A b \in 0..1 : /\ last[b] = BaselineAt(data, sequence, Len(sequence), b)
                        /\ decLast[b] = BaselineAt(data, sequence, Len(out), b))'
  BY <1>1, <1>12, <1>13, <1>14
<1>17. (\A k \in 1..Len(sequence) :
          data[k] = Code(sequence[k], BaselineAt(data, sequence, k - 1, data[k] % 2), data[k] % 2))'
  BY <1>1 DEF MatchInv
<1>18. (\A k \in 1..Len(out) : out[k] = Narrow(sequence[k], params.indexSize))'
  BY <1>1, <1>12, <1>15 DEF Narrow
<1> QED
  BY <1>16, <1>17, <1>18 DEF MatchInv

LEMMA NextMatch ==
  ASSUME SpareBit, BaseInv, MatchInv, [Next]_vars
  PROVE  MatchInv'
<1>1. CASE \E index \in Inputs : Encode(index)
  BY <1>1, EncodeMatch
<1>2. CASE Decode
  BY <1>2, DecodeMatch
<1>3. CASE \/ EncodeStart \/ EncodeRefuse \/ EncodeFinish \/ DecodeStart
           \/ DecodeTruncated \/ DecodeFinish \/ Returned \/ UNCHANGED vars
  <2>1. UNCHANGED <<params, sequence, last, data, decLast, out>>
    BY <1>3 DEF EncodeStart, EncodeRefuse, EncodeFinish, DecodeStart, DecodeTruncated, DecodeFinish,
                Returned, vars, encoderVars, decoderVars
  <2> QED
    BY <2>1 DEF MatchInv
<1> QED
  BY <1>1, <1>2, <1>3 DEF Next

-----------------------------------------------------------------------------
(* The results. *)

\* The variables keep their types: indices wrap around in their range and sizes are counts.
THEOREM TypeCorrect == Spec => []TypeOK
<1>1. BaseInv => TypeOK
  BY DEF BaseInv
<1> QED
  BY <1>1, BaseInvariance, PTL

\* Whatever the indices are, the one check before each of them keeps the writes inside the
\* buffer and the reads inside the stream.
THEOREM StaysInside == Spec => []NoOverrun
<1>1. BaseInv => NoOverrun
  BY DEF BaseInv
<1> QED
  BY <1>1, BaseInvariance, PTL

\* A buffer of meshopt_encodeIndexSequenceBound bytes is never refused if every index is one of
\* a vertex (the run with restart indices shows that it may be if one is not).
THEOREM BoundIsEnough == ASSUME InMesh PROVE Spec => []InBounds
<1>1. Init => BaseInv /\ BoundInv
  BY InitBase, InitBound
<1>2. BaseInv /\ BoundInv /\ [Next]_vars => (BaseInv /\ BoundInv)'
  BY NextBase, NextBound
<1>3. BaseInv /\ BoundInv => InBounds
  BY DEF BaseInv, BoundInv, InBounds
<1> QED
  BY <1>1, <1>2, <1>3, PTL DEF Spec

\* The decoder gives back the sequence, accepts it whole and rejects it when it is cut, if the
\* difference of two indices leaves the bit that the baseline's number needs.
THEOREM DecodesExactly == ASSUME SpareBit PROVE Spec => []Exact
<1>1. Init => BaseInv /\ MatchInv
  BY InitBase, InitMatch
<1>2. BaseInv /\ MatchInv /\ [Next]_vars => (BaseInv /\ MatchInv)'
  BY NextBase, NextMatch
<1>3. BaseInv /\ MatchInv => Exact
  BY DEF BaseInv, MatchInv, Exact
<1> QED
  BY <1>1, <1>2, <1>3, PTL DEF Spec
=============================================================================
