---------------------------- MODULE SpatialOrder ----------------------------
(***************************************************************************)
(* src/spatialorder.cpp: points and triangles in Morton order by a radix   *)
(* sort, and points in chunks of a given size by splitting space.          *)
(*                                                                         *)
(* Points are <<x, y, z>> of whole numbers; points and places count from   *)
(* one.                                                                    *)
(***************************************************************************)
EXTENDS Integers, Sequences, FiniteSets, SequencesExt, FiniteSetsExt

CONSTANTS
  AxisBits,    (* Bits of a coordinate in a key (16).                      *)
  DigitBits,   (* Bits that a pass of the Morton sort looks at (10).       *)
  Passes,      (* Passes of that sort (5).                                 *)
  HalfBits     (* Bits that one of the two passes of an axis sort looks at (8). *)

ASSUME SpatialAssumption ==
  /\ {AxisBits, DigitBits, Passes, HalfBits} \subseteq Nat \ {0}
  /\ DigitBits * Passes >= 3 * AxisBits
  /\ 2 * HalfBits >= AxisBits

Axes == 1..3
Bit(x, i) == (x \div (2^i)) % 2

Lowest(points, k)  == Min({points[i][k] : i \in DOMAIN points})
Highest(points, k) == Max({points[i][k] : i \in DOMAIN points})

\* computeOrder: coordinates relative to the lowest, the longest side scaled to all bits and rounded.
Scaled(points) ==
  LET extent == Max({Highest(points, k) - Lowest(points, k) : k \in Axes})
      top    == (2^AxisBits) - 1
      Place(x) == IF extent = 0 THEN 0 ELSE ((2 * x * top) + extent) \div (2 * extent)
  IN  [i \in DOMAIN points |-> [k \in Axes |-> Place(points[i][k] - Lowest(points, k))]]

\* part1By2 of each axis, interleaved.
Morton(key) == MapThenSumSet(LAMBDA b : Bit(key[(b % 3) + 1], b \div 3) * (2^b), 0..(3 * AxisBits) - 1)

\* A mistake: every pass looks at the digit below.
DigitBelow(code, pass, bits) == (code \div (2^(IF pass = 0 THEN 0 ELSE (pass - 1) * bits))) % (2^bits)

Digit(code, pass, bits) == (code \div (2^(pass * bits))) % (2^bits)

\* radixSort10, radixPass: source by digits, equal digits in the order of source.
RadixPass(source, digits) ==
  LET place(n) == Cardinality({m \in DOMAIN source : \/ digits[source[m]] < digits[source[n]]
                                                     \/ digits[source[m]] = digits[source[n]] /\ m <= n})
  IN  [p \in DOMAIN source |-> source[CHOOSE n \in DOMAIN source : place(n) = p]]

RadixSort(codes, passes, bits) ==
  FoldLeft(LAMBDA order, pass : RadixPass(order, [i \in DOMAIN codes |-> Digit(codes[i], pass - 1, bits)]),
           [i \in DOMAIN codes |-> i], [pass \in 1..passes |-> pass])

\* meshopt_spatialSortRemap: the place of each point.
spatialSortRemap(points) ==
  LET keys  == Scaled(points)
      codes == [i \in DOMAIN points |-> Morton(keys[i])]
      order == RadixSort(codes, Passes, DigitBits)
  IN  [i \in DOMAIN points |-> CHOOSE p \in DOMAIN order : order[p] = i]

\* meshopt_spatialSortTriangles; a centroid is taken three times as large, which scaling undoes.
spatialSortTriangles(triangles, points) ==
  LET Centroid(t) == [k \in Axes |-> points[t[1]][k] + points[t[2]][k] + points[t[3]][k]]
      remap == spatialSortRemap([i \in DOMAIN triangles |-> Centroid(triangles[i])])
  IN  [p \in DOMAIN triangles |-> triangles[CHOOSE i \in DOMAIN triangles : remap[i] = p]]

-----------------------------------------------------------------------------
(* meshopt_spatialClusterPoints *)

\* A mistake: exactly half.
SplitHalf(count, cluster_size) == count \div 2

\* Roughly half, rounded up to whole chunks.
SplitAt(count, cluster_size) == (((count \div 2) + cluster_size - 1) \div cluster_size) * cluster_size

\* A mistake: an axis keeps its own halves.
PartitionNone(order, left) == order

\* partitionPoints: the points of one side first; both keep their order.
partitionPoints(order, left) ==
  SelectSeq(order, LAMBDA p : p \in left) \o SelectSeq(order, LAMBDA p : p \notin left)

\* The axis along which the points extend most, the last of those.
BestAxis(orders, keys) ==
  LET dim(k) == keys[Last(orders[k])][k] - keys[orders[k][1]][k]
  IN  Max({k \in Axes : \A other \in Axes : dim(other) <= dim(k)})

\* splitPoints as a worklist: the pieces of the output in order, each with its three orders; one step splits
\* every piece that is too long.
SplitPiece(orders, keys, cluster_size) ==
  LET split == SplitAt(Len(orders[1]), cluster_size)
      best  == BestAxis(orders, keys)
      left  == ToSet(SubSeq(orders[best], 1, split))
      parts == [k \in Axes |-> IF k = best THEN orders[k] ELSE partitionPoints(orders[k], left)]
  IN  IF Len(orders[1]) <= cluster_size THEN <<orders>>
      ELSE <<[k \in Axes |-> SubSeq(parts[k], 1, split)], [k \in Axes |-> SubSeq(parts[k], split + 1, Len(parts[k]))]>>

SplitPieces(pieces, keys, cluster_size) ==
  FlattenSeq([i \in DOMAIN pieces |-> SplitPiece(pieces[i], keys, cluster_size)])

AxisOrders(points) ==
  LET keys == Scaled(points)
  IN  [k \in Axes |-> RadixSort([i \in DOMAIN points |-> keys[i][k]], 2, HalfBits)]

\* The output: the x order of every piece.
Joined(pieces) == FlattenSeq([i \in DOMAIN pieces |-> pieces[i][1]])
=============================================================================
