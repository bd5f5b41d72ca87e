--------------------------- MODULE IndexGenerator ---------------------------
(***************************************************************************)
(* src/indexgenerator.cpp: remap tables, redundant triangles, shadow       *)
(* indices, adjacency and tessellation patches and provoking vertices, all *)
(* of them built with an open addressing hash table.                       *)
(*                                                                         *)
(* Vertices, triangles and slots of a table count from one; 0 is ~0u.  A   *)
(* vertex is [pos, attr]; its bits are both values, its position as floats *)
(* takes the two zeros for equal and NaN for different from itself.  Keys  *)
(* of a table are tuples, <<>> the empty slot.                             *)
(***************************************************************************)
EXTENDS Integers, Sequences, FiniteSets, SequencesExt, FiniteSetsExt

CONSTANTS
  HashOf(_),   (* The hash of a tuple of numbers, any function of it.      *)
  NegZero,     (* The position -0; 0 is +0.                                *)
  NaN,         (* A position that is not a number.                         *)
  Valences     (* The values of a valence counter (256).                   *)

ASSUME GeneratorAssumption == Valences \in Nat \ {0}

Unset == 0
None  == <<>>

\* The numbers 1..n in order: the index buffer of a mesh without one.
Iota(n) == [i \in 1..n |-> i]

\* Edge e of a triangle, from 1: its two corners.
Edge(t, e) == <<t[e], t[(e % 3) + 1]>>
Opposite(t, e) == t[((e + 1) % 3) + 1]
Reverse2(edge) == <<edge[2], edge[1]>>

-----------------------------------------------------------------------------
(* The hash table *)

hashBuckets(count) == Min({b \in {2^i : i \in 0..count + 1} : b >= count + (count \div 4)})

\* The slot that the search for a hash looks at after k others.
Probe(hash, k, buckets) == ((hash + ((k * (k + 1)) \div 2)) % buckets) + 1

Taken(table) == {s \in DOMAIN table : table[s] # None}

\* The first slot that is free or one of the slots with the same key; 0 when there is none.
hashLookup(table, hash, same) ==
  LET Slot(k) == Probe(hash, k, Len(table))
      found == {k \in 0..Len(table) - 1 : table[Slot(k)] = None \/ Slot(k) \in same}
  IN  IF found = {} THEN 0 ELSE Slot(Min(found))

EmptyTable(count) == [s \in 1..hashBuckets(count) |-> None]

-----------------------------------------------------------------------------
(* The hashers: what is hashed and what is compared *)

Bits(v)     == <<v.pos, v.attr>>                              \* VertexHasher, VertexStreamHasher
PosBits(v)  == <<v.pos>>                                      \* VertexHasher over the position
\* A mistake: -0 is hashed by its bits although it is equal to 0.
ZeroSigned(v) == <<v.pos>>

ZeroFree(v) == <<IF v.pos = NegZero THEN 0 ELSE v.pos>>       \* VertexCustomHasher::hash

\* Comparison of floats
PosValue(v)    == IF v.pos = NegZero THEN 0 ELSE v.pos
PosEqual(v, w) == v.pos # NaN /\ w.pos # NaN /\ PosValue(v) = PosValue(w)

KeyHash(kind, v) ==
  HashOf(CASE kind = "vertex" -> Bits(v)
           [] kind = "bits"   -> PosBits(v)
           [] OTHER           -> ZeroFree(v))

KeyEqual(kind, v, w) ==
  CASE kind = "vertex" -> Bits(v) = Bits(w)
    [] kind = "bits"   -> PosBits(v) = PosBits(w)
    [] kind = "float"  -> PosEqual(v, w)
    [] kind = "custom" -> PosEqual(v, w) /\ v.attr = w.attr   \* the callback compares attributes

VertexSlot(table, vertices, kind, index) ==
  hashLookup(table, KeyHash(kind, vertices[index]),
             {s \in Taken(table) : KeyEqual(kind, vertices[table[s][1]], vertices[index])})

-----------------------------------------------------------------------------
(* Remap tables *)

\* generateVertexRemap: [remap, next_vertex]; the table is kept for the properties.
generateVertexRemap(vertices, indices, kind) ==
  LET Visit(s, index) ==
        LET slot == VertexSlot(s.table, vertices, kind, index)
        IN  CASE s.remap[index] # Unset -> s
              [] s.remap[index] = Unset /\ s.table[slot] = None ->
                   [table |-> [s.table EXCEPT ![slot] = <<index>>],
                    remap |-> [s.remap EXCEPT ![index] = s.next_vertex + 1],
                    next_vertex |-> s.next_vertex + 1]
              [] OTHER -> [s EXCEPT !.remap[index] = s.remap[s.table[slot][1]]]
  IN  FoldLeft(Visit,
               [table |-> EmptyTable(Len(vertices)), remap |-> [v \in 1..Len(vertices) |-> Unset], next_vertex |-> 0],
               indices)

\* meshopt_remapVertexBuffer: vertices in order, the last of those that share a place stays.
remapVertexBuffer(vertices, remap, count) ==
  [r \in 1..count |-> vertices[Max({i \in 1..Len(vertices) : remap[i] = r})]]

remapIndexBuffer(indices, remap) == [i \in 1..Len(indices) |-> remap[indices[i]]]

\* buildPositionRemap ("bits") and meshopt_generatePositionRemap ("float")
positionRemap(vertices, kind) ==
  LET Visit(s, index) ==
        LET slot  == VertexSlot(s.table, vertices, kind, index)
            table == IF s.table[slot] = None THEN [s.table EXCEPT ![slot] = <<index>>] ELSE s.table
        IN  [table |-> table, remap |-> Append(s.remap, table[slot][1])]
  IN  FoldLeft(Visit, [table |-> EmptyTable(Len(vertices)), remap |-> <<>>], Iota(Len(vertices))).remap

\* A mistake: the last vertex seen with a key stands for it.
EnterLast(table, slot, index) == [table EXCEPT ![slot] = <<index>>]

\* The first vertex seen with a key stands for it.
EnterFirst(table, slot, index) ==
  IF table[slot] = None THEN [table EXCEPT ![slot] = <<index>>] ELSE table

\* generateShadowBuffer: every index is replaced by the first one of the index buffer with the same key.
generateShadowBuffer(vertices, indices, kind) ==
  LET Visit(s, index) ==
        LET slot  == VertexSlot(s.table, vertices, kind, index)
            table == IF s.remap[index] = Unset THEN EnterFirst(s.table, slot, index) ELSE s.table
            to    == IF s.remap[index] = Unset THEN table[slot][1] ELSE s.remap[index]
        IN  [table |-> table, remap |-> [s.remap EXCEPT ![index] = to], destination |-> Append(s.destination, to)]
  IN  FoldLeft(Visit,
               [table |-> EmptyTable(Len(vertices)), remap |-> [v \in 1..Len(vertices) |-> Unset], destination |-> <<>>],
               indices).destination

-----------------------------------------------------------------------------
(* Triangles: sequences of <<a, b, c>> *)

Turn(t, k) == [n \in 1..3 |-> t[((n + k - 1) % 3) + 1]]

\* A mistake: the triangle that starts with its third corner is mirrored.
CanonicalMirror(t) ==
  CASE t[2] < t[1] /\ t[2] < t[3] -> Turn(t, 1)
    [] ~(t[2] < t[1] /\ t[2] < t[3]) /\ t[3] < t[1] /\ t[3] < t[2] -> <<t[3], t[2], t[1]>>
    [] OTHER -> t

\* The rotation of a triangle that starts with its smallest corner.
Canonical(t) ==
  CASE t[2] < t[1] /\ t[2] < t[3] -> Turn(t, 1)
    [] ~(t[2] < t[1] /\ t[2] < t[3]) /\ t[3] < t[1] /\ t[3] < t[2] -> Turn(t, 2)
    [] OTHER -> t

Degenerate(t) == t[1] = t[2] \/ t[1] = t[3] \/ t[2] = t[3]

\* filterIndexBuffer: drops degenerate and repeated triangles.
filterIndexBuffer(triangles, remap) ==
  LET Visit(s, t) ==
        LET key  == [n \in 1..3 |-> remap[t[n]]]
            want == Canonical(key)
            slot == hashLookup(s.table, HashOf(want), {n \in Taken(s.table) : s.table[n] = want})
        IN  IF Degenerate(key) \/ s.table[slot] # None THEN s
            ELSE [table |-> [s.table EXCEPT ![slot] = want], destination |-> Append(s.destination, t)]
  IN  FoldLeft(Visit, [table |-> EmptyTable(Len(triangles)), destination |-> <<>>], triangles).destination

\* The directed edges of all triangles, the first of those at the same place, with the corner opposite to each.
EdgeSlot(table, remap, edge) ==
  hashLookup(table, HashOf(<<remap[edge[1]], remap[edge[2]]>>),
             {s \in Taken(table) : remap[table[s][1]] = remap[edge[1]] /\ remap[table[s][2]] = remap[edge[2]]})

EdgeTable(triangles, remap) ==
  LET Corners == [i \in 1..3 * Len(triangles) |-> <<triangles[((i - 1) \div 3) + 1], ((i - 1) % 3) + 1>>]
      Visit(s, te) ==
        LET edge == Edge(te[1], te[2])
            slot == EdgeSlot(s.table, remap, edge)
        IN  IF s.table[slot] # None THEN s
            ELSE [table |-> [s.table EXCEPT ![slot] = edge], third |-> [s.third EXCEPT ![slot] = Opposite(te[1], te[2])]]
      count == hashBuckets(3 * Len(triangles))
  IN  FoldLeft(Visit, [table |-> EmptyTable(3 * Len(triangles)), third |-> [s \in 1..count |-> Unset]], Corners)

\* A mistake: the edge is looked up in its own direction.
AdjacencyPatchOwn(t, edges, remap) ==
  LET Across(e) ==
        LET slot == EdgeSlot(edges.table, remap, Edge(t, e))
        IN  IF edges.table[slot] = None THEN t[e] ELSE edges.third[slot]
  IN  <<t[1], Across(1), t[2], Across(2), t[3], Across(3)>>

\* meshopt_generateAdjacencyIndexBuffer: the vertex across each edge, or the edge's own start at a border.
AdjacencyPatch(t, edges, remap) ==
  LET Across(e) ==
        LET slot == EdgeSlot(edges.table, remap, Reverse2(Edge(t, e)))
        IN  IF edges.table[slot] = None THEN t[e] ELSE edges.third[slot]
  IN  <<t[1], Across(1), t[2], Across(2), t[3], Across(3)>>

\* A mistake: the opposite edge is not turned around.
TessellationPatchAcross(t, edges, remap) ==
  LET Across(e) ==
        LET own   == Reverse2(Edge(t, e))
            other == edges.table[EdgeSlot(edges.table, remap, own)]
        IN  IF other = None THEN Reverse2(own) ELSE other
  IN  t \o Across(1) \o Across(2) \o Across(3) \o [n \in 1..3 |-> remap[t[n]]]

\* meshopt_generateTessellationIndexBuffer: the opposite edges, as seen from this side, and the dominant vertices.
TessellationPatch(t, edges, remap) ==
  LET Across(e) ==
        LET own   == Reverse2(Edge(t, e))
            other == edges.table[EdgeSlot(edges.table, remap, own)]
        IN  Reverse2(IF other = None THEN own ELSE other)
  IN  t \o Across(1) \o Across(2) \o Across(3) \o [n \in 1..3 |-> remap[t[n]]]

-----------------------------------------------------------------------------
(* meshopt_generateProvokingIndexBuffer *)

\* The rotation that starts with a corner not seen yet, of those the one with the least valence.
Provoking(t, remap, valence) ==
  LET Fresh(n) == remap[t[n]] = Unset
      Least(n) == Fresh(n) /\ \A m \in 1..3 : Fresh(m) => valence[t[n]] <= valence[t[m]]
  IN  IF Least(2) THEN Turn(t, 1) ELSE IF Least(3) THEN Turn(t, 2) ELSE t

Count(indices, v) == Cardinality({i \in DOMAIN indices : indices[i] = v})

\* First pass: the first corner of every triangle becomes a vertex of its own.
AssignProvoking(s, t) ==
  LET turned == Provoking(t, s.remap, s.valence)
      first  == turned[1]
      new    == Len(s.reorder) + 1
  IN  [remap   |-> IF s.remap[first] = Unset THEN [s.remap EXCEPT ![first] = new] ELSE s.remap,
       reorder |-> Append(s.reorder, first),
       output  |-> Append(s.output, <<new, turned[2], turned[3]>>),
       valence |-> [v \in DOMAIN s.valence |-> (s.valence[v] + 3 * Valences - Count(turned, v)) % Valences]]

\* A mistake: the clone of a corner is not recorded.
RenameForgets(s, index) ==
  IF s.remap[index] # Unset THEN [s EXCEPT !.last = Append(s.last, s.remap[index])]
  ELSE [s EXCEPT !.reorder = Append(s.reorder, index), !.last = Append(s.last, Len(s.reorder) + 1)]

\* Second pass: the other two corners, cloned when they were not seen yet.
Rename(s, index) ==
  IF s.remap[index] # Unset THEN [s EXCEPT !.last = Append(s.last, s.remap[index])]
  ELSE [s EXCEPT !.remap[index] = Len(s.reorder) + 1,
                 !.reorder = Append(s.reorder, index),
                 !.last = Append(s.last, Len(s.reorder) + 1)]

generateProvokingIndexBuffer(triangles, count) ==
  LET flat  == FlattenSeq(triangles)
      first == FoldLeft(AssignProvoking,
                        [remap |-> [v \in 1..count |-> Unset], reorder |-> <<>>, output |-> <<>>,
                         valence |-> [v \in 1..count |-> Count(flat, v) % Valences]], triangles)
      second == FoldLeft(LAMBDA s, t : Rename(Rename(s, t[2]), t[3]),
                         [remap |-> first.remap, reorder |-> first.reorder, last |-> <<>>], first.output)
  IN  [reorder |-> second.reorder,
       output  |-> [i \in 1..Len(triangles) |-> <<first.output[i][1], second.last[2 * i - 1], second.last[2 * i]>>]]
=============================================================================
