------------------------------ MODULE Stripifier ------------------------------
(***************************************************************************)
(* The stripifier of src/stripifier.cpp: meshopt_stripify turns a list of  *)
(* triangles into triangle strips, that it grows greedily over a small     *)
(* buffer of triangles, and meshopt_unstripify turns strips into a list of *)
(* triangles again.  A call of the one is followed by a call of the other  *)
(* on its output; an action is one iteration of the main loop of either.   *)
(*                                                                         *)
(* Sequences and their positions start at 1; corners of a triangle and the *)
(* parity of a strip are counted from 0, as in the code.                   *)
(***************************************************************************)
EXTENDS Integers, SequencesExt

CONSTANTS
  VertexCount,  (* Vertices of the mesh.                                     *)
  Restart,      (* The restart index of a run that uses one.                 *)
  Capacity,     (* Triangles that the buffer holds (8).                      *)
  ValenceMod,   (* A valence is a counter modulo this (256).                 *)
  Triangles,    (* The triangles that a list can hold.                       *)
  MaxTriangles  (* Bound on the triangles of a list.                         *)

Vertices == 0..VertexCount - 1

ASSUME VerticesAssumption ==
  /\ VertexCount \in Nat \ {0}
  /\ Restart \in Nat \ Vertices
  /\ Triangles \subseteq Vertices \X Vertices \X Vertices

ASSUME SizesAssumption ==
  /\ Capacity \in Nat \ {0}
  /\ ValenceMod \in Nat \ {0}
  /\ MaxTriangles \in Nat

VARIABLES
  phase,    (* "strip", "unstrip" or "done".                                *)
  input,    (* The list of triangles...                                     *)
  restarts, (* ... and whether strips are separated by restart indices.     *)
  offset,   (* Triangles that have been read into the buffer.               *)
  buffer,   (* The buffer of triangles.                                     *)
  valence,  (* Uses of every vertex by triangles that are not emitted yet.  *)
  next,     (* Where the next triangle of the strip is, with the corner     *)
            (* that is new, or NoMatch.                                     *)
  edge,     (* strip: the edge over which the strip goes on...              *)
  parity,   (* ... and whether a triangle is flipped there.                 *)
  strip,    (* The strips.                                                  *)
  pos,      (* The number of their indices that have been turned back...    *)
  start,    (* ... and those before the current strip.                      *)
  out,      (* The triangles from the strips.                               *)
  taken     (* Auxiliary: the triangles in the order they left the buffer.  *)

stripVars   == <<offset, buffer, valence, next, edge, parity, strip, taken>>
unstripVars == <<pos, start, out>>
vars        == <<phase, input, restarts, stripVars, unstripVars>>

-----------------------------------------------------------------------------
(* Searching the buffer. *)

NoMatch == [at |-> 0, corner |-> 0]

Found(match) == match.at > 0

\* The edge of t opposite its corner k.
Opposite(t, k) ==
  CASE k = 0 -> <<t[2], t[3]>>
    [] k = 1 -> <<t[3], t[1]>>
    [] k = 2 -> <<t[1], t[2]>>

\* A mistake: edges are matched in either direction.
StripNextUndirected(triangles, e0, e1) ==
  LET hits == {m \in [at : 1..Len(triangles), corner : 0..2] :
                 Opposite(triangles[m.at], m.corner) \in {<<e0, e1>>, <<e1, e0>>}}
  IN  IF hits = {} THEN NoMatch ELSE CHOOSE m \in hits : \A o \in hits : m.at <= o.at

\* findStripNext: the first triangle with the edge e0 e1; corner 2 is tried first.
StripNext(triangles, e0, e1) ==
  LET hits == {m \in [at : 1..Len(triangles), corner : 0..2] :
                 Opposite(triangles[m.at], m.corner) = <<e0, e1>>}
      before(m, o) == m.at < o.at \/ (m.at = o.at /\ (m.corner + 1) % 3 <= (o.corner + 1) % 3)
  IN  IF hits = {} THEN NoMatch ELSE CHOOSE m \in hits : \A o \in hits : before(m, o)

\* The minimum that the code computes: vc wins where va and vb are equal.
LeastValence(t, vals) ==
  LET va == vals[t[1]]
      vb == vals[t[2]]
      vc == vals[t[3]]
  IN  IF va < vb /\ va < vc THEN va ELSE IF vb < vc THEN vb ELSE vc

\* findStripFirst: the first of the triangles with the least valence.
StripFirst(triangles, vals) ==
  LET least(i) == LeastValence(triangles[i], vals)
  IN  CHOOSE i \in 1..Len(triangles) :
        \A j \in 1..Len(triangles) : least(i) < least(j) \/ (least(i) = least(j) /\ i <= j)

\* A mistake: the buffer has no capacity.
FilledWhole == buffer \o SubSeq(input, offset + 1, Len(input))

\* The buffer when an iteration starts: it has been filled.
Filled ==
  LET room == Capacity - Len(buffer)
      left == Len(input) - offset
  IN  buffer \o SubSeq(input, offset + 1, offset + IF room < left THEN room ELSE left)

Uses(t, v) == Cardinality({k \in 1..3 : t[k] = v})

\* Triangle at of the filled buffer is removed from it and no longer counted.
TakeTriangle(at) ==
  LET t == Filled[at]
  IN  /\ buffer' = RemoveAt(Filled, at)
      /\ offset' = offset + Len(Filled) - Len(buffer)
      /\ valence' = [v \in Vertices |-> (valence[v] - Uses(t, v)) % ValenceMod]
      /\ taken' = Append(taken, t)

-----------------------------------------------------------------------------
(* meshopt_stripify *)

Init ==
  /\ phase = "strip"
  /\ input \in UNION {[1..n -> Triangles] : n \in 0..MaxTriangles}
  /\ restarts \in BOOLEAN
  /\ offset = 0 /\ buffer = <<>>
  /\ valence = [v \in Vertices |->
       Cardinality({u \in (DOMAIN input) \X (1..3) : input[u[1]][u[2]] = v}) % ValenceMod]
  /\ next = NoMatch /\ edge = <<0, 0>> /\ parity = 0
  /\ strip = <<>> /\ pos = 0 /\ start = 0 /\ out = <<>> /\ taken = <<>>

Stripping == phase = "strip" /\ (buffer # <<>> \/ offset < Len(input))

\* The next triangle of the strip, its new vertex and the triangles that are left.
NextVertex == Filled[next.at][next.corner + 1]
Rest(at)   == RemoveAt(Filled, at)

\* The edge order flips with the parity.
Oriented(e0, e1) == IF parity = 1 THEN <<e1, e0>> ELSE <<e0, e1>>

FindEdge(triangles, e) == StripNext(triangles, e[1], e[2])

\* Over the edge of the new vertex and the newer one of the old...
Continuation == FindEdge(Rest(next.at), Oriented(NextVertex, edge[2]))

\* ... or, where the strip would end, of the new vertex and the older one.
Swapped == FindEdge(Rest(next.at), Oriented(edge[1], NextVertex))

\* The vertex is emitted; the strip goes on from it or ends.
Continue ==
  /\ Stripping /\ Found(next)
  /\ Found(Continuation) \/ ~Found(Swapped)
  /\ TakeTriangle(next.at)
  /\ strip' = Append(strip, NextVertex)
  /\ edge' = <<edge[2], NextVertex>>
  /\ parity' = 1 - parity
  /\ next' = Continuation
  /\ UNCHANGED <<phase, input, restarts, unstripVars>>

\* A mistake: the parity is flipped after a swap, too.
SwapFlipped ==
  /\ Stripping /\ Found(next)
  /\ ~Found(Continuation) /\ Found(Swapped)
  /\ TakeTriangle(next.at)
  /\ strip' = strip \o <<edge[1], NextVertex>>
  /\ edge' = <<edge[1], NextVertex>>
  /\ next' = Swapped
  /\ parity' = 1 - parity
  /\ UNCHANGED <<phase, input, restarts, unstripVars>>

\* [a b c] => [a b a c]: a degenerate triangle turns the strip to its other edge.
Swap ==
  /\ Stripping /\ Found(next)
  /\ ~Found(Continuation) /\ Found(Swapped)
  /\ TakeTriangle(next.at)
  /\ strip' = strip \o <<edge[1], NextVertex>>
  /\ edge' = <<edge[1], NextVertex>>
  /\ next' = Swapped
  /\ UNCHANGED <<phase, input, restarts, parity, unstripVars>>

\* The smallest of the matches found over the edges cb, ac and ba of a first triangle, in the
\* order of (index << 2) | corner; the triangle is rotated to leave over that edge.
Earlier(m, o) ==
  Found(m) /\ (Found(o) => m.at < o.at \/ (m.at = o.at /\ m.corner <= o.corner))

PreRotated(t, triangles) ==
  LET ea == StripNext(triangles, t[3], t[2])
      eb == StripNext(triangles, t[1], t[3])
      ec == StripNext(triangles, t[2], t[1])
  IN  CASE Earlier(ea, eb) /\ Earlier(ea, ec) -> [tri |-> t, next |-> ea]
        [] ~(Earlier(ea, eb) /\ Earlier(ea, ec)) /\ Earlier(eb, ec) ->
             [tri |-> <<t[2], t[3], t[1]>>, next |-> eb]
        [] ~(Earlier(ea, eb) /\ Earlier(ea, ec)) /\ ~Earlier(eb, ec) /\ Found(ec) ->
             [tri |-> <<t[3], t[1], t[2]>>, next |-> ec]
        [] OTHER -> [tri |-> t, next |-> NoMatch]

FirstAt == StripFirst(Filled, valence)
First   == PreRotated(Filled[FirstAt], Rest(FirstAt))

\* A new strip after a restart index; it always starts with the same winding.
StartStrip ==
  /\ Stripping /\ ~Found(next) /\ restarts
  /\ TakeTriangle(FirstAt)
  /\ strip' = strip \o (IF strip = <<>> THEN <<>> ELSE <<Restart>>) \o First.tri
  /\ edge' = <<First.tri[2], First.tri[3]>>
  /\ parity' = 1
  /\ next' = First.next
  /\ UNCHANGED <<phase, input, restarts, unstripVars>>

\* The first triangle may have to be flipped.
FirstEdge(t) == IF parity = 1 THEN <<t[3], t[2]>> ELSE <<t[2], t[3]>>

\* A new strip that degenerate triangles connect with the last one.
ConnectStrip ==
  /\ Stripping /\ ~Found(next) /\ ~restarts
  /\ TakeTriangle(FirstAt)
  /\ strip' = strip \o (IF strip = <<>> THEN <<>> ELSE <<edge[2], First.tri[1]>>)
                    \o <<First.tri[1]>> \o FirstEdge(First.tri)
  /\ edge' = FirstEdge(First.tri)
  /\ parity' = 1 - parity
  /\ next' = First.next
  /\ UNCHANGED <<phase, input, restarts, unstripVars>>

StripEnd ==
  /\ phase = "strip" /\ ~Stripping
  /\ phase' = "unstrip"
  /\ UNCHANGED <<input, restarts, stripVars, unstripVars>>

\* A mistake: nothing is added for the degenerate triangles that connect strips.
StripBoundTight(triangles) == 3 * triangles + 1

\* meshopt_stripifyBound
StripBound(triangles) == 5 * triangles

-----------------------------------------------------------------------------
(* meshopt_unstripify *)

Unstripping == phase = "unstrip" /\ pos < Len(strip)

UnstripRestart ==
  /\ Unstripping /\ restarts /\ strip[pos + 1] = Restart
  /\ start' = pos + 1
  /\ pos' = pos + 1
  /\ UNCHANGED <<phase, input, restarts, stripVars, out>>

\* A mistake: the winding goes by the position in the whole buffer.
TriangleAtAbsolute(i) ==
  LET a == strip[i - 2]
      b == strip[i - 1]
      c == strip[i]
  IN  IF (i - 1) % 2 = 1 THEN <<b, a, c>> ELSE <<a, b, c>>

\* Odd triangles of a strip are flipped.
TriangleAt(i) ==
  LET a == strip[i - 2]
      b == strip[i - 1]
      c == strip[i]
  IN  IF (i - 1 - start) % 2 = 1 THEN <<b, a, c>> ELSE <<a, b, c>>

Degenerate(t) == t[1] = t[2] \/ t[1] = t[3] \/ t[2] = t[3]

\* Degenerate triangles are skipped, and so are the first two indices of a strip.
UnstripIndex ==
  /\ Unstripping /\ ~(restarts /\ strip[pos + 1] = Restart)
  /\ out' = IF pos - start >= 2 /\ ~Degenerate(TriangleAt(pos + 1))
              THEN Append(out, TriangleAt(pos + 1)) ELSE out
  /\ pos' = pos + 1
  /\ UNCHANGED <<phase, input, restarts, stripVars, start>>

UnstripEnd ==
  /\ phase = "unstrip" /\ ~Unstripping
  /\ phase' = "done"
  /\ UNCHANGED <<input, restarts, stripVars, unstripVars>>

\* meshopt_unstripifyBound, in triangles; strips have no index or at least 3.
UnstripBound(indices) == IF indices = 0 THEN 0 ELSE indices - 2

Returned == phase = "done" /\ UNCHANGED vars

Next ==
  \/ Continue
  \/ Swap
  \/ StartStrip
  \/ ConnectStrip
  \/ StripEnd
  \/ UnstripRestart
  \/ UnstripIndex
  \/ UnstripEnd
  \/ Returned

Spec == Init /\ [][Next]_vars

-----------------------------------------------------------------------------
(* What the stripifier has to guarantee. *)

Triangle == Vertices \X Vertices \X Vertices

TypeOK ==
  /\ phase \in {"strip", "unstrip", "done"}
  /\ input \in Seq(Triangles) /\ restarts \in BOOLEAN
  /\ offset \in 0..Len(input)
  /\ buffer \in Seq(Triangles) /\ Len(buffer) < Capacity
  /\ valence \in [Vertices -> 0..ValenceMod - 1]
  /\ next \in [at : 0..Capacity, corner : 0..2]
  /\ edge \in Vertices \X Vertices /\ parity \in 0..1
  /\ strip \in Seq(Vertices \cup {Restart})
  /\ pos \in 0..Len(strip) /\ start \in 0..pos
  /\ out \in Seq(Triangle)
  /\ taken \in Seq(Triangles)

\* The number of indices before the strip that index i belongs to.
StripStart(indices, i) == Max({0} \cup {j \in 1..i : indices[j] = Restart})

\* Between two iterations the triangle that was announced is in the filled buffer, and its
\* announced corner is opposite the edge that the two last indices and the parity stand for:
\* the state that is carried along never disagrees with the strip that was written, and the
\* buffer never overflows.
InStep ==
  /\ TypeOK
  /\ phase = "strip" /\ strip # <<>> =>
      /\ edge = <<strip[Len(strip) - 1], strip[Len(strip)]>>
      /\ parity = (Len(strip) - StripStart(strip, Len(strip))) % 2
      /\ Found(next) =>
           /\ next.at <= Len(Filled)
           /\ Opposite(Filled[next.at], next.corner) = Oriented(edge[1], edge[2])

\* The triangles that are not degenerate, and a list of triangles whatever their order and rotation.
Solid(triangles) ==
  LET kept[n \in 0..Len(triangles)] ==
        IF n = 0 THEN <<>>
        ELSE IF Degenerate(triangles[n]) THEN kept[n - 1] ELSE Append(kept[n - 1], triangles[n])
  IN  kept[Len(triangles)]

Turns(t) == {t, <<t[2], t[3], t[1]>>, <<t[3], t[1], t[2]>>}

Unrotated(triangles) == ToBag([k \in 1..Len(triangles) |-> Turns(triangles[k])])

\* Every triangle that is not degenerate comes out once, in some rotation and with its winding,
\* and nothing else does (demo/tests.cpp, stripify); on the way a destination of
\* meshopt_stripifyBound indices always suffices, and one of meshopt_unstripifyBound indices back.
Complete ==
  /\ phase = "done" => Unrotated(out) = Unrotated(Solid(input))
  /\ Len(strip) <= StripBound(Len(taken))
  /\ Len(out) <= UnstripBound(Len(strip))

\* The triangles come out in the order in which they left the buffer: with the strips as a
\* channel, the two functions implement TriangleStream.
Stream == INSTANCE TriangleStream WITH
  Corner   <- Vertices,
  sent     <- Solid(taken),
  received <- out

StreamSpec == Stream!Spec
=============================================================================
