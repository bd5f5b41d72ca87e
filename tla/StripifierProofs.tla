--------------------------- MODULE StripifierProofs ---------------------------
(***************************************************************************)
(* Proofs about the stripifier, for every mesh, list of triangles, size of *)
(* the buffer and width of a valence, with and without restart indices.    *)
(***************************************************************************)
EXTENDS Stripifier, SetLemmas

Index == Vertices \cup {Restart}

LEMMA Constants ==
  /\ VertexCount \in Nat \ {0} /\ Restart \in Nat /\ Restart \notin Vertices
  /\ Triangles \subseteq Triangle /\ 0 \in Vertices /\ Vertices \subseteq Nat
  /\ Capacity \in Nat \ {0} /\ ValenceMod \in Nat \ {0} /\ MaxTriangles \in Nat
  BY VerticesAssumption, SizesAssumption DEF Vertices, Triangle

-----------------------------------------------------------------------------
(* The triangles that are not degenerate. *)

\* The function that defines Solid.
Kept(s) ==
  CHOOSE f : f = [n \in 0..Len(s) |->
                    IF n = 0 THEN <<>>
                    ELSE IF Degenerate(s[n]) THEN f[n - 1] ELSE Append(f[n - 1], s[n])]

\* Solid keeps or skips one triangle after the other.
LEMMA SolidSteps ==
  ASSUME NEW T, NEW s \in Seq(T)
  PROVE  \E g \in [0..Len(s) -> Seq(T)] :
           /\ g[0] = <<>>
           /\ \A n \in 1..Len(s) :
                g[n] = IF Degenerate(s[n]) THEN g[n - 1] ELSE Append(g[n - 1], s[n])
           /\ Solid(s) = g[Len(s)]
<1> DEFINE X == Seq(T)
           f == [p \in (1..Len(s)) \X X |->
                   IF Degenerate(s[p[1]]) THEN p[2] ELSE Append(p[2], s[p[1]])]
           Body(h) == [n \in 0..Len(s) |->
                         IF n = 0 THEN <<>>
                         ELSE IF Degenerate(s[n]) THEN h[n - 1] ELSE Append(h[n - 1], s[n])]
<1>1. Len(s) \in Nat /\ <<>> \in X /\ \A i \in 1..Len(s) : s[i] \in T
  OBVIOUS
<1>n. PICK m \in Nat : m = Len(s)
  BY <1>1
<1>2. f \in [(1..m) \X X -> X]
  <2>1. ASSUME NEW p \in (1..Len(s)) \X X
        PROVE  (IF Degenerate(s[p[1]]) THEN p[2] ELSE Append(p[2], s[p[1]])) \in X
    <3>1. p[1] \in 1..Len(s) /\ p[2] \in Seq(T)
      OBVIOUS
    <3> QED
      BY <1>1, <3>1, AppendProperties
  <2> QED
    BY <1>n, <2>1
<1>f. \A i \in 1..m, x \in X : f[<<i, x>>] = IF Degenerate(s[i]) THEN x ELSE Append(x, s[i])
  BY <1>n
<1>3. PICK g \in [0..m -> X] : g[0] = <<>> /\ \A i \in 1..m : g[i] = f[<<i, g[i - 1]>>]
  <2> HIDE DEF X, f
  <2>1. \E g \in [0..m -> X] : Recursive(g, m, <<>>, f)
    BY <1>1, <1>2, Recursion
  <2> QED
    BY <2>1 DEF Recursive
<1> HIDE DEF f
<1>4. \A n \in 1..Len(s) : g[n] = IF Degenerate(s[n]) THEN g[n - 1] ELSE Append(g[n - 1], s[n])
  <2> SUFFICES ASSUME NEW n \in 1..Len(s)
               PROVE  g[n] = IF Degenerate(s[n]) THEN g[n - 1] ELSE Append(g[n - 1], s[n])
    OBVIOUS
  <2>1. n \in 1..m /\ n - 1 \in 0..m
    BY <1>n
  <2>2. g[n - 1] \in X
    BY <1>3, <2>1
  <2>3. g[n] = f[<<n, g[n - 1]>>]
    BY <1>3, <2>1
  <2> QED
    BY <1>f, <2>1, <2>2, <2>3
<1>5. g = Body(g)
  <2>1. ASSUME NEW i \in 0..m PROVE Body(g)[i] = g[i]
    <3>1. CASE i = 0
      BY <1>n, <1>3, <3>1
    <3>2. CASE i # 0
      <4>1. i \in 1..Len(s)
        BY <1>n, <3>2
      <4> QED
        BY <1>n, <1>4, <3>2, <4>1
    <3> QED
      BY <3>1, <3>2
  <2> QED
    BY <1>n, <1>3, <2>1
<1>6. Kept(s) = Body(Kept(s))
  <2>1. \E h : h = Body(h)
    <3> HIDE DEF Body
    <3> QED
      BY <1>5
  <2> QED
    BY <2>1 DEF Kept
<1>7. \A n \in 0..Len(s) : Kept(s)[n] = g[n]
  <2> DEFINE I == {n \in Nat : n <= Len(s) => Kept(s)[n] = g[n]}
  <2>1. PICK k : k = Kept(s)
    OBVIOUS
  <2>2. k[0] = <<>> /\ \A n \in 1..Len(s) :
          k[n] = IF Degenerate(s[n]) THEN k[n - 1] ELSE Append(k[n - 1], s[n])
    <3>1. k = Body(k)
      BY <1>6, <2>1
    <3>2. \A n \in 0..m : Body(k)[n] = IF n = 0 THEN <<>>
            ELSE IF Degenerate(s[n]) THEN k[n - 1] ELSE Append(k[n - 1], s[n])
      BY <1>n
    <3> HIDE DEF Body
    <3>3. \A n \in 0..m : k[n] = IF n = 0 THEN <<>>
            ELSE IF Degenerate(s[n]) THEN k[n - 1] ELSE Append(k[n - 1], s[n])
      BY <3>1, <3>2
    <3> QED
      BY <1>n, <3>3
  <2>3. 0 \in I
    BY <1>3, <2>1, <2>2
  <2>4. ASSUME NEW n \in Nat, n \in I PROVE n + 1 \in I
    <3>1. ASSUME n + 1 <= Len(s) PROVE Kept(s)[n + 1] = g[n + 1]
      <4>1. n + 1 \in 1..Len(s) /\ (n + 1) - 1 = n /\ k[n] = g[n]
        BY <1>1, <2>1, <2>4, <3>1
      <4> QED
        BY <1>4, <2>1, <2>2, <4>1
    <3> QED
      BY <3>1
  <2>5. Nat \subseteq I
    <3> HIDE DEF I
    <3> QED
      BY <2>3, <2>4, NatSetInduction
  <2> QED
    BY <1>1, <2>5
<1>8. Solid(s) = Kept(s)[Len(s)]
  BY DEF Solid, Kept
<1>9. Solid(s) = g[Len(s)]
  <2>1. Len(s) \in 0..Len(s)
    BY <1>1
  <2> QED
    BY <1>7, <1>8, <2>1
<1> HIDE DEF Body
<1> QED
  BY <1>n, <1>3, <1>4, <1>9

LEMMA SolidType == ASSUME NEW T, NEW s \in Seq(T) PROVE Solid(s) \in Seq(T)
<1>1. PICK g \in [0..Len(s) -> Seq(T)] : Solid(s) = g[Len(s)]
  BY SolidSteps
<1>2. Len(s) \in 0..Len(s)
  OBVIOUS
<1> QED
  BY <1>1, <1>2

LEMMA SolidEmpty == Solid(<<>>) = <<>>
<1>e. <<>> \in Seq({})
  OBVIOUS
<1>1. PICK s \in Seq({}) : s = <<>>
  BY <1>e, ZenonT(30)
<1>2. \E g \in [0..Len(s) -> Seq({})] : g[0] = <<>> /\ Solid(s) = g[Len(s)]
  BY SolidSteps, ZenonT(30)
<1>3. Len(s) = 0
  BY <1>1
<1> QED
  BY <1>1, <1>2, <1>3

\* One more triangle is kept or skipped.
LEMMA SolidAppend ==
  ASSUME NEW T, NEW s \in Seq(T), NEW t \in T
  PROVE  Solid(Append(s, t)) = IF Degenerate(t) THEN Solid(s) ELSE Append(Solid(s), t)
<1> DEFINE a == Append(s, t)
<1>1. PICK n \in Nat : n = Len(s)
  OBVIOUS
<1>2. a \in Seq(T) /\ Len(a) = n + 1 /\ a[n + 1] = t /\ \A i \in 1..n : a[i] = s[i]
  BY <1>1, Enqueue
<1> HIDE DEF a
<1>3. PICK g \in [0..n -> Seq(T)] :
        /\ g[0] = <<>>
        /\ \A i \in 1..n : g[i] = IF Degenerate(s[i]) THEN g[i - 1] ELSE Append(g[i - 1], s[i])
        /\ Solid(s) = g[n]
  BY <1>1, SolidSteps
<1>l. PICK m \in Nat : m = n + 1
  OBVIOUS
<1>4. PICK h \in [0..m -> Seq(T)] :
        /\ h[0] = <<>>
        /\ \A i \in 1..m : h[i] = IF Degenerate(a[i]) THEN h[i - 1] ELSE Append(h[i - 1], a[i])
        /\ Solid(a) = h[m]
  <2>1. PICK b : b = a
    OBVIOUS
  <2>2. b \in Seq(T) /\ Len(b) = m
    BY <1>2, <1>l, <2>1
  <2>3. \E h \in [0..Len(b) -> Seq(T)] :
          /\ h[0] = <<>>
          /\ \A i \in 1..Len(b) : h[i] = IF Degenerate(b[i]) THEN h[i - 1] ELSE Append(h[i - 1], b[i])
          /\ Solid(b) = h[Len(b)]
    BY <2>2, SolidSteps
  <2> QED
    BY <2>1, <2>2, <2>3
<1> DEFINE I == {i \in Nat : i <= n => h[i] = g[i]}
<1>5. 0 \in I
  BY <1>3, <1>4
<1>6. ASSUME NEW i \in Nat, i \in I PROVE i + 1 \in I
  <2>1. ASSUME i + 1 <= n PROVE h[i + 1] = g[i + 1]
    <3>1. i + 1 \in 1..n /\ i + 1 \in 1..m /\ (i + 1) - 1 = i /\ h[i] = g[i]
      BY <1>l, <1>6, <2>1
    <3> QED
      BY <1>2, <1>3, <1>4, <3>1
  <2> QED
    BY <2>1
<1>7. Nat \subseteq I
  <2> HIDE DEF I
  <2> QED
    BY <1>5, <1>6, NatSetInduction
<1>8. h[n] = g[n]
  BY <1>7
<1>9. n + 1 \in 1..m /\ (n + 1) - 1 = n
  BY <1>l
<1>10. h[n + 1] = IF Degenerate(t) THEN h[n] ELSE Append(h[n], t)
  BY <1>2, <1>4, <1>9
<1> QED
  BY <1>l, <1>3, <1>4, <1>8, <1>10 DEF a

\* What the first triangles keep is where what all of them keep begins.
LEMMA SolidPrefix ==
  ASSUME NEW T, NEW s \in Seq(T), NEW k \in 0..Len(s)
  PROVE  /\ Len(Solid(SubSeq(s, 1, k))) <= Len(Solid(s))
         /\ \A i \in 1..Len(Solid(SubSeq(s, 1, k))) : Solid(SubSeq(s, 1, k))[i] = Solid(s)[i]
<1> DEFINE P(j) == Solid(SubSeq(s, 1, j))
           I == {m \in Nat : k + m <= Len(s) =>
                               /\ Len(P(k)) <= Len(P(k + m))
                               /\ \A i \in 1..Len(P(k)) : P(k)[i] = P(k + m)[i]}
<1>1. PICK n \in Nat : n = Len(s)
  OBVIOUS
<1>2. \A j \in 0..n : SubSeq(s, 1, j) \in Seq(T)
  BY <1>1, SubSeqProperties
<1>3. \A j \in 0..n : P(j) \in Seq(T) /\ Len(P(j)) \in Nat
  <2>1. \A j \in 0..n : P(j) \in Seq(T)
    BY <1>2, SolidType
  <2> HIDE DEF P
  <2> QED
    BY <2>1
<1>4. ASSUME NEW j \in Nat, j + 1 <= n
      PROVE  P(j + 1) = IF Degenerate(s[j + 1]) THEN P(j) ELSE Append(P(j), s[j + 1])
  <2>1. SubSeq(s, 1, j + 1) = Append(SubSeq(s, 1, j), s[j + 1])
    BY <1>1, <1>4
  <2>2. SubSeq(s, 1, j) \in Seq(T) /\ s[j + 1] \in T
    BY <1>1, <1>2, <1>4
  <2> QED
    BY <2>1, <2>2, SolidAppend
<1> HIDE DEF P
<1>5. k + 0 = k
  OBVIOUS
<1>6. 0 \in I
  BY <1>1, <1>3, <1>5
<1>7. ASSUME NEW m \in Nat, m \in I PROVE m + 1 \in I
  <2>1. ASSUME k + (m + 1) <= n
        PROVE  /\ Len(P(k)) <= Len(P(k + (m + 1)))
               /\ \A i \in 1..Len(P(k)) : P(k)[i] = P(k + (m + 1))[i]
    <3>1. k + m \in Nat /\ k + m <= n /\ k + m \in 0..n /\ k \in 0..n /\ (k + m) + 1 <= n
          /\ k + (m + 1) = (k + m) + 1
      BY <1>1, <2>1
    <3>2. Len(P(k)) <= Len(P(k + m)) /\ \A i \in 1..Len(P(k)) : P(k)[i] = P(k + m)[i]
      BY <1>1, <1>7, <3>1
    <3>3. PICK p \in Seq(T) : p = P(k + m)
      BY <1>3, <3>1
    <3>4. s[k + m + 1] \in T
      BY <1>1, <3>1
    <3>5. P((k + m) + 1) \in {p, Append(p, s[k + m + 1])}
      BY <1>4, <3>1, <3>3
    <3>6. Len(Append(p, s[k + m + 1])) = Len(p) + 1
          /\ \A i \in 1..Len(p) : Append(p, s[k + m + 1])[i] = p[i]
      BY <3>4, Enqueue
    <3>7. Len(p) \in Nat /\ Len(P(k)) \in Nat
      BY <1>3, <3>1
    <3>8. CASE P(k + (m + 1)) = p
      BY <3>2, <3>3, <3>8
    <3>9. CASE P(k + (m + 1)) = Append(p, s[k + m + 1])
      <4>1. PICK q : q = Append(p, s[k + m + 1])
        OBVIOUS
      <4>2. Len(p) <= Len(q) /\ \A i \in 1..Len(p) : q[i] = p[i]
        BY <3>6, <3>7, <4>1
      <4>3. Len(P(k)) <= Len(p) /\ \A i \in 1..Len(P(k)) : P(k)[i] = p[i]
        BY <3>2, <3>3
      <4>4. Len(q) \in Nat
        BY <3>6, <3>7, <4>1
      <4> QED
        BY <3>7, <3>9, <4>1, <4>2, <4>3, <4>4
    <3> QED
      BY <3>1, <3>3, <3>5, <3>8, <3>9
  <2> QED
    BY <1>1, <2>1
<1>8. Nat \subseteq I
  <2> HIDE DEF I
  <2> QED
    BY <1>6, <1>7, NatSetInduction
<1>9. n - k \in Nat /\ k + (n - k) = n
  BY <1>1
<1>10. Len(P(k)) <= Len(P(n)) /\ \A i \in 1..Len(P(k)) : P(k)[i] = P(n)[i]
  BY <1>1, <1>8, <1>9
<1>11. P(n) = Solid(s)
  BY <1>1, SubSeqFull DEF P
<1> QED
  BY <1>10, <1>11 DEF P

-----------------------------------------------------------------------------
(* Searching the buffer. *)

MatchSet(n) == [at : 0..n, corner : 0..2]

\* What is found has the edge that was looked for.
LEMMA StripNextFinds ==
  ASSUME NEW q \in Seq(Triangles), NEW a, NEW b
  PROVE  /\ StripNext(q, a, b) \in MatchSet(Len(q))
         /\ Found(StripNext(q, a, b)) =>
              Opposite(q[StripNext(q, a, b).at], StripNext(q, a, b).corner) = <<a, b>>
<1> DEFINE hits == {m \in [at : 1..Len(q), corner : 0..2] : Opposite(q[m.at], m.corner) = <<a, b>>}
           before(m, o) == m.at < o.at \/ (m.at = o.at /\ (m.corner + 1) % 3 <= (o.corner + 1) % 3)
           rank(m) == (3 * m.at) + ((m.corner + 1) % 3)
<1>1. StripNext(q, a, b) = IF hits = {} THEN NoMatch ELSE CHOOSE m \in hits : \A o \in hits : before(m, o)
  BY DEF StripNext
<1>2. \A m \in hits : m.at \in Nat /\ m.corner \in 0..2 /\ (m.corner + 1) % 3 \in 0..2
  OBVIOUS
<1>3. hits \subseteq [at : 1..Len(q), corner : 0..2]
  OBVIOUS
<1>4. \A m \in hits : Opposite(q[m.at], m.corner) = <<a, b>>
  OBVIOUS
<1> HIDE DEF hits
<1>5. ASSUME hits # {} PROVE \E m \in hits : \A o \in hits : before(m, o)
  <2> DEFINE R == {rank(m) : m \in hits}
  <2>1. R \subseteq Nat /\ R # {}
    BY <1>2, <1>5
  <2>2. PICK r \in R : \A s \in R : r <= s
    <3> HIDE DEF R
    <3> QED
      BY <2>1, LeastNumber
  <2>3. PICK m \in hits : r = rank(m)
    BY <2>2
  <2>4. ASSUME NEW o \in hits PROVE before(m, o)
    <3>1. rank(m) <= rank(o)
      BY <2>2, <2>3
    <3>2. PICK i \in Nat, j \in 0..2 : i = m.at /\ j = (m.corner + 1) % 3
      BY <1>2
    <3>3. PICK k \in Nat, l \in 0..2 : k = o.at /\ l = (o.corner + 1) % 3
      BY <1>2
    <3>4. (3 * i) + j <= (3 * k) + l
      BY <3>1, <3>2, <3>3
    <3>5. i < k \/ (i = k /\ j <= l)
      BY <3>4
    <3> QED
      BY <3>2, <3>3, <3>5
  <2> QED
    BY <2>4
<1> HIDE DEF before
<1>6. CASE hits = {}
  <2>1. StripNext(q, a, b) = NoMatch
    BY <1>1, <1>6
  <2> QED
    BY <2>1 DEF NoMatch, Found, MatchSet
<1>7. CASE hits # {}
  <2>1. StripNext(q, a, b) \in hits
    BY <1>1, <1>5, <1>7
  <2> QED
    BY <1>3, <1>4, <2>1 DEF MatchSet
<1> QED
  BY <1>6, <1>7

LEMMA StripFirstFinds ==
  ASSUME NEW q \in Seq(Triangles), q # <<>>, NEW vals \in [Vertices -> 0..ValenceMod - 1]
  PROVE  StripFirst(q, vals) \in 1..Len(q)
<1> DEFINE least(i) == LeastValence(q[i], vals)
           D == 1..Len(q)
<1>1. Len(q) \in Nat /\ 1 \in D
  OBVIOUS
<1>2. \A i \in D : least(i) \in Nat
  <2> SUFFICES ASSUME NEW i \in D PROVE least(i) \in Nat
    OBVIOUS
  <2>1. q[i] \in Triangle
    BY Constants
  <2>2. \A t \in Triangle : vals[t[1]] \in Nat /\ vals[t[2]] \in Nat /\ vals[t[3]] \in Nat
    BY DEF Triangle
  <2> QED
    BY <2>1, <2>2 DEF LeastValence
<1> DEFINE R == {least(i) : i \in D}
<1> HIDE DEF least, D
<1>3. R \subseteq Nat /\ R # {}
  BY <1>1, <1>2
<1>4. PICK r \in R : \A s \in R : r <= s
  <2> HIDE DEF R
  <2> QED
    BY <1>3, LeastNumber
<1> DEFINE E == {i \in D : least(i) = r}
<1>5. E \subseteq Nat /\ E # {}
  BY <1>4 DEF D
<1>6. PICK i \in E : \A j \in E : i <= j
  <2> HIDE DEF E
  <2> QED
    BY <1>5, LeastNumber
<1>7. ASSUME NEW j \in D PROVE least(i) < least(j) \/ (least(i) = least(j) /\ i <= j)
  <2>1. least(i) = r /\ r <= least(j) /\ i \in D
    BY <1>4, <1>6
  <2>2. CASE least(j) = r
    BY <1>6, <2>1, <2>2
  <2>3. CASE least(j) # r
    BY <1>2, <2>1, <2>3
  <2> QED
    BY <2>2, <2>3
<1>8. \E k \in D : \A j \in D : least(k) < least(j) \/ (least(k) = least(j) /\ k <= j)
  BY <1>6, <1>7
<1>9. StripFirst(q, vals)
        = CHOOSE k \in D : \A j \in D : least(k) < least(j) \/ (least(k) = least(j) /\ k <= j)
  BY DEF StripFirst, D, least
<1>10. StripFirst(q, vals) \in D
  BY <1>8, <1>9
<1> QED
  BY <1>10 DEF D

\* A first triangle is turned so that the strip goes on over its last edge.
LEMMA PreRotatedTurns ==
  ASSUME NEW t \in Triangle, NEW q \in Seq(Triangles)
  PROVE  LET r == PreRotated(t, q)
         IN  /\ r.tri \in Turns(t) /\ r.tri \in Triangle
             /\ r.next \in MatchSet(Len(q))
             /\ Found(r.next) => Opposite(q[r.next.at], r.next.corner) = <<r.tri[3], r.tri[2]>>
<1> DEFINE ea == StripNext(q, t[3], t[2])
           eb == StripNext(q, t[1], t[3])
           ec == StripNext(q, t[2], t[1])
           good(r) == /\ r.tri \in Turns(t) /\ r.tri \in Triangle
                      /\ r.next \in MatchSet(Len(q))
                      /\ Found(r.next) => Opposite(q[r.next.at], r.next.corner) = <<r.tri[3], r.tri[2]>>
<1>1. ea \in MatchSet(Len(q)) /\ (Found(ea) => Opposite(q[ea.at], ea.corner) = <<t[3], t[2]>>)
  BY StripNextFinds
<1>2. eb \in MatchSet(Len(q)) /\ (Found(eb) => Opposite(q[eb.at], eb.corner) = <<t[1], t[3]>>)
  BY StripNextFinds
<1>3. ec \in MatchSet(Len(q)) /\ (Found(ec) => Opposite(q[ec.at], ec.corner) = <<t[2], t[1]>>)
  BY StripNextFinds
<1>4. NoMatch \in MatchSet(Len(q)) /\ ~Found(NoMatch)
  BY DEF NoMatch, MatchSet, Found
<1>5. PreRotated(t, q) \in {[tri |-> t, next |-> ea], [tri |-> <<t[2], t[3], t[1]>>, next |-> eb],
                            [tri |-> <<t[3], t[1], t[2]>>, next |-> ec], [tri |-> t, next |-> NoMatch]}
  <2> HIDE DEF ea, eb, ec
  <2>1. PreRotated(t, q) =
          CASE Earlier(ea, eb) /\ Earlier(ea, ec) -> [tri |-> t, next |-> ea]
            [] ~(Earlier(ea, eb) /\ Earlier(ea, ec)) /\ Earlier(eb, ec) ->
                 [tri |-> <<t[2], t[3], t[1]>>, next |-> eb]
            [] ~(Earlier(ea, eb) /\ Earlier(ea, ec)) /\ ~Earlier(eb, ec) /\ Found(ec) ->
                 [tri |-> <<t[3], t[1], t[2]>>, next |-> ec]
            [] OTHER -> [tri |-> t, next |-> NoMatch]
    BY DEF PreRotated, ea, eb, ec
  <2> QED
    BY <2>1
<1> HIDE DEF ea, eb, ec
<1>6. t[1] \in Vertices /\ t[2] \in Vertices /\ t[3] \in Vertices /\ t = <<t[1], t[2], t[3]>>
  BY DEF Triangle
<1>7. <<t[2], t[3], t[1]>> \in Triangle /\ <<t[3], t[1], t[2]>> \in Triangle
  BY <1>6 DEF Triangle
<1>8. good([tri |-> t, next |-> ea])
  BY <1>1 DEF Turns
<1>9. good([tri |-> <<t[2], t[3], t[1]>>, next |-> eb])
  BY <1>2, <1>7 DEF Turns
<1>10. good([tri |-> <<t[3], t[1], t[2]>>, next |-> ec])
  BY <1>3, <1>7 DEF Turns
<1>11. good([tri |-> t, next |-> NoMatch])
  BY <1>4 DEF Turns
<1>12. good(PreRotated(t, q))
  <2> HIDE DEF good
  <2> QED
    BY <1>5, <1>8, <1>9, <1>10, <1>11
<1> QED
  BY <1>12

-----------------------------------------------------------------------------
(* The triangles that a strip stands for. *)

\* The triangle that index i of a strip ends, or a degenerate one where it ends none.
RawAt(s, i) ==
  LET b == StripStart(s, i)
  IN  IF i - 1 - b < 2 THEN <<0, 0, 0>>
      ELSE IF (i - 1 - b) % 2 = 1 THEN <<s[i - 1], s[i - 2], s[i]>> ELSE <<s[i - 2], s[i - 1], s[i]>>

Raw(s) == [i \in 1..Len(s) |-> RawAt(s, i)]

LEMMA StripStartIs ==
  ASSUME NEW s, NEW i \in Nat
  PROVE  /\ StripStart(s, i) \in 0..i
         /\ \A j \in 1..i : s[j] = Restart => j <= StripStart(s, i)
         /\ StripStart(s, i) # 0 => s[StripStart(s, i)] = Restart
<1> DEFINE S == {0} \cup {j \in 1..i : s[j] = Restart}
<1>1. S \subseteq 0..i /\ S # {} /\ \A j \in S : j = 0 \/ s[j] = Restart
  OBVIOUS
<1>2. \A j \in 1..i : s[j] = Restart => j \in S
  OBVIOUS
<1>3. StripStart(s, i) = CHOOSE x \in S : \A y \in S : x >= y
  BY DEF StripStart, Max
<1> HIDE DEF S
<1>4. PICK x \in S : \A y \in S : y <= x
  BY <1>1, GreatestNumber
<1>5. \A y \in S : x >= y
  BY <1>1, <1>4
<1>6. StripStart(s, i) \in S /\ \A y \in S : StripStart(s, i) >= y
  BY <1>3, <1>4, <1>5
<1> QED
  BY <1>1, <1>2, <1>6

\* Where a strip starts depends on the indices before only, and changes at a restart.
LEMMA StripStartSame ==
  ASSUME NEW r, NEW s, NEW i \in Nat, \A j \in 1..i : r[j] = s[j]
  PROVE  StripStart(r, i) = StripStart(s, i)
<1>1. {j \in 1..i : r[j] = Restart} = {j \in 1..i : s[j] = Restart}
  OBVIOUS
<1> QED
  BY <1>1 DEF StripStart

LEMMA StripStartNext ==
  ASSUME NEW s, NEW i \in Nat
  PROVE  StripStart(s, i + 1) = IF s[i + 1] = Restart THEN i + 1 ELSE StripStart(s, i)
<1>1. /\ StripStart(s, i + 1) \in 0..i + 1
      /\ \A j \in 1..i + 1 : s[j] = Restart => j <= StripStart(s, i + 1)
      /\ StripStart(s, i + 1) # 0 => s[StripStart(s, i + 1)] = Restart
  BY StripStartIs
<1>2. CASE s[i + 1] = Restart
  BY <1>1, <1>2
<1>3. CASE s[i + 1] # Restart
  <2>1. {j \in 1..i + 1 : s[j] = Restart} = {j \in 1..i : s[j] = Restart}
    BY <1>3
  <2> QED
    BY <1>3, <2>1 DEF StripStart
<1> QED
  BY <1>2, <1>3

LEMMA RawType ==
  ASSUME NEW s \in Seq(Index)
  PROVE  /\ \A i \in 1..Len(s) : RawAt(s, i) \in Triangle
         /\ Raw(s) \in Seq(Triangle) /\ Len(Raw(s)) = Len(s)
         /\ \A i \in 1..Len(s) : Raw(s)[i] = RawAt(s, i)
<1>1. ASSUME NEW i \in 1..Len(s) PROVE RawAt(s, i) \in Triangle
  <2>1. PICK b : b = StripStart(s, i)
    OBVIOUS
  <2>2. b \in 0..i /\ \A j \in 1..i : s[j] = Restart => j <= b
    BY <2>1, StripStartIs
  <2>3. CASE i - 1 - b < 2
    BY <2>1, <2>3, Constants DEF RawAt, Triangle
  <2>4. CASE ~ (i - 1 - b < 2)
    <3>1. i - 2 \in 1..Len(s) /\ i - 1 \in 1..Len(s) /\ i - 2 > b
      BY <2>2, <2>4
    <3>2. s[i - 2] \in Vertices /\ s[i - 1] \in Vertices /\ s[i] \in Vertices
      BY <2>2, <3>1 DEF Index
    <3> QED
      BY <2>1, <2>4, <3>2 DEF RawAt, Triangle
  <2> QED
    BY <2>3, <2>4
<1>2. Len(s) \in Nat
  OBVIOUS
<1>3. Raw(s) \in [1..Len(s) -> Triangle]
  BY <1>1 DEF Raw
<1>4. Raw(s) \in Seq(Triangle) /\ Len(Raw(s)) = Len(s)
  BY <1>2, <1>3
<1> QED
  BY <1>1, <1>4 DEF Raw

LEMMA RawAppend ==
  ASSUME NEW s \in Seq(Index), NEW x \in Index
  PROVE  Raw(Append(s, x)) = Append(Raw(s), RawAt(Append(s, x), Len(s) + 1))
<1> DEFINE a == Append(s, x)
<1>1. PICK n \in Nat : n = Len(s)
  OBVIOUS
<1>2. a \in Seq(Index) /\ Len(a) = n + 1 /\ \A i \in 1..n : a[i] = s[i]
  BY <1>1, Enqueue
<1> HIDE DEF a
<1>3. Raw(s) \in Seq(Triangle) /\ Len(Raw(s)) = n /\ \A i \in 1..n : Raw(s)[i] = RawAt(s, i)
  BY <1>1, RawType
<1>4. /\ Raw(a) \in Seq(Triangle) /\ Len(Raw(a)) = n + 1
      /\ \A i \in 1..n + 1 : Raw(a)[i] = RawAt(a, i)
      /\ RawAt(a, n + 1) \in Triangle
  <2>1. PICK m \in Nat : m = n + 1
    OBVIOUS
  <2>2. /\ Raw(a) \in Seq(Triangle) /\ Len(Raw(a)) = m
        /\ \A i \in 1..m : Raw(a)[i] = RawAt(a, i) /\ RawAt(a, i) \in Triangle
    BY <1>2, <2>1, RawType
  <2> QED
    BY <2>1, <2>2
<1>5. ASSUME NEW i \in 1..n PROVE RawAt(a, i) = RawAt(s, i)
  <2>1. StripStart(a, i) = StripStart(s, i)
    BY <1>2, StripStartSame
  <2>2. StripStart(s, i) \in 0..i
    BY StripStartIs
  <2>3. PICK b : b = StripStart(s, i)
    OBVIOUS
  <2>4. CASE i - 1 - b < 2
    BY <2>1, <2>3, <2>4 DEF RawAt
  <2>5. CASE ~ (i - 1 - b < 2)
    <3>1. i - 2 \in 1..n /\ i - 1 \in 1..n
      BY <2>2, <2>3, <2>5
    <3>2. a[i - 2] = s[i - 2] /\ a[i - 1] = s[i - 1] /\ a[i] = s[i]
      BY <1>2, <3>1
    <3> QED
      BY <2>1, <2>3, <3>2 DEF RawAt
  <2> QED
    BY <2>4, <2>5
<1>6. PICK q, r, t : q = Append(r, t) /\ r = Raw(s) /\ t = RawAt(a, n + 1)
  OBVIOUS
<1>7. /\ q \in Seq(Triangle) /\ Len(q) = n + 1 /\ q[n + 1] = RawAt(a, n + 1)
      /\ \A i \in 1..n : q[i] = RawAt(s, i)
  <2>1. r \in Seq(Triangle) /\ t \in Triangle /\ Len(r) = n
    BY <1>3, <1>4, <1>6
  <2>2. q \in Seq(Triangle) /\ Len(q) = n + 1 /\ q[n + 1] = t /\ \A i \in 1..n : q[i] = r[i]
    BY <1>6, <2>1, Enqueue
  <2> QED
    BY <1>3, <1>6, <2>2
<1>8. \A i \in 1..n + 1 : q[i] = Raw(a)[i]
  BY <1>4, <1>5, <1>7
<1>9. q = Raw(a)
  BY <1>4, <1>7, <1>8, SeqEqual
<1> QED
  BY <1>1, <1>6, <1>9 DEF a

\* What one more index adds to what a strip stands for.
Decoded(s) == Solid(Raw(s))

LEMMA DecodedAppend ==
  ASSUME NEW s \in Seq(Index), NEW x \in Vertices
  PROVE  LET n == Len(s)
             b == StripStart(s, n)
             t == IF (n - b) % 2 = 1 THEN <<s[n], s[n - 1], x>> ELSE <<s[n - 1], s[n], x>>
         IN  /\ Append(s, x) \in Seq(Index) /\ Len(Append(s, x)) = n + 1
             /\ StripStart(Append(s, x), n + 1) = b
             /\ Decoded(Append(s, x)) =
                  IF n - b < 2 \/ Degenerate(t) THEN Decoded(s) ELSE Append(Decoded(s), t)
<1> DEFINE a == Append(s, x)
<1>1. PICK n \in Nat : n = Len(s)
  OBVIOUS
<1>2. PICK b : b = StripStart(s, n)
  OBVIOUS
<1>3. x \in Index
  BY DEF Index
<1>4. a \in Seq(Index) /\ Len(a) = n + 1 /\ a[n + 1] = x /\ \A i \in 1..n : a[i] = s[i]
  BY <1>1, <1>3, Enqueue
<1>5. Raw(a) = Append(Raw(s), RawAt(a, n + 1))
  BY <1>1, <1>3, RawAppend
<1> HIDE DEF a
<1>6. b \in 0..n
  BY <1>2, StripStartIs
<1>7. StripStart(a, n + 1) = b
  <2>1. StripStart(a, n) = b
    BY <1>2, <1>4, StripStartSame
  <2>2. a[n + 1] # Restart
    BY <1>4, Constants
  <2> QED
    BY <2>1, <2>2, StripStartNext
<1> DEFINE t == IF (n - b) % 2 = 1 THEN <<s[n], s[n - 1], x>> ELSE <<s[n - 1], s[n], x>>
<1>8. RawAt(a, n + 1) = IF n - b < 2 THEN <<0, 0, 0>> ELSE t
  <2>1. (n + 1) - 1 = n /\ (n + 1) - 2 = n - 1
    OBVIOUS
  <2>2. RawAt(a, n + 1) = IF n - b < 2 THEN <<0, 0, 0>>
                          ELSE IF (n - b) % 2 = 1 THEN <<a[n], a[n - 1], a[n + 1]>> ELSE <<a[n - 1], a[n], a[n + 1]>>
    BY <1>7, <2>1 DEF RawAt
  <2>3. CASE n - b < 2
    BY <2>2, <2>3
  <2>4. CASE ~ (n - b < 2)
    <3>1. n - 1 \in 1..n /\ n \in 1..n
      BY <1>6, <2>4
    <3> QED
      BY <1>4, <2>2, <2>4, <3>1
  <2> QED
    BY <2>3, <2>4
<1>9. Raw(s) \in Seq(Triangle) /\ RawAt(a, n + 1) \in Triangle
  <2>1. Raw(s) \in Seq(Triangle)
    BY RawType
  <2>2. n + 1 \in 1..Len(a)
    BY <1>4
  <2>3. RawAt(a, n + 1) \in Triangle
    BY <1>4, <2>2, RawType
  <2> QED
    BY <2>1, <2>3
<1> HIDE DEF t
<1>10. Decoded(a) = IF Degenerate(RawAt(a, n + 1)) THEN Decoded(s) ELSE Append(Decoded(s), RawAt(a, n + 1))
  BY <1>5, <1>9, SolidAppend DEF Decoded
<1>11. Degenerate(<<0, 0, 0>>)
  BY DEF Degenerate
<1>12. Decoded(a) = IF n - b < 2 \/ Degenerate(t) THEN Decoded(s) ELSE Append(Decoded(s), t)
  BY <1>8, <1>10, <1>11
<1> QED
  BY <1>1, <1>2, <1>4, <1>7, <1>12 DEF a, t

\* A restart index adds nothing.
LEMMA DecodedRestart ==
  ASSUME NEW s \in Seq(Index)
  PROVE  /\ Append(s, Restart) \in Seq(Index) /\ Len(Append(s, Restart)) = Len(s) + 1
         /\ StripStart(Append(s, Restart), Len(s) + 1) = Len(s) + 1
         /\ Decoded(Append(s, Restart)) = Decoded(s)
<1> DEFINE a == Append(s, Restart)
<1>1. PICK n \in Nat : n = Len(s)
  OBVIOUS
<1>2. Restart \in Index
  BY DEF Index
<1>3. a \in Seq(Index) /\ Len(a) = n + 1 /\ a[n + 1] = Restart
  BY <1>1, <1>2, Enqueue
<1>4. Raw(a) = Append(Raw(s), RawAt(a, n + 1))
  BY <1>1, <1>2, RawAppend
<1> HIDE DEF a
<1>5. StripStart(a, n + 1) = n + 1
  BY <1>3, StripStartNext
<1>6. RawAt(a, n + 1) = <<0, 0, 0>>
  <2>1. (n + 1) - 1 - (n + 1) < 2
    OBVIOUS
  <2> QED
    BY <1>5, <2>1 DEF RawAt
<1>7. Raw(s) \in Seq(Triangle) /\ <<0, 0, 0>> \in Triangle /\ Degenerate(<<0, 0, 0>>)
  BY RawType, Constants DEF Degenerate, Triangle
<1>8. Decoded(a) = Decoded(s)
  BY <1>4, <1>6, <1>7, SolidAppend DEF Decoded
<1> QED
  BY <1>1, <1>3, <1>5, <1>8 DEF a

-----------------------------------------------------------------------------
(* The inductive invariant. *)

\* The edge and the parity say where a strip stands.
Stands(s, e, p) ==
  /\ s \in Seq(Index) /\ Len(s) - StripStart(s, Len(s)) >= 2
  /\ e \in Vertices \X Vertices /\ e = <<s[Len(s) - 1], s[Len(s)]>>
  /\ p \in 0..1 /\ p = (Len(s) - StripStart(s, Len(s))) % 2

\* The edge that the next triangle has to have.
Ahead(e, p) == IF p = 1 THEN <<e[2], e[1]>> ELSE e

\* What was found is in the triangles q and has the edge.
Leads(m, q, e, p) == Found(m) => m.at <= Len(q) /\ Opposite(q[m.at], m.corner) = Ahead(e, p)

\* The triangles r are the triangles s, each possibly turned.
Matched(r, s) == Len(r) = Len(s) /\ \A k \in 1..Len(s) : r[k] \in Turns(s[k])

StripInv ==
  /\ TypeOK
  /\ ~restarts => strip \in Seq(Vertices)
  /\ strip # <<>> => Len(strip) >= 2
  /\ phase = "strip" =>
       /\ pos = 0 /\ start = 0 /\ out = <<>>
       /\ strip = <<>> => ~Found(next) /\ parity = 0
       /\ strip # <<>> => Stands(strip, edge, parity) /\ Leads(next, Filled, edge, parity)
  /\ phase # "strip" =>
       /\ buffer = <<>> /\ offset = Len(input)
       /\ start = StripStart(strip, pos)
       /\ out = Solid(SubSeq(Raw(strip), 1, pos))
  /\ phase = "done" => pos = Len(strip)
  /\ Matched(Decoded(strip), Solid(taken))
  /\ Len(strip) <= StripBound(Len(taken))
  /\ out = <<>> \/ Len(out) + 2 <= pos

-----------------------------------------------------------------------------
(* What a step of the stripifier does to the strip. *)

LEMMA TurnsOfTriangle ==
  ASSUME NEW t \in Triangle, NEW u \in Turns(t)
  PROVE  /\ u \in Triangle
         /\ Degenerate(u) <=> Degenerate(t)
  BY DEF Turns, Triangle, Degenerate

\* A vertex that is appended ends a triangle over the edge ahead.
LEMMA Emit ==
  ASSUME NEW s, NEW e, NEW p, Stands(s, e, p), NEW x \in Vertices
  PROVE  /\ Stands(Append(s, x), <<e[2], x>>, 1 - p)
         /\ Len(Append(s, x)) = Len(s) + 1
         /\ Decoded(Append(s, x)) =
              IF Degenerate(<<Ahead(e, p)[1], Ahead(e, p)[2], x>>) THEN Decoded(s)
              ELSE Append(Decoded(s), <<Ahead(e, p)[1], Ahead(e, p)[2], x>>)
<1> DEFINE a == Append(s, x)
           t == <<Ahead(e, p)[1], Ahead(e, p)[2], x>>
<1>1. s \in Seq(Index) /\ e \in Vertices \X Vertices /\ p \in 0..1
  BY DEF Stands
<1>2. PICK n \in Nat : n = Len(s)
  BY <1>1
<1>3. PICK b : b = StripStart(s, n)
  OBVIOUS
<1>4. b \in 0..n /\ n - b >= 2 /\ p = (n - b) % 2 /\ e = <<s[n - 1], s[n]>>
  <2>1. b \in 0..n
    BY <1>3, StripStartIs
  <2> QED
    BY <1>2, <1>3, <2>1 DEF Stands
<1>5. /\ a \in Seq(Index) /\ Len(a) = n + 1
      /\ StripStart(a, n + 1) = b
      /\ Decoded(a) = IF n - b < 2 \/ Degenerate(IF (n - b) % 2 = 1 THEN <<s[n], s[n - 1], x>> ELSE <<s[n - 1], s[n], x>>)
                      THEN Decoded(s)
                      ELSE Append(Decoded(s), IF (n - b) % 2 = 1 THEN <<s[n], s[n - 1], x>> ELSE <<s[n - 1], s[n], x>>)
  BY <1>1, <1>2, <1>3, DecodedAppend
<1>6. a[n] = s[n] /\ a[n + 1] = x
  <2>1. x \in Index /\ n \in 1..n
    BY <1>4 DEF Index
  <2> QED
    BY <1>1, <1>2, <2>1, Enqueue
<1> HIDE DEF a
<1>7. (IF (n - b) % 2 = 1 THEN <<s[n], s[n - 1], x>> ELSE <<s[n - 1], s[n], x>>) = t
  BY <1>4 DEF Ahead
<1>8. ~ (n - b < 2)
  BY <1>4
<1> HIDE DEF t
<1>9. Decoded(a) = IF Degenerate(t) THEN Decoded(s) ELSE Append(Decoded(s), t)
  BY <1>5, <1>7, <1>8
<1>10. Stands(a, <<e[2], x>>, 1 - p)
  <2>1. PICK m \in Nat : m = n + 1
    OBVIOUS
  <2>2. a \in Seq(Index) /\ Len(a) = m /\ StripStart(a, m) = b /\ m - 1 = n
    BY <1>5, <2>1
  <2>3. m - b >= 2 /\ 1 - p \in 0..1 /\ 1 - p = (m - b) % 2
    BY <1>1, <1>4, <2>1
  <2>4. <<e[2], x>> \in Vertices \X Vertices /\ <<e[2], x>> = <<a[m - 1], a[m]>>
    BY <1>1, <1>4, <1>6, <2>1, <2>2
  <2> QED
    BY <2>2, <2>3, <2>4 DEF Stands
<1> QED
  BY <1>2, <1>5, <1>9, <1>10 DEF a, t

\* The first two indices of a strip end no triangle.
LEMMA Begin ==
  ASSUME NEW s \in Seq(Index), StripStart(s, Len(s)) = Len(s), NEW x \in Vertices, NEW y \in Vertices
  PROVE  /\ Stands(Append(Append(s, x), y), <<x, y>>, 0)
         /\ Len(Append(Append(s, x), y)) = Len(s) + 2
         /\ Decoded(Append(Append(s, x), y)) = Decoded(s)
<1> DEFINE a == Append(s, x)
           c == Append(a, y)
<1>1. PICK n \in Nat : n = Len(s)
  OBVIOUS
<1>2. PICK m \in Nat : m = n + 1
  OBVIOUS
<1>3. x \in Index /\ y \in Index
  BY DEF Index
<1>4. a \in Seq(Index) /\ Len(a) = m /\ StripStart(a, m) = n /\ Decoded(a) = Decoded(s) /\ a[m] = x
  <2>1. n - n < 2
    OBVIOUS
  <2>2. a \in Seq(Index) /\ Len(a) = n + 1 /\ StripStart(a, n + 1) = n
        /\ (n - n < 2 => Decoded(a) = Decoded(s))
    BY <1>1, DecodedAppend
  <2>3. a[m] = x
    BY <1>1, <1>2, <1>3, Enqueue
  <2> QED
    BY <1>2, <2>1, <2>2, <2>3
<1> HIDE DEF a
<1>5. c \in Seq(Index) /\ Len(c) = m + 1 /\ StripStart(c, m + 1) = n /\ Decoded(c) = Decoded(a)
      /\ c[m] = x /\ c[m + 1] = y
  <2>1. m - n < 2
    BY <1>2
  <2>2. c \in Seq(Index) /\ Len(c) = m + 1 /\ StripStart(c, m + 1) = n
        /\ (m - n < 2 => Decoded(c) = Decoded(a))
    BY <1>4, DecodedAppend
  <2>3. c[m + 1] = y /\ c[m] = a[m]
    <3>1. m \in 1..m
      BY <1>2
    <3> QED
      BY <1>3, <1>4, <3>1, Enqueue
  <2> QED
    BY <1>4, <2>1, <2>2, <2>3
<1> HIDE DEF c
<1>6. Stands(c, <<x, y>>, 0)
  <2>1. PICK k \in Nat : k = m + 1
    OBVIOUS
  <2>2. Len(c) = k /\ k - 1 = m /\ k - n = 2 /\ StripStart(c, k) = n /\ c[k - 1] = x /\ c[k] = y
    BY <1>2, <1>5, <2>1
  <2>3. k - n >= 2 /\ 0 = (k - n) % 2 /\ 0 \in 0..1
    BY <2>2
  <2>4. <<x, y>> \in Vertices \X Vertices /\ <<x, y>> = <<c[k - 1], c[k]>>
    BY <2>2
  <2> QED
    BY <1>5, <2>2, <2>3, <2>4 DEF Stands
<1>7. Len(c) = n + 2
  BY <1>2, <1>5
<1> QED
  BY <1>1, <1>4, <1>5, <1>6, <1>7 DEF a, c

\* Strips grow by appending.
LEMMA AppendTwo ==
  ASSUME NEW s \in Seq(Index), NEW x \in Index, NEW y \in Index
  PROVE  s \o <<x, y>> = Append(Append(s, x), y)
<1>1. <<x, y>> \in Seq(Index) /\ Len(<<x, y>>) = 2 /\ <<x, y>>[1] = x /\ <<x, y>>[2] = y
  OBVIOUS
<1>2. PICK n \in Nat : n = Len(s)
  OBVIOUS
<1>3. PICK l \in Seq(Index) : l = s \o <<x, y>>
  BY <1>1, ConcatProperties
<1>4. Len(l) = n + 2 /\ \A i \in 1..n + 2 : l[i] = IF i <= n THEN s[i] ELSE <<x, y>>[i - n]
  BY <1>1, <1>2, <1>3, ConcatProperties
<1>5. PICK a \in Seq(Index) : a = Append(s, x)
  BY AppendProperties
<1>6. Len(a) = n + 1 /\ a[n + 1] = x /\ \A i \in 1..n : a[i] = s[i]
  BY <1>2, <1>5, Enqueue
<1>7. PICK c \in Seq(Index) : c = Append(a, y)
  BY AppendProperties
<1>8. Len(c) = n + 2 /\ c[n + 2] = y /\ \A i \in 1..n + 1 : c[i] = a[i]
  <2>1. Len(c) = (n + 1) + 1 /\ c[(n + 1) + 1] = y /\ \A i \in 1..n + 1 : c[i] = a[i]
    BY <1>6, <1>7, Enqueue
  <2> QED
    BY <2>1
<1>9. \A i \in 1..n + 2 : l[i] = c[i]
  <2> SUFFICES ASSUME NEW i \in 1..n + 2 PROVE l[i] = c[i]
    OBVIOUS
  <2>1. CASE i <= n
    BY <1>4, <1>6, <1>8, <2>1
  <2>2. CASE i = n + 1
    <3>1. ~ (i <= n) /\ i - n = 1
      BY <2>2
    <3> QED
      BY <1>1, <1>4, <1>6, <1>8, <2>2, <3>1
  <2>3. CASE i = n + 2
    <3>1. ~ (i <= n) /\ i - n = 2
      BY <2>3
    <3> QED
      BY <1>1, <1>4, <1>8, <2>3, <3>1
  <2> QED
    BY <2>1, <2>2, <2>3, SMTT(30)
<1>10. l = c
  BY <1>4, <1>8, <1>9, SeqEqual
<1> QED
  BY <1>3, <1>5, <1>7, <1>10

LEMMA AppendThree ==
  ASSUME NEW s \in Seq(Index), NEW t \in Index \X Index \X Index
  PROVE  s \o t = Append(Append(Append(s, t[1]), t[2]), t[3])
<1>a. t[1] \in Index /\ t[2] \in Index /\ t[3] \in Index /\ t = <<t[1], t[2], t[3]>>
  OBVIOUS
<1>b. PICK x \in Index, y \in Index, z \in Index : x = t[1] /\ y = t[2] /\ z = t[3]
  BY <1>a
<1>c. <<x, y, z>> = <<x, y>> \o <<z>> /\ <<x, y>> \in Seq(Index) /\ <<z>> \in Seq(Index)
  OBVIOUS
<1>1. /\ t[1] \in Index /\ t[2] \in Index /\ t[3] \in Index
      /\ t = <<t[1], t[2]>> \o <<t[3]>> /\ <<t[1], t[2]>> \in Seq(Index) /\ <<t[3]>> \in Seq(Index)
  BY <1>a, <1>b, <1>c
<1>2. PICK q, r : q = <<t[1], t[2]>> /\ r = <<t[3]>>
  OBVIOUS
<1>3. q \in Seq(Index) /\ r \in Seq(Index) /\ t = q \o r
  BY <1>1, <1>2
<1>4. s \o t = (s \o q) \o r
  BY <1>3, ConcatAssociative, SMTT(30)
<1>5. s \o q \in Seq(Index)
  BY <1>3, ConcatProperties
<1>6. (s \o q) \o r = Append(s \o q, t[3])
  BY <1>1, <1>2, <1>5, AppendIsConcat
<1>7. s \o q = Append(Append(s, t[1]), t[2])
  BY <1>1, <1>2, AppendTwo
<1> QED
  BY <1>4, <1>6, <1>7

\* A triangle that has a turn on the strip leaves the buffer for the strip.
LEMMA MatchedStep ==
  ASSUME NEW r \in Seq(Triangle), NEW s \in Seq(Triangles), Matched(r, Solid(s)),
         NEW t \in Triangles, NEW u \in Turns(t)
  PROVE  Matched(IF Degenerate(u) THEN r ELSE Append(r, u), Solid(Append(s, t)))
<1>1. t \in Triangle /\ s \in Seq(Triangle)
  BY Constants, SeqMonotonic
<1>2. u \in Triangle /\ (Degenerate(u) <=> Degenerate(t))
  BY <1>1, TurnsOfTriangle
<1>3. Solid(Append(s, t)) = IF Degenerate(t) THEN Solid(s) ELSE Append(Solid(s), t)
  BY <1>1, SolidAppend
<1>4. PICK q \in Seq(Triangle) : q = Solid(s)
  BY <1>1, SolidType
<1>5. Len(r) = Len(q) /\ \A k \in 1..Len(q) : r[k] \in Turns(q[k])
  BY <1>4 DEF Matched
<1>6. Matched(Append(r, u), Append(q, t))
  <2>1. PICK n \in Nat : n = Len(q)
    OBVIOUS
  <2>2. Len(Append(r, u)) = n + 1 /\ Append(r, u)[n + 1] = u /\ \A k \in 1..n : Append(r, u)[k] = r[k]
    BY <1>2, <1>5, <2>1, Enqueue
  <2>3. Len(Append(q, t)) = n + 1 /\ Append(q, t)[n + 1] = t /\ \A k \in 1..n : Append(q, t)[k] = q[k]
    BY <1>1, <2>1, Enqueue
  <2>4. \A k \in 1..n + 1 : Append(r, u)[k] \in Turns(Append(q, t)[k])
    <3> SUFFICES ASSUME NEW k \in 1..n + 1 PROVE Append(r, u)[k] \in Turns(Append(q, t)[k])
      OBVIOUS
    <3>1. CASE k = n + 1
      BY <2>2, <2>3, <3>1
    <3>2. CASE k # n + 1
      <4>1. k \in 1..n
        BY <3>2
      <4> QED
        BY <1>5, <2>1, <2>2, <2>3, <4>1
    <3> QED
      BY <3>1, <3>2
  <2> QED
    BY <2>2, <2>3, <2>4 DEF Matched
<1>7. Matched(r, q)
  BY <1>4
<1> QED
  BY <1>2, <1>3, <1>4, <1>6, <1>7

-----------------------------------------------------------------------------
(* What a step of the stripifier does to the buffer. *)

\* The buffer b after it has been filled from the list l, of which it has read o triangles.
Fill(l, b, o) ==
  b \o SubSeq(l, o + 1, o + IF Capacity - Len(b) < Len(l) - o THEN Capacity - Len(b) ELSE Len(l) - o)

LEMMA FillIs ==
  ASSUME NEW l \in Seq(Triangles), NEW b \in Seq(Triangles), Len(b) < Capacity, NEW o \in 0..Len(l)
  PROVE  /\ Fill(l, b, o) \in Seq(Triangles)
         /\ Len(b) <= Len(Fill(l, b, o)) /\ Len(Fill(l, b, o)) <= Capacity
         /\ o + Len(Fill(l, b, o)) - Len(b) \in 0..Len(l)
         /\ \A i \in 1..Len(b) : Fill(l, b, o)[i] = b[i]
         /\ b # <<>> \/ o < Len(l) => Len(Fill(l, b, o)) > 0
         /\ Fill(l, b, o) = b \o SubSeq(l, o + 1, o + Len(Fill(l, b, o)) - Len(b))
<1>1. PICK n \in Nat, m \in Nat : n = Len(b) /\ m = Len(l)
  OBVIOUS
<1>2. PICK c \in Nat : c = Capacity /\ n < c
  BY <1>1, Constants
<1>3. PICK d \in Nat : d = (IF c - n < m - o THEN c - n ELSE m - o)
  <2>1. c - n \in Nat /\ m - o \in Nat
    BY <1>1, <1>2
  <2> QED
    BY <2>1
<1>4. o + d \in 0..m /\ n + d <= c /\ (n > 0 \/ o < m => n + d > 0)
  BY <1>1, <1>2, <1>3
<1>5. PICK q : q = SubSeq(l, o + 1, o + d)
  OBVIOUS
<1>6. q \in Seq(Triangles) /\ Len(q) = d
  <2>1. \A i \in (o + 1)..(o + d) : l[i] \in Triangles
    BY <1>1, <1>4
  <2>2. /\ q \in Seq(Triangles)
        /\ Len(q) = IF o + 1 <= o + d THEN (o + d) - (o + 1) + 1 ELSE 0
    BY <1>5, <2>1, SubSeqProperties
  <2> QED
    BY <2>2
<1>7. Fill(l, b, o) = b \o q
  BY <1>1, <1>2, <1>3, <1>5 DEF Fill
<1>8. /\ b \o q \in Seq(Triangles) /\ Len(b \o q) = n + d
      /\ \A i \in 1..n + d : (b \o q)[i] = IF i <= n THEN b[i] ELSE q[i - n]
  BY <1>1, <1>6, ConcatProperties
<1>9. \A i \in 1..n : (b \o q)[i] = b[i]
  BY <1>8
<1>10. b # <<>> => n > 0
  BY <1>1, EmptySeq
<1>11. o + (n + d) - n = o + d
  OBVIOUS
<1> QED
  BY <1>1, <1>2, <1>4, <1>5, <1>7, <1>8, <1>9, <1>10, <1>11

LEMMA FilledIs == Filled = Fill(input, buffer, offset)
  BY DEF Filled, Fill

\* What is found in the buffer is where it was once the buffer has been filled.
LEMMA LeadsOn ==
  ASSUME NEW l \in Seq(Triangles), NEW b \in Seq(Triangles), Len(b) < Capacity, NEW o \in 0..Len(l),
         NEW m \in MatchSet(Len(b)), NEW e, NEW p, Leads(m, b, e, p)
  PROVE  Leads(m, Fill(l, b, o), e, p)
<1>1. PICK n \in Nat, k \in Nat : n = Len(b) /\ k = Len(Fill(l, b, o))
  BY FillIs
<1>2. n <= k /\ \A i \in 1..n : Fill(l, b, o)[i] = b[i]
  BY <1>1, FillIs
<1>3. ASSUME Found(m)
      PROVE  m.at <= k /\ Opposite(Fill(l, b, o)[m.at], m.corner) = Ahead(e, p)
  <2>1. m.at \in 1..n
    BY <1>1, <1>3 DEF MatchSet, Found
  <2>2. Opposite(b[m.at], m.corner) = Ahead(e, p)
    BY <1>3 DEF Leads
  <2> QED
    BY <1>1, <1>2, <2>1, <2>2
<1> QED
  BY <1>1, <1>3 DEF Leads

LEMMA RemoveAtIs ==
  ASSUME NEW T, NEW f \in Seq(T), NEW at \in 1..Len(f)
  PROVE  /\ RemoveAt(f, at) \in Seq(T) /\ Len(RemoveAt(f, at)) = Len(f) - 1
         /\ \A i \in 1..Len(f) - 1 : RemoveAt(f, at)[i] = IF i < at THEN f[i] ELSE f[i + 1]
<1>1. PICK n \in Nat : n = Len(f)
  OBVIOUS
<1>2. PICK q, r : q = SubSeq(f, 1, at - 1) /\ r = SubSeq(f, at + 1, n)
  OBVIOUS
<1>3. q \in Seq(T) /\ Len(q) = at - 1 /\ \A i \in 1..at - 1 : q[i] = f[i]
  <2>1. \A i \in 1..(at - 1) : f[i] \in T
    BY <1>1
  <2>2. /\ q \in Seq(T) /\ Len(q) = IF 1 <= at - 1 THEN (at - 1) - 1 + 1 ELSE 0
        /\ \A i \in 1..(at - 1) - 1 + 1 : q[i] = f[1 + i - 1]
    BY <1>2, <2>1, SubSeqProperties
  <2> QED
    BY <2>2
<1>4. r \in Seq(T) /\ Len(r) = n - at /\ \A i \in 1..n - at : r[i] = f[at + i]
  <2>1. \A i \in (at + 1)..n : f[i] \in T
    BY <1>1
  <2>2. /\ r \in Seq(T) /\ Len(r) = IF at + 1 <= n THEN n - (at + 1) + 1 ELSE 0
        /\ \A i \in 1..n - (at + 1) + 1 : r[i] = f[(at + 1) + i - 1]
    BY <1>1, <1>2, <2>1, SubSeqProperties
  <2>3. n - (at + 1) + 1 = n - at /\ \A i \in Nat : (at + 1) + i - 1 = at + i
    BY <1>1
  <2> QED
    BY <1>1, <2>2, <2>3
<1>5. PICK l : l = q \o r
  OBVIOUS
<1>6. /\ l \in Seq(T) /\ Len(l) = (at - 1) + (n - at)
      /\ \A i \in 1..(at - 1) + (n - at) : l[i] = IF i <= at - 1 THEN q[i] ELSE r[i - (at - 1)]
  <2>1. /\ q \o r \in Seq(T) /\ Len(q \o r) = Len(q) + Len(r)
        /\ \A i \in 1..Len(q) + Len(r) : (q \o r)[i] = IF i <= Len(q) THEN q[i] ELSE r[i - Len(q)]
    BY <1>3, <1>4, ConcatProperties
  <2>2. Len(q) = at - 1 /\ Len(r) = n - at
    BY <1>3, <1>4
  <2> QED
    BY <1>5, <2>1, <2>2
<1>7. (at - 1) + (n - at) = n - 1
  BY <1>1
<1>8. \A i \in 1..n - 1 : l[i] = IF i < at THEN f[i] ELSE f[i + 1]
  <2> SUFFICES ASSUME NEW i \in 1..n - 1 PROVE l[i] = IF i < at THEN f[i] ELSE f[i + 1]
    OBVIOUS
  <2>1. l[i] = IF i <= at - 1 THEN q[i] ELSE r[i - (at - 1)]
    BY <1>6, <1>7
  <2>2. CASE i < at
    BY <1>3, <2>1, <2>2
  <2>3. CASE ~ (i < at)
    <3>1. i - (at - 1) \in 1..n - at /\ at + (i - (at - 1)) = i + 1 /\ ~ (i <= at - 1)
      BY <1>1, <2>3
    <3> QED
      BY <1>4, <2>1, <2>3, <3>1
  <2> QED
    BY <2>2, <2>3
<1>9. RemoveAt(f, at) = l
  BY <1>1, <1>2, <1>5 DEF RemoveAt
<1> QED
  BY <1>1, <1>6, <1>7, <1>8, <1>9

\* A triangle leaves the filled buffer.
LEMMA Takes ==
  ASSUME TypeOK, NEW at \in 1..Len(Filled), TakeTriangle(at)
  PROVE  /\ buffer' = Rest(at) /\ buffer' \in Seq(Triangles) /\ Len(buffer') < Capacity
         /\ offset' \in 0..Len(input)
         /\ valence' \in [Vertices -> 0..ValenceMod - 1]
         /\ taken' \in Seq(Triangles) /\ taken' = Append(taken, Filled[at])
         /\ Len(taken') = Len(taken) + 1 /\ Len(taken) \in Nat
         /\ Filled \in Seq(Triangles) /\ Filled[at] \in Triangles
<1>1. /\ input \in Seq(Triangles) /\ buffer \in Seq(Triangles) /\ Len(buffer) < Capacity
      /\ offset \in 0..Len(input)
  BY DEF TypeOK
<1>2. PICK f : f = Filled
  OBVIOUS
<1>3. /\ f \in Seq(Triangles) /\ Len(f) <= Capacity /\ Len(buffer) <= Len(f)
      /\ offset + Len(f) - Len(buffer) \in 0..Len(input)
  BY <1>1, <1>2, FillIs, FilledIs
<1>4. PICK n \in Nat : n = Len(f)
  BY <1>3
<1>5. f[at] \in Triangles /\ at \in 1..n
  BY <1>2, <1>3, <1>4
<1>6. buffer' = RemoveAt(f, at) /\ RemoveAt(f, at) \in Seq(Triangles) /\ Len(RemoveAt(f, at)) = n - 1
  BY <1>2, <1>3, <1>4, <1>5, RemoveAtIs DEF TakeTriangle
<1>7. n - 1 < Capacity
  BY <1>3, <1>4, Constants
<1>8. ASSUME NEW v \in Vertices PROVE (valence[v] - Uses(f[at], v)) % ValenceMod \in 0..ValenceMod - 1
  <2>1. IsFiniteSet({k \in 1..3 : f[at][k] = v})
    <3>1. IsFiniteSet(1..3) /\ {k \in 1..3 : f[at][k] = v} \in SUBSET (1..3)
      BY Indices
    <3> QED
      BY <3>1, FS_Subset
  <2>2. Uses(f[at], v) \in Nat
    BY <2>1, FS_CardinalityType DEF Uses
  <2>3. valence[v] \in Int
    BY Constants DEF TypeOK
  <2>4. PICK z \in Int : z = valence[v] - Uses(f[at], v)
    BY <2>2, <2>3
  <2>5. z % ValenceMod \in 0..ValenceMod - 1
    BY Constants
  <2> QED
    BY <2>4, <2>5
<1>9. valence' = [v \in Vertices |-> (valence[v] - Uses(f[at], v)) % ValenceMod]
  BY <1>2 DEF TakeTriangle
<1>10. valence' \in [Vertices -> 0..ValenceMod - 1]
  BY <1>8, <1>9
<1>11. taken \in Seq(Triangles) /\ taken' = Append(taken, f[at])
  BY <1>2 DEF TakeTriangle, TypeOK
<1>12. taken' \in Seq(Triangles) /\ Len(taken') = Len(taken) + 1 /\ Len(taken) \in Nat
  BY <1>5, <1>11, Enqueue
<1>13. offset' = offset + Len(f) - Len(buffer)
  BY <1>2 DEF TakeTriangle
<1> QED
  BY <1>2, <1>3, <1>5, <1>6, <1>7, <1>10, <1>11, <1>12, <1>13 DEF Rest

\* Turning a triangle twice turns it.
LEMMA TurnsTwice == ASSUME NEW t \in Triangle, NEW u \in Turns(t), NEW w \in Turns(u) PROVE w \in Turns(t)
<1>1. PICK a \in Vertices, b \in Vertices, c \in Vertices : t = <<a, b, c>>
  BY DEF Triangle
<1>2. u \in {<<a, b, c>>, <<b, c, a>>, <<c, a, b>>}
  BY <1>1 DEF Turns
<1>3. w \in {<<a, b, c>>, <<b, c, a>>, <<c, a, b>>}
  BY <1>2 DEF Turns
<1> QED
  BY <1>1, <1>3 DEF Turns

\* The edge opposite a corner and the corner are a turn of the triangle.
LEMMA OppositeTurns ==
  ASSUME NEW t \in Triangle, NEW k \in 0..2
  PROVE  <<Opposite(t, k)[1], Opposite(t, k)[2], t[k + 1]>> \in Turns(t)
<1>1. PICK a \in Vertices, b \in Vertices, c \in Vertices : t = <<a, b, c>>
  BY DEF Triangle
<1>2. CASE k = 0
  BY <1>1, <1>2 DEF Opposite, Turns
<1>3. CASE k = 1
  BY <1>1, <1>3 DEF Opposite, Turns
<1>4. CASE k = 2
  BY <1>1, <1>4 DEF Opposite, Turns
<1> QED
  BY <1>2, <1>3, <1>4

\* A triangle u that is a turn of the one taken is the only one that the new strip adds.
LEMMA StripStep ==
  ASSUME StripInv, phase = "strip", NEW at \in 1..Len(Filled), TakeTriangle(at),
         NEW u \in Turns(Filled[at]),
         Stands(strip', edge', parity'), Len(strip') <= Len(strip) + 5,
         ~restarts => strip' \in Seq(Vertices),
         next' \in MatchSet(Len(Rest(at))), Leads(next', Rest(at), edge', parity'),
         Decoded(strip') = IF Degenerate(u) THEN Decoded(strip) ELSE Append(Decoded(strip), u),
         UNCHANGED <<phase, input, restarts, unstripVars>>
  PROVE  StripInv'
<1>1. TypeOK
  BY DEF StripInv
<1>2. /\ buffer' = Rest(at) /\ buffer' \in Seq(Triangles) /\ Len(buffer') < Capacity
      /\ offset' \in 0..Len(input)
      /\ valence' \in [Vertices -> 0..ValenceMod - 1]
      /\ taken' \in Seq(Triangles) /\ taken' = Append(taken, Filled[at])
      /\ Len(taken') = Len(taken) + 1 /\ Len(taken) \in Nat
      /\ Filled \in Seq(Triangles) /\ Filled[at] \in Triangles
  BY <1>1, Takes
<1>3. /\ strip' \in Seq(Index) /\ edge' \in Vertices \X Vertices /\ parity' \in 0..1
      /\ Len(strip') \in Nat /\ Len(strip') >= 2
  <2>1. strip' \in Seq(Index) /\ edge' \in Vertices \X Vertices /\ parity' \in 0..1
        /\ Len(strip') - StripStart(strip', Len(strip')) >= 2
    BY DEF Stands
  <2>2. PICK n \in Nat : n = Len(strip')
    BY <2>1
  <2>3. StripStart(strip', n) \in 0..n
    BY StripStartIs
  <2> QED
    BY <2>1, <2>2, <2>3
<1>4. next' \in [at : 0..Capacity, corner : 0..2]
  <2>1. PICK n \in Nat : n = Len(buffer')
    BY <1>2
  <2>2. 0..n \subseteq 0..Capacity
    BY <1>2, <2>1, Constants
  <2> QED
    BY <1>2, <2>1, <2>2 DEF MatchSet
<1>5. phase' = phase /\ input' = input /\ restarts' = restarts /\ pos' = pos /\ start' = start /\ out' = out
  BY DEF unstripVars
<1>6. pos = 0 /\ start = 0 /\ out = <<>>
  BY DEF StripInv
<1>7. TypeOK'
  <2>1. pos' \in 0..Len(strip') /\ start' \in 0..pos'
    BY <1>3, <1>5, <1>6
  <2> QED
    BY <1>1, <1>2, <1>3, <1>4, <1>5, <2>1 DEF TypeOK, Index
<1>8. Leads(next', Filled', edge', parity')
  <2>1. PICK f : f = Fill(input, buffer', offset')
    OBVIOUS
  <2>2. next' \in MatchSet(Len(buffer')) /\ Leads(next', buffer', edge', parity') /\ input \in Seq(Triangles)
    BY <1>1, <1>2 DEF TypeOK
  <2>3. Leads(next', f, edge', parity')
    BY <1>2, <2>1, <2>2, LeadsOn
  <2>4. Filled' = f
    BY <1>5, <2>1 DEF Filled, Fill
  <2> QED
    BY <2>3, <2>4
<1>9. Matched(Decoded(strip'), Solid(taken'))
  <2>1. Decoded(strip) \in Seq(Triangle)
    <3>1. strip \in Seq(Index)
      BY <1>1 DEF TypeOK, Index
    <3>2. Raw(strip) \in Seq(Triangle)
      BY <3>1, RawType
    <3> QED
      BY <3>2, SolidType DEF Decoded
  <2>2. Matched(Decoded(strip), Solid(taken)) /\ taken \in Seq(Triangles)
    BY <1>1 DEF StripInv, TypeOK
  <2>3. Matched(IF Degenerate(u) THEN Decoded(strip) ELSE Append(Decoded(strip), u),
                Solid(Append(taken, Filled[at])))
    BY <1>2, <2>1, <2>2, MatchedStep
  <2> QED
    BY <1>2, <2>3
<1>10. Len(strip') <= StripBound(Len(taken'))
  <2>1. Len(strip) <= 5 * Len(taken) /\ strip \in Seq(Index)
    BY <1>1 DEF StripInv, StripBound, TypeOK, Index
  <2>2. PICK n \in Nat, k \in Nat, m \in Nat : n = Len(strip) /\ k = Len(taken) /\ m = Len(strip')
    BY <1>2, <1>3, <2>1
  <2>3. m <= 5 * (k + 1)
    BY <2>1, <2>2
  <2> QED
    BY <1>2, <2>2, <2>3 DEF StripBound
<1>11. strip' # <<>>
  BY <1>3, EmptySeq
<1>12. (~restarts => strip \in Seq(Vertices))'
  BY <1>5
<1> QED
  BY <1>3, <1>5, <1>6, <1>7, <1>8, <1>9, <1>10, <1>11, <1>12 DEF StripInv

\* The triangle that was announced is the one over the edge ahead.
LEMMA Announced ==
  ASSUME StripInv, Stripping, Found(next)
  PROVE  LET u == <<Ahead(edge, parity)[1], Ahead(edge, parity)[2], NextVertex>>
         IN  /\ next.at \in 1..Len(Filled) /\ NextVertex \in Vertices
             /\ u \in Turns(Filled[next.at])
             /\ Stands(strip, edge, parity)
             /\ Rest(next.at) \in Seq(Triangles)
<1>1. strip # <<>> /\ phase = "strip"
  BY DEF StripInv, Stripping
<1>2. Stands(strip, edge, parity) /\ Leads(next, Filled, edge, parity)
  BY <1>1 DEF StripInv
<1>3. TypeOK
  BY DEF StripInv
<1>4. PICK f : f = Filled
  OBVIOUS
<1>5. f \in Seq(Triangles)
  BY <1>3, <1>4, FillIs, FilledIs DEF TypeOK
<1>6. next.at \in Nat /\ next.corner \in 0..2
  BY <1>3, Constants DEF TypeOK
<1>7. next.at \in 1..Len(f) /\ Opposite(f[next.at], next.corner) = Ahead(edge, parity)
  BY <1>2, <1>4, <1>5, <1>6 DEF Leads, Found
<1>8. f[next.at] \in Triangle
  BY <1>5, <1>7, Constants
<1>9. NextVertex = f[next.at][next.corner + 1]
  BY <1>4 DEF NextVertex
<1>10. NextVertex \in Vertices
  <2>1. next.corner + 1 \in 1..3
    BY <1>6
  <2>2. \A k \in 1..3 : f[next.at][k] \in Vertices
    BY <1>8 DEF Triangle
  <2> QED
    BY <1>9, <2>1, <2>2
<1>11. <<Ahead(edge, parity)[1], Ahead(edge, parity)[2], NextVertex>> \in Turns(f[next.at])
  <2>1. <<Opposite(f[next.at], next.corner)[1], Opposite(f[next.at], next.corner)[2],
          f[next.at][next.corner + 1]>> \in Turns(f[next.at])
    BY <1>6, <1>8, OppositeTurns
  <2> QED
    BY <1>7, <1>9, <2>1
<1>12. Rest(next.at) \in Seq(Triangles)
  BY <1>4, <1>5, <1>7, RemoveAtIs DEF Rest
<1> QED
  BY <1>2, <1>4, <1>7, <1>10, <1>11, <1>12

\* The search for the edge that will be ahead.
LEMMA FindEdgeLeads ==
  ASSUME NEW q \in Seq(Triangles), NEW e \in Vertices \X Vertices, NEW p \in 0..1, NEW g,
         g = Ahead(e, p)
  PROVE  FindEdge(q, g) \in MatchSet(Len(q)) /\ Leads(FindEdge(q, g), q, e, p)
<1>1. Ahead(e, p) = <<g[1], g[2]>>
  BY DEF Ahead
<1>2. PICK m : m = StripNext(q, g[1], g[2])
  OBVIOUS
<1>3. m \in MatchSet(Len(q)) /\ (Found(m) => Opposite(q[m.at], m.corner) = <<g[1], g[2]>>)
  BY <1>2, StripNextFinds
<1>4. m.at <= Len(q)
  BY <1>3 DEF MatchSet
<1>5. FindEdge(q, g) = m
  BY <1>2 DEF FindEdge
<1> QED
  BY <1>1, <1>3, <1>4, <1>5 DEF Leads

LEMMA ContinueStep == StripInv /\ Continue => StripInv'
<1> SUFFICES ASSUME StripInv, Continue PROVE StripInv'
  OBVIOUS
<1> DEFINE u == <<Ahead(edge, parity)[1], Ahead(edge, parity)[2], NextVertex>>
<1>1. Stripping /\ Found(next) /\ phase = "strip"
  BY DEF Continue, Stripping
<1>2. /\ next.at \in 1..Len(Filled) /\ NextVertex \in Vertices
      /\ u \in Turns(Filled[next.at])
      /\ Stands(strip, edge, parity)
      /\ Rest(next.at) \in Seq(Triangles)
  BY <1>1, Announced
<1>3. /\ TakeTriangle(next.at) /\ strip' = Append(strip, NextVertex)
      /\ edge' = <<edge[2], NextVertex>> /\ parity' = 1 - parity /\ next' = Continuation
      /\ UNCHANGED <<phase, input, restarts, unstripVars>>
  BY DEF Continue
<1>4. /\ Stands(strip', edge', parity') /\ Len(strip') = Len(strip) + 1
      /\ Decoded(strip') = IF Degenerate(u) THEN Decoded(strip) ELSE Append(Decoded(strip), u)
  BY <1>2, <1>3, Emit
<1>5. ~restarts => strip' \in Seq(Vertices)
  BY <1>2, <1>3, Enqueue DEF StripInv
<1>6. Len(strip) \in Nat /\ edge \in Vertices \X Vertices /\ parity \in 0..1
  BY <1>2 DEF Stands
<1>7. Oriented(NextVertex, edge[2]) = Ahead(edge', parity')
  BY <1>3, <1>6 DEF Oriented, Ahead
<1>8. next' \in MatchSet(Len(Rest(next.at))) /\ Leads(next', Rest(next.at), edge', parity')
  <2>1. edge' \in Vertices \X Vertices /\ parity' \in 0..1
    BY <1>4 DEF Stands
  <2>2. next' = FindEdge(Rest(next.at), Oriented(NextVertex, edge[2]))
    BY <1>3 DEF Continuation
  <2> QED
    BY <1>2, <1>7, <2>1, <2>2, FindEdgeLeads
<1>9. Len(strip') <= Len(strip) + 5
  BY <1>4, <1>6
<1> HIDE DEF u
<1> QED
  BY <1>1, <1>2, <1>3, <1>4, <1>5, <1>8, <1>9, StripStep

LEMMA SwapStep == StripInv /\ Swap => StripInv'
<1> SUFFICES ASSUME StripInv, Swap PROVE StripInv'
  OBVIOUS
<1> DEFINE u == <<Ahead(edge, parity)[1], Ahead(edge, parity)[2], NextVertex>>
           a == Append(strip, edge[1])
<1>1. Stripping /\ Found(next) /\ phase = "strip"
  BY DEF Swap, Stripping
<1>2. /\ next.at \in 1..Len(Filled) /\ NextVertex \in Vertices
      /\ u \in Turns(Filled[next.at])
      /\ Stands(strip, edge, parity)
      /\ Rest(next.at) \in Seq(Triangles)
  BY <1>1, Announced
<1>3. /\ TakeTriangle(next.at) /\ strip' = strip \o <<edge[1], NextVertex>>
      /\ edge' = <<edge[1], NextVertex>> /\ parity' = parity /\ next' = Swapped
      /\ UNCHANGED <<phase, input, restarts, unstripVars>>
  BY DEF Swap
<1>6. /\ Len(strip) \in Nat /\ edge \in Vertices \X Vertices /\ parity \in 0..1 /\ strip \in Seq(Index)
      /\ edge[1] \in Vertices /\ edge[2] \in Vertices
  BY <1>2 DEF Stands
<1>s. strip' = Append(a, NextVertex)
  BY <1>2, <1>3, <1>6, AppendTwo DEF Index
<1>a. Stands(a, <<edge[2], edge[1]>>, 1 - parity) /\ Len(a) = Len(strip) + 1 /\ Decoded(a) = Decoded(strip)
  <2>1. Degenerate(<<Ahead(edge, parity)[1], Ahead(edge, parity)[2], edge[1]>>)
    BY <1>6 DEF Ahead, Degenerate
  <2> QED
    BY <1>2, <1>6, <2>1, Emit
<1>4. /\ Stands(strip', edge', parity') /\ Len(strip') = Len(strip) + 2
      /\ Decoded(strip') = IF Degenerate(u) THEN Decoded(strip) ELSE Append(Decoded(strip), u)
  <2> DEFINE g == Ahead(<<edge[2], edge[1]>>, 1 - parity)
  <2> HIDE DEF a
  <2>1. /\ Stands(Append(a, NextVertex), <<<<edge[2], edge[1]>>[2], NextVertex>>, 1 - (1 - parity))
        /\ Len(Append(a, NextVertex)) = Len(a) + 1
        /\ Decoded(Append(a, NextVertex)) =
             IF Degenerate(<<g[1], g[2], NextVertex>>) THEN Decoded(a)
             ELSE Append(Decoded(a), <<g[1], g[2], NextVertex>>)
    BY <1>2, <1>a, Emit
  <2>2. <<g[1], g[2], NextVertex>> = u
    BY <1>6 DEF Ahead
  <2>3. <<<<edge[2], edge[1]>>[2], NextVertex>> = edge' /\ 1 - (1 - parity) = parity'
    BY <1>3, <1>6
  <2> HIDE DEF g, u
  <2>4. Stands(strip', edge', parity')
    BY <1>s, <2>1, <2>3
  <2>5. Len(strip') = Len(strip) + 2
    BY <1>s, <1>a, <1>6, <2>1
  <2>6. Decoded(strip') = IF Degenerate(u) THEN Decoded(strip) ELSE Append(Decoded(strip), u)
    BY <1>s, <1>a, <2>1, <2>2
  <2> QED
    BY <2>4, <2>5, <2>6
<1>5. ~restarts => strip' \in Seq(Vertices)
  BY <1>2, <1>s, <1>6, Enqueue DEF StripInv
<1>7. Oriented(edge[1], NextVertex) = Ahead(edge', parity')
  BY <1>3, <1>6 DEF Oriented, Ahead
<1>8. next' \in MatchSet(Len(Rest(next.at))) /\ Leads(next', Rest(next.at), edge', parity')
  <2>1. edge' \in Vertices \X Vertices /\ parity' \in 0..1
    BY <1>4 DEF Stands
  <2>2. next' = FindEdge(Rest(next.at), Oriented(edge[1], NextVertex))
    BY <1>3 DEF Swapped
  <2> QED
    BY <1>2, <1>7, <2>1, <2>2, FindEdgeLeads
<1>9. Len(strip') <= Len(strip) + 5
  BY <1>4, <1>6
<1> HIDE DEF u
<1> QED
  BY <1>1, <1>2, <1>3, <1>4, <1>5, <1>8, <1>9, StripStep

\* The first triangle of a strip.
LEMMA FirstIs ==
  ASSUME TypeOK, Stripping
  PROVE  /\ FirstAt \in 1..Len(Filled)
         /\ Filled \in Seq(Triangles) /\ Filled[FirstAt] \in Triangle
         /\ First.tri \in Turns(Filled[FirstAt]) /\ First.tri \in Triangle
         /\ First.next \in MatchSet(Len(Rest(FirstAt)))
         /\ \A e, p : Ahead(e, p) = <<First.tri[3], First.tri[2]>>
                        => Leads(First.next, Rest(FirstAt), e, p)
<1>1. PICK f : f = Filled
  OBVIOUS
<1>2. f \in Seq(Triangles) /\ Len(f) > 0
  BY <1>1, FillIs, FilledIs DEF TypeOK, Stripping
<1>3. f # <<>>
  BY <1>2
<1>4. FirstAt \in 1..Len(f)
  BY <1>1, <1>2, <1>3, StripFirstFinds DEF TypeOK, FirstAt
<1>5. PICK at \in 1..Len(f) : at = FirstAt
  BY <1>4
<1>6. f[at] \in Triangle
  BY <1>2, Constants
<1>7. PICK q \in Seq(Triangles) : q = Rest(at)
  BY <1>1, <1>2, RemoveAtIs DEF Rest
<1>8. PICK r : r = PreRotated(f[at], q)
  OBVIOUS
<1>9. /\ r.tri \in Turns(f[at]) /\ r.tri \in Triangle
      /\ r.next \in MatchSet(Len(q))
      /\ Found(r.next) => Opposite(q[r.next.at], r.next.corner) = <<r.tri[3], r.tri[2]>>
  BY <1>6, <1>8, PreRotatedTurns
<1>10. First = r
  BY <1>1, <1>5, <1>7, <1>8 DEF First
<1>11. r.next.at <= Len(q)
  BY <1>9 DEF MatchSet
<1>12. \A e, p : Ahead(e, p) = <<r.tri[3], r.tri[2]>> => Leads(r.next, q, e, p)
  BY <1>9, <1>11 DEF Leads
<1> QED
  BY <1>1, <1>2, <1>5, <1>6, <1>7, <1>9, <1>10, <1>12

\* The three corners of a triangle at the start of a strip.
LEMMA BeginTriangle ==
  ASSUME NEW s \in Seq(Index), StripStart(s, Len(s)) = Len(s), NEW t \in Triangle
  PROVE  /\ Stands(s \o t, <<t[2], t[3]>>, 1)
         /\ Len(s \o t) = Len(s) + 3
         /\ Decoded(s \o t) = IF Degenerate(t) THEN Decoded(s) ELSE Append(Decoded(s), t)
<1>1. t[1] \in Vertices /\ t[2] \in Vertices /\ t[3] \in Vertices /\ t = <<t[1], t[2], t[3]>>
  BY DEF Triangle
<1>2. t \in Index \X Index \X Index
  BY DEF Triangle, Index
<1>3. s \o t = Append(Append(Append(s, t[1]), t[2]), t[3])
  BY <1>2, AppendThree
<1>4. PICK a : a = Append(Append(s, t[1]), t[2])
  OBVIOUS
<1>5. Stands(a, <<t[1], t[2]>>, 0) /\ Len(a) = Len(s) + 2 /\ Decoded(a) = Decoded(s)
  BY <1>1, <1>4, Begin
<1>6. PICK e : e = <<t[1], t[2]>>
  OBVIOUS
<1>7. /\ Stands(Append(a, t[3]), <<e[2], t[3]>>, 1 - 0)
      /\ Len(Append(a, t[3])) = Len(a) + 1
      /\ Decoded(Append(a, t[3])) =
           IF Degenerate(<<Ahead(e, 0)[1], Ahead(e, 0)[2], t[3]>>) THEN Decoded(a)
           ELSE Append(Decoded(a), <<Ahead(e, 0)[1], Ahead(e, 0)[2], t[3]>>)
  BY <1>1, <1>5, <1>6, Emit, SMTT(30)
<1>8. <<Ahead(e, 0)[1], Ahead(e, 0)[2], t[3]>> = t /\ e[2] = t[2] /\ 1 - 0 = 1
  BY <1>1, <1>6 DEF Ahead
<1>9. Stands(s \o t, <<t[2], t[3]>>, 1)
  BY <1>3, <1>4, <1>7, <1>8
<1>10. Len(s \o t) = Len(s) + 3
  BY <1>3, <1>4, <1>5, <1>7
<1>11. Decoded(s \o t) = IF Degenerate(t) THEN Decoded(s) ELSE Append(Decoded(s), t)
  BY <1>3, <1>4, <1>5, <1>7, <1>8
<1> QED
  BY <1>9, <1>10, <1>11

LEMMA StripEmpty == <<>> \in Seq(Index) /\ Len(<<>>) = 0 /\ StripStart(<<>>, 0) = 0
<1>1. StripStart(<<>>, 0) \in 0..0
  BY StripStartIs
<1> QED
  BY <1>1

LEMMA StartStripStep == StripInv /\ StartStrip => StripInv'
<1> SUFFICES ASSUME StripInv, StartStrip PROVE StripInv'
  OBVIOUS
<1>1. Stripping /\ phase = "strip" /\ restarts /\ TypeOK
  BY DEF StartStrip, Stripping, StripInv
<1>2. PICK t \in Triangle : t = First.tri
  BY <1>1, FirstIs
<1>3. /\ FirstAt \in 1..Len(Filled) /\ t \in Turns(Filled[FirstAt])
      /\ First.next \in MatchSet(Len(Rest(FirstAt)))
      /\ \A e, p : Ahead(e, p) = <<t[3], t[2]>> => Leads(First.next, Rest(FirstAt), e, p)
  BY <1>1, <1>2, FirstIs
<1>4. PICK s : s = strip \o (IF strip = <<>> THEN <<>> ELSE <<Restart>>)
  OBVIOUS
<1>5. /\ TakeTriangle(FirstAt) /\ strip' = s \o t /\ edge' = <<t[2], t[3]>>
      /\ parity' = 1 /\ next' = First.next
      /\ UNCHANGED <<phase, input, restarts, unstripVars>>
  BY <1>2, <1>4 DEF StartStrip
<1>6. strip \in Seq(Index)
  BY <1>1 DEF TypeOK, Index
<1>7. /\ s \in Seq(Index) /\ StripStart(s, Len(s)) = Len(s) /\ Decoded(s) = Decoded(strip)
      /\ Len(s) <= Len(strip) + 1
  <2>1. CASE strip = <<>>
    <3>1. s = <<>>
      BY <1>4, <2>1
    <3> QED
      BY <2>1, <3>1, StripEmpty
  <2>2. CASE strip # <<>>
    <3>1. s = Append(strip, Restart)
      BY <1>4, <1>6, <2>2, AppendIsConcat DEF Index
    <3> QED
      BY <1>6, <3>1, DecodedRestart
  <2> QED
    BY <2>1, <2>2
<1>8. /\ Stands(strip', edge', parity') /\ Len(strip') = Len(s) + 3
      /\ Decoded(strip') = IF Degenerate(t) THEN Decoded(strip) ELSE Append(Decoded(strip), t)
  BY <1>5, <1>7, BeginTriangle
<1>9. Len(strip') <= Len(strip) + 5
  <2>1. Len(s) \in Nat /\ Len(strip) \in Nat
    BY <1>6, <1>7
  <2> QED
    BY <1>7, <1>8, <2>1
<1>10. Ahead(edge', parity') = <<t[3], t[2]>>
  BY <1>5 DEF Ahead
<1>11. next' \in MatchSet(Len(Rest(FirstAt))) /\ Leads(next', Rest(FirstAt), edge', parity')
  BY <1>3, <1>5, <1>10
<1> QED
  BY <1>1, <1>3, <1>5, <1>8, <1>9, <1>11, StripStep

\* A vertex that is in the edge ahead ends a degenerate triangle.
LEMMA EmitFlat ==
  ASSUME NEW s, NEW e, NEW p, Stands(s, e, p), NEW x \in {e[1], e[2]}
  PROVE  /\ Stands(Append(s, x), <<e[2], x>>, 1 - p)
         /\ Len(Append(s, x)) = Len(s) + 1
         /\ Decoded(Append(s, x)) = Decoded(s)
<1>1. e \in Vertices \X Vertices /\ x \in Vertices
  BY DEF Stands
<1>2. Degenerate(<<Ahead(e, p)[1], Ahead(e, p)[2], x>>)
  BY <1>1 DEF Ahead, Degenerate
<1> QED
  BY <1>1, <1>2, Emit

\* The degenerate triangles between two strips, and the first triangle of the second.
LEMMA Connect ==
  ASSUME NEW s, NEW e, NEW p, Stands(s, e, p), NEW t \in Triangle
  PROVE  LET f == IF p = 1 THEN <<t[3], t[2]>> ELSE <<t[2], t[3]>>
             u == IF p = 1 THEN <<t[3], t[1], t[2]>> ELSE t
             l == s \o <<e[2], t[1]>> \o <<t[1]>> \o f
         IN  /\ Stands(l, f, 1 - p) /\ Len(l) = Len(s) + 5
             /\ Decoded(l) = IF Degenerate(u) THEN Decoded(s) ELSE Append(Decoded(s), u)
             /\ s \in Seq(Vertices) => l \in Seq(Vertices)
<1> DEFINE f == IF p = 1 THEN <<t[3], t[2]>> ELSE <<t[2], t[3]>>
           u == IF p = 1 THEN <<t[3], t[1], t[2]>> ELSE t
           l == s \o <<e[2], t[1]>> \o <<t[1]>> \o f
<1>1. /\ t[1] \in Vertices /\ t[2] \in Vertices /\ t[3] \in Vertices /\ t = <<t[1], t[2], t[3]>>
      /\ e[1] \in Vertices /\ e[2] \in Vertices /\ p \in 0..1 /\ s \in Seq(Index)
  BY DEF Triangle, Stands
<1>2. PICK x \in Vertices, y \in Vertices : f = <<x, y>> /\ (p = 1 => x = t[3] /\ y = t[2]) /\ (p = 0 => x = t[2] /\ y = t[3])
  BY <1>1
<1>3. PICK a : a = t[1]
  OBVIOUS
<1>4. PICK s1, s2, s3, s4, s5 : /\ s1 = Append(s, e[2]) /\ s2 = Append(s1, a) /\ s3 = Append(s2, a)
                                /\ s4 = Append(s3, x) /\ s5 = Append(s4, y)
  OBVIOUS
<1>5. Stands(s1, <<e[2], e[2]>>, 1 - p) /\ Len(s1) = Len(s) + 1 /\ Decoded(s1) = Decoded(s)
  BY <1>4, EmitFlat
<1>6. Stands(s2, <<e[2], a>>, p) /\ Len(s2) = Len(s1) + 1 /\ Decoded(s2) = Decoded(s1)
  <2>1. PICK g : g = <<e[2], e[2]>>
    OBVIOUS
  <2>2. Degenerate(<<Ahead(g, 1 - p)[1], Ahead(g, 1 - p)[2], a>>)
    BY <2>1 DEF Degenerate, Ahead
  <2>3. /\ Stands(s2, <<g[2], a>>, 1 - (1 - p)) /\ Len(s2) = Len(s1) + 1
        /\ Decoded(s2) = Decoded(s1)
    BY <1>1, <1>3, <1>4, <1>5, <2>1, <2>2, Emit
  <2>4. <<g[2], a>> = <<e[2], a>> /\ 1 - (1 - p) = p
    BY <1>1, <2>1
  <2> QED
    BY <2>3, <2>4
<1>7. Stands(s3, <<a, a>>, 1 - p) /\ Len(s3) = Len(s2) + 1 /\ Decoded(s3) = Decoded(s2)
  <2>1. PICK g : g = <<e[2], a>>
    OBVIOUS
  <2>2. a \in {g[1], g[2]} /\ g[2] = a
    BY <2>1
  <2> QED
    BY <1>4, <1>6, <2>1, <2>2, EmitFlat
<1>8. Stands(s4, <<a, x>>, p) /\ Len(s4) = Len(s3) + 1 /\ Decoded(s4) = Decoded(s3)
  <2>1. PICK g : g = <<a, a>>
    OBVIOUS
  <2>2. Degenerate(<<Ahead(g, 1 - p)[1], Ahead(g, 1 - p)[2], x>>)
    BY <2>1 DEF Degenerate, Ahead
  <2>3. /\ Stands(s4, <<g[2], x>>, 1 - (1 - p)) /\ Len(s4) = Len(s3) + 1
        /\ Decoded(s4) = Decoded(s3)
    <3>1. Stands(s3, g, 1 - p)
      BY <1>7, <2>1
    <3> HIDE DEF f, u, l
    <3> QED
      BY <1>4, <2>2, <3>1, Emit
  <2>4. <<g[2], x>> = <<a, x>> /\ 1 - (1 - p) = p
    BY <1>1, <2>1
  <2> QED
    BY <2>3, <2>4
<1>9. /\ Stands(s5, <<x, y>>, 1 - p) /\ Len(s5) = Len(s4) + 1
      /\ Decoded(s5) = IF Degenerate(u) THEN Decoded(s4) ELSE Append(Decoded(s4), u)
  <2>1. PICK g : g = <<a, x>>
    OBVIOUS
  <2>2. <<Ahead(g, p)[1], Ahead(g, p)[2], y>> = u /\ g[2] = x
    BY <1>1, <1>2, <1>3, <2>1 DEF Ahead
  <2> HIDE DEF u
  <2>3. /\ Stands(s5, <<g[2], y>>, 1 - p) /\ Len(s5) = Len(s4) + 1
        /\ Decoded(s5) = IF Degenerate(<<Ahead(g, p)[1], Ahead(g, p)[2], y>>) THEN Decoded(s4)
                         ELSE Append(Decoded(s4), <<Ahead(g, p)[1], Ahead(g, p)[2], y>>)
    <3>1. Stands(s4, g, p)
      BY <1>8, <2>1
    <3> HIDE DEF f, l
    <3> QED
      <4>1. y \in Vertices /\ s5 = Append(s4, y)
        BY <1>2, <1>4
      <4>2. /\ Stands(Append(s4, y), <<g[2], y>>, 1 - p) /\ Len(Append(s4, y)) = Len(s4) + 1
            /\ Decoded(Append(s4, y)) =
                 IF Degenerate(<<Ahead(g, p)[1], Ahead(g, p)[2], y>>) THEN Decoded(s4)
                 ELSE Append(Decoded(s4), <<Ahead(g, p)[1], Ahead(g, p)[2], y>>)
        BY <3>1, <4>1, Emit
      <4> QED
        BY <4>1, <4>2
  <2> QED
    BY <2>2, <2>3
<1>10. l = s5
  <2>1. s2 \in Seq(Index) /\ s3 \in Seq(Index) /\ a \in Index /\ x \in Index /\ y \in Index /\ e[2] \in Index
    BY <1>1, <1>3, <1>6, <1>7 DEF Stands, Index
  <2>2. s \o <<e[2], a>> = s2
    BY <1>1, <1>4, <2>1, AppendTwo
  <2>3. s2 \o <<a>> = s3
    BY <1>4, <2>1, AppendIsConcat
  <2>4. s3 \o <<x, y>> = s5
    BY <1>4, <2>1, AppendTwo
  <2>5. l = s \o <<e[2], a>> \o <<a>> \o <<x, y>>
    BY <1>2, <1>3
  <2> HIDE DEF l, f
  <2> QED
    BY <2>2, <2>3, <2>4, <2>5
<1>11. s \in Seq(Vertices) => s5 \in Seq(Vertices)
  <2> SUFFICES ASSUME s \in Seq(Vertices) PROVE s5 \in Seq(Vertices)
    OBVIOUS
  <2>1. s1 \in Seq(Vertices)
    BY <1>1, <1>4, AppendProperties
  <2>2. s2 \in Seq(Vertices)
    BY <1>1, <1>3, <1>4, <2>1, AppendProperties
  <2>3. s3 \in Seq(Vertices)
    BY <1>1, <1>3, <1>4, <2>2, AppendProperties
  <2>4. s4 \in Seq(Vertices)
    BY <1>4, <2>3, AppendProperties
  <2> QED
    BY <1>4, <2>4, AppendProperties
<1>12. Len(s5) = Len(s) + 5
  <2>1. Len(s) \in Nat
    BY <1>1
  <2> QED
    BY <1>5, <1>6, <1>7, <1>8, <1>9, <2>1
<1>13. Decoded(s5) = IF Degenerate(u) THEN Decoded(s) ELSE Append(Decoded(s), u)
  BY <1>5, <1>6, <1>7, <1>8, <1>9
<1>14. Stands(s5, f, 1 - p)
  BY <1>2, <1>9
<1> HIDE DEF l, u, f
<1>15. /\ Stands(l, f, 1 - p) /\ Len(l) = Len(s) + 5
       /\ Decoded(l) = IF Degenerate(u) THEN Decoded(s) ELSE Append(Decoded(s), u)
       /\ s \in Seq(Vertices) => l \in Seq(Vertices)
  BY <1>10, <1>11, <1>12, <1>13, <1>14
<1> QED
  BY <1>15 DEF l, u, f

LEMMA ConnectStripStep == StripInv /\ ConnectStrip => StripInv'
<1> SUFFICES ASSUME StripInv, ConnectStrip PROVE StripInv'
  OBVIOUS
<1>1. Stripping /\ phase = "strip" /\ ~restarts /\ TypeOK
  BY DEF ConnectStrip, Stripping, StripInv
<1>2. PICK t \in Triangle : t = First.tri
  BY <1>1, FirstIs
<1>3. /\ FirstAt \in 1..Len(Filled) /\ t \in Turns(Filled[FirstAt])
      /\ First.next \in MatchSet(Len(Rest(FirstAt)))
      /\ \A e, p : Ahead(e, p) = <<t[3], t[2]>> => Leads(First.next, Rest(FirstAt), e, p)
      /\ Filled[FirstAt] \in Triangle
  BY <1>1, <1>2, FirstIs
<1>4. PICK l : l = strip \o (IF strip = <<>> THEN <<>> ELSE <<edge[2], t[1]>>) \o <<t[1]>> \o FirstEdge(t)
  OBVIOUS
<1>5. /\ TakeTriangle(FirstAt) /\ strip' = l /\ edge' = FirstEdge(t)
      /\ parity' = 1 - parity /\ next' = First.next
      /\ UNCHANGED <<phase, input, restarts, unstripVars>>
  BY <1>2, <1>4 DEF ConnectStrip
<1>6. strip \in Seq(Vertices) /\ Len(strip) \in Nat
  BY <1>1 DEF StripInv
<1>7. PICK u : u = IF parity = 1 THEN <<t[3], t[1], t[2]>> ELSE t
  OBVIOUS
<1>8. u \in Turns(Filled[FirstAt])
  <2>1. u \in Turns(t)
    BY <1>7 DEF Turns
  <2> QED
    BY <1>3, <2>1, TurnsTwice
<1>9. /\ Stands(l, FirstEdge(t), 1 - parity) /\ Len(l) <= Len(strip) + 5
      /\ Decoded(l) = IF Degenerate(u) THEN Decoded(strip) ELSE Append(Decoded(strip), u)
      /\ l \in Seq(Vertices)
  <2>1. CASE strip = <<>>
    <3>1. parity = 0
      BY <1>1, <2>1 DEF StripInv
    <3>2. t[1] \in Vertices /\ t[2] \in Vertices /\ t[3] \in Vertices /\ t = <<t[1], t[2], t[3]>>
      BY DEF Triangle
    <3>3. l = <<t[1]>> \o <<t[2], t[3]>>
      BY <1>4, <2>1, <3>1, <3>2 DEF FirstEdge
    <3>4. PICK x \in Vertices, y \in Vertices, z \in Vertices : x = t[1] /\ y = t[2] /\ z = t[3]
      BY <3>2
    <3>5. l = <<>> \o t /\ l \in Seq(Vertices)
      <4>1. <<x>> \in Seq(Index) /\ <<x>> = Append(<<>>, x) /\ x \in Index /\ y \in Index /\ z \in Index
        BY DEF Index
      <4>2. <<x>> \o <<y, z>> = Append(Append(<<x>>, y), z)
        BY <4>1, AppendTwo
      <4>3. t \in Index \X Index \X Index /\ t[1] = x /\ t[2] = y /\ t[3] = z
        BY <3>4, <4>1 DEF Triangle, Index
      <4>4. <<>> \o t = Append(Append(Append(<<>>, x), y), z)
        BY <4>3, StripEmpty, AppendThree
      <4>5. l = <<x>> \o <<y, z>>
        BY <3>3, <3>4
      <4>6. l = <<>> \o t
        BY <4>1, <4>2, <4>4, <4>5
      <4>7. <<x>> \in Seq(Vertices)
        OBVIOUS
      <4>8. Append(<<x>>, y) \in Seq(Vertices)
        BY <4>7, AppendProperties
      <4>9. Append(Append(<<x>>, y), z) \in Seq(Vertices)
        BY <4>8, AppendProperties
      <4> QED
        BY <4>2, <4>5, <4>6, <4>9
    <3>6. l = <<>> \o t /\ l \in Seq(Vertices)
      BY <3>5
    <3>7. /\ Stands(l, <<t[2], t[3]>>, 1) /\ Len(l) = 0 + 3
          /\ Decoded(l) = IF Degenerate(t) THEN Decoded(<<>>) ELSE Append(Decoded(<<>>), t)
      BY <3>6, StripEmpty, BeginTriangle
    <3>8. FirstEdge(t) = <<t[2], t[3]>> /\ u = t /\ 1 - parity = 1 /\ Len(strip) = 0
      BY <1>7, <2>1, <3>1 DEF FirstEdge
    <3>9. Decoded(l) = IF Degenerate(u) THEN Decoded(strip) ELSE Append(Decoded(strip), u)
      BY <2>1, <3>7, <3>8
    <3>10. Stands(l, FirstEdge(t), 1 - parity)
      BY <3>7, <3>8
    <3>11. Len(l) <= Len(strip) + 5
      BY <3>7, <3>8
    <3> QED
      BY <3>6, <3>9, <3>10, <3>11
  <2>2. CASE strip # <<>>
    <3>1. Stands(strip, edge, parity)
      BY <1>1, <2>2 DEF StripInv
    <3>2. l = strip \o <<edge[2], t[1]>> \o <<t[1]>> \o FirstEdge(t)
      BY <1>4, <2>2
    <3>3. /\ Stands(l, FirstEdge(t), 1 - parity) /\ Len(l) = Len(strip) + 5
          /\ Decoded(l) = IF Degenerate(u) THEN Decoded(strip) ELSE Append(Decoded(strip), u)
          /\ strip \in Seq(Vertices) => l \in Seq(Vertices)
      <4>1. PICK f : f = IF parity = 1 THEN <<t[3], t[2]>> ELSE <<t[2], t[3]>>
        OBVIOUS
      <4>2. PICK k : k = strip \o <<edge[2], t[1]>> \o <<t[1]>> \o f
        OBVIOUS
      <4>3. /\ Stands(k, f, 1 - parity) /\ Len(k) = Len(strip) + 5
            /\ Decoded(k) = IF Degenerate(u) THEN Decoded(strip) ELSE Append(Decoded(strip), u)
            /\ strip \in Seq(Vertices) => k \in Seq(Vertices)
        <5>1. LET f0 == IF parity = 1 THEN <<t[3], t[2]>> ELSE <<t[2], t[3]>>
                  u0 == IF parity = 1 THEN <<t[3], t[1], t[2]>> ELSE t
                  l0 == strip \o <<edge[2], t[1]>> \o <<t[1]>> \o f0
              IN  /\ Stands(l0, f0, 1 - parity) /\ Len(l0) = Len(strip) + 5
                  /\ Decoded(l0) = IF Degenerate(u0) THEN Decoded(strip) ELSE Append(Decoded(strip), u0)
                  /\ strip \in Seq(Vertices) => l0 \in Seq(Vertices)
          BY <3>1, Connect
        <5> QED
          BY <1>7, <4>1, <4>2, <5>1
      <4>4. FirstEdge(t) = f
        BY <4>1 DEF FirstEdge
      <4>5. k = l
        BY <3>2, <4>2, <4>4
      <4> QED
        BY <4>3, <4>4, <4>5
    <3> QED
      BY <1>6, <3>3
  <2> QED
    BY <2>1, <2>2
<1>10. Ahead(edge', parity') = <<t[3], t[2]>>
  <2>1. parity \in 0..1
    BY <1>1 DEF TypeOK
  <2> QED
    BY <1>5, <2>1 DEF Ahead, FirstEdge
<1>11. next' \in MatchSet(Len(Rest(FirstAt))) /\ Leads(next', Rest(FirstAt), edge', parity')
  BY <1>3, <1>5, <1>10
<1> QED
  BY <1>1, <1>3, <1>5, <1>8, <1>9, <1>11, StripStep

-----------------------------------------------------------------------------
(* The other steps. *)

LEMMA InputType ==
  ASSUME Init
  PROVE  input \in Seq(Triangles) /\ valence \in [Vertices -> 0..ValenceMod - 1]
<1>1. PICK n \in Nat : input \in [1..n -> Triangles]
  BY Constants DEF Init
<1>2. input \in Seq(Triangles) /\ DOMAIN input = 1..n
  BY <1>1
<1>3. ASSUME NEW v \in Vertices
      PROVE  Cardinality({u \in (DOMAIN input) \X (1..3) : input[u[1]][u[2]] = v}) % ValenceMod \in 0..ValenceMod - 1
  <2> DEFINE D == (DOMAIN input) \X (1..3)
             U == {u \in D : input[u[1]][u[2]] = v}
  <2>1. IsFiniteSet(D)
    BY <1>2, Indices, FS_Product
  <2>2. U \in SUBSET D
    OBVIOUS
  <2> HIDE DEF D
  <2>3. Cardinality(U) \in Nat
    BY <2>1, <2>2, FS_Subset, FS_CardinalityType
  <2> HIDE DEF U
  <2>4. Cardinality(U) % ValenceMod \in 0..ValenceMod - 1
    BY <2>3, Constants
  <2> QED
    BY <2>4 DEF U, D
<1>4. valence = [v \in Vertices |->
        Cardinality({u \in (DOMAIN input) \X (1..3) : input[u[1]][u[2]] = v}) % ValenceMod]
  BY DEF Init
<1> QED
  BY <1>2, <1>3, <1>4

LEMMA RawEmpty == Raw(<<>>) = <<>> /\ Decoded(<<>>) = <<>>
<1>1. Raw(<<>>) = <<>>
  BY DEF Raw
<1> QED
  BY <1>1, SolidEmpty DEF Decoded

LEMMA InitStep == Init => StripInv
<1> SUFFICES ASSUME Init PROVE StripInv
  OBVIOUS
<1>1. input \in Seq(Triangles) /\ valence \in [Vertices -> 0..ValenceMod - 1]
  BY InputType
<1>2. next = NoMatch /\ ~Found(next) /\ next \in [at : 0..Capacity, corner : 0..2]
  BY Constants DEF Init, NoMatch, Found
<1>3. /\ phase = "strip" /\ restarts \in BOOLEAN /\ offset = 0 /\ buffer = <<>> /\ edge = <<0, 0>>
      /\ parity = 0 /\ strip = <<>> /\ pos = 0 /\ start = 0 /\ out = <<>> /\ taken = <<>>
  BY DEF Init
<1>4. TypeOK
  <2>1. 0 \in 0..Len(input) /\ Len(<<>>) = 0 /\ 0 < Capacity /\ <<0, 0>> \in Vertices \X Vertices
    BY <1>1, Constants
  <2>2. /\ buffer \in Seq(Triangles) /\ strip \in Seq(Vertices \cup {Restart}) /\ out \in Seq(Triangle)
        /\ taken \in Seq(Triangles)
    BY <1>3
  <2> QED
    BY <1>1, <1>2, <1>3, <2>1, <2>2 DEF TypeOK
<1>5. Matched(Decoded(strip), Solid(taken))
  BY <1>3, RawEmpty, SolidEmpty DEF Matched
<1>6. Len(strip) <= StripBound(Len(taken)) /\ strip \in Seq(Vertices)
  BY <1>3 DEF StripBound
<1> QED
  BY <1>2, <1>3, <1>4, <1>5, <1>6 DEF StripInv

LEMMA StripEndStep == StripInv /\ StripEnd => StripInv'
<1> SUFFICES ASSUME StripInv, StripEnd PROVE StripInv'
  OBVIOUS
<1>1. /\ phase = "strip" /\ ~Stripping /\ phase' = "unstrip"
      /\ input' = input /\ restarts' = restarts /\ offset' = offset /\ buffer' = buffer
      /\ valence' = valence /\ next' = next /\ edge' = edge /\ parity' = parity /\ strip' = strip
      /\ taken' = taken /\ pos' = pos /\ start' = start /\ out' = out
  BY DEF StripEnd, stripVars, unstripVars
<1>2. TypeOK /\ pos = 0 /\ start = 0 /\ out = <<>>
  BY <1>1 DEF StripInv
<1>3. TypeOK'
  BY <1>1, <1>2 DEF TypeOK
<1>4. buffer = <<>> /\ offset = Len(input)
  BY <1>1, <1>2 DEF Stripping, TypeOK
<1>5. start = StripStart(strip, pos)
  <2>1. StripStart(strip, 0) \in 0..0
    BY StripStartIs
  <2> QED
    BY <1>2, <2>1
<1>6. out = Solid(SubSeq(Raw(strip), 1, pos))
  <2>1. SubSeq(Raw(strip), 1, 0) = <<>>
    BY SubSeqEmpty
  <2> QED
    BY <1>2, <2>1, SolidEmpty
<1> QED
  BY <1>1, <1>3, <1>4, <1>5, <1>6 DEF StripInv

\* A step that leaves everything alone but what is unstripped.
LEMMA UnstripStep ==
  ASSUME StripInv, phase = "unstrip", UNCHANGED <<input, restarts, stripVars>>,
         phase' \in {"unstrip", "done"}, phase' = "done" => pos' = Len(strip),
         pos' \in 0..Len(strip), start' \in 0..pos', out' \in Seq(Triangle),
         start' = StripStart(strip, pos'), out' = Solid(SubSeq(Raw(strip), 1, pos')),
         out' = <<>> \/ Len(out') + 2 <= pos'
  PROVE  StripInv'
<1>1. /\ input' = input /\ restarts' = restarts /\ offset' = offset /\ buffer' = buffer
      /\ valence' = valence /\ next' = next /\ edge' = edge /\ parity' = parity /\ strip' = strip
      /\ taken' = taken
  BY DEF stripVars
<1>2. TypeOK'
  BY <1>1 DEF TypeOK, StripInv
<1> QED
  BY <1>1, <1>2 DEF StripInv

LEMMA UnstripRestartStep == StripInv /\ UnstripRestart => StripInv'
<1> SUFFICES ASSUME StripInv, UnstripRestart PROVE StripInv'
  OBVIOUS
<1>1. /\ phase = "unstrip" /\ pos < Len(strip) /\ strip[pos + 1] = Restart /\ phase' = phase
      /\ start' = pos + 1 /\ pos' = pos + 1 /\ out' = out /\ UNCHANGED <<input, restarts, stripVars>>
  BY DEF UnstripRestart, Unstripping
<1>2. /\ strip \in Seq(Index) /\ pos \in 0..Len(strip) /\ out \in Seq(Triangle)
      /\ start = StripStart(strip, pos) /\ out = Solid(SubSeq(Raw(strip), 1, pos))
      /\ out = <<>> \/ Len(out) + 2 <= pos
  BY <1>1 DEF StripInv, TypeOK, Index
<1>3. StripStart(strip, pos + 1) = pos + 1
  BY <1>1, <1>2, StripStartNext
<1>4. PICK n \in Nat, r \in Seq(Triangle) : n = Len(strip) /\ r = Raw(strip) /\ Len(r) = n
  BY <1>2, RawType
<1>5. RawAt(strip, pos + 1) = <<0, 0, 0>>
  <2>1. (pos + 1) - 1 - (pos + 1) < 2
    BY <1>2
  <2> QED
    BY <1>3, <2>1 DEF RawAt
<1>6. r[pos + 1] = <<0, 0, 0>>
  BY <1>1, <1>2, <1>4, <1>5 DEF Raw
<1>7. SubSeq(r, 1, pos + 1) = Append(SubSeq(r, 1, pos), r[pos + 1])
  BY <1>1, <1>2, <1>4
<1>8. SubSeq(r, 1, pos) \in Seq(Triangle) /\ r[pos + 1] \in Triangle
  BY <1>1, <1>2, <1>4
<1>9. out' = Solid(SubSeq(r, 1, pos + 1))
  <2>1. PICK p \in Seq(Triangle), t \in Triangle : p = SubSeq(r, 1, pos) /\ t = r[pos + 1]
    BY <1>8
  <2>2. Degenerate(t)
    BY <1>6, <2>1 DEF Degenerate
  <2>3. Solid(Append(p, t)) = Solid(p)
    BY <2>2, SolidAppend
  <2> QED
    BY <1>1, <1>2, <1>4, <1>7, <2>1, <2>3
<1>10. /\ pos' \in 0..Len(strip) /\ start' \in 0..pos' /\ out' \in Seq(Triangle)
       /\ start' = StripStart(strip, pos') /\ out' = Solid(SubSeq(Raw(strip), 1, pos'))
       /\ out' = <<>> \/ Len(out') + 2 <= pos'
  <2>1. Len(out) \in Nat
    BY <1>2
  <2> QED
    BY <1>1, <1>2, <1>3, <1>4, <1>9, <2>1
<1> QED
  BY <1>1, <1>10, UnstripStep

LEMMA UnstripIndexStep == StripInv /\ UnstripIndex => StripInv'
<1> SUFFICES ASSUME StripInv, UnstripIndex PROVE StripInv'
  OBVIOUS
<1>1. /\ phase = "unstrip" /\ pos < Len(strip) /\ ~(restarts /\ strip[pos + 1] = Restart) /\ phase' = phase
      /\ start' = start /\ pos' = pos + 1 /\ UNCHANGED <<input, restarts, stripVars>>
      /\ out' = IF pos - start >= 2 /\ ~Degenerate(TriangleAt(pos + 1))
                  THEN Append(out, TriangleAt(pos + 1)) ELSE out
  BY DEF UnstripIndex, Unstripping
<1>2. /\ strip \in Seq(Index) /\ pos \in 0..Len(strip) /\ out \in Seq(Triangle) /\ start \in 0..pos
      /\ start = StripStart(strip, pos) /\ out = Solid(SubSeq(Raw(strip), 1, pos))
      /\ out = <<>> \/ Len(out) + 2 <= pos
  BY <1>1 DEF StripInv, TypeOK, Index
<1>3. strip[pos + 1] # Restart
  <2>1. CASE restarts
    BY <1>1, <2>1
  <2>2. CASE ~restarts
    <3>1. strip \in Seq(Vertices) /\ pos + 1 \in 1..Len(strip)
      BY <1>1, <1>2, <2>2 DEF StripInv
    <3> QED
      BY <3>1, Constants
  <2> QED
    BY <2>1, <2>2
<1>4. StripStart(strip, pos + 1) = start
  BY <1>2, <1>3, StripStartNext
<1>5. PICK n \in Nat, r \in Seq(Triangle) : n = Len(strip) /\ r = Raw(strip) /\ Len(r) = n
  BY <1>2, RawType
<1>6. PICK t : t = TriangleAt(pos + 1)
  OBVIOUS
<1>7. r[pos + 1] = IF pos - start >= 2 THEN t ELSE <<0, 0, 0>>
  <2>1. r[pos + 1] = RawAt(strip, pos + 1)
    BY <1>1, <1>2, <1>5 DEF Raw
  <2>2. (pos + 1) - 1 - start = pos - start /\ (pos + 1) - 1 = pos /\ (pos + 1) - 2 = pos - 1
    BY <1>2
  <2>3. RawAt(strip, pos + 1) = IF pos - start < 2 THEN <<0, 0, 0>>
          ELSE IF (pos - start) % 2 = 1 THEN <<strip[pos], strip[pos - 1], strip[pos + 1]>>
          ELSE <<strip[pos - 1], strip[pos], strip[pos + 1]>>
    BY <1>4, <2>2 DEF RawAt
  <2>4. t = IF (pos - start) % 2 = 1 THEN <<strip[pos], strip[pos - 1], strip[pos + 1]>>
            ELSE <<strip[pos - 1], strip[pos], strip[pos + 1]>>
    BY <1>6, <2>2 DEF TriangleAt
  <2>5. pos - start < 2 <=> ~ (pos - start >= 2)
    BY <1>2
  <2> QED
    BY <2>1, <2>3, <2>4, <2>5
<1>8. SubSeq(r, 1, pos + 1) = Append(SubSeq(r, 1, pos), r[pos + 1])
  BY <1>1, <1>2, <1>5
<1>9. SubSeq(r, 1, pos) \in Seq(Triangle) /\ r[pos + 1] \in Triangle
  BY <1>1, <1>2, <1>5
<1>10. Degenerate(<<0, 0, 0>>)
  BY DEF Degenerate
<1>11. out' = IF Degenerate(r[pos + 1]) THEN out ELSE Append(out, r[pos + 1])
  BY <1>1, <1>6, <1>7, <1>10
<1>12. out' = Solid(SubSeq(r, 1, pos + 1))
  BY <1>2, <1>5, <1>8, <1>9, <1>11, SolidAppend
<1>13. out' \in Seq(Triangle)
  BY <1>2, <1>9, <1>11, AppendProperties
<1>14. out' = <<>> \/ Len(out') + 2 <= pos + 1
  <2>1. Len(out) \in Nat
    BY <1>2
  <2>2. CASE Degenerate(r[pos + 1])
    BY <1>2, <1>11, <2>1, <2>2
  <2>3. CASE ~Degenerate(r[pos + 1])
    <3>1. pos >= 2
      BY <1>2, <1>7, <1>10, <2>3
    <3>2. Len(out') = Len(out) + 1
      BY <1>2, <1>9, <1>11, <2>3, AppendProperties
    <3>3. out = <<>> => Len(out) = 0
      OBVIOUS
    <3> QED
      BY <1>2, <2>1, <3>1, <3>2, <3>3
  <2> QED
    BY <2>2, <2>3
<1>15. pos' \in 0..Len(strip) /\ start' \in 0..pos'
  BY <1>1, <1>2, <1>5
<1> QED
  BY <1>1, <1>4, <1>5, <1>12, <1>13, <1>14, <1>15, UnstripStep

LEMMA UnstripEndStep == StripInv /\ UnstripEnd => StripInv'
<1> SUFFICES ASSUME StripInv, UnstripEnd PROVE StripInv'
  OBVIOUS
<1>1. /\ phase = "unstrip" /\ ~(pos < Len(strip)) /\ phase' = "done" /\ UNCHANGED <<input, restarts, stripVars>>
      /\ pos' = pos /\ start' = start /\ out' = out
  BY DEF UnstripEnd, Unstripping, unstripVars
<1>2. /\ strip \in Seq(Index) /\ pos \in 0..Len(strip) /\ out \in Seq(Triangle) /\ start \in 0..pos
      /\ start = StripStart(strip, pos) /\ out = Solid(SubSeq(Raw(strip), 1, pos))
      /\ out = <<>> \/ Len(out) + 2 <= pos
  BY <1>1 DEF StripInv, TypeOK, Index
<1>3. pos = Len(strip)
  BY <1>1, <1>2
<1> QED
  BY <1>1, <1>2, <1>3, UnstripStep

LEMMA StutterStep == StripInv /\ UNCHANGED vars => StripInv'
<1> SUFFICES ASSUME StripInv, UNCHANGED vars PROVE StripInv'
  OBVIOUS
<1>1. /\ phase' = phase
      /\ input' = input /\ restarts' = restarts /\ offset' = offset /\ buffer' = buffer
      /\ valence' = valence /\ next' = next /\ edge' = edge /\ parity' = parity /\ strip' = strip
      /\ taken' = taken /\ pos' = pos /\ start' = start /\ out' = out
  BY DEF vars, stripVars, unstripVars
<1>2. TypeOK'
  BY <1>1 DEF StripInv, TypeOK
<1>3. Filled' = Filled
  BY <1>1 DEF Filled
<1> QED
  BY <1>1, <1>2, <1>3 DEF StripInv

LEMMA StripInvStep == StripInv /\ [Next]_vars => StripInv'
<1> SUFFICES ASSUME StripInv, [Next]_vars PROVE StripInv'
  OBVIOUS
<1>1. CASE Continue
  BY <1>1, ContinueStep
<1>2. CASE Swap
  BY <1>2, SwapStep
<1>3. CASE StartStrip
  BY <1>3, StartStripStep
<1>4. CASE ConnectStrip
  BY <1>4, ConnectStripStep
<1>5. CASE StripEnd
  BY <1>5, StripEndStep
<1>6. CASE UnstripRestart
  BY <1>6, UnstripRestartStep
<1>7. CASE UnstripIndex
  BY <1>7, UnstripIndexStep
<1>8. CASE UnstripEnd
  BY <1>8, UnstripEndStep
<1>9. CASE Returned \/ UNCHANGED vars
  BY <1>9, StutterStep DEF Returned
<1> QED
  BY <1>1, <1>2, <1>3, <1>4, <1>5, <1>6, <1>7, <1>8, <1>9 DEF Next

LEMMA StripInvariant == Spec => []StripInv
  BY InitStep, StripInvStep, PTL DEF Spec

-----------------------------------------------------------------------------
(* What follows from it. *)

\* Every variable has its type: the buffer never holds Capacity triangles between two iterations,
\* and every index that is read or written is in its array.
THEOREM TypeCorrect == Spec => []TypeOK
<1>1. StripInv => TypeOK
  BY DEF StripInv
<1> QED
  BY <1>1, StripInvariant, PTL

\* The edge, the parity and the announced triangle that stripify carries from one iteration to the
\* next agree with the strip that it has written and with its buffer.
THEOREM StaysInStep == Spec => []InStep
<1>1. StripInv => InStep
  <2> SUFFICES ASSUME StripInv PROVE InStep
    OBVIOUS
  <2>1. TypeOK
    BY DEF StripInv
  <2>2. ASSUME phase = "strip", strip # <<>>
        PROVE  /\ edge = <<strip[Len(strip) - 1], strip[Len(strip)]>>
               /\ parity = (Len(strip) - StripStart(strip, Len(strip))) % 2
               /\ Found(next) =>
                    /\ next.at <= Len(Filled)
                    /\ Opposite(Filled[next.at], next.corner) = Oriented(edge[1], edge[2])
    <3>1. Stands(strip, edge, parity) /\ Leads(next, Filled, edge, parity)
      BY <2>2 DEF StripInv
    <3>2. Oriented(edge[1], edge[2]) = Ahead(edge, parity)
      <4>1. edge \in Vertices \X Vertices
        BY <2>1 DEF TypeOK
      <4>2. edge = <<edge[1], edge[2]>>
        BY <4>1
      <4> QED
        BY <4>2 DEF Oriented, Ahead
    <3> QED
      BY <3>1, <3>2 DEF Stands, Leads
  <2> QED
    BY <2>1, <2>2 DEF InStep
<1> QED
  BY <1>1, StripInvariant, PTL

-----------------------------------------------------------------------------
(* The strips are a channel for triangles. *)

LEMMA TurnsAreRotations == \A t : Stream!Rotations(t) = Turns(t)
<1> SUFFICES ASSUME NEW t PROVE Stream!Rotations(t) = Turns(t)
  OBVIOUS
<1>1. /\ Stream!RotateTo(t, 0) = t
      /\ Stream!RotateTo(t, 1) = <<t[2], t[3], t[1]>>
      /\ Stream!RotateTo(t, 2) = <<t[3], t[1], t[2]>>
  BY DEF Stream!RotateTo
<1>2. 0..2 = {0, 1, 2}
  OBVIOUS
<1> QED
  BY <1>1, <1>2 DEF Stream!Rotations, Turns

\* A triangle that leaves the buffer enters the stream unless it is degenerate.
LEMMA TakeSends ==
  ASSUME TypeOK, NEW at \in 1..Len(Filled), TakeTriangle(at), out' = out
  PROVE  [Stream!Next]_<<Solid(taken), out>>
<1>1. taken \in Seq(Triangles) /\ taken' = Append(taken, Filled[at]) /\ Filled[at] \in Triangles
  BY Takes DEF TypeOK
<1>2. PICK t : t = Filled[at]
  OBVIOUS
<1>3. t \in Stream!Triangle
  BY <1>1, <1>2, Constants DEF Stream!Triangle, Triangle
<1>4. Solid(taken') = IF Degenerate(t) THEN Solid(taken) ELSE Append(Solid(taken), t)
  BY <1>1, <1>2, SolidAppend
<1>5. CASE Degenerate(t)
  BY <1>4, <1>5
<1>6. CASE ~Degenerate(t)
  <2>1. Stream!Send
    BY <1>3, <1>4, <1>6 DEF Stream!Send
  <2> QED
    BY <2>1 DEF Stream!Next
<1> QED
  BY <1>5, <1>6

\* A triangle that comes out is a turn of the next one that went in.
LEMMA IndexDelivers ==
  ASSUME StripInv, StripInv', UnstripIndex
  PROVE  [Stream!Next]_<<Solid(taken), out>>
<1>1. /\ phase' = "unstrip" /\ strip' = strip /\ taken' = taken
      /\ out' = IF pos - start >= 2 /\ ~Degenerate(TriangleAt(pos + 1))
                  THEN Append(out, TriangleAt(pos + 1)) ELSE out
  BY DEF UnstripIndex, Unstripping, stripVars
<1>2. CASE out' = out
  BY <1>1, <1>2
<1>3. CASE out' # out
  <2>1. PICK r : out' = Append(out, r)
    BY <1>1, <1>3
  <2>2. PICK q, d, s : q = out' /\ d = Decoded(strip) /\ s = Solid(taken)
    OBVIOUS
  <2>3. pos' \in 0..Len(strip) /\ q \in Seq(Triangle) /\ out \in Seq(Triangle)
        /\ q = Solid(SubSeq(Raw(strip), 1, pos')) /\ strip \in Seq(Index)
    BY <1>1, <2>2 DEF StripInv, TypeOK, Index
  <2>4. Matched(d, s)
    BY <2>2 DEF StripInv
  <2>5. Raw(strip) \in Seq(Triangle) /\ Len(Raw(strip)) = Len(strip)
    BY <2>3, RawType
  <2>6. Len(q) <= Len(d) /\ \A i \in 1..Len(q) : q[i] = d[i]
    <3>0. PICK w \in Seq(Triangle) : w = Raw(strip) /\ Len(w) = Len(strip)
      BY <2>5
    <3>1. PICK k \in 0..Len(w) : k = pos'
      BY <2>3, <3>0
    <3>2. PICK p : p = Solid(SubSeq(w, 1, k))
      OBVIOUS
    <3>3. Len(p) <= Len(Solid(w)) /\ \A i \in 1..Len(p) : p[i] = Solid(w)[i]
      BY <3>2, SolidPrefix
    <3>4. p = q /\ Solid(w) = d
      BY <2>2, <2>3, <3>0, <3>1, <3>2 DEF Decoded
    <3> QED
      BY <3>3, <3>4
  <2>7. PICK n \in Nat : n = Len(out)
    BY <2>3
  <2>8. Len(q) = n + 1 /\ q[n + 1] = r
    <3>1. Len(q) \in Nat /\ DOMAIN q = 1..Len(q) /\ q = Append(out, r) /\ DOMAIN out = 1..n
      BY <2>1, <2>2, <2>3, <2>7
    <3>2. PICK o \in Seq(Triangle) : o = out /\ Len(o) = n
      BY <2>3, <2>7
    <3>3. o \in Seq({r} \cup Triangle)
      BY SeqMonotonic
    <3>4. Len(Append(o, r)) = Len(o) + 1 /\ Append(o, r)[Len(o) + 1] = r
      BY <3>3, Enqueue
    <3> QED
      BY <3>1, <3>2, <3>4
  <2>9. Len(d) \in Nat
    <3>1. d \in Seq(Triangle)
      BY <2>2, <2>5, SolidType DEF Decoded
    <3> QED
      BY <3>1
  <2>10. n + 1 \in 1..Len(d) /\ n < Len(d)
    BY <2>6, <2>8, <2>9
  <2>11. r \in Turns(s[n + 1]) /\ n < Len(s)
    BY <2>4, <2>6, <2>8, <2>10 DEF Matched
  <2>12. Stream!Deliver
    BY <1>1, <2>1, <2>2, <2>7, <2>11, TurnsAreRotations DEF Stream!Deliver
  <2> QED
    BY <2>12 DEF Stream!Next
<1> QED
  BY <1>2, <1>3

LEMMA StreamStep == StripInv /\ StripInv' /\ [Next]_vars => [Stream!Next]_<<Solid(taken), out>>
<1> SUFFICES ASSUME StripInv, StripInv', [Next]_vars PROVE [Stream!Next]_<<Solid(taken), out>>
  OBVIOUS
<1>0. TypeOK
  BY DEF StripInv
<1>1. CASE Continue \/ Swap
  <2>1. Stripping /\ Found(next) /\ TakeTriangle(next.at) /\ out' = out
    BY <1>1 DEF Continue, Swap, unstripVars
  <2>2. next.at \in 1..Len(Filled)
    BY <2>1, Announced
  <2> QED
    BY <1>0, <2>1, <2>2, TakeSends
<1>2. CASE StartStrip \/ ConnectStrip
  <2>1. Stripping /\ TakeTriangle(FirstAt) /\ out' = out
    BY <1>2 DEF StartStrip, ConnectStrip, unstripVars
  <2>2. FirstAt \in 1..Len(Filled)
    BY <1>0, <2>1, FirstIs
  <2> QED
    BY <1>0, <2>1, <2>2, TakeSends
<1>3. CASE UnstripIndex
  BY <1>3, IndexDelivers
<1>4. CASE StripEnd \/ UnstripRestart \/ UnstripEnd \/ Returned \/ UNCHANGED vars
  <2>1. taken' = taken /\ out' = out
    BY <1>4 DEF StripEnd, UnstripRestart, UnstripEnd, Returned, vars, stripVars, unstripVars
  <2> QED
    BY <2>1
<1> QED
  BY <1>1, <1>2, <1>3, <1>4 DEF Next

\* The two functions implement the abstract stream of triangles: what comes out of meshopt_unstripify
\* are the triangles in the order in which they left the buffer, none lost, none invented, each one
\* possibly rotated but with its winding.
THEOREM ImplementsStream == Spec => StreamSpec
<1>1. Init => Stream!Init
  BY SolidEmpty DEF Init, Stream!Init
<1> QED
  BY <1>1, StripInvariant, StreamStep, PTL DEF Spec, StreamSpec, Stream!Spec

-----------------------------------------------------------------------------
(* Nothing is lost in the buffer. *)

\* Sequences that have every element equally often are equal as bags.
LEMMA SameBag ==
  ASSUME NEW T, NEW f \in Seq(T), NEW g \in Seq(T), \A x \in T : Times(f, {x}) = Times(g, {x})
  PROVE  ToBag(f) = ToBag(g)
<1> DEFINE At(q, x) == {i \in DOMAIN q : q[i] = x}
<1>1. ASSUME NEW q \in Seq(T), NEW x \in T
      PROVE  Cardinality(At(q, x)) = Times(q, {x}) /\ (x \in Range(q) <=> Times(q, {x}) # 0)
  <2>1. DOMAIN q = 1..Len(q)
    BY LenProperties
  <2>2. At(q, x) = {i \in 1..Len(q) : q[i] \in {x}}
    BY <2>1
  <2>3. IsFiniteSet(At(q, x)) /\ Cardinality(At(q, x)) = Times(q, {x})
    BY <2>2, TimesType DEF Times
  <2>4. x \in Range(q) <=> At(q, x) # {}
    BY DEF Range
  <2> HIDE DEF At
  <2> QED
    BY <2>3, <2>4, FS_EmptySet
<1>2. Range(f) \subseteq T /\ Range(g) \subseteq T
  BY RangeOfSeq
<1>3. Range(f) = Range(g)
  BY <1>1, <1>2
<1>4. \A x \in Range(f) : Cardinality(At(f, x)) = Cardinality(At(g, x))
  BY <1>1, <1>2, ZenonT(30)
<1>5. ToBag(f) = [x \in Range(f) |-> Cardinality(At(f, x))] /\ ToBag(g) = [x \in Range(g) |-> Cardinality(At(g, x))]
  BY DEF ToBag
<1> HIDE DEF At
<1> QED
  BY <1>3, <1>4, <1>5

\* The triangles that are c up to rotation, and those that are not degenerate.
Turned(c) == {t \in Triangle : Turns(t) = c}
Live(C)   == {t \in C : ~Degenerate(t)}

LEMMA SameUnrotated ==
  ASSUME NEW q \in Seq(Triangle), NEW r \in Seq(Triangle),
         \A c : Times(q, Turned(c)) = Times(r, Turned(c))
  PROVE  Unrotated(q) = Unrotated(r)
<1> DEFINE T == {Turns(t) : t \in Triangle}
           u(s) == [k \in 1..Len(s) |-> Turns(s[k])]
<1>1. ASSUME NEW s \in Seq(Triangle)
      PROVE  u(s) \in Seq(T) /\ \A c : Times(u(s), {c}) = Times(s, Turned(c))
  <2>1. PICK n \in Nat : n = Len(s)
    OBVIOUS
  <2>2. \A k \in 1..n : s[k] \in Triangle
    BY <2>1
  <2>3. u(s) \in [1..n -> T]
    BY <2>1, <2>2
  <2>4. u(s) \in Seq(T) /\ Len(u(s)) = n
    <3> HIDE DEF u, T
    <3> QED
      BY <2>3
  <2>5. ASSUME NEW c PROVE {k \in 1..n : u(s)[k] \in {c}} = {k \in 1..n : s[k] \in Turned(c)}
    BY <2>1, <2>2 DEF Turned
  <2> HIDE DEF u
  <2> QED
    BY <2>1, <2>4, <2>5 DEF Times
<1>2. u(q) \in Seq(T) /\ u(r) \in Seq(T) /\ \A x \in T : Times(u(q), {x}) = Times(u(r), {x})
  <2> HIDE DEF u, T
  <2> QED
    BY <1>1
<1>3. ToBag(u(q)) = ToBag(u(r))
  <2> HIDE DEF u, T
  <2> QED
    BY <1>2, SameBag, ZenonT(30)
<1> QED
  BY <1>3 DEF Unrotated

LEMMA SameTurns == ASSUME NEW t \in Triangle, NEW u \in Turns(t) PROVE Turns(u) = Turns(t)
<1>1. PICK a \in Vertices, b \in Vertices, c \in Vertices : t = <<a, b, c>>
  BY DEF Triangle
<1>2. u \in {<<a, b, c>>, <<b, c, a>>, <<c, a, b>>}
  BY <1>1 DEF Turns
<1>3. Turns(t) = {<<a, b, c>>, <<b, c, a>>, <<c, a, b>>}
  BY <1>1 DEF Turns
<1>4. CASE u = <<a, b, c>>
  BY <1>3, <1>4 DEF Turns
<1>5. CASE u = <<b, c, a>>
  BY <1>3, <1>5 DEF Turns
<1>6. CASE u = <<c, a, b>>
  BY <1>3, <1>6 DEF Turns
<1> QED
  BY <1>2, <1>4, <1>5, <1>6

LEMMA MatchedUnrotated ==
  ASSUME NEW r, NEW s \in Seq(Triangle), Matched(r, s)
  PROVE  Unrotated(r) = Unrotated(s)
<1>1. Len(r) = Len(s) /\ \A k \in 1..Len(s) : Turns(r[k]) = Turns(s[k])
  BY SameTurns DEF Matched
<1> QED
  BY <1>1 DEF Unrotated

\* What is not degenerate is counted in the triangles as in those that are kept.
LEMMA SolidTimes ==
  ASSUME NEW T, NEW s \in Seq(T), NEW C
  PROVE  Times(Solid(s), C) = Times(s, Live(C))
<1> DEFINE P(j) == SubSeq(s, 1, j)
           I == {m \in Nat : m <= Len(s) => Times(Solid(P(m)), C) = Times(P(m), Live(C))}
<1>1. PICK n \in Nat : n = Len(s)
  OBVIOUS
<1>2. \A j \in 0..n : P(j) \in Seq(T)
  BY <1>1, SubSeqProperties
<1>3. P(0) = <<>> /\ P(n) = s
  BY <1>1, SubSeqFull, SubSeqEmpty
<1>4. ASSUME NEW j \in Nat, j + 1 <= n PROVE P(j + 1) = Append(P(j), s[j + 1]) /\ s[j + 1] \in T
  BY <1>1, <1>4
<1> HIDE DEF P
<1>5. 0 \in I
  BY <1>3, SolidEmpty, TimesNone
<1>6. ASSUME NEW m \in Nat, m \in I PROVE m + 1 \in I
  <2>1. ASSUME m + 1 <= n PROVE Times(Solid(P(m + 1)), C) = Times(P(m + 1), Live(C))
    <3>1. PICK p \in Seq(T), t \in T : p = P(m) /\ t = s[m + 1]
      <4>1. m \in 0..n
        BY <2>1
      <4>2. P(m) \in Seq(T) /\ s[m + 1] \in T
        BY <1>2, <1>4, <2>1, <4>1
      <4> QED
        BY <4>2
    <3>2. P(m + 1) = Append(p, t)
      BY <1>4, <2>1, <3>1
    <3>3. Times(Solid(p), C) = Times(p, Live(C))
      BY <1>1, <1>6, <2>1, <3>1
    <3>4. Times(Append(p, t), Live(C)) = Times(p, Live(C)) + (IF t \in Live(C) THEN 1 ELSE 0)
      BY TimesAppend
    <3>5. Solid(Append(p, t)) = IF Degenerate(t) THEN Solid(p) ELSE Append(Solid(p), t)
      BY SolidAppend
    <3>6. Solid(p) \in Seq(T) /\ Times(p, Live(C)) \in Nat
      BY SolidType, TimesType
    <3>7. Times(Append(Solid(p), t), C) = Times(Solid(p), C) + (IF t \in C THEN 1 ELSE 0)
      BY <3>6, TimesAppend
    <3>8. CASE Degenerate(t)
      <4>1. t \notin Live(C)
        BY <3>8 DEF Live
      <4>2. Times(Append(p, t), Live(C)) = Times(p, Live(C))
        BY <3>4, <3>6, <4>1
      <4> QED
        BY <3>2, <3>3, <3>5, <3>8, <4>2
    <3>9. CASE ~Degenerate(t)
      BY <3>2, <3>3, <3>4, <3>5, <3>7, <3>9 DEF Live
    <3> QED
      BY <3>8, <3>9
  <2> QED
    BY <1>1, <2>1
<1>7. Nat \subseteq I
  <2> HIDE DEF I
  <2> QED
    BY <1>5, <1>6, NatSetInduction
<1> QED
  BY <1>1, <1>3, <1>7

\* The triangles that have been read have been taken or are in the buffer.
Conserved ==
  \A C \in SUBSET Triangle :
    Times(taken, C) + Times(buffer, C) = Times(SubSeq(input, 1, offset), C)

LEMMA TakeConserves ==
  ASSUME TypeOK, Conserved, NEW at \in 1..Len(Filled), TakeTriangle(at), input' = input
  PROVE  Conserved'
<1>1. /\ buffer' = Rest(at) /\ buffer' \in Seq(Triangles)
      /\ offset' \in 0..Len(input)
      /\ taken' \in Seq(Triangles) /\ taken' = Append(taken, Filled[at])
      /\ Filled \in Seq(Triangles) /\ Filled[at] \in Triangles
  BY Takes
<1>2. PICK l \in Seq(Triangles), b \in Seq(Triangles), f \in Seq(Triangles), k \in Seq(Triangles) :
        l = input /\ b = buffer /\ f = Filled /\ k = taken
  BY <1>1 DEF TypeOK
<1>3. PICK o \in 0..Len(l), h \in 0..Len(l) : o = offset /\ h = offset' /\ h = o + Len(f) - Len(b)
  BY <1>1, <1>2 DEF TypeOK, TakeTriangle
<1>4. PICK t \in Triangles : t = f[at]
  BY <1>1, <1>2
<1>5. f = b \o SubSeq(l, o + 1, h) /\ o <= h
  <2>1. Len(b) < Capacity /\ f = Fill(l, b, o)
    BY <1>2, <1>3, FilledIs DEF TypeOK
  <2>2. /\ Len(b) <= Len(f)
        /\ f = b \o SubSeq(l, o + 1, o + Len(f) - Len(b))
    BY <2>1, FillIs
  <2>3. Len(b) \in Nat /\ Len(f) \in Nat
    OBVIOUS
  <2>4. f = b \o SubSeq(l, o + 1, h)
    BY <1>3, <2>2
  <2>5. o <= h
    BY <1>3, <2>2, <2>3
  <2> QED
    BY <2>4, <2>5
<1>6. PICK g : g = SubSeq(l, o + 1, h)
  OBVIOUS
<1>7. SubSeq(l, 1, h) = SubSeq(l, 1, o) \o g
  <2>1. 1 \in 1..Len(l) + 1 /\ o \in (1 - 1)..Len(l) /\ h \in o..Len(l)
    BY <1>3, <1>5
  <2> QED
    BY <1>6, <2>1, ConcatAdjacentSubSeq
<1>8. g \in Seq(Triangles) /\ SubSeq(l, 1, o) \in Seq(Triangles)
  <2>1. (\A i \in (o + 1)..h : l[i] \in Triangles) /\ \A i \in 1..o : l[i] \in Triangles
    BY <1>3
  <2> QED
    BY <1>6, <2>1, SubSeqProperties
<1>9. ASSUME NEW C \in SUBSET Triangle
      PROVE  Times(taken', C) + Times(buffer', C) = Times(SubSeq(input', 1, offset'), C)
  <2>1. PICK z \in {0, 1} : z = IF t \in C THEN 1 ELSE 0
    OBVIOUS
  <2>2. Times(taken', C) = Times(k, C) + z
    BY <1>1, <1>2, <1>4, <2>1, TimesAppend
  <2>3. Times(buffer', C) + z = Times(f, C)
    <3>1. at \in 1..Len(f) /\ buffer' = SubSeq(f, 1, at - 1) \o SubSeq(f, at + 1, Len(f))
      BY <1>1, <1>2 DEF Rest, RemoveAt
    <3> QED
      BY <1>4, <2>1, <3>1, TimesWithout
  <2>4. Times(f, C) = Times(b, C) + Times(g, C)
    BY <1>5, <1>6, <1>8, TimesConcat
  <2>5. Times(SubSeq(l, 1, h), C) = Times(SubSeq(l, 1, o), C) + Times(g, C)
    <3>1. PICK e \in Seq(Triangles) : e = SubSeq(l, 1, o)
      BY <1>8
    <3>2. Times(e \o g, C) = Times(e, C) + Times(g, C)
      BY <1>8, TimesConcat
    <3> QED
      BY <1>7, <3>1, <3>2
  <2>6. Times(k, C) + Times(b, C) = Times(SubSeq(l, 1, o), C)
    BY <1>2, <1>3 DEF Conserved
  <2>7. /\ Times(k, C) \in Nat /\ Times(b, C) \in Nat /\ Times(g, C) \in Nat /\ Times(buffer', C) \in Nat
    BY <1>1, <1>8, TimesType
  <2>8. Times(k, C) + z + Times(buffer', C) = Times(SubSeq(l, 1, h), C)
    <3>1. PICK a \in Nat, c \in Nat, d \in Nat, e \in Nat :
            a = Times(k, C) /\ c = Times(b, C) /\ d = Times(g, C) /\ e = Times(buffer', C)
      BY <2>7
    <3>2. e + z = c + d /\ Times(SubSeq(l, 1, h), C) = (a + c) + d
      BY <2>3, <2>4, <2>5, <2>6, <3>1
    <3>3. a + z + e = (a + c) + d
      BY <2>1, <3>2
    <3> QED
      BY <3>1, <3>2, <3>3
  <2>9. input' = l /\ offset' = h
    BY <1>2, <1>3
  <2> QED
    BY <2>2, <2>8, <2>9
<1> QED
  BY <1>9 DEF Conserved

LEMMA ConservedStep == StripInv /\ Conserved /\ [Next]_vars => Conserved'
<1> SUFFICES ASSUME StripInv, Conserved, [Next]_vars PROVE Conserved'
  OBVIOUS
<1>0. TypeOK
  BY DEF StripInv
<1>1. CASE Continue \/ Swap
  <2>1. Stripping /\ Found(next) /\ TakeTriangle(next.at) /\ input' = input
    BY <1>1 DEF Continue, Swap
  <2>2. next.at \in 1..Len(Filled)
    BY <2>1, Announced
  <2> QED
    BY <1>0, <2>1, <2>2, TakeConserves
<1>2. CASE StartStrip \/ ConnectStrip
  <2>1. Stripping /\ TakeTriangle(FirstAt) /\ input' = input
    BY <1>2 DEF StartStrip, ConnectStrip
  <2>2. FirstAt \in 1..Len(Filled)
    BY <1>0, <2>1, FirstIs
  <2> QED
    BY <1>0, <2>1, <2>2, TakeConserves
<1>3. CASE StripEnd \/ UnstripRestart \/ UnstripIndex \/ UnstripEnd \/ Returned \/ UNCHANGED vars
  <2>1. taken' = taken /\ buffer' = buffer /\ offset' = offset /\ input' = input
    BY <1>3 DEF StripEnd, UnstripRestart, UnstripIndex, UnstripEnd, Returned, vars, stripVars, unstripVars
  <2> QED
    BY <2>1 DEF Conserved
<1> QED
  BY <1>1, <1>2, <1>3 DEF Next

LEMMA ConservedInit == Init => Conserved
<1> SUFFICES ASSUME Init PROVE Conserved
  OBVIOUS
<1>1. taken = <<>> /\ buffer = <<>> /\ offset = 0
  BY DEF Init
<1>2. SubSeq(input, 1, 0) = <<>>
  BY SubSeqEmpty
<1> QED
  <2>1. ASSUME NEW C \in SUBSET Triangle PROVE Times(taken, C) + Times(buffer, C) = Times(SubSeq(input, 1, offset), C)
    <3>1. Times(taken, C) = 0 /\ Times(buffer, C) = 0
      BY <1>1, TimesNone
    <3>2. Times(SubSeq(input, 1, offset), C) = 0
      BY <1>1, <1>2, TimesNone
    <3> QED
      BY <3>1, <3>2
  <2> QED
    BY <2>1 DEF Conserved

\* Whatever the list, the size of the buffer and the kind of strips, the two functions together give
\* back every triangle that is not degenerate, once, with its winding, and nothing else; and the
\* arrays that the bounds of the two functions ask for suffice.
THEOREM AllComeBack == Spec => []Complete
<1>1. StripInv /\ Conserved => Complete
  <2> SUFFICES ASSUME StripInv, Conserved PROVE Complete
    OBVIOUS
  <2>0. TypeOK
    BY DEF StripInv
  <2>1. ASSUME phase = "done" PROVE Unrotated(out) = Unrotated(Solid(input))
    <3>1. buffer = <<>> /\ offset = Len(input) /\ pos = Len(strip)
          /\ out = Solid(SubSeq(Raw(strip), 1, pos)) /\ Matched(Decoded(strip), Solid(taken))
      BY <2>1 DEF StripInv
    <3>2. PICK l \in Seq(Triangle), k \in Seq(Triangle) : l = input /\ k = taken
      <4>1. input \in Seq(Triangles) /\ taken \in Seq(Triangles)
        BY <2>0 DEF TypeOK
      <4>2. input \in Seq(Triangle) /\ taken \in Seq(Triangle)
        BY <4>1, Constants, SeqMonotonic
      <4> QED
        BY <4>2
    <3>3. out = Decoded(strip)
      <4>1. strip \in Seq(Index)
        BY <2>0 DEF TypeOK, Index
      <4>2. Raw(strip) \in Seq(Triangle) /\ Len(Raw(strip)) = Len(strip)
        BY <4>1, RawType
      <4> QED
        BY <3>1, <4>2, SubSeqFull DEF Decoded
    <3>4. Solid(k) \in Seq(Triangle) /\ Solid(l) \in Seq(Triangle)
      BY SolidType
    <3>5. Unrotated(out) = Unrotated(Solid(k))
      BY <3>1, <3>2, <3>3, <3>4, MatchedUnrotated
    <3>6. ASSUME NEW C \in SUBSET Triangle PROVE Times(k, C) = Times(l, C)
      <4>1. Times(k, C) + Times(<<>>, C) = Times(l, C)
        BY <3>1, <3>2, SubSeqFull DEF Conserved
      <4>2. Times(k, C) \in Nat
        BY TimesType
      <4> QED
        BY <4>1, <4>2, TimesNone
    <3>7. ASSUME NEW c PROVE Times(Solid(k), Turned(c)) = Times(Solid(l), Turned(c))
      <4>1. Live(Turned(c)) \in SUBSET Triangle
        BY DEF Live, Turned
      <4> QED
        BY <3>6, <4>1, SolidTimes
    <3> QED
      BY <3>2, <3>4, <3>5, <3>7, SameUnrotated
  <2>2. Len(strip) <= StripBound(Len(taken))
    BY DEF StripInv
  <2>3. Len(out) <= UnstripBound(Len(strip))
    <3>1. PICK m \in Nat, n \in Nat : m = Len(out) /\ n = Len(strip)
      BY <2>0 DEF TypeOK
    <3>2. pos \in 0..n
      BY <2>0, <3>1 DEF TypeOK
    <3>3. n = 0 \/ n >= 2
      BY <2>0, <3>1, EmptySeq DEF StripInv, TypeOK
    <3>4. m = 0 \/ m + 2 <= pos
      BY <3>1 DEF StripInv
    <3> QED
      BY <3>1, <3>2, <3>3, <3>4 DEF UnstripBound
  <2> QED
    BY <2>1, <2>2, <2>3 DEF Complete
<1> QED
  BY <1>1, StripInvariant, ConservedInit, ConservedStep, PTL DEF Spec
=============================================================================
