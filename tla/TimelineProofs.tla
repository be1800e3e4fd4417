---------------------------- MODULE TimelineProofs ----------------------------
(***************************************************************************)
(* Proofs about the timelines of TimelineEdits.tla, for any clips, windows *)
(* and bounds: the first version shows what the analysis kept, and an edit *)
(* changes what it says and nothing else.                                  *)
(***************************************************************************)
EXTENDS TimelineEdits, ListProofs

-----------------------------------------------------------------------------
(* TimelineEdits: the windows, clips and operations of a timeline.         *)

(* Timelines: windows.                                                     *)

\* What is in the flattened list.
LEMMA FlattenIds ==
    ASSUME NEW S, NEW s \in Seq(Seq(S))
    PROVE  /\ FlattenSeq(s) \in Seq(S)
           /\ ToSet(FlattenSeq(s)) = UNION {ToSet(s[n]) : n \in 1 .. Len(s)}
<1>1. PICK g : Flattened(g, s, S)
  BY FlattenSteps
<1> DEFINE L == Len(s)
           Of(n) == UNION {ToSet(s[m]) : m \in 1 .. n}
           G == {n \in 0 .. L : ToSet(g[n]) = Of(n)}
<1>2. L \in Nat /\ \A n \in 1 .. L : s[n] \in Seq(S)
  BY LenProperties
<1>3. 0 \in G
  <2>1. g[0] = <<>> /\ 0 \in 0 .. L
    BY <1>1, <1>2 DEF Flattened
  <2>2. ToSet(<<>>) = {} /\ Of(0) = {}
    BY DEF ToSet
  <2> QED
    BY <2>1, <2>2
<1>4. ASSUME NEW n \in 0 .. L - 1, n \in G PROVE n + 1 \in G
  <2>1. n \in Nat /\ n \in 0 .. L /\ n + 1 \in 1 .. L /\ n + 1 \in 0 .. L /\ (n + 1) - 1 = n
    BY <1>2
  <2>2. g[n + 1] = g[n] \o s[n + 1] /\ g[n] \in Seq(S) /\ s[n + 1] \in Seq(S)
    BY <1>1, <1>2, <2>1 DEF Flattened
  <2>3. ToSet(g[n + 1]) = ToSet(g[n]) \cup ToSet(s[n + 1])
    BY <2>2, ConcatIds
  <2>4. Of(n + 1) = Of(n) \cup ToSet(s[n + 1])
    <3>1. \A m : m \in 1 .. n + 1 <=> m \in 1 .. n \/ m = n + 1
      BY <2>1
    <3> QED
      BY <3>1
  <2>5. ToSet(g[n]) = Of(n)
    BY <1>4
  <2> HIDE DEF Of
  <2> QED
    BY <2>1, <2>3, <2>4, <2>5
<1> HIDE DEF G
<1>5. \A n \in 0 .. L : n \in G
  BY <1>2, <1>3, <1>4, UpTo
<1>6. L \in 0 .. L
  BY <1>2
<1>7. ToSet(g[L]) = Of(L) /\ FlattenSeq(s) = g[L] /\ g[L] \in Seq(S)
  BY <1>1, <1>5, <1>6 DEF G, Flattened
<1> QED
  BY <1>7

\* Windows in order that do not overlap, within two times.
Tiles(s, lo, hi) ==
    /\ s \in Seq(Int \X Int)
    /\ \A i \in 1 .. Len(s) : lo <= s[i][1] /\ s[i][1] < s[i][2] /\ s[i][2] <= hi
    /\ \A i, j \in 1 .. Len(s) : i < j => s[i][2] <= s[j][1]

LEMMA TileTypes ==
    ASSUME NEW s, NEW lo, NEW hi, Tiles(s, lo, hi)
    PROVE  /\ Len(s) \in Nat /\ DOMAIN s = 1 .. Len(s)
           /\ \A i \in 1 .. Len(s) : s[i] \in Int \X Int /\ s[i][1] \in Int /\ s[i][2] \in Int
BY LenProperties DEF Tiles

LEMMA NoTiles ==
    ASSUME NEW lo, NEW hi
    PROVE  Tiles(<<>>, lo, hi)
BY EmptySeq DEF Tiles

LEMMA OneTile ==
    ASSUME NEW a \in Int, NEW b \in Int, NEW lo \in Int, NEW hi \in Int, lo <= a, a < b, b <= hi
    PROVE  Tiles(<<<<a, b>>>>, lo, hi) /\ ToSet(<<<<a, b>>>>) = {<<a, b>>}
<1> DEFINE w == <<a, b>>
           s == <<w>>
<1>1. w \in Int \X Int /\ w[1] = a /\ w[2] = b
  OBVIOUS
<1> HIDE DEF w
<1>2. s \in Seq(Int \X Int) /\ Len(s) = 1 /\ s[1] = w
  BY <1>1
<1>3. ToSet(s) = {w}
  BY <1>2 DEF ToSet
<1> HIDE DEF s
<1>4. \A i \in 1 .. Len(s) : i = 1
  BY <1>2
<1>5. Tiles(s, lo, hi)
  BY <1>1, <1>2, <1>4 DEF Tiles
<1> QED
  BY <1>3, <1>5 DEF s, w

LEMMA ConcatTiles ==
    ASSUME NEW lo \in Int, NEW mid \in Int, NEW to \in Int, NEW hi \in Int, lo <= mid, mid <= to, to <= hi,
           NEW s, Tiles(s, lo, mid), NEW u, Tiles(u, to, hi)
    PROVE  Tiles(s \o u, lo, hi)
<1> DEFINE m == Len(s)
           n == Len(u)
           v == s \o u
<1>1. /\ m \in Nat /\ n \in Nat
      /\ s \in Seq(Int \X Int) /\ u \in Seq(Int \X Int)
      /\ \A i \in 1 .. m : s[i][1] \in Int /\ s[i][2] \in Int
      /\ \A i \in 1 .. n : u[i][1] \in Int /\ u[i][2] \in Int
  BY TileTypes DEF Tiles
<1>2. /\ v \in Seq(Int \X Int) /\ Len(v) = m + n
      /\ \A i \in 1 .. m + n : v[i] = IF i <= m THEN s[i] ELSE u[i - m]
  BY <1>1, ConcatProperties
<1> HIDE DEF v
<1>3. \A i \in 1 .. m : lo <= s[i][1] /\ s[i][1] < s[i][2] /\ s[i][2] <= mid
  BY DEF Tiles
<1>4. \A i \in 1 .. n : to <= u[i][1] /\ u[i][1] < u[i][2] /\ u[i][2] <= hi
  BY DEF Tiles
<1>5. \A i \in 1 .. m + n : /\ i <= m => i \in 1 .. m
                            /\ ~(i <= m) => i - m \in 1 .. n
  BY <1>1
<1>6. ASSUME NEW i \in 1 .. m + n PROVE lo <= v[i][1] /\ v[i][1] < v[i][2] /\ v[i][2] <= hi
  <2>1. CASE i <= m
    <3>1. v[i] = s[i] /\ i \in 1 .. m
      BY <1>2, <1>5, <2>1
    <3> QED
      BY <1>1, <1>3, <3>1
  <2>2. CASE ~(i <= m)
    <3>1. v[i] = u[i - m] /\ i - m \in 1 .. n
      BY <1>2, <1>5, <2>2
    <3> QED
      BY <1>1, <1>4, <3>1
  <2> QED
    BY <2>1, <2>2
<1>7. ASSUME NEW i \in 1 .. m + n, NEW j \in 1 .. m + n, i < j PROVE v[i][2] <= v[j][1]
  <2>1. CASE j <= m
    <3>0. i <= m
      BY <1>1, <1>7, <2>1
    <3>1. v[i] = s[i] /\ i \in 1 .. m /\ v[j] = s[j] /\ j \in 1 .. m
      BY <1>2, <1>5, <2>1, <3>0
    <3> QED
      BY <1>7, <3>1 DEF Tiles
  <2>2. CASE i <= m /\ ~(j <= m)
    <3>1. v[i] = s[i] /\ i \in 1 .. m /\ v[j] = u[j - m] /\ j - m \in 1 .. n
      BY <1>2, <1>5, <2>2
    <3>2. s[i][2] <= mid /\ to <= u[j - m][1] /\ s[i][2] \in Int /\ u[j - m][1] \in Int
      BY <1>1, <1>3, <1>4, <3>1
    <3> QED
      BY <3>1, <3>2
  <2>3. CASE ~(i <= m)
    <3>0. ~(j <= m) /\ i - m < j - m
      BY <1>1, <1>7, <2>3
    <3>1. v[i] = u[i - m] /\ i - m \in 1 .. n /\ v[j] = u[j - m] /\ j - m \in 1 .. n
      BY <1>2, <1>5, <2>3, <3>0
    <3> QED
      BY <3>0, <3>1 DEF Tiles
  <2> QED
    BY <1>1, <2>1, <2>2, <2>3
<1> QED
  BY <1>2, <1>6, <1>7 DEF Tiles, v

\* What a window shows.
LEMMA InWindows ==
    ASSUME NEW W, W \subseteq Int \X Int
    PROVE  /\ \A t : t \in Within(W) <=> t \in Int /\ \E w \in W : w[1] <= t /\ t < w[2]
           /\ Within(W) \subseteq Int
<1>1. ASSUME NEW t PROVE t \in Within(W) <=> t \in Int /\ \E w \in W : w[1] <= t /\ t < w[2]
  <2>1. \A w \in W : w[1] \in Int /\ w[2] \in Int
    OBVIOUS
  <2>2. ASSUME NEW w \in W PROVE t \in w[1] .. w[2] - 1 <=> t \in Int /\ w[1] <= t /\ t < w[2]
    BY <2>1
  <2>3. t \in Within(W) <=> \E w \in W : t \in w[1] .. w[2] - 1
    BY DEF Within
  <2> QED
    BY <2>2, <2>3
<1> QED
  BY <1>1

\* Each window of a list replaced by windows within it.
LEMMA FlatTiles ==
    ASSUME NEW lo \in Int, NEW hi \in Int, lo <= hi, NEW w, Tiles(w, lo, hi),
           NEW s, DOMAIN s = DOMAIN w, \A n \in DOMAIN w : Tiles(s[n], w[n][1], w[n][2]),
           s = [n \in DOMAIN w |-> s[n]]
    PROVE  /\ Tiles(FlattenSeq(s), lo, hi)
           /\ ToSet(FlattenSeq(s)) = UNION {ToSet(s[n]) : n \in DOMAIN w}
<1> DEFINE L == Len(w)
           S == Int \X Int
<1>1. /\ L \in Nat /\ DOMAIN w = 1 .. L
      /\ \A i \in 1 .. L : w[i][1] \in Int /\ w[i][2] \in Int
  BY TileTypes
<1>2. s \in [1 .. L -> Seq(S)]
  BY <1>1 DEF Tiles
<1>3. s \in Seq(Seq(S)) /\ Len(s) = L
  <2> DEFINE Q == Seq(S)
  <2> HIDE DEF Q, L
  <2>1. s \in [1 .. L -> Q] /\ L \in Nat
    BY <1>1, <1>2 DEF Q
  <2>2. s \in Seq(Q) /\ Len(s) = L
    BY <2>1, FunctionIsList
  <2> QED
    BY <2>2 DEF Q
<1>4. PICK g : Flattened(g, s, S)
  BY <1>3, FlattenSteps
<1>5. /\ g[0] = <<>> /\ FlattenSeq(s) = g[L]
      /\ \A n \in 1 .. L : g[n] = g[n - 1] \o s[n]
  BY <1>3, <1>4 DEF Flattened
<1> DEFINE E(n) == IF n = 0 THEN lo ELSE w[n][2]
           G == {n \in 0 .. L : Tiles(g[n], lo, E(n))}
<1>6. \A n \in 0 .. L : E(n) \in Int /\ lo <= E(n) /\ E(n) <= hi
  <2>1. ASSUME NEW n \in 1 .. L PROVE lo <= w[n][2] /\ w[n][2] <= hi
    <3>1. lo <= w[n][1] /\ w[n][1] < w[n][2] /\ w[n][2] <= hi /\ w[n][1] \in Int /\ w[n][2] \in Int
      BY <1>1 DEF Tiles
    <3> QED
      BY <3>1
  <2>2. \A n \in 0 .. L : n = 0 \/ n \in 1 .. L
    BY <1>1
  <2> QED
    BY <1>1, <2>1, <2>2
<1>7. 0 \in G
  <2>1. 0 \in 0 .. L /\ Tiles(g[0], lo, E(0))
    BY <1>1, <1>5, NoTiles
  <2> QED
    BY <2>1
<1>8. ASSUME NEW n \in 0 .. L - 1, n \in G PROVE n + 1 \in G
  <2>1. n \in 0 .. L /\ n + 1 \in 1 .. L /\ n + 1 \in 0 .. L /\ (n + 1) - 1 = n /\ n + 1 # 0
    BY <1>1
  <2>2. g[n + 1] = g[n] \o s[n + 1] /\ Tiles(g[n], lo, E(n))
    BY <1>5, <1>8, <2>1
  <2>3. Tiles(s[n + 1], w[n + 1][1], w[n + 1][2]) /\ E(n + 1) = w[n + 1][2]
    BY <1>1, <2>1
  <2>4. /\ w[n + 1][1] \in Int /\ w[n + 1][2] \in Int
        /\ lo <= w[n + 1][1] /\ w[n + 1][1] < w[n + 1][2]
    BY <1>1, <2>1 DEF Tiles
  <2>5. E(n) <= w[n + 1][1]
    <3>1. CASE n = 0
      BY <2>4, <3>1
    <3>2. CASE n # 0
      <4>1. n \in 1 .. L /\ n < n + 1
        BY <2>1, <3>2
      <4>2. w[n][2] <= w[n + 1][1]
        BY <2>1, <4>1 DEF Tiles
      <4> QED
        BY <3>2, <4>2
    <3> QED
      BY <3>1, <3>2
  <2>6. E(n) \in Int /\ lo <= E(n)
    BY <1>6, <2>1
  <2> HIDE DEF E
  <2>7. Tiles(g[n] \o s[n + 1], lo, w[n + 1][2])
    <3> DEFINE mid == E(n)
               to == w[n + 1][1]
               end == w[n + 1][2]
               p == g[n]
               q == s[n + 1]
    <3>1. /\ mid \in Int /\ to \in Int /\ end \in Int /\ lo <= mid /\ mid <= to /\ to <= end
          /\ Tiles(p, lo, mid) /\ Tiles(q, to, end)
      BY <2>2, <2>3, <2>4, <2>5, <2>6
    <3> HIDE DEF mid, to, end, p, q
    <3>2. Tiles(p \o q, lo, end)
      BY <3>1, ConcatTiles
    <3> QED
      BY <3>2 DEF p, q, end
  <2> QED
    BY <2>1, <2>2, <2>3, <2>7
<1> HIDE DEF G
<1>9. \A n \in 0 .. L : n \in G
  BY <1>1, <1>7, <1>8, UpTo
<1>10. L \in 0 .. L
  BY <1>1
<1>11. Tiles(g[L], lo, E(L)) /\ E(L) \in Int /\ E(L) <= hi
  BY <1>6, <1>9, <1>10 DEF G
<1> HIDE DEF E
<1>12. Tiles(g[L], lo, hi)
  <2> DEFINE u == g[L]
  <2>1. \A i \in 1 .. Len(u) : u[i][2] \in Int
    BY <1>11, TileTypes
  <2> HIDE DEF u
  <2>2. ASSUME NEW i \in 1 .. Len(u) PROVE u[i][2] <= hi
    <3>1. u[i][2] <= E(L)
      BY <1>11 DEF Tiles, u
    <3> QED
      BY <1>11, <2>1, <3>1
  <2>3. Tiles(u, lo, E(L))
    BY <1>11 DEF u
  <2>4. Tiles(u, lo, hi)
    BY <2>2, <2>3 DEF Tiles
  <2> QED
    BY <2>4 DEF u
<1>13. ToSet(FlattenSeq(s)) = UNION {ToSet(s[n]) : n \in 1 .. L}
  BY <1>3, FlattenIds
<1> QED
  BY <1>1, <1>5, <1>12, <1>13

\* The scenes, in order.
LEMMA ScenesTile ==
    ASSUME NEW a \in EAnalyses
    PROVE  Tiles(Scenes(a), 0, EEnd)
<1> DEFINE P == {0, EEnd} \cup {b \in a.boundaries : 0 < b /\ b < EEnd}
           points == InOrder(P, <)
           D == 1 .. Len(points) - 1
           w == [n \in D |-> <<points[n], points[n + 1]>>]
           s == [n \in D |-> IF points[n + 1] - points[n] >= 2 THEN <<<<points[n], points[n + 1]>>>> ELSE <<>>]
<1>1. EEnd \in Nat /\ a.boundaries \subseteq Int /\ IsFiniteSet(a.boundaries)
  BY EditConstants
<1>2. P \subseteq Nat /\ IsFiniteSet(P) /\ \A x \in P : x <= EEnd
  <2> DEFINE B == {b \in a.boundaries : 0 < b /\ b < EEnd}
  <2>1. IsFiniteSet(B) /\ B \subseteq Nat /\ \A x \in B : x <= EEnd
    <3>1. B \subseteq a.boundaries
      OBVIOUS
    <3>2. \A b \in B : b \in Nat /\ b <= EEnd
      BY <1>1
    <3> HIDE DEF B
    <3> QED
      BY <1>1, <3>1, <3>2, FS_Subset
  <2>2. P = (B \cup {0}) \cup {EEnd}
    OBVIOUS
  <2> HIDE DEF B, P
  <2>3. IsFiniteSet(B \cup {0})
    BY <2>1, FS_AddElement
  <2>4. IsFiniteSet((B \cup {0}) \cup {EEnd})
    BY <2>3, FS_AddElement
  <2> QED
    BY <1>1, <2>1, <2>2, <2>4
<1> HIDE DEF P
<1>3. /\ points \in Seq(P) /\ Len(points) \in Nat
      /\ \A n \in 1 .. Len(points) : points[n] \in P
      /\ \A m, n \in 1 .. Len(points) : m < n => points[m] < points[n]
  BY <1>2, NumbersInOrder, LenProperties
<1> HIDE DEF points
<1>4. ASSUME NEW n \in 1 .. Len(points) PROVE points[n] \in Nat /\ 0 <= points[n] /\ points[n] <= EEnd
  <2>1. points[n] \in P
    BY <1>3
  <2>2. points[n] \in Nat /\ points[n] <= EEnd
    BY <1>2, <2>1
  <2> QED
    BY <2>2
<1>5. ASSUME NEW n \in D
      PROVE  /\ n \in 1 .. Len(points) /\ n + 1 \in 1 .. Len(points)
             /\ points[n] < points[n + 1]
  <2>1. n \in 1 .. Len(points) /\ n + 1 \in 1 .. Len(points) /\ n < n + 1
    BY <1>3
  <2> QED
    BY <1>3, <2>1
<1>6. \A n \in D : w[n] = <<points[n], points[n + 1]>> /\ w[n][1] = points[n] /\ w[n][2] = points[n + 1]
  OBVIOUS
<1>7. Tiles(w, 0, EEnd) /\ DOMAIN w = D
  <2>1. CASE Len(points) = 0
    <3>1. D = 1 .. 0 /\ D = {}
      BY <2>1
    <3>2. w \in [1 .. 0 -> Int \X Int]
      BY <3>1
    <3> HIDE DEF w
    <3>3. w = <<>> /\ DOMAIN w = D
      BY <3>1, <3>2, FunctionIsList, EmptySeq
    <3> QED
      BY <3>3, NoTiles
  <2>2. CASE Len(points) # 0
    <3> DEFINE k == Len(points) - 1
    <3>1. k \in Nat /\ D = 1 .. k
      BY <1>3, <2>2
    <3>2. w \in [1 .. k -> Int \X Int]
      BY <1>4, <1>5, <3>1
    <3> HIDE DEF w, k
    <3>3. w \in Seq(Int \X Int) /\ Len(w) = k /\ DOMAIN w = 1 .. k
      BY <3>1, <3>2, FunctionIsList
    <3>4. ASSUME NEW i \in 1 .. k PROVE 0 <= w[i][1] /\ w[i][1] < w[i][2] /\ w[i][2] <= EEnd
      BY <1>4, <1>5, <1>6, <3>1
    <3>5. ASSUME NEW i \in 1 .. k, NEW j \in 1 .. k, i < j PROVE w[i][2] <= w[j][1]
      <4>1. i \in D /\ j \in D
        BY <3>1
      <4>2. i + 1 \in 1 .. Len(points) /\ j \in 1 .. Len(points)
        BY <1>5, <4>1
      <4>3. i + 1 = j \/ i + 1 < j
        BY <3>5, <3>1
      <4>4. points[i + 1] = points[j] \/ points[i + 1] < points[j]
        BY <1>3, <4>2, <4>3
      <4>5. points[i + 1] \in Nat /\ points[j] \in Nat
        BY <1>4, <4>2
      <4>6. points[i + 1] <= points[j]
        BY <4>4, <4>5
      <4> QED
        BY <1>6, <4>1, <4>6
    <3> QED
      BY <3>1, <3>3, <3>4, <3>5 DEF Tiles
  <2> QED
    BY <2>1, <2>2
<1>8. ASSUME NEW n \in D PROVE Tiles(s[n], w[n][1], w[n][2])
  <2>1. /\ points[n] \in Int /\ points[n + 1] \in Int /\ points[n] < points[n + 1]
        /\ w[n][1] = points[n] /\ w[n][2] = points[n + 1]
    BY <1>4, <1>5, <1>6
  <2>2. CASE points[n + 1] - points[n] >= 2
    <3>1. s[n] = <<<<points[n], points[n + 1]>>>>
      BY <2>2
    <3> HIDE DEF s, w
    <3>2. points[n] <= points[n] /\ points[n + 1] <= points[n + 1]
      BY <2>1
    <3> QED
      BY <2>1, <3>1, <3>2, OneTile
  <2>3. CASE ~(points[n + 1] - points[n] >= 2)
    <3>1. s[n] = <<>>
      BY <2>3
    <3> HIDE DEF s, w
    <3> QED
      BY <3>1, NoTiles
  <2> QED
    BY <2>2, <2>3
<1>9. s = [n \in D |-> s[n]] /\ DOMAIN s = D
  OBVIOUS
<1>10. Scenes(a) = FlattenSeq(s)
  BY DEF Scenes, points, P
<1> HIDE DEF s, w, D
<1>11. 0 \in Int /\ EEnd \in Int /\ 0 <= EEnd
  BY <1>1
<1>12. s = [n \in DOMAIN w |-> s[n]] /\ DOMAIN s = DOMAIN w
       /\ \A n \in DOMAIN w : Tiles(s[n], w[n][1], w[n][2])
  BY <1>7, <1>8, <1>9
<1>13. Tiles(FlattenSeq(s), 0, EEnd)
  BY <1>7, <1>11, <1>12, FlatTiles
<1> QED
  BY <1>10, <1>13

\* What a cut leaves of a window.
LEMMA PiecesTile ==
    ASSUME NEW w \in Int \X Int, w[1] < w[2], NEW c \in Int \X Int
    PROVE  /\ Tiles(Pieces(w, c), w[1], w[2])
           /\ Within(ToSet(Pieces(w, c))) = (w[1] .. w[2] - 1) \ (c[1] .. c[2] - 1)
<1>1. /\ w[1] \in Int /\ w[2] \in Int /\ w[1] <= w[1] /\ w[2] <= w[2]
      /\ c[1] \in Int /\ c[2] \in Int /\ w = <<w[1], w[2]>>
  OBVIOUS
<1>2. Overlaps(w, c) <=> c[1] < w[2] /\ c[1] < c[2] /\ w[1] < c[2]
  BY <1>1 DEF Overlaps, EEarlier, ELater
<1>3. ASSUME NEW v, Tiles(v, w[1], w[2]),
             \A t \in Int : (\E x \in ToSet(v) : x[1] <= t /\ t < x[2])
                              <=> w[1] <= t /\ t < w[2] /\ ~(c[1] <= t /\ t < c[2])
      PROVE  Within(ToSet(v)) = (w[1] .. w[2] - 1) \ (c[1] .. c[2] - 1)
  <2>1. ToSet(v) \subseteq Int \X Int
    <3>1. v \in Seq(Int \X Int) /\ DOMAIN v = 1 .. Len(v) /\ \A i \in 1 .. Len(v) : v[i] \in Int \X Int
      BY <1>3, TileTypes DEF Tiles
    <3> QED
      BY <3>1 DEF ToSet
  <2>2. \A t : t \in Within(ToSet(v)) <=> t \in Int /\ \E x \in ToSet(v) : x[1] <= t /\ t < x[2]
    BY <2>1, InWindows
  <2>3. ASSUME NEW t
        PROVE  t \in Within(ToSet(v)) <=> t \in (w[1] .. w[2] - 1) \ (c[1] .. c[2] - 1)
    <3>1. t \in (w[1] .. w[2] - 1) \ (c[1] .. c[2] - 1)
             <=> t \in Int /\ w[1] <= t /\ t < w[2] /\ ~(c[1] <= t /\ t < c[2])
      BY <1>1
    <3> QED
      BY <1>3, <2>2, <3>1
  <2> QED
    BY <2>3
<1>4. CASE ~Overlaps(w, c)
  <2>1. Pieces(w, c) = <<<<w[1], w[2]>>>>
    BY <1>1, <1>4 DEF Pieces
  <2>2. Tiles(Pieces(w, c), w[1], w[2]) /\ ToSet(Pieces(w, c)) = {<<w[1], w[2]>>}
    BY <1>1, <2>1, OneTile
  <2>3. ASSUME NEW t \in Int
        PROVE  (\E x \in ToSet(Pieces(w, c)) : x[1] <= t /\ t < x[2])
                  <=> w[1] <= t /\ t < w[2] /\ ~(c[1] <= t /\ t < c[2])
    <3>1. (\E x \in ToSet(Pieces(w, c)) : x[1] <= t /\ t < x[2]) <=> w[1] <= t /\ t < w[2]
      BY <2>2
    <3> QED
      BY <1>1, <1>2, <1>4, <3>1
  <2> QED
    BY <1>3, <2>2, <2>3
<1>5. CASE Overlaps(w, c)
  <2> DEFINE p == IF c[1] > w[1] THEN <<<<w[1], c[1]>>>> ELSE <<>>
             q == IF c[2] < w[2] THEN <<<<c[2], w[2]>>>> ELSE <<>>
             mid == IF c[1] > w[1] THEN c[1] ELSE w[1]
             to == IF c[2] < w[2] THEN c[2] ELSE w[2]
  <2>1. Pieces(w, c) = p \o q
    BY <1>5 DEF Pieces
  <2>2. mid \in Int /\ to \in Int /\ w[1] <= mid /\ mid <= to /\ to <= w[2]
    BY <1>1, <1>2, <1>5
  <2>3. Tiles(p, w[1], mid) /\ ToSet(p) = (IF c[1] > w[1] THEN {<<w[1], c[1]>>} ELSE {})
    <3>1. CASE c[1] > w[1]
      <4>1. p = <<<<w[1], c[1]>>>> /\ mid = c[1] /\ w[1] < c[1] /\ c[1] <= c[1]
        BY <1>1, <3>1
      <4> HIDE DEF p, mid
      <4> QED
        BY <1>1, <3>1, <4>1, OneTile
    <3>2. CASE ~(c[1] > w[1])
      <4>1. p = <<>> /\ ToSet(<<>>) = {}
        BY <3>2 DEF ToSet
      <4> HIDE DEF p, mid
      <4> QED
        BY <3>2, <4>1, NoTiles
    <3> QED
      BY <3>1, <3>2
  <2>4. Tiles(q, to, w[2]) /\ ToSet(q) = (IF c[2] < w[2] THEN {<<c[2], w[2]>>} ELSE {})
    <3>1. CASE c[2] < w[2]
      <4>1. q = <<<<c[2], w[2]>>>> /\ to = c[2] /\ c[2] <= c[2]
        BY <1>1, <3>1
      <4> HIDE DEF q, to
      <4> QED
        BY <1>1, <3>1, <4>1, OneTile
    <3>2. CASE ~(c[2] < w[2])
      <4>1. q = <<>> /\ ToSet(<<>>) = {}
        BY <3>2 DEF ToSet
      <4> HIDE DEF q, to
      <4> QED
        BY <3>2, <4>1, NoTiles
    <3> QED
      BY <3>1, <3>2
  <2> HIDE DEF p, q, mid, to
  <2>5. Tiles(p \o q, w[1], w[2])
    <3> DEFINE lo == w[1]
               hi == w[2]
    <3>1. /\ lo \in Int /\ hi \in Int /\ lo <= mid /\ to <= hi /\ Tiles(p, lo, mid) /\ Tiles(q, to, hi)
      BY <1>1, <2>2, <2>3, <2>4
    <3> HIDE DEF lo, hi
    <3>2. Tiles(p \o q, lo, hi)
      BY <2>2, <3>1, ConcatTiles
    <3> QED
      BY <3>2 DEF lo, hi
  <2>6. ToSet(p \o q) = ToSet(p) \cup ToSet(q)
    <3>1. p \in Seq(Int \X Int) /\ q \in Seq(Int \X Int)
      BY <2>3, <2>4 DEF Tiles
    <3> QED
      BY <3>1, ConcatIds
  <2>7. ASSUME NEW t \in Int
        PROVE  (\E x \in ToSet(p \o q) : x[1] <= t /\ t < x[2])
                  <=> w[1] <= t /\ t < w[2] /\ ~(c[1] <= t /\ t < c[2])
    <3>1. (\E x \in ToSet(p) : x[1] <= t /\ t < x[2]) <=> c[1] > w[1] /\ w[1] <= t /\ t < c[1]
      <4>1. CASE c[1] > w[1]
        <5> DEFINE v == <<w[1], c[1]>>
        <5>1. ToSet(p) = {v} /\ v[1] = w[1] /\ v[2] = c[1]
          BY <2>3, <4>1
        <5> HIDE DEF v
        <5>2. (\E x \in {v} : x[1] <= t /\ t < x[2]) <=> v[1] <= t /\ t < v[2]
          OBVIOUS
        <5> QED
          BY <4>1, <5>1, <5>2
      <4>2. CASE ~(c[1] > w[1])
        BY <2>3, <4>2
      <4> QED
        BY <4>1, <4>2
    <3>2. (\E x \in ToSet(q) : x[1] <= t /\ t < x[2]) <=> c[2] < w[2] /\ c[2] <= t /\ t < w[2]
      <4>1. CASE c[2] < w[2]
        <5> DEFINE v == <<c[2], w[2]>>
        <5>1. ToSet(q) = {v} /\ v[1] = c[2] /\ v[2] = w[2]
          BY <2>4, <4>1
        <5> HIDE DEF v
        <5>2. (\E x \in {v} : x[1] <= t /\ t < x[2]) <=> v[1] <= t /\ t < v[2]
          OBVIOUS
        <5> QED
          BY <4>1, <5>1, <5>2
      <4>2. CASE ~(c[2] < w[2])
        BY <2>4, <4>2
      <4> QED
        BY <4>1, <4>2
    <3>3. (\E x \in ToSet(p \o q) : x[1] <= t /\ t < x[2])
            <=> (\E x \in ToSet(p) : x[1] <= t /\ t < x[2]) \/ (\E x \in ToSet(q) : x[1] <= t /\ t < x[2])
      BY <2>6
    <3>4. c[1] < w[2] /\ c[1] < c[2] /\ w[1] < c[2]
      BY <1>2, <1>5
    <3>5. (c[1] > w[1] /\ w[1] <= t /\ t < c[1]) \/ (c[2] < w[2] /\ c[2] <= t /\ t < w[2])
            <=> w[1] <= t /\ t < w[2] /\ ~(c[1] <= t /\ t < c[2])
      BY <1>1, <3>4
    <3> QED
      BY <3>1, <3>2, <3>3, <3>5
  <2> QED
    BY <1>3, <2>1, <2>5, <2>7
<1> QED
  BY <1>4, <1>5

\* A cut taken from windows.
LEMMA SubtractedTiles ==
    ASSUME NEW lo \in Int, NEW hi \in Int, lo <= hi, NEW w, Tiles(w, lo, hi), NEW c \in Int \X Int
    PROVE  /\ Tiles(Subtracted(w, c), lo, hi)
           /\ Within(ToSet(Subtracted(w, c))) = Within(ToSet(w)) \ (c[1] .. c[2] - 1)
<1> DEFINE s == [n \in DOMAIN w |-> Pieces(w[n], c)]
<1>1. /\ DOMAIN w = 1 .. Len(w)
      /\ \A n \in DOMAIN w : w[n] \in Int \X Int /\ w[n][1] < w[n][2]
  BY TileTypes DEF Tiles
<1>2. \A n \in DOMAIN w : /\ Tiles(s[n], w[n][1], w[n][2])
                          /\ Within(ToSet(s[n])) = (w[n][1] .. w[n][2] - 1) \ (c[1] .. c[2] - 1)
  BY <1>1, PiecesTile
<1>3. s = [n \in DOMAIN w |-> s[n]] /\ DOMAIN s = DOMAIN w /\ Subtracted(w, c) = FlattenSeq(s)
  BY DEF Subtracted
<1> HIDE DEF s
<1>4. /\ Tiles(FlattenSeq(s), lo, hi)
      /\ ToSet(FlattenSeq(s)) = UNION {ToSet(s[n]) : n \in DOMAIN w}
  BY <1>2, <1>3, FlatTiles
<1>5. ASSUME NEW t
      PROVE  t \in Within(UNION {ToSet(s[n]) : n \in DOMAIN w})
               <=> t \in Within(ToSet(w)) /\ t \notin c[1] .. c[2] - 1
  <2>1. t \in Within(UNION {ToSet(s[n]) : n \in DOMAIN w})
          <=> \E n \in DOMAIN w : t \in Within(ToSet(s[n]))
    BY DEF Within
  <2>2. t \in Within(ToSet(w)) <=> \E n \in DOMAIN w : t \in w[n][1] .. w[n][2] - 1
    BY DEF Within, ToSet
  <2> QED
    BY <1>2, <2>1, <2>2
<1> QED
  BY <1>3, <1>4, <1>5

\* Every cut taken from a window.
LEMMA SubtractedAllTiles ==
    ASSUME NEW w \in Int \X Int, w[1] < w[2], NEW cuts \in Seq(Int \X Int)
    PROVE  /\ Tiles(SubtractedAll(w, cuts), w[1], w[2])
           /\ Within(ToSet(SubtractedAll(w, cuts))) = (w[1] .. w[2] - 1) \ Within(ToSet(cuts))
<1> DEFINE L == Len(cuts)
           lo == w[1]
           hi == w[2]
           A == {s \in Seq(Int \X Int) : Tiles(s, lo, hi)}
           start == <<w>>
           step == [p \in (1 .. L) \X A |-> Subtracted(p[2], cuts[p[1]])]
           Steps(f) == f = [n \in 0 .. L |-> IF n = 0 THEN start ELSE Subtracted(f[n - 1], cuts[n])]
           left == CHOOSE f : Steps(f)
           Gone(n) == UNION {cuts[m][1] .. cuts[m][2] - 1 : m \in 1 .. n}
<1>1. /\ L \in Nat /\ DOMAIN cuts = 1 .. L /\ lo \in Int /\ hi \in Int /\ lo <= hi /\ lo < hi
      /\ \A n \in 1 .. L : cuts[n] \in Int \X Int
  BY LenProperties
<1>2. start \in A /\ ToSet(start) = {w}
  <2>1. start = <<<<lo, hi>>>> /\ w = <<lo, hi>> /\ lo <= lo /\ hi <= hi
    BY <1>1
  <2> HIDE DEF start, lo, hi
  <2>2. Tiles(start, lo, hi) /\ ToSet(start) = {w}
    BY <1>1, <2>1, OneTile
  <2> QED
    BY <2>2 DEF Tiles
<1>3. ASSUME NEW n \in 1 .. L, NEW s \in A
      PROVE  /\ Subtracted(s, cuts[n]) \in A
             /\ Within(ToSet(Subtracted(s, cuts[n]))) = Within(ToSet(s)) \ (cuts[n][1] .. cuts[n][2] - 1)
  <2> DEFINE c == cuts[n]
  <2>1. c \in Int \X Int /\ Tiles(s, lo, hi)
    BY <1>1
  <2> HIDE DEF c, lo, hi, A, L
  <2>2. /\ Tiles(Subtracted(s, c), lo, hi)
        /\ Within(ToSet(Subtracted(s, c))) = Within(ToSet(s)) \ (c[1] .. c[2] - 1)
    BY <1>1, <2>1, SubtractedTiles
  <2>3. Subtracted(s, c) \in A
    BY <2>2 DEF Tiles, A
  <2> QED
    BY <2>2, <2>3 DEF c
<1>4. StaysIn(step, L, A)
  <2> HIDE DEF A, L
  <2> QED
    BY <1>3 DEF StaysIn
<1>5. \E f : Steps(f)
  <2> HIDE DEF A, L, start, step
  <2>1. PICK g : Follows(g, L, A, start, step)
    BY <1>1, <1>2, <1>4, StepsExist
  <2>2. \A n \in 1 .. L : n - 1 \in 0 .. L /\ n # 0
    BY <1>1
  <2>3. g[0] = start /\ \A n \in 0 .. L : g[n] \in A
    BY <2>1 DEF Follows
  <2>4. ASSUME NEW n \in 1 .. L PROVE g[n] = Subtracted(g[n - 1], cuts[n])
    <3>1. g[n - 1] \in A /\ g[n] = step[<<n, g[n - 1]>>]
      BY <2>1, <2>2, <2>3 DEF Follows
    <3> QED
      BY <3>1 DEF step
  <2>5. g = [n \in 0 .. L |-> g[n]]
    BY <2>1 DEF Follows
  <2>6. \A n \in 0 .. L : n = 0 \/ n \in 1 .. L
    BY <1>1
  <2>7. \A n \in 0 .. L : g[n] = IF n = 0 THEN start ELSE Subtracted(g[n - 1], cuts[n])
    BY <2>2, <2>3, <2>4, <2>6
  <2>8. Steps(g)
    BY <2>5, <2>7
  <2> QED
    BY <2>8
<1>6. Steps(left)
  BY <1>5
<1>7. SubtractedAll(w, cuts) = left[L]
  BY DEF SubtractedAll
<1> HIDE DEF left
<1>8. left[0] = start /\ \A n \in 1 .. L : left[n] = Subtracted(left[n - 1], cuts[n])
  <2>1. \A n \in 1 .. L : n \in 0 .. L /\ n # 0
    BY <1>1
  <2>2. 0 \in 0 .. L
    BY <1>1
  <2> HIDE DEF start, L
  <2> QED
    BY <1>6, <2>1, <2>2
<1> DEFINE G == {n \in 0 .. L : left[n] \in A /\ Within(ToSet(left[n])) = (lo .. hi - 1) \ Gone(n)}
<1>9. 0 \in G
  <2>1. Within({w}) = lo .. hi - 1
    BY DEF Within
  <2>2. Gone(0) = {}
    OBVIOUS
  <2>3. 0 \in 0 .. L
    BY <1>1
  <2> HIDE DEF start, A, lo, hi, Gone
  <2> QED
    BY <1>2, <1>8, <2>1, <2>2, <2>3
<1>10. ASSUME NEW n \in 0 .. L - 1, n \in G PROVE n + 1 \in G
  <2>1. n \in Nat /\ n \in 0 .. L /\ n + 1 \in 1 .. L /\ n + 1 \in 0 .. L /\ (n + 1) - 1 = n
    BY <1>1
  <2>2. Gone(n + 1) = Gone(n) \cup (cuts[n + 1][1] .. cuts[n + 1][2] - 1)
    <3>1. \A m : m \in 1 .. n + 1 <=> m \in 1 .. n \/ m = n + 1
      BY <2>1
    <3> QED
      BY <3>1
  <2> HIDE DEF A, L, lo, hi, Gone
  <2>3. left[n] \in A /\ Within(ToSet(left[n])) = (lo .. hi - 1) \ Gone(n)
    BY <1>10
  <2>4. left[n + 1] = Subtracted(left[n], cuts[n + 1])
    BY <1>8, <2>1
  <2>5. /\ left[n + 1] \in A
        /\ Within(ToSet(left[n + 1])) = Within(ToSet(left[n])) \ (cuts[n + 1][1] .. cuts[n + 1][2] - 1)
    BY <1>3, <2>1, <2>3, <2>4
  <2> QED
    BY <2>1, <2>2, <2>3, <2>5
<1> HIDE DEF G
<1>11. L \in G
  <2>1. \A n \in 0 .. L : n \in G
    BY <1>1, <1>9, <1>10, UpTo
  <2> QED
    BY <1>1, <2>1
<1>12. Gone(L) = Within(ToSet(cuts))
  BY <1>1 DEF Within, ToSet
<1> QED
  BY <1>7, <1>11, <1>12 DEF G

\* The cuts are windows.
LEMMA CutsListed ==
    ASSUME NEW a \in EAnalyses
    PROVE  Cuts(a) \in Seq(Int \X Int)
<1> DEFINE d == [raw \in a.silences |-> Decision(a, raw)]
           Ds == {Decision(a, raw) : raw \in a.silences}
           E == {x \in Ds : x.enabled /\ ~x.conflicts}
           f == [x \in E |-> <<ELater(0, x.at[1] - x.padding[1]), EEarlier(EEnd, x.at[2] + x.padding[2])>>]
           T == {<<ELater(0, x.at[1] - x.padding[1]), EEarlier(EEnd, x.at[2] + x.padding[2])>> : x \in E}
<1>1. /\ a.silences \subseteq Int \X Int /\ IsFiniteSet(a.silences) /\ a.padding \in Int \X Int
      /\ EEnd \in Nat
  BY EditConstants
<1>2. IsFiniteSet(E)
  <2>1. Ds = {d[raw] : raw \in a.silences}
    OBVIOUS
  <2>2. E \subseteq Ds
    OBVIOUS
  <2> HIDE DEF d, Ds, E
  <2>3. IsFiniteSet(Ds)
    BY <1>1, <2>1, FiniteImage
  <2> QED
    BY <2>2, <2>3, FS_Subset
<1>3. ASSUME NEW x \in E
      PROVE  /\ ELater(0, x.at[1] - x.padding[1]) \in Int
             /\ EEarlier(EEnd, x.at[2] + x.padding[2]) \in Int
  <2>1. PICK raw \in a.silences : x = Decision(a, raw)
    OBVIOUS
  <2>2. x.padding = a.padding /\ x.at = <<raw[1] + a.padding[1], raw[2] - a.padding[2]>>
    BY <2>1 DEF Decision
  <2>3. raw[1] \in Int /\ raw[2] \in Int /\ a.padding[1] \in Int /\ a.padding[2] \in Int
    BY <1>1
  <2>4. x.at[1] \in Int /\ x.at[2] \in Int /\ x.padding[1] \in Int /\ x.padding[2] \in Int
    BY <2>2, <2>3
  <2> QED
    BY <1>1, <2>4 DEF ELater, EEarlier
<1>4. T = {f[x] : x \in E}
  OBVIOUS
<1>5. T \subseteq Int \X Int
  <2> HIDE DEF E
  <2> QED
    BY <1>3
<1>6. Cuts(a) = InOrder(T, Earlier)
  BY DEF Cuts
<1> HIDE DEF E, f, T
<1>7. IsFiniteSet(T)
  BY <1>2, <1>4, FiniteImage
<1>8. InOrder(T, Earlier) \in Seq(T)
  BY <1>5, <1>7, PairsInOrder
<1> QED
  BY <1>5, <1>6, <1>8, SeqDef

\* What an analysis keeps of the source.
Kept(a) == Within(ToSet(Scenes(a))) \ Within(ToSet(Cuts(a)))

\* The windows of the first version are in order, and show what is kept, or the
\* whole source.
LEMMA SourceShows ==
    ASSUME NEW a \in EAnalyses
    PROVE  /\ Tiles(SourceWindows(a), 0, EEnd) /\ SourceWindows(a) # <<>>
           /\ Within(ToSet(SourceWindows(a))) = IF Kept(a) = {} THEN 0 .. EEnd - 1 ELSE Kept(a)
<1> DEFINE w == Scenes(a)
           cuts == Cuts(a)
           s == [n \in DOMAIN w |-> SubtractedAll(w[n], cuts)]
           kept == FlattenSeq(s)
<1>1. Tiles(w, 0, EEnd) /\ cuts \in Seq(Int \X Int) /\ EEnd \in Nat \ {0}
  BY ScenesTile, CutsListed, EditConstants
<1>2. SourceWindows(a) = IF kept = <<>> THEN <<<<0, EEnd>>>> ELSE kept
  BY DEF SourceWindows
<1>3. Kept(a) = Within(ToSet(w)) \ Within(ToSet(cuts))
  BY DEF Kept
<1>4. s = [n \in DOMAIN w |-> s[n]] /\ DOMAIN s = DOMAIN w
  OBVIOUS
<1>5. \A n \in DOMAIN w : s[n] = SubtractedAll(w[n], cuts)
  OBVIOUS
<1> HIDE DEF w, cuts, s
<1>6. ASSUME NEW n \in DOMAIN w
      PROVE  /\ Tiles(s[n], w[n][1], w[n][2])
             /\ Within(ToSet(s[n])) = (w[n][1] .. w[n][2] - 1) \ Within(ToSet(cuts))
  <2> DEFINE v == w[n]
  <2>1. v \in Int \X Int /\ v[1] < v[2]
    BY <1>1, TileTypes DEF Tiles
  <2> HIDE DEF v
  <2>2. /\ Tiles(SubtractedAll(v, cuts), v[1], v[2])
        /\ Within(ToSet(SubtractedAll(v, cuts))) = (v[1] .. v[2] - 1) \ Within(ToSet(cuts))
    BY <1>1, <2>1, SubtractedAllTiles
  <2> QED
    BY <1>5, <2>2 DEF v
<1>7. Tiles(kept, 0, EEnd) /\ ToSet(kept) = UNION {ToSet(s[n]) : n \in DOMAIN w}
  <2>1. 0 \in Int /\ EEnd \in Int /\ 0 <= EEnd
    BY <1>1
  <2> QED
    <3>1. \A n \in DOMAIN w : Tiles(s[n], w[n][1], w[n][2])
      BY <1>6
    <3>2. Tiles(w, 0, EEnd)
      BY <1>1
    <3>3. Tiles(FlattenSeq(s), 0, EEnd)
      BY <1>4, <2>1, <3>1, <3>2, FlatTiles
    <3>4. ToSet(FlattenSeq(s)) = UNION {ToSet(s[n]) : n \in DOMAIN w}
      BY <1>4, <2>1, <3>1, <3>2, FlatTiles
    <3> QED
      BY <3>3, <3>4
<1>8. Within(ToSet(kept)) = Kept(a)
  <2>1. ASSUME NEW t PROVE t \in Within(ToSet(kept)) <=> t \in Kept(a)
    <3>1. t \in Within(ToSet(kept)) <=> \E n \in DOMAIN w : t \in Within(ToSet(s[n]))
      BY <1>7 DEF Within
    <3>2. t \in Within(ToSet(w)) <=> \E n \in DOMAIN w : t \in w[n][1] .. w[n][2] - 1
      BY DEF Within, ToSet
    <3> QED
      BY <1>3, <1>6, <3>1, <3>2
  <2> QED
    BY <2>1
<1> HIDE DEF kept
<1>9. CASE kept = <<>>
  <2>1. Kept(a) = {}
    BY <1>8, <1>9 DEF Within, ToSet
  <2> DEFINE v == <<0, EEnd>>
             one == <<v>>
  <2>2. SourceWindows(a) = one
    BY <1>2, <1>9
  <2>3. Tiles(one, 0, EEnd) /\ ToSet(one) = {v}
    <3>1. 0 \in Int /\ EEnd \in Int /\ 0 <= 0 /\ 0 < EEnd /\ EEnd <= EEnd
      BY <1>1
    <3> QED
      BY <3>1, OneTile
  <2>4. Within({v}) = 0 .. EEnd - 1
    BY DEF Within
  <2>5. one # <<>>
    OBVIOUS
  <2> HIDE DEF v, one
  <2> QED
    BY <2>1, <2>2, <2>3, <2>4, <2>5
<1>10. CASE kept # <<>>
  <2>1. kept \in Seq(Int \X Int) /\ Len(kept) \in Nat
    BY <1>7, TileTypes DEF Tiles
  <2>2. 1 \in 1 .. Len(kept) /\ 1 \in DOMAIN kept
    BY <1>10, <2>1, EmptySeq, LenProperties
  <2> DEFINE v == kept[1]
  <2>3. v[1] \in Int /\ v[2] \in Int /\ v[1] < v[2] /\ v \in ToSet(kept)
    BY <1>7, <2>2, TileTypes DEF Tiles, ToSet
  <2> HIDE DEF v
  <2>4. v[1] \in v[1] .. v[2] - 1
    BY <2>3
  <2>5. v[1] \in Within(ToSet(kept))
    BY <2>3, <2>4 DEF Within
  <2> QED
    BY <1>2, <1>7, <1>8, <1>10, <2>5
<1> QED
  BY <1>9, <1>10

-----------------------------------------------------------------------------
(* Timelines: what clips show.                                             *)

EditClips ==
    [kind : {"source", "original_audio", "subtitle", "broll"}, from : Int, to : Int, start : Int,
     duration : Int, speed : {1, 2}, disabled : BOOLEAN]

\* Where each window of a list begins when they follow each other.
IsCursor(c, w) ==
    /\ c \in [0 .. Len(w) -> Nat] /\ c[0] = 0
    /\ \A n \in 1 .. Len(w) : c[n] = c[n - 1] + (w[n][2] - w[n][1])

LEMMA LaidAlong ==
    ASSUME NEW lo, NEW hi, NEW w, Tiles(w, lo, hi)
    PROVE  \E c : /\ IsCursor(c, w)
                  /\ \A kind : Laid(kind, w) = [n \in DOMAIN w |-> Clip(kind, w[n][1], w[n][2], c[n - 1])]
<1> DEFINE L == Len(w)
           step == [p \in (1 .. L) \X Nat |-> p[2] + (w[p[1]][2] - w[p[1]][1])]
           Steps(f) == f = [n \in 0 .. Len(w) |-> IF n = 0 THEN 0 ELSE f[n - 1] + (w[n][2] - w[n][1])]
           c == CHOOSE f : Steps(f)
<1>1. L \in Nat /\ \A n \in 1 .. L : w[n][1] \in Int /\ w[n][2] \in Int /\ w[n][1] < w[n][2]
  BY TileTypes DEF Tiles
<1>2. StaysIn(step, L, Nat)
  <2> HIDE DEF L
  <2>1. ASSUME NEW n \in 1 .. L, NEW k \in Nat PROVE k + (w[n][2] - w[n][1]) \in Nat
    BY <1>1
  <2>2. ASSUME NEW n \in 1 .. L, NEW k \in Nat PROVE step[<<n, k>>] \in Nat
    BY <2>1
  <2> QED
    BY <2>2 DEF StaysIn
<1>3. PICK g : Follows(g, L, Nat, 0, step)
  <2> HIDE DEF L, step
  <2> QED
    BY <1>1, <1>2, StepsExist
<1>4. \A n \in 1 .. L : n - 1 \in 0 .. L /\ n \in 0 .. L /\ n # 0
  BY <1>1
<1>5. g = [n \in 0 .. L |-> g[n]] /\ g[0] = 0 /\ \A n \in 0 .. L : g[n] \in Nat
  BY <1>3 DEF Follows
<1>6. ASSUME NEW n \in 1 .. L PROVE g[n] = g[n - 1] + (w[n][2] - w[n][1])
  <2> HIDE DEF L
  <2>1. g[n - 1] \in Nat
    BY <1>4, <1>5
  <2>2. g[n] = step[<<n, g[n - 1]>>]
    BY <1>3 DEF Follows
  <2> QED
    BY <2>1, <2>2
<1>7. Steps(g)
  <2> HIDE DEF L, step
  <2>1. \A n \in 0 .. L : n = 0 \/ n \in 1 .. L
    BY <1>1
  <2>2. \A n \in 0 .. L : g[n] = IF n = 0 THEN 0 ELSE g[n - 1] + (w[n][2] - w[n][1])
    BY <1>4, <1>5, <1>6, <2>1
  <2>3. g = [n \in 0 .. L |-> IF n = 0 THEN 0 ELSE g[n - 1] + (w[n][2] - w[n][1])]
    BY <1>5, <2>2
  <2> QED
    BY <2>3 DEF L
<1>8. Steps(c)
  <2>1. \E f : Steps(f)
    BY <1>7
  <2> QED
    BY <2>1
<1>9. \A kind : Laid(kind, w) = [n \in DOMAIN w |-> Clip(kind, w[n][1], w[n][2], c[n - 1])]
  BY DEF Laid
<1> HIDE DEF c
<1>10. /\ c = [n \in 0 .. L |-> c[n]] /\ c[0] = 0
       /\ \A n \in 1 .. L : c[n] = c[n - 1] + (w[n][2] - w[n][1])
  <2>0. 0 \in 0 .. L
    BY <1>1
  <2>1. c = [n \in 0 .. L |-> IF n = 0 THEN 0 ELSE c[n - 1] + (w[n][2] - w[n][1])]
    BY <1>8
  <2> HIDE DEF L
  <2> QED
    BY <1>4, <2>0, <2>1
<1>11. \A n \in 0 .. L : c[n] \in Nat
  <2> DEFINE G == {n \in 0 .. L : c[n] \in Nat}
  <2>1. 0 \in G
    BY <1>1, <1>10
  <2>2. ASSUME NEW n \in 0 .. L - 1, n \in G PROVE n + 1 \in G
    <3>1. n + 1 \in 1 .. L /\ n + 1 \in 0 .. L /\ (n + 1) - 1 = n /\ c[n] \in Nat
      BY <1>1, <2>2
    <3>2. c[n + 1] = c[n] + (w[n + 1][2] - w[n + 1][1])
      BY <1>10, <3>1
    <3>3. c[n + 1] \in Nat
      BY <1>1, <3>1, <3>2
    <3> QED
      BY <3>1, <3>3
  <2> HIDE DEF G
  <2>3. \A n \in 0 .. L : n \in G
    BY <1>1, <2>1, <2>2, UpTo
  <2> QED
    BY <2>3 DEF G
<1>12. IsCursor(c, w)
  <2>1. c \in [0 .. L -> Nat]
    BY <1>10, <1>11
  <2> QED
    BY <1>10, <2>1 DEF IsCursor
<1> QED
  BY <1>9, <1>12

LEMMA CursorGrows ==
    ASSUME NEW lo, NEW hi, NEW w, Tiles(w, lo, hi), NEW c, IsCursor(c, w),
           NEW m \in 0 .. Len(w), NEW n \in 0 .. Len(w), m <= n
    PROVE  c[m] \in Nat /\ c[n] \in Nat /\ c[m] <= c[n]
<1> DEFINE L == Len(w)
           G == {k \in 0 .. L : m <= k => c[m] <= c[k]}
<1>1. L \in Nat /\ \A k \in 1 .. L : w[k][1] \in Int /\ w[k][2] \in Int /\ w[k][1] < w[k][2]
  BY TileTypes DEF Tiles
<1>2. \A k \in 0 .. L : c[k] \in Nat
  BY DEF IsCursor
<1>3. 0 \in G
  BY <1>1, <1>2
<1>4. ASSUME NEW k \in 0 .. L - 1, k \in G PROVE k + 1 \in G
  <2>1. k \in 0 .. L /\ k + 1 \in 1 .. L /\ k + 1 \in 0 .. L /\ (k + 1) - 1 = k
    BY <1>1
  <2>2. c[k + 1] = c[k] + (w[k + 1][2] - w[k + 1][1])
    BY <2>1 DEF IsCursor
  <2>3. c[k] \in Nat /\ c[k + 1] \in Nat /\ c[m] \in Nat /\ c[k] <= c[k + 1]
    <3> DEFINE x == c[k]
               y == c[k + 1]
               a == w[k + 1][1]
               b == w[k + 1][2]
    <3>1. x \in Nat /\ y \in Nat /\ c[m] \in Nat
      BY <1>1, <1>2, <2>1
    <3>2. a \in Int /\ b \in Int /\ a < b /\ y = x + (b - a)
      BY <1>1, <2>1, <2>2
    <3> HIDE DEF x, y, a, b
    <3>3. x <= y
      BY <3>1, <3>2
    <3> QED
      BY <3>1, <3>3 DEF x, y
  <2>4. m <= k => c[m] <= c[k]
    BY <1>4
  <2>5. m <= k + 1 => m <= k \/ m = k + 1
    BY <2>1
  <2>6. m <= k + 1 => c[m] <= c[k + 1]
    BY <2>3, <2>4, <2>5
  <2> QED
    BY <2>1, <2>6
<1> HIDE DEF G
<1>5. \A k \in 0 .. L : k \in G
  BY <1>1, <1>3, <1>4, UpTo
<1>6. n \in G
  BY <1>5
<1> QED
  BY <1>2, <1>6 DEF G

\* What the n-th window shows, and all of them.
Part(c, w, n) == {<<c[n - 1] + t, w[n][1] + t>> : t \in 0 .. (w[n][2] - w[n][1]) - 1}
Picture(c, w) == UNION {Part(c, w, n) : n \in 1 .. Len(w)}

LEMMA PartIs ==
    ASSUME NEW lo, NEW hi, NEW w, Tiles(w, lo, hi), NEW c, IsCursor(c, w), NEW n \in 1 .. Len(w)
    PROVE  /\ \A p : p \in Part(c, w, n) <=>
                        /\ p = <<p[1], p[2]>> /\ p[1] \in Int /\ c[n - 1] <= p[1] /\ p[1] < c[n]
                        /\ p[2] = w[n][1] + (p[1] - c[n - 1])
           /\ c[n - 1] \in Nat /\ c[n] \in Nat /\ w[n][1] \in Int /\ w[n][2] \in Int
           /\ c[n] = c[n - 1] + (w[n][2] - w[n][1]) /\ c[n - 1] < c[n]
<1>1. Len(w) \in Nat /\ w[n][1] \in Int /\ w[n][2] \in Int /\ w[n][1] < w[n][2]
  BY TileTypes DEF Tiles
<1>2. n - 1 \in 0 .. Len(w) /\ n \in 0 .. Len(w)
  BY <1>1
<1>3. c[n - 1] \in Nat /\ c[n] \in Nat /\ c[n] = c[n - 1] + (w[n][2] - w[n][1])
  BY <1>2 DEF IsCursor
<1> DEFINE x == c[n - 1]
           y == c[n]
           f == w[n][1]
           e == w[n][2]
<1>4. x \in Nat /\ y \in Nat /\ f \in Int /\ e \in Int /\ y = x + (e - f) /\ f < e
  BY <1>1, <1>3
<1>5. \A p : p \in Part(c, w, n) <=> \E t \in 0 .. (e - f) - 1 : p = <<x + t, f + t>>
  BY DEF Part
<1> HIDE DEF x, y, f, e
<1>6. ASSUME NEW p, NEW t \in 0 .. (e - f) - 1, p = <<x + t, f + t>>
      PROVE  p = <<p[1], p[2]>> /\ p[1] \in Int /\ x <= p[1] /\ p[1] < y /\ p[2] = f + (p[1] - x)
  <2>1. p[1] = x + t /\ p[2] = f + t
    BY <1>6
  <2>2. t \in Int /\ 0 <= t /\ t <= (e - f) - 1
    BY <1>4
  <2> QED
    BY <1>4, <1>6, <2>1, <2>2
<1>7. ASSUME NEW p, p = <<p[1], p[2]>>, p[1] \in Int, x <= p[1], p[1] < y, p[2] = f + (p[1] - x)
      PROVE  \E t \in 0 .. (e - f) - 1 : p = <<x + t, f + t>>
  <2> DEFINE t == p[1] - x
  <2>1. t \in 0 .. (e - f) - 1 /\ p[1] = x + t /\ p[2] = f + t
    BY <1>4, <1>7
  <2> HIDE DEF t
  <2>2. p = <<x + t, f + t>>
    BY <1>7, <2>1
  <2> QED
    BY <2>1, <2>2
<1>8. \A p : p \in Part(c, w, n) <=>
                /\ p = <<p[1], p[2]>> /\ p[1] \in Int /\ x <= p[1] /\ p[1] < y
                /\ p[2] = f + (p[1] - x)
  BY <1>5, <1>6, <1>7
<1>9. x < y
  BY <1>4
<1> QED
  BY <1>4, <1>8, <1>9 DEF x, y, f, e

\* Windows shown one after the other: every instant of them in their order,
\* without a gap.
LEMMA PictureFacts ==
    ASSUME NEW lo, NEW hi, NEW w, Tiles(w, lo, hi), NEW c, IsCursor(c, w)
    PROVE  /\ {p[2] : p \in Picture(c, w)} = Within(ToSet(w))
           /\ {p[1] : p \in Picture(c, w)} = 0 .. Cardinality(Picture(c, w)) - 1
           /\ \A p, q \in Picture(c, w) : p[1] < q[1] => p[2] < q[2]
           /\ Cardinality(Picture(c, w)) = c[Len(w)]
<1> DEFINE L == Len(w)
           P == Picture(c, w)
           D == 0 .. c[L] - 1
<1>1. /\ L \in Nat /\ DOMAIN w = 1 .. L
      /\ \A n \in 1 .. L : w[n][1] \in Int /\ w[n][2] \in Int /\ w[n][1] < w[n][2]
      /\ c[0] = 0 /\ c[L] \in Nat
  BY TileTypes DEF Tiles, IsCursor
<1>2. \A n \in 1 .. L : \A p : p \in Part(c, w, n) <=>
                        /\ p = <<p[1], p[2]>> /\ p[1] \in Int /\ c[n - 1] <= p[1] /\ p[1] < c[n]
                        /\ p[2] = w[n][1] + (p[1] - c[n - 1])
  BY PartIs
<1>3. ASSUME NEW n \in 1 .. L
      PROVE  /\ c[n - 1] \in Nat /\ c[n] \in Nat /\ c[n] = c[n - 1] + (w[n][2] - w[n][1])
             /\ c[n - 1] < c[n] /\ c[n] <= c[L] /\ w[n][1] \in Int /\ w[n][2] \in Int
  <2>1. n \in 0 .. L /\ L \in 0 .. L /\ n <= L
    BY <1>1
  <2>2. c[n] <= c[L]
    BY <2>1, CursorGrows
  <2> QED
    BY <2>2, PartIs
<1>4. \A p : p \in P <=> \E n \in 1 .. L : p \in Part(c, w, n)
  BY DEF Picture
<1>5. ASSUME NEW m \in 1 .. L, NEW n \in 1 .. L, m < n PROVE c[m] <= c[n - 1]
  <2>1. m \in 0 .. L /\ n - 1 \in 0 .. L /\ m <= n - 1
    BY <1>1, <1>5
  <2> QED
    BY <2>1, CursorGrows
<1> HIDE DEF P, L
<1>6. {p[2] : p \in P} = Within(ToSet(w))
  <2>1. ASSUME NEW p \in P PROVE p[2] \in Within(ToSet(w))
    <3>1. PICK n \in 1 .. L : p \in Part(c, w, n)
      BY <1>4
    <3>2. p[1] \in Int /\ c[n - 1] <= p[1] /\ p[1] < c[n] /\ p[2] = w[n][1] + (p[1] - c[n - 1])
      BY <1>2, <3>1
    <3>0. c[n - 1] \in Nat /\ c[n] \in Nat /\ c[n] = c[n - 1] + (w[n][2] - w[n][1]) /\ w[n][1] \in Int /\ w[n][2] \in Int
      BY <1>3
    <3>3. p[2] \in w[n][1] .. w[n][2] - 1
      BY <3>0, <3>2
    <3>4. w[n] \in ToSet(w)
      BY <1>1 DEF ToSet
    <3> QED
      BY <3>3, <3>4 DEF Within
  <2>2. ASSUME NEW t \in Within(ToSet(w)) PROVE \E p \in P : p[2] = t
    <3>1. PICK n \in 1 .. L : t \in w[n][1] .. w[n][2] - 1
      BY <1>1 DEF Within, ToSet
    <3> DEFINE x == c[n - 1] + (t - w[n][1])
               p == <<x, t>>
    <3>0. c[n - 1] \in Nat /\ c[n] \in Nat /\ c[n] = c[n - 1] + (w[n][2] - w[n][1]) /\ w[n][1] \in Int /\ w[n][2] \in Int
      BY <1>3
    <3>2. x \in Int /\ c[n - 1] <= x /\ x < c[n] /\ t = w[n][1] + (x - c[n - 1])
      <4>1. t \in Int /\ w[n][1] <= t /\ t <= w[n][2] - 1
        BY <3>0, <3>1
      <4> QED
        BY <3>0, <4>1
    <3>3. p[1] = x /\ p[2] = t /\ p = <<p[1], p[2]>>
      OBVIOUS
    <3> HIDE DEF p, x
    <3>4. p \in Part(c, w, n)
      BY <1>2, <3>2, <3>3
    <3> QED
      BY <1>4, <3>3, <3>4
  <2> QED
    BY <2>1, <2>2
<1>7. ASSUME NEW p \in P, NEW q \in P, p[1] < q[1] PROVE p[2] < q[2]
  <2>1. PICK m \in 1 .. L : p \in Part(c, w, m)
    BY <1>4
  <2>2. PICK n \in 1 .. L : q \in Part(c, w, n)
    BY <1>4
  <2>3. p[1] \in Int /\ c[m - 1] <= p[1] /\ p[1] < c[m] /\ p[2] = w[m][1] + (p[1] - c[m - 1])
    BY <1>2, <2>1
  <2>4. q[1] \in Int /\ c[n - 1] <= q[1] /\ q[1] < c[n] /\ q[2] = w[n][1] + (q[1] - c[n - 1])
    BY <1>2, <2>2
  <2>5. CASE m = n
    BY <1>1, <1>3, <1>7, <2>3, <2>4, <2>5
  <2>6. CASE m < n
    <3>1. w[m][2] <= w[n][1]
      BY <2>6 DEF Tiles, L
    <3>2. c[m - 1] \in Nat /\ c[m] \in Nat /\ c[m] = c[m - 1] + (w[m][2] - w[m][1]) /\ w[m][1] \in Int /\ w[m][2] \in Int
      BY <1>3
    <3>3. c[n - 1] \in Nat /\ c[n] \in Nat /\ c[n] = c[n - 1] + (w[n][2] - w[n][1]) /\ w[n][1] \in Int /\ w[n][2] \in Int
      BY <1>3
    <3>4. p[2] < w[m][2] /\ p[2] \in Int
      BY <2>3, <3>2
    <3>5. w[n][1] <= q[2] /\ q[2] \in Int
      BY <2>4, <3>3
    <3> QED
      BY <3>1, <3>2, <3>3, <3>4, <3>5
  <2>7. CASE n < m
    <3>1. c[n] <= c[m - 1]
      BY <1>5, <2>7
    <3> QED
      BY <1>3, <1>7, <2>3, <2>4, <3>1
  <2> QED
    BY <1>1, <2>5, <2>6, <2>7
<1>8. ASSUME NEW p \in P, NEW q \in P, p[1] = q[1] PROVE p = q
  <2>1. PICK m \in 1 .. L : p \in Part(c, w, m)
    BY <1>4
  <2>2. PICK n \in 1 .. L : q \in Part(c, w, n)
    BY <1>4
  <2>3. /\ p[1] \in Int /\ c[m - 1] <= p[1] /\ p[1] < c[m] /\ p[2] = w[m][1] + (p[1] - c[m - 1])
        /\ p = <<p[1], p[2]>>
    BY <1>2, <2>1
  <2>4. /\ q[1] \in Int /\ c[n - 1] <= q[1] /\ q[1] < c[n] /\ q[2] = w[n][1] + (q[1] - c[n - 1])
        /\ q = <<q[1], q[2]>>
    BY <1>2, <2>2
  <2>5. m = n
    <3>1. m < n => c[m] <= c[n - 1]
      BY <1>5
    <3>2. n < m => c[n] <= c[m - 1]
      BY <1>5
    <3>3. c[m] \in Nat /\ c[n] \in Nat /\ c[m - 1] \in Nat /\ c[n - 1] \in Nat
      BY <1>3
    <3>4. ~(m < n) /\ ~(n < m)
      BY <1>8, <2>3, <2>4, <3>1, <3>2, <3>3
    <3> QED
      BY <1>1, <3>4
  <2>6. p[2] = q[2]
    BY <1>8, <2>3, <2>4, <2>5
  <2> QED
    BY <1>8, <2>3, <2>4, <2>6
<1>9. ASSUME NEW p \in P PROVE p[1] \in D
  <2>1. PICK n \in 1 .. L : p \in Part(c, w, n)
    BY <1>4
  <2>2. p[1] \in Int /\ c[n - 1] <= p[1] /\ p[1] < c[n]
    BY <1>2, <2>1
  <2> QED
    BY <1>1, <1>3, <2>2
<1>10. ASSUME NEW x \in D PROVE \E p \in P : p[1] = x
  <2> DEFINE G == {k \in 0 .. L : x < c[k] => \E n \in 1 .. L : c[n - 1] <= x /\ x < c[n]}
  <2>1. 0 \in G
    BY <1>1
  <2>2. ASSUME NEW k \in 0 .. L - 1, k \in G PROVE k + 1 \in G
    <3>1. k \in 0 .. L /\ k + 1 \in 1 .. L /\ k + 1 \in 0 .. L /\ (k + 1) - 1 = k
      BY <1>1
    <3>2. c[k] \in Nat /\ c[k + 1] \in Nat
      BY <1>3, <3>1
    <3>3. ASSUME x < c[k + 1] PROVE \E n \in 1 .. L : c[n - 1] <= x /\ x < c[n]
      <4>1. CASE x < c[k]
        BY <2>2, <4>1
      <4>2. CASE ~(x < c[k])
        <5>1. c[k] <= x
          BY <1>1, <3>2, <4>2
        <5>2. c[(k + 1) - 1] <= x /\ x < c[k + 1]
          BY <3>1, <3>3, <5>1
        <5> QED
          BY <3>1, <5>2
      <4> QED
        BY <4>1, <4>2
    <3> QED
      BY <3>1, <3>3
  <2> HIDE DEF G
  <2>3. \A k \in 0 .. L : k \in G
    BY <1>1, <2>1, <2>2, UpTo
  <2>4. L \in G /\ x < c[L] /\ x \in Int
    BY <1>1, <2>3
  <2>5. PICK n \in 1 .. L : c[n - 1] <= x /\ x < c[n]
    BY <2>4 DEF G
  <2> DEFINE p == <<x, w[n][1] + (x - c[n - 1])>>
  <2>6. p[1] = x /\ p[2] = w[n][1] + (x - c[n - 1]) /\ p = <<p[1], p[2]>>
    OBVIOUS
  <2> HIDE DEF p
  <2>7. p \in Part(c, w, n)
    BY <1>2, <2>4, <2>5, <2>6
  <2> QED
    BY <1>4, <2>6, <2>7
<1> DEFINE g == [x \in D |-> CHOOSE p \in P : p[1] = x]
<1>11. g \in Bijection(D, P)
  <2>1. \A x \in D : g[x] \in P /\ g[x][1] = x
    BY <1>10
  <2>2. g \in [D -> P]
    BY <2>1
  <2> HIDE DEF g, D
  <2>3. \A x, y \in D : g[x] = g[y] => x = y
    BY <2>1
  <2>4. ASSUME NEW p \in P PROVE \E x \in D : g[x] = p
    <3>1. p[1] \in D
      BY <1>9
    <3>2. g[p[1]] = p
      BY <1>8, <2>1, <3>1
    <3> QED
      BY <3>1, <3>2
  <2> QED
    BY <2>2, <2>3, <2>4 DEF Bijection, Injection, IsInjective, Surjection
<1>12. IsFiniteSet(D) /\ Cardinality(D) = c[L]
  <2> DEFINE e == c[L] - 1
  <2>1. 0 \in Int /\ e \in Int /\ D = 0 .. e
    BY <1>1
  <2>2. (IF 0 > e THEN 0 ELSE e - 0 + 1) = c[L]
    BY <1>1
  <2> HIDE DEF e, D
  <2> QED
    BY <2>1, <2>2, FS_Interval
<1>13. Cardinality(P) = c[L]
  <2> HIDE DEF g, D
  <2>1. ExistsBijection(D, P)
    BY <1>11 DEF ExistsBijection
  <2> QED
    BY <1>12, <2>1, FS_Bijection
<1>14. {p[1] : p \in P} = D
  BY <1>9, <1>10
<1> QED
  BY <1>6, <1>7, <1>13, <1>14 DEF P, L

\* What clips show that are not disabled.
Plays(S) == UNION {Shown(k) : k \in {k \in S : ~k.disabled}}

LEMMA PlaysOf ==
    ASSUME NEW clips
    PROVE  ShownBy(clips) = Plays(ToSet(clips))
BY DEF ShownBy, Plays, ToSet

\* A clip at its own speed: it plays the source from f to t, from s on.
IsPlain(clip, f, t, s) ==
    /\ clip \in EditClips /\ ~clip.disabled
    /\ Shown(clip) = {<<s + x, f + x>> : x \in 0 .. (t - f) - 1}
    /\ \A p : p \in Shown(clip) <=>
                 /\ p = <<p[1], p[2]>> /\ p[2] \in Int /\ f <= p[2] /\ p[2] < t
                 /\ p[1] = s + (p[2] - f)

LEMMA ShownIs ==
    ASSUME NEW k \in {"source", "original_audio", "subtitle", "broll"},
           NEW f \in Int, NEW t \in Int, NEW s \in Int
    PROVE  IsPlain(Clip(k, f, t, s), f, t, s)
<1> DEFINE clip == Clip(k, f, t, s)
<1>1. /\ clip.start = s /\ clip.from = f /\ clip.speed = 1 /\ clip.duration = t - f
      /\ clip \in EditClips /\ ~clip.disabled
  BY DEF Clip, EditClips
<1>2. Shown(clip) = {<<s + x, f + x>> : x \in 0 .. (t - f) - 1}
  <2> HIDE DEF clip
  <2>1. \A x \in 0 .. (t - f) - 1 : x * 1 = x
    OBVIOUS
  <2>2. Shown(clip) = {<<s + x, f + x * 1>> : x \in 0 .. (t - f) - 1}
    BY <1>1 DEF Shown
  <2> QED
    BY <2>1, <2>2
<1> HIDE DEF clip
<1>3. ASSUME NEW p, NEW x \in 0 .. (t - f) - 1, p = <<s + x, f + x>>
      PROVE  p = <<p[1], p[2]>> /\ p[2] \in Int /\ f <= p[2] /\ p[2] < t /\ p[1] = s + (p[2] - f)
  <2>1. p[1] = s + x /\ p[2] = f + x
    BY <1>3
  <2>2. x \in Int /\ 0 <= x /\ x <= (t - f) - 1
    OBVIOUS
  <2> QED
    BY <1>3, <2>1, <2>2
<1>4. ASSUME NEW p, p = <<p[1], p[2]>>, p[2] \in Int, f <= p[2], p[2] < t, p[1] = s + (p[2] - f)
      PROVE  \E x \in 0 .. (t - f) - 1 : p = <<s + x, f + x>>
  <2> DEFINE x == p[2] - f
  <2>1. x \in 0 .. (t - f) - 1 /\ p[1] = s + x /\ p[2] = f + x
    BY <1>4
  <2> HIDE DEF x
  <2>2. p = <<s + x, f + x>>
    BY <1>4, <2>1
  <2> QED
    BY <2>1, <2>2
<1>5. \A p : p \in Shown(clip) <=>
                /\ p = <<p[1], p[2]>> /\ p[2] \in Int /\ f <= p[2] /\ p[2] < t
                /\ p[1] = s + (p[2] - f)
  BY <1>2, <1>3, <1>4
<1>6. IsPlain(clip, f, t, s)
  BY <1>1, <1>2, <1>5 DEF IsPlain
<1> QED
  BY <1>6 DEF clip

\* Members of several sets play what each of them plays.
LEMMA PlaysUnion ==
    ASSUME NEW D, NEW f, NEW T, T = UNION {f[m] : m \in D}, NEW p
    PROVE  p \in Plays(T) <=> \E m \in D : p \in Plays(f[m])
<1>1. \A S : p \in Plays(S) <=> \E k \in S : ~k.disabled /\ p \in Shown(k)
  BY DEF Plays
<1>2. \A k : k \in T <=> \E m \in D : k \in f[m]
  OBVIOUS
<1> QED
  BY <1>1, <1>2

\* Clips one after the other show their windows' picture.
LEMMA LaidShows ==
    ASSUME NEW lo, NEW hi, NEW w, Tiles(w, lo, hi), NEW c, IsCursor(c, w),
           NEW k \in {"source", "original_audio"},
           NEW s, s = [n \in DOMAIN w |-> Clip(k, w[n][1], w[n][2], c[n - 1])]
    PROVE  /\ s \in Seq(EditClips) /\ Len(s) = Len(w) /\ DOMAIN s = 1 .. Len(w)
           /\ ShownBy(s) = Picture(c, w)
<1>1. /\ Len(w) \in Nat /\ DOMAIN w = 1 .. Len(w)
      /\ \A n \in 1 .. Len(w) : w[n][1] \in Int /\ w[n][2] \in Int /\ c[n - 1] \in Int
  BY TileTypes, PartIs
<1>2. ASSUME NEW n \in 1 .. Len(w)
      PROVE  s[n] \in EditClips /\ ~s[n].disabled /\ Shown(s[n]) = Part(c, w, n)
  <2> DEFINE f == w[n][1]
             t == w[n][2]
             x == c[n - 1]
  <2>1. s[n] = Clip(k, f, t, x) /\ f \in Int /\ t \in Int /\ x \in Int
    BY <1>1
  <2>2. Part(c, w, n) = {<<x + y, f + y>> : y \in 0 .. (t - f) - 1}
    BY DEF Part
  <2> HIDE DEF f, t, x
  <2>3. IsPlain(Clip(k, f, t, x), f, t, x)
    BY <2>1, ShownIs
  <2> QED
    BY <2>1, <2>2, <2>3 DEF IsPlain
<1>3. s \in [1 .. Len(w) -> EditClips]
  BY <1>1, <1>2
<1>4. s \in Seq(EditClips) /\ Len(s) = Len(w) /\ DOMAIN s = 1 .. Len(w)
  <2> HIDE DEF EditClips
  <2> QED
    BY <1>1, <1>3, FunctionIsList
<1>5. ShownBy(s) = Picture(c, w)
  BY <1>2, <1>4 DEF ShownBy, Picture
<1> QED
  BY <1>4, <1>5

\* The subtitle of a word under a clip shows what the clip shows of the word.
ShowsOf(clips, clip, v) ==
    /\ clips \in Seq(EditClips)
    /\ Plays(ToSet(clips)) = {p \in Shown(clip) : v[1] <= p[2] /\ p[2] < v[2]}

LEMMA SpokenShows ==
    ASSUME NEW v \in Int \X Int, NEW f \in Int, NEW t \in Int, NEW s \in Int
    PROVE  ShowsOf(Spoken(v, Clip("source", f, t, s)), Clip("source", f, t, s), v)
<1> DEFINE clip == Clip("source", f, t, s)
           fr == ELater(v[1], f)
           to == EEarlier(v[2], t)
           y == s + (fr - f)
           sub == Clip("subtitle", fr, to, y)
<1>1. clip.start = s /\ clip.from = f /\ clip.to = t
  BY DEF Clip
<1>2. /\ v[1] \in Int /\ v[2] \in Int /\ fr \in Int /\ to \in Int /\ y \in Int /\ y = s + (fr - f)
      /\ \A x \in Int : fr <= x /\ x < to <=> f <= x /\ x < t /\ v[1] <= x /\ x < v[2]
  BY DEF ELater, EEarlier
<1>3. \A p : p \in Shown(clip) <=>
                /\ p = <<p[1], p[2]>> /\ p[2] \in Int /\ f <= p[2] /\ p[2] < t
                /\ p[1] = s + (p[2] - f)
  <2>1. IsPlain(clip, f, t, s)
    BY ShownIs
  <2> HIDE DEF clip
  <2> QED
    BY <2>1 DEF IsPlain
<1>4. Spoken(v, clip) = IF to > fr THEN <<sub>> ELSE <<>>
  BY <1>1 DEF Spoken
<1> HIDE DEF clip, fr, to, y
<1>5. CASE to > fr
  <2>1. /\ sub \in EditClips /\ ~sub.disabled
        /\ \A p : p \in Shown(sub) <=>
                /\ p = <<p[1], p[2]>> /\ p[2] \in Int /\ fr <= p[2] /\ p[2] < to
                /\ p[1] = y + (p[2] - fr)
    <3>1. IsPlain(sub, fr, to, y)
      BY <1>2, ShownIs
    <3> HIDE DEF sub
    <3> QED
      BY <3>1 DEF IsPlain
  <2> HIDE DEF sub, EditClips
  <2>2. <<sub>> \in Seq(EditClips) /\ ToSet(<<sub>>) = {sub}
    BY <2>1 DEF ToSet
  <2>3. Plays({sub}) = Shown(sub)
    BY <2>1 DEF Plays
  <2>4. ASSUME NEW p
        PROVE  p \in Shown(sub) <=> p \in Shown(clip) /\ v[1] <= p[2] /\ p[2] < v[2]
    <3>1. ASSUME p[2] \in Int PROVE y + (p[2] - fr) = s + (p[2] - f)
      BY <1>2, <3>1
    <3> QED
      BY <1>2, <1>3, <2>1, <3>1
  <2> QED
    BY <1>4, <1>5, <2>2, <2>3, <2>4 DEF clip, ShowsOf
<1>6. CASE ~(to > fr)
  <2>1. Spoken(v, clip) = <<>>
    BY <1>4, <1>6
  <2> HIDE DEF EditClips
  <2>2. <<>> \in Seq(EditClips) /\ Plays(ToSet(<<>>)) = {}
    BY EmptySeq DEF Plays, ToSet
  <2>3. ASSUME NEW p \in Shown(clip), v[1] <= p[2], p[2] < v[2] PROVE FALSE
    <3>1. p[2] \in Int /\ f <= p[2] /\ p[2] < t
      BY <1>3
    <3>2. fr <= p[2] /\ p[2] < to
      BY <1>2, <2>3, <3>1
    <3> QED
      BY <1>2, <1>6, <3>1, <3>2
  <2> QED
    BY <2>1, <2>2, <2>3 DEF clip, ShowsOf
<1> QED
  BY <1>5, <1>6

\* The subtitles show the words of the picture.
LEMMA SubtitlesShow ==
    ASSUME NEW a \in EAnalyses, NEW lo, NEW hi, NEW w, Tiles(w, lo, hi), NEW c, IsCursor(c, w),
           NEW s, s = [n \in DOMAIN w |-> Clip("source", w[n][1], w[n][2], c[n - 1])]
    PROVE  /\ Subtitles(a, s) \in Seq(EditClips)
           /\ ShownBy(Subtitles(a, s)) = {p \in ShownBy(s) : p[2] \in Within(a.words)}
<1> DEFINE words == InOrder(a.words, Earlier)
           M == Len(words)
           L == Len(w)
           row == [n \in DOMAIN words |-> FlattenSeq([m \in DOMAIN s |-> Spoken(words[n], s[m])])]
<1>1. a.words \subseteq Int \X Int /\ IsFiniteSet(a.words)
  BY EditConstants
<1>2. words \in Seq(a.words) /\ ToSet(words) = a.words
  BY <1>1, PairsInOrder
<1>3. Subtitles(a, s) = FlattenSeq(row)
  BY DEF Subtitles
<1> HIDE DEF words
<1>4. /\ M \in Nat /\ DOMAIN words = 1 .. M /\ \A n \in 1 .. M : words[n] \in Int \X Int
      /\ \A v : v \in a.words <=> \E n \in 1 .. M : words[n] = v
  BY <1>1, <1>2, LenProperties DEF ToSet
<1>5. /\ L \in Nat /\ DOMAIN s = 1 .. L /\ DOMAIN w = 1 .. L /\ s \in Seq(EditClips)
      /\ \A m \in 1 .. L : w[m][1] \in Int /\ w[m][2] \in Int /\ c[m - 1] \in Int
  BY TileTypes, PartIs, LaidShows
<1>6. ASSUME NEW n \in 1 .. M, NEW m \in 1 .. L
      PROVE  ShowsOf(Spoken(words[n], s[m]), s[m], words[n])
  <2> DEFINE v == words[n]
             f == w[m][1]
             t == w[m][2]
             x == c[m - 1]
  <2>1. s[m] = Clip("source", f, t, x) /\ f \in Int /\ t \in Int /\ x \in Int /\ v \in Int \X Int
    BY <1>4, <1>5
  <2> HIDE DEF v, f, t, x
  <2>2. ShowsOf(Spoken(v, Clip("source", f, t, x)), Clip("source", f, t, x), v)
    BY <2>1, SpokenShows
  <2>3. ShowsOf(Spoken(v, s[m]), s[m], v)
    BY <2>1, <2>2
  <2> QED
    BY <2>3 DEF v
<1> HIDE DEF L, M
<1>7. ASSUME NEW n \in 1 .. M
      PROVE  /\ row[n] \in Seq(EditClips)
             /\ ToSet(row[n]) = UNION {ToSet(Spoken(words[n], s[m])) : m \in 1 .. L}
  <2> DEFINE r == [m \in 1 .. L |-> Spoken(words[n], s[m])]
             Q == Seq(EditClips)
  <2>1. row[n] = FlattenSeq(r)
    BY <1>4, <1>5
  <2>2. r \in [1 .. L -> Q]
    BY <1>6 DEF ShowsOf
  <2>3. \A m \in 1 .. L : r[m] = Spoken(words[n], s[m])
    OBVIOUS
  <2> HIDE DEF r, Q, EditClips
  <2>4. r \in Seq(Q) /\ Len(r) = L
    BY <1>5, <2>2, FunctionIsList
  <2>5. /\ FlattenSeq(r) \in Seq(EditClips)
        /\ ToSet(FlattenSeq(r)) = UNION {ToSet(r[m]) : m \in 1 .. L}
    BY <2>4, FlattenIds DEF Q
  <2>6. {ToSet(r[m]) : m \in 1 .. L} = {ToSet(Spoken(words[n], s[m])) : m \in 1 .. L}
    BY <2>3
  <2> HIDE DEF row
  <2> QED
    BY <2>1, <2>5, <2>6
<1>8. /\ FlattenSeq(row) \in Seq(EditClips)
      /\ ToSet(FlattenSeq(row)) = UNION {ToSet(row[n]) : n \in 1 .. M}
  <2> DEFINE Q == Seq(EditClips)
  <2>1. row = [n \in 1 .. M |-> row[n]]
    BY <1>4
  <2> HIDE DEF row, EditClips
  <2>2. row \in [1 .. M -> Q]
    BY <1>7, <2>1
  <2> HIDE DEF Q
  <2>3. row \in Seq(Q) /\ Len(row) = M
    BY <1>4, <2>2, FunctionIsList
  <2> QED
    BY <2>3, FlattenIds DEF Q
<1> HIDE DEF row, EditClips
<1>9. ASSUME NEW p
      PROVE  p \in ShownBy(FlattenSeq(row)) <=> p \in ShownBy(s) /\ p[2] \in Within(a.words)
  <2>1. p \in ShownBy(FlattenSeq(row))
          <=> \E n \in 1 .. M : \E m \in 1 .. L : p \in Plays(ToSet(Spoken(words[n], s[m])))
    <3> DEFINE f == [n \in 1 .. M |-> ToSet(row[n])]
    <3>1. {ToSet(row[n]) : n \in 1 .. M} = {f[n] : n \in 1 .. M} /\ \A n \in 1 .. M : f[n] = ToSet(row[n])
      OBVIOUS
    <3> HIDE DEF f
    <3>2. p \in Plays(ToSet(FlattenSeq(row))) <=> \E n \in 1 .. M : p \in Plays(ToSet(row[n]))
      <4>1. ToSet(FlattenSeq(row)) = UNION {f[n] : n \in 1 .. M}
        BY <1>8, <3>1
      <4>2. p \in Plays(ToSet(FlattenSeq(row))) <=> \E n \in 1 .. M : p \in Plays(f[n])
        BY <4>1, PlaysUnion
      <4> QED
        BY <3>1, <4>2
    <3>3. ASSUME NEW n \in 1 .. M
          PROVE  p \in Plays(ToSet(row[n])) <=> \E m \in 1 .. L : p \in Plays(ToSet(Spoken(words[n], s[m])))
      <4> DEFINE g == [m \in 1 .. L |-> ToSet(Spoken(words[n], s[m]))]
      <4>1. /\ {ToSet(Spoken(words[n], s[m])) : m \in 1 .. L} = {g[m] : m \in 1 .. L}
            /\ \A m \in 1 .. L : g[m] = ToSet(Spoken(words[n], s[m]))
        OBVIOUS
      <4> HIDE DEF g
      <4>2. ToSet(row[n]) = UNION {g[m] : m \in 1 .. L}
        BY <1>7, <4>1
      <4>3. p \in Plays(ToSet(row[n])) <=> \E m \in 1 .. L : p \in Plays(g[m])
        BY <4>2, PlaysUnion
      <4> QED
        BY <4>1, <4>3
    <3> QED
      BY <3>2, <3>3, PlaysOf
  <2>2. p \in ShownBy(s) <=> \E m \in 1 .. L : p \in Shown(s[m])
    <3>1. ASSUME NEW m \in 1 .. L PROVE ~s[m].disabled
      BY <1>5 DEF Clip
    <3> QED
      BY <1>5, <3>1 DEF ShownBy
  <2>3. ASSUME p \in ShownBy(s) PROVE p[2] \in Int
    <3>1. ShownBy(s) = Picture(c, w)
      BY LaidShows
    <3>2. PICK n \in 1 .. Len(w) : p \in Part(c, w, n)
      BY <2>3, <3>1 DEF Picture
    <3> DEFINE x == c[n - 1]
               f == w[n][1]
    <3>3. p[1] \in Int /\ x \in Nat /\ f \in Int /\ p[2] = f + (p[1] - x)
      BY <3>2, PartIs
    <3> HIDE DEF x, f
    <3> QED
      BY <3>3
  <2>4. ASSUME p[2] \in Int
        PROVE  p[2] \in Within(a.words) <=> \E n \in 1 .. M : words[n][1] <= p[2] /\ p[2] < words[n][2]
    <3>1. p[2] \in Within(a.words) <=> \E v \in a.words : v[1] <= p[2] /\ p[2] < v[2]
      BY <1>1, <2>4, InWindows
    <3> QED
      BY <1>4, <3>1
  <2>5. (\E n \in 1 .. M : \E m \in 1 .. L : p \in Plays(ToSet(Spoken(words[n], s[m]))))
          <=> \E n \in 1 .. M : \E m \in 1 .. L :
                 p \in Shown(s[m]) /\ words[n][1] <= p[2] /\ p[2] < words[n][2]
    <3>1. ASSUME NEW n \in 1 .. M, NEW m \in 1 .. L
          PROVE  p \in Plays(ToSet(Spoken(words[n], s[m])))
                    <=> p \in Shown(s[m]) /\ words[n][1] <= p[2] /\ p[2] < words[n][2]
      <4> DEFINE clips == Spoken(words[n], s[m])
      <4>1. ShowsOf(clips, s[m], words[n])
        BY <1>6
      <4> HIDE DEF clips
      <4>2. p \in Plays(ToSet(clips)) <=> p \in Shown(s[m]) /\ words[n][1] <= p[2] /\ p[2] < words[n][2]
        BY <4>1 DEF ShowsOf
      <4> QED
        BY <4>2 DEF clips
    <3> QED
      BY <3>1
  <2> QED
    BY <2>1, <2>2, <2>3, <2>4, <2>5
<1>10. ShownBy(FlattenSeq(row)) = {p \in ShownBy(s) : p[2] \in Within(a.words)}
  BY <1>9
<1> QED
  BY <1>3, <1>8, <1>10

LEMMA GreatestIndex ==
    ASSUME NEW n \in Nat, NEW S, S \subseteq 1 .. n, S # {}
    PROVE  \E m \in S : \A i \in S : i <= m
<1> DEFINE T == {n - i : i \in S}
<1>1. T \in SUBSET Nat /\ T # {}
  <2>1. \A i \in S : n - i \in Nat
    OBVIOUS
  <2>2. T \subseteq Nat
    BY <2>1
  <2>3. T # {}
    OBVIOUS
  <2> QED
    BY <2>2, <2>3
<1>2. \A i \in S : i \in Int /\ n - i \in T
  OBVIOUS
<1>3. \A x \in T : \E i \in S : x = n - i
  OBVIOUS
<1> HIDE DEF T
<1>4. PICK x \in T : \A y \in T : x <= y
  BY <1>1, LeastIndex
<1>5. PICK m \in S : x = n - m
  BY <1>3
<1>6. ASSUME NEW i \in S PROVE i <= m
  <2>1. n - m <= n - i /\ n \in Int /\ m \in Int /\ i \in Int
    BY <1>2, <1>4, <1>5
  <2> QED
    BY <2>1
<1> QED
  BY <1>6

\* An instant of the source is mapped to an instant of the timeline.
LEMMA MappedIsTime ==
    ASSUME NEW s \in Seq(EditClips), NEW t \in Int
    PROVE  MappedTime(t, s) \in Int
<1> DEFINE holding == {n \in DOMAIN s : s[n].from <= t /\ t <= s[n].to}
           earlier == {n \in DOMAIN s : s[n].to < t}
<1>1. /\ Len(s) \in Nat /\ DOMAIN s = 1 .. Len(s)
      /\ \A n \in DOMAIN s : s[n].start \in Int /\ s[n].from \in Int /\ s[n].duration \in Int
  <2>1. Len(s) \in Nat /\ DOMAIN s = 1 .. Len(s) /\ \A n \in DOMAIN s : s[n] \in EditClips
    BY LenProperties
  <2>2. \A k \in EditClips : k.start \in Int /\ k.from \in Int /\ k.duration \in Int
    BY DEF EditClips
  <2> QED
    BY <2>1, <2>2
<1>2. MappedTime(t, s) = IF holding # {} THEN s[Min(holding)].start + (t - s[Min(holding)].from)
                         ELSE IF earlier # {} THEN ClipEnd(s[Max(earlier)])
                         ELSE 0
  BY DEF MappedTime
<1>3. holding \subseteq DOMAIN s /\ earlier \subseteq DOMAIN s
  OBVIOUS
<1> HIDE DEF holding, earlier
<1>4. CASE holding # {}
  <2>1. holding \in SUBSET Nat
    BY <1>1, <1>3
  <2>2. \E m \in holding : \A i \in holding : m <= i
    BY <1>4, <2>1, LeastIndex
  <2>3. Min(holding) \in holding
    BY <2>2 DEF Min
  <2>4. s[Min(holding)].start \in Int /\ s[Min(holding)].from \in Int
    BY <1>1, <1>3, <2>3
  <2> QED
    BY <1>2, <1>4, <2>4
<1>5. CASE holding = {} /\ earlier # {}
  <2>1. \E m \in earlier : \A i \in earlier : i <= m
    BY <1>1, <1>3, <1>5, GreatestIndex
  <2>2. \E m \in earlier : \A i \in earlier : m >= i
    <3>1. \A i \in earlier : i \in Int
      BY <1>1, <1>3
    <3> QED
      BY <2>1, <3>1
  <2>3. Max(earlier) \in earlier
    BY <2>2 DEF Max
  <2>4. s[Max(earlier)].start \in Int /\ s[Max(earlier)].duration \in Int
    BY <1>1, <1>3, <2>3
  <2> QED
    BY <1>2, <1>5, <2>4 DEF ClipEnd
<1>6. CASE holding = {} /\ earlier = {}
  BY <1>2, <1>6
<1> QED
  BY <1>4, <1>5, <1>6

\* Media of the plan end with the picture.
LEMMA BrollShows ==
    ASSUME NEW a \in EAnalyses, NEW lo, NEW hi, NEW w, Tiles(w, lo, hi), w # <<>>, NEW c, IsCursor(c, w),
           NEW s, s = [n \in DOMAIN w |-> Clip("source", w[n][1], w[n][2], c[n - 1])]
    PROVE  /\ Broll(a, s) \in Seq(EditClips)
           /\ \A p \in ShownBy(Broll(a, s)) : p[1] < ELater(2, c[Len(w)])
<1> DEFINE L == Len(w)
           main == ELater(2, ClipEnd(Last(s)))
           start == MappedTime(a.broll[1], s)
           mapped == MappedTime(a.broll[2], s)
           end == IF mapped > start THEN mapped
                  ELSE EEarlier(main, start + ELater(10, a.broll[2] - a.broll[1]))
           length == ELater(1, EEarlier(main - start, end - start))
           long == EEarlier(a.broll[3], length)
           clip == Clip("broll", 0, long, start)
<1>1. s \in Seq(EditClips) /\ Len(s) = L /\ L \in Nat /\ DOMAIN w = 1 .. L
  BY LaidShows, TileTypes
<1>2. L \in 1 .. L
  <2>1. w \in Seq(Int \X Int)
    BY DEF Tiles
  <2>2. Len(w) # 0
    BY <2>1, EmptySeq
  <2> QED
    BY <1>1, <2>2
<1>3. ClipEnd(Last(s)) = c[L] /\ c[L] \in Nat
  <2>1. Last(s) = Clip("source", w[L][1], w[L][2], c[L - 1])
    BY <1>1, <1>2 DEF Last
  <2>2. c[L - 1] \in Nat /\ c[L] \in Nat /\ c[L] = c[L - 1] + (w[L][2] - w[L][1])
    BY <1>2, PartIs
  <2>3. ClipEnd(Last(s)) = c[L - 1] + (w[L][2] - w[L][1])
    BY <2>1 DEF ClipEnd, Clip
  <2> QED
    BY <2>2, <2>3
<1>4. a.broll[1] \in Int /\ a.broll[2] \in Int /\ a.broll[3] \in Nat \ {0}
  BY EditConstants
<1>5. start \in Int /\ mapped \in Int
  BY <1>1, <1>4, MappedIsTime
<1>6. main \in Int /\ main = ELater(2, c[L])
  BY <1>3 DEF ELater
<1>7. Broll(a, s) = IF main - start < 1 THEN <<>> ELSE <<clip>>
  BY DEF Broll
<1> HIDE DEF start, mapped, main
<1>8. CASE main - start < 1
  <2>1. Broll(a, s) = <<>>
    BY <1>7, <1>8
  <2>2. <<>> \in Seq(EditClips) /\ ShownBy(<<>>) = {}
    BY EmptySeq DEF ShownBy
  <2> QED
    BY <2>1, <2>2
<1>9. CASE ~(main - start < 1)
  <2>1. end \in Int
    BY <1>4, <1>5, <1>6 DEF EEarlier, ELater
  <2> HIDE DEF end
  <2>2. length \in Int /\ length <= main - start
    BY <1>5, <1>6, <1>9, <2>1 DEF EEarlier, ELater
  <2> HIDE DEF length
  <2>3. long \in Int /\ long <= main - start
    BY <1>4, <1>5, <1>6, <2>2 DEF EEarlier
  <2> HIDE DEF long
  <2>4. IsPlain(clip, 0, long, start)
    BY <1>5, <2>3, ShownIs
  <2>5. Broll(a, s) = <<clip>>
    BY <1>7, <1>9
  <2> HIDE DEF clip
  <2>6. clip \in EditClips /\ ~clip.disabled
    BY <2>4 DEF IsPlain
  <2>7. <<clip>> \in Seq(EditClips) /\ ToSet(<<clip>>) = {clip}
    <3> HIDE DEF EditClips
    <3> QED
      BY <2>6 DEF ToSet
  <2>8. ShownBy(<<clip>>) = Shown(clip)
    BY <2>6, <2>7, PlaysOf DEF Plays
  <2>9. ASSUME NEW p \in Shown(clip) PROVE p[1] < main
    <3>1. p[2] \in Int /\ 0 <= p[2] /\ p[2] < long /\ p[1] = start + (p[2] - 0)
      BY <2>4 DEF IsPlain
    <3> QED
      BY <1>5, <1>6, <2>3, <3>1
  <2> QED
    BY <1>6, <2>5, <2>7, <2>8, <2>9
<1> QED
  BY <1>8, <1>9

\* Tracks of a timeline.
EditTracks ==
    [type : {"video", "text", "audio"}, locked : BOOLEAN, disabled : BOOLEAN, clips : Seq(EditClips)]

\* What the first version shows of an analysis.
ShowsKept(tracks, a) ==
    LET picture == ShownBy(tracks[1].clips)
    IN  /\ {p[2] : p \in picture} = IF Kept(a) = {} THEN 0 .. EEnd - 1 ELSE Kept(a)
        /\ {p[1] : p \in picture} = 0 .. Cardinality(picture) - 1
        /\ \A p, q \in picture : p[1] < q[1] => p[2] < q[2]
        /\ ShownBy(tracks[4].clips) = picture
        /\ ShownBy(tracks[3].clips) = {p \in picture : p[2] \in Within(a.words)}
        /\ \A p \in ShownBy(tracks[2].clips) : p[1] < ELater(2, Cardinality(picture))

\* The first version of an analysis has such tracks and shows what is kept.
LEMMA FirstTracks ==
    ASSUME NEW a \in EAnalyses
    PROVE  InitialTracks(a) \in Seq(EditTracks) /\ ShowsKept(InitialTracks(a), a)
<1> DEFINE w == SourceWindows(a)
           s == Laid("source", w)
           o == Laid("original_audio", w)
           u == Subtitles(a, s)
           b == Broll(a, s)
           t1 == Track("video", s)
           t2 == Track("video", b)
           t3 == Track("text", u)
           t4 == Track("audio", o)
           t == InitialTracks(a)
<1>1. /\ Tiles(w, 0, EEnd) /\ w # <<>>
      /\ Within(ToSet(w)) = IF Kept(a) = {} THEN 0 .. EEnd - 1 ELSE Kept(a)
  BY SourceShows
<1>2. t = <<t1, t2, t3, t4>>
  BY DEF InitialTracks
<1> HIDE DEF w
<1>3. PICK c : /\ IsCursor(c, w)
               /\ \A kind : Laid(kind, w) = [n \in DOMAIN w |-> Clip(kind, w[n][1], w[n][2], c[n - 1])]
  BY <1>1, LaidAlong
<1>4. s = [n \in DOMAIN w |-> Clip("source", w[n][1], w[n][2], c[n - 1])]
  BY <1>3
<1>5. o = [n \in DOMAIN w |-> Clip("original_audio", w[n][1], w[n][2], c[n - 1])]
  BY <1>3
<1> HIDE DEF s, o
<1>6. s \in Seq(EditClips) /\ ShownBy(s) = Picture(c, w)
  BY <1>1, <1>3, <1>4, LaidShows
<1>7. o \in Seq(EditClips) /\ ShownBy(o) = Picture(c, w)
  BY <1>1, <1>3, <1>5, LaidShows
<1>8. u \in Seq(EditClips) /\ ShownBy(u) = {p \in ShownBy(s) : p[2] \in Within(a.words)}
  BY <1>1, <1>3, <1>4, SubtitlesShow
<1>9. b \in Seq(EditClips) /\ \A p \in ShownBy(b) : p[1] < ELater(2, c[Len(w)])
  BY <1>1, <1>3, <1>4, BrollShows
<1>10. /\ {p[2] : p \in Picture(c, w)} = Within(ToSet(w))
       /\ {p[1] : p \in Picture(c, w)} = 0 .. Cardinality(Picture(c, w)) - 1
       /\ \A p, q \in Picture(c, w) : p[1] < q[1] => p[2] < q[2]
       /\ Cardinality(Picture(c, w)) = c[Len(w)]
  BY <1>1, <1>3, PictureFacts
<1> HIDE DEF u, b
<1>11. /\ t1.clips = s /\ t2.clips = b /\ t3.clips = u /\ t4.clips = o
       /\ t1 \in EditTracks /\ t2 \in EditTracks /\ t3 \in EditTracks /\ t4 \in EditTracks
  BY <1>6, <1>7, <1>8, <1>9 DEF Track, EditTracks
<1> HIDE DEF t1, t2, t3, t4, t
<1>12. t \in Seq(EditTracks) /\ t[1] = t1 /\ t[2] = t2 /\ t[3] = t3 /\ t[4] = t4
  BY <1>2, <1>11
<1>13. t[1].clips = s /\ t[2].clips = b /\ t[3].clips = u /\ t[4].clips = o
  BY <1>11, <1>12
<1>14. ShowsKept(t, a)
  <2>1. ShownBy(t[1].clips) = Picture(c, w) /\ ShownBy(t[4].clips) = Picture(c, w)
    BY <1>6, <1>7, <1>13
  <2>2. ShownBy(t[3].clips) = {p \in Picture(c, w) : p[2] \in Within(a.words)}
    BY <1>6, <1>8, <1>13
  <2>3. \A p \in ShownBy(t[2].clips) : p[1] < ELater(2, Cardinality(Picture(c, w)))
    BY <1>9, <1>10, <1>13
  <2> DEFINE picture == Picture(c, w)
  <2> HIDE DEF picture
  <2>4. /\ {p[2] : p \in picture} = IF Kept(a) = {} THEN 0 .. EEnd - 1 ELSE Kept(a)
        /\ {p[1] : p \in picture} = 0 .. Cardinality(picture) - 1
        /\ \A p, q \in picture : p[1] < q[1] => p[2] < q[2]
    BY <1>1, <1>10 DEF picture
  <2> QED
    BY <2>1, <2>2, <2>3, <2>4 DEF ShowsKept, picture
<1> QED
  BY <1>12, <1>14 DEF t

-----------------------------------------------------------------------------
(* Timelines: what an edit does.                                           *)

\* The members of a part of a list.
LEMMA SubIds ==
    ASSUME NEW S, NEW s \in Seq(S), NEW m \in Int, NEW n \in Int, 1 <= m, n <= Len(s)
    PROVE  SubSeq(s, m, n) \in Seq(S) /\ ToSet(SubSeq(s, m, n)) = {s[k] : k \in m .. n}
<1> DEFINE u == SubSeq(s, m, n)
<1>1. Len(s) \in Nat /\ \A i \in 1 .. Len(s) : s[i] \in S
  BY LenProperties
<1>2. \A i \in m .. n : i \in 1 .. Len(s) /\ s[i] \in S
  BY <1>1
<1>3. /\ u \in Seq(S) /\ Len(u) = IF m <= n THEN n - m + 1 ELSE 0
      /\ \A i \in 1 .. n - m + 1 : u[i] = s[m + i - 1]
  BY <1>2, SubSeqProperties
<1> HIDE DEF u
<1>4. DOMAIN u = 1 .. n - m + 1
  <2>1. DOMAIN u = 1 .. Len(u)
    BY <1>3, LenProperties
  <2>2. CASE m <= n
    BY <1>3, <2>1, <2>2
  <2>3. CASE ~(m <= n)
    <3>1. 1 .. 0 = {} /\ 1 .. n - m + 1 = {}
      BY <2>3
    <3> QED
      BY <1>3, <2>1, <2>3, <3>1
  <2> QED
    BY <2>2, <2>3
<1>5. ASSUME NEW i \in 1 .. n - m + 1 PROVE u[i] \in {s[k] : k \in m .. n}
  <2>1. m + i - 1 \in m .. n
    OBVIOUS
  <2> QED
    BY <1>3, <2>1
<1>6. ASSUME NEW k \in m .. n PROVE \E i \in 1 .. n - m + 1 : u[i] = s[k]
  <2> DEFINE i == k - m + 1
  <2>1. i \in 1 .. n - m + 1 /\ m + i - 1 = k
    OBVIOUS
  <2> HIDE DEF i
  <2>2. u[i] = s[k]
    BY <1>3, <2>1
  <2> QED
    BY <2>1, <2>2
<1>7. ToSet(u) = {s[k] : k \in m .. n}
  BY <1>4, <1>5, <1>6 DEF ToSet
<1> QED
  BY <1>3, <1>7 DEF u

\* The members of a list but the n-th.
Others(s, n) == {s[k] : k \in {k \in 1 .. Len(s) : k # n}}

LEMMA RemoveIds ==
    ASSUME NEW S, NEW s \in Seq(S), NEW n \in 1 .. Len(s)
    PROVE  /\ RemoveAt(s, n) \in Seq(S) /\ ToSet(RemoveAt(s, n)) = Others(s, n)
           /\ ToSet(s) = Others(s, n) \cup {s[n]}
<1> DEFINE p == SubSeq(s, 1, n - 1)
           q == SubSeq(s, n + 1, Len(s))
<1>1. Len(s) \in Nat /\ n \in Nat /\ n <= Len(s) /\ 1 <= n /\ DOMAIN s = 1 .. Len(s)
  BY LenProperties
<1>2. p \in Seq(S) /\ ToSet(p) = {s[k] : k \in 1 .. n - 1}
  <2>1. 1 \in Int /\ n - 1 \in Int /\ 1 <= 1 /\ n - 1 <= Len(s)
    BY <1>1
  <2> QED
    BY <2>1, SubIds
<1>3. q \in Seq(S) /\ ToSet(q) = {s[k] : k \in n + 1 .. Len(s)}
  <2>1. n + 1 \in Int /\ Len(s) \in Int /\ 1 <= n + 1 /\ Len(s) <= Len(s)
    BY <1>1
  <2> QED
    BY <2>1, SubIds
<1>4. RemoveAt(s, n) = p \o q
  BY DEF RemoveAt
<1> HIDE DEF p, q
<1>5. p \o q \in Seq(S) /\ ToSet(p \o q) = ToSet(p) \cup ToSet(q)
  BY <1>2, <1>3, ConcatIds
<1>6. \A k : k \in {j \in 1 .. Len(s) : j # n} <=> k \in 1 .. n - 1 \/ k \in n + 1 .. Len(s)
  BY <1>1
<1>7. ToSet(p) \cup ToSet(q) = Others(s, n)
  BY <1>2, <1>3, <1>6 DEF Others
<1>8. ToSet(s) = Others(s, n) \cup {s[n]}
  BY <1>1 DEF ToSet, Others
<1> QED
  BY <1>4, <1>5, <1>7, <1>8

HasFor(u, s, n, x) == ToSet(u) = Others(s, n) \cup {x}

LEMMA ReplaceIds ==
    ASSUME NEW S, NEW s \in Seq(S), NEW n \in 1 .. Len(s), NEW x \in S
    PROVE  /\ ReplaceAt(s, n, x) \in Seq(S) /\ Len(ReplaceAt(s, n, x)) = Len(s)
           /\ HasFor(ReplaceAt(s, n, x), s, n, x)
<1> DEFINE u == ReplaceAt(s, n, x)
<1>1. u = [s EXCEPT ![n] = x]
  BY DEF ReplaceAt
<1>2. Len(s) \in Nat /\ DOMAIN s = 1 .. Len(s) /\ \A k \in 1 .. Len(s) : s[k] \in S
  BY LenProperties
<1>3. u \in [1 .. Len(s) -> S] /\ \A k \in 1 .. Len(s) : u[k] = IF k = n THEN x ELSE s[k]
  BY <1>1, <1>2
<1> HIDE DEF u
<1>4. u \in Seq(S) /\ Len(u) = Len(s) /\ DOMAIN u = 1 .. Len(s)
  BY <1>2, <1>3, FunctionIsList
<1>5. HasFor(u, s, n, x)
  BY <1>3, <1>4 DEF ToSet, Others, HasFor
<1> QED
  BY <1>4, <1>5 DEF u

LEMMA InsertIds ==
    ASSUME NEW S, NEW s \in Seq(S), NEW n \in 1 .. Len(s) + 1, NEW x \in S
    PROVE  InsertAt(s, n, x) \in Seq(S) /\ ToSet(InsertAt(s, n, x)) = ToSet(s) \cup {x}
<1> DEFINE p == SubSeq(s, 1, n - 1)
           q == SubSeq(s, n, Len(s))
           m == <<x>>
<1>1. Len(s) \in Nat /\ n \in Nat /\ n <= Len(s) + 1 /\ 1 <= n /\ DOMAIN s = 1 .. Len(s)
  BY LenProperties
<1>2. p \in Seq(S) /\ ToSet(p) = {s[k] : k \in 1 .. n - 1}
  <2>1. 1 \in Int /\ n - 1 \in Int /\ 1 <= 1 /\ n - 1 <= Len(s)
    BY <1>1
  <2> QED
    BY <2>1, SubIds
<1>3. q \in Seq(S) /\ ToSet(q) = {s[k] : k \in n .. Len(s)}
  <2>1. n \in Int /\ Len(s) \in Int /\ 1 <= n /\ Len(s) <= Len(s)
    BY <1>1
  <2> QED
    BY <2>1, SubIds
<1>4. m \in Seq(S) /\ ToSet(m) = {x}
  BY DEF ToSet
<1>5. InsertAt(s, n, x) = (p \o m) \o q
  BY DEF InsertAt
<1> HIDE DEF p, q, m
<1>6. p \o m \in Seq(S) /\ ToSet(p \o m) = ToSet(p) \cup ToSet(m)
  BY <1>2, <1>4, ConcatIds
<1>7. (p \o m) \o q \in Seq(S) /\ ToSet((p \o m) \o q) = ToSet(p \o m) \cup ToSet(q)
  <2> DEFINE u == p \o m
  <2>1. u \in Seq(S)
    BY <1>6
  <2> HIDE DEF u
  <2>2. u \o q \in Seq(S) /\ ToSet(u \o q) = ToSet(u) \cup ToSet(q)
    BY <1>3, <2>1, ConcatIds
  <2> QED
    BY <2>2 DEF u
<1>8. \A k : k \in 1 .. Len(s) <=> k \in 1 .. n - 1 \/ k \in n .. Len(s)
  BY <1>1
<1>9. ToSet(p) \cup ToSet(q) = ToSet(s)
  BY <1>1, <1>2, <1>3, <1>8 DEF ToSet
<1> QED
  BY <1>4, <1>5, <1>6, <1>7, <1>9

\* A split clip's halves are clips and play what it played.
LEMMA HalvesShow ==
    ASSUME NEW k \in EditClips, NEW time \in Int, k.start < time, time < ClipEnd(k)
    PROVE  /\ LeftOf(k, time) \in EditClips /\ RightOf(k, time) \in EditClips
           /\ LeftOf(k, time).disabled = k.disabled /\ RightOf(k, time).disabled = k.disabled
           /\ Shown(LeftOf(k, time)) \cup Shown(RightOf(k, time)) = Shown(k)
<1> DEFINE d == time - k.start
           e == k.duration
           v == k.speed
           f == k.from
           s == k.start
           cut == f + d * v
           l == LeftOf(k, time)
           r == RightOf(k, time)
           half == [k EXCEPT !.to = cut]
<1>1. /\ k.start \in Int /\ k.duration \in Int /\ k.from \in Int /\ k.to \in Int
      /\ k.speed \in {1, 2} /\ k.disabled \in BOOLEAN
      /\ k = [kind |-> k.kind, from |-> k.from, to |-> k.to, start |-> k.start, duration |-> k.duration,
              speed |-> k.speed, disabled |-> k.disabled]
      /\ k.kind \in {"source", "original_audio", "subtitle", "broll"}
  BY DEF EditClips
<1>2. d \in Int /\ 0 < d /\ d < e /\ e \in Int /\ v \in {1, 2} /\ f \in Int /\ s \in Int /\ cut \in Int
  BY <1>1 DEF ClipEnd
<1>3. Length(half) = d
  <2>1. half.to = cut /\ half.from = f /\ half.speed = v
    BY <1>1
  <2>2. Length(half) = (cut - f) \div v
    BY <2>1 DEF Length
  <2> HIDE DEF d, v, f, half
  <2>3. CASE v = 1
    <3>1. (cut - f) = d /\ d \div 1 = d
      BY <1>2, <2>3
    <3> QED
      BY <2>2, <2>3, <3>1
  <2>4. CASE v = 2
    <3>1. (cut - f) = 2 * d /\ (2 * d) \div 2 = d
      BY <1>2, <2>4
    <3> QED
      BY <2>2, <2>4, <3>1
  <2> QED
    BY <1>2, <2>3, <2>4
<1>4. l = [kind |-> k.kind, from |-> f, to |-> cut, start |-> s, duration |-> d,
           speed |-> v, disabled |-> k.disabled]
  <2>1. l = [half EXCEPT !.duration = Length(half)]
    BY DEF LeftOf, Resized
  <2>2. l = [half EXCEPT !.duration = d]
    BY <1>3, <2>1
  <2> HIDE DEF l
  <2> QED
    BY <1>1, <2>2
<1>5. r = [kind |-> k.kind, from |-> cut, to |-> k.to, start |-> time, duration |-> e - d,
           speed |-> v, disabled |-> k.disabled]
  <2> DEFINE h == [k EXCEPT !.from = cut]
             g == [h EXCEPT !.start = time]
  <2>1. r = [g EXCEPT !.duration = ClipEnd(k) - time]
    BY <1>1 DEF RightOf
  <2>2. ClipEnd(k) - time = e - d
    BY <1>1 DEF ClipEnd
  <2> HIDE DEF r
  <2> QED
    BY <1>1, <2>1, <2>2
<1>6. l \in EditClips /\ r \in EditClips /\ l.disabled = k.disabled /\ r.disabled = k.disabled
  <2>1. d \in Int /\ e - d \in Int /\ time \in Int
    BY <1>2
  <2> HIDE DEF l, r, d, e, v, f, s, cut
  <2> QED
    BY <1>1, <1>2, <1>4, <1>5, <2>1 DEF EditClips, v
<1>7. /\ Shown(l) = {<<s + t, f + t * v>> : t \in 0 .. d - 1}
      /\ Shown(r) = {<<time + t, cut + t * v>> : t \in 0 .. (e - d) - 1}
      /\ Shown(k) = {<<s + t, f + t * v>> : t \in 0 .. e - 1}
  <2> HIDE DEF l, r
  <2> QED
    BY <1>4, <1>5 DEF Shown
<1>8. time = s + d
  BY <1>1
<1> HIDE DEF l, r, d, e, v, f, s
<1>9. ASSUME NEW t \in 0 .. (e - d) - 1
      PROVE  /\ d + t \in 0 .. e - 1 /\ time + t = s + (d + t)
             /\ cut + t * v = f + (d + t) * v
  <2>1. t \in Int /\ d + t \in 0 .. e - 1 /\ time + t = s + (d + t)
    BY <1>2, <1>8
  <2>2. CASE v = 1
    BY <1>2, <2>1, <2>2
  <2>3. CASE v = 2
    BY <1>2, <2>1, <2>3
  <2> QED
    BY <1>2, <2>1, <2>2, <2>3
<1> HIDE DEF cut
<1>10. ASSUME NEW p \in Shown(r) PROVE p \in Shown(k)
  <2>1. PICK t \in 0 .. (e - d) - 1 : p = <<time + t, cut + t * v>>
    BY <1>7
  <2>2. p = <<s + (d + t), f + (d + t) * v>> /\ d + t \in 0 .. e - 1
    BY <1>9, <2>1
  <2> QED
    BY <1>7, <2>2
<1>11. Shown(l) \subseteq Shown(k)
  <2>1. \A t \in 0 .. d - 1 : t \in 0 .. e - 1
    BY <1>2
  <2> QED
    BY <1>7, <2>1
<1>12. ASSUME NEW p \in Shown(k) PROVE p \in Shown(l) \/ p \in Shown(r)
  <2>1. PICK t \in 0 .. e - 1 : p = <<s + t, f + t * v>>
    BY <1>7
  <2>2. CASE t < d
    <3>1. t \in 0 .. d - 1
      BY <1>2, <2>2
    <3> QED
      BY <1>7, <2>1, <3>1
  <2>3. CASE ~(t < d)
    <3> DEFINE x == t - d
    <3>1. x \in 0 .. (e - d) - 1 /\ d + x = t
      BY <1>2, <2>3
    <3> HIDE DEF x
    <3>2. p = <<time + x, cut + x * v>>
      BY <1>9, <2>1, <3>1
    <3> QED
      BY <1>7, <3>1, <3>2
  <2> QED
    BY <2>2, <2>3
<1>13. Shown(l) \cup Shown(r) = Shown(k)
  BY <1>10, <1>11, <1>12
<1> QED
  BY <1>6, <1>13 DEF l, r

\* Tracks as they were but for the clips of one.
IsPut(U, T, i, new) ==
    /\ U \in Seq(EditTracks) /\ Len(U) = Len(T) /\ DOMAIN U = DOMAIN T
    /\ \A k \in 1 .. Len(T) : /\ U[k].locked = T[k].locked /\ U[k].type = T[k].type
                              /\ U[k].clips = IF k = i THEN new ELSE T[k].clips

LEMMA PutClips ==
    ASSUME NEW T \in Seq(EditTracks), NEW i \in 1 .. Len(T), NEW new \in Seq(EditClips),
           NEW U, U = [T EXCEPT ![i].clips = new]
    PROVE  IsPut(U, T, i, new)
<1>1. Len(T) \in Nat /\ DOMAIN T = 1 .. Len(T) /\ \A k \in 1 .. Len(T) : T[k] \in EditTracks
  BY LenProperties
<1> DEFINE r == [T[i] EXCEPT !.clips = new]
<1>2. r \in EditTracks /\ r.locked = T[i].locked /\ r.type = T[i].type /\ r.clips = new
  <2>1. T[i] \in EditTracks
    BY <1>1
  <2> QED
    BY <2>1 DEF EditTracks
<1>3. U = [T EXCEPT ![i] = r]
  OBVIOUS
<1> HIDE DEF r
<1>4. /\ U \in [1 .. Len(T) -> EditTracks]
      /\ \A k \in 1 .. Len(T) : U[k] = IF k = i THEN r ELSE T[k]
  BY <1>1, <1>2, <1>3
<1>5. U \in Seq(EditTracks) /\ Len(U) = Len(T) /\ DOMAIN U = DOMAIN T
  <2> HIDE DEF EditTracks
  <2> QED
    BY <1>1, <1>4, FunctionIsList
<1> QED
  BY <1>2, <1>4, <1>5 DEF IsPut

\* The clip an operation names.
LEMMA OperationOn ==
    ASSUME NEW T \in Seq(EditTracks), NEW op \in ClipOperations(T)
    PROVE  /\ op.at[1] \in 1 .. Len(T) /\ op.at[2] \in 1 .. Len(T[op.at[1]].clips)
           /\ T[op.at[1]].clips \in Seq(EditClips)
           /\ T[op.at[1]].clips[op.at[2]] \in EditClips
           /\ op.type \in {"move", "duplicate", "trim", "split", "delete", "reorder", "disable",
                           "set_clip_properties"}
           /\ op.type \in {"move", "duplicate"} =>
                 op.target \in 1 .. Len(T) /\ op.start \in ETimes \cup {EKeep}
           /\ op.type = "trim" => /\ op.from \in ETimes \cup {EKeep} /\ op.to \in ETimes \cup {EKeep}
                                  /\ op.start \in ETimes \cup {EKeep}
           /\ op.type = "split" => op.time \in ETimes
           /\ op.type = "reorder" => op.index = 1
           /\ op.type = "disable" => op.disabled \in BOOLEAN
           /\ op.type = "set_clip_properties" => op.speed \in {1, 2}
<1>1. Len(T) \in Nat /\ DOMAIN T = 1 .. Len(T) /\ \A k \in 1 .. Len(T) : T[k].clips \in Seq(EditClips)
  <2>1. Len(T) \in Nat /\ DOMAIN T = 1 .. Len(T) /\ \A k \in 1 .. Len(T) : T[k] \in EditTracks
    BY LenProperties
  <2>2. \A t \in EditTracks : t.clips \in Seq(EditClips)
    BY DEF EditTracks
  <2> QED
    BY <2>1, <2>2
<1>2. PICK p \in Places(T) :
        op \in [type : {"move", "duplicate"}, at : {p}, start : ETimes \cup {EKeep}, target : DOMAIN T] \cup
           [type : {"trim"}, at : {p}, from : ETimes \cup {EKeep}, to : ETimes \cup {EKeep},
            start : ETimes \cup {EKeep}] \cup
           [type : {"split"}, at : {p}, time : ETimes] \cup
           [type : {"delete"}, at : {p}] \cup
           [type : {"reorder"}, at : {p}, index : {1}] \cup
           [type : {"disable"}, at : {p}, disabled : BOOLEAN] \cup
           [type : {"set_clip_properties"}, at : {p}, speed : {1, 2}]
  BY DEF ClipOperations
<1>3. p[1] \in DOMAIN T /\ p[2] \in DOMAIN T[p[1]].clips
  BY DEF Places
<1>4. op.at = p
  BY <1>2
<1>5. p[2] \in 1 .. Len(T[p[1]].clips) /\ T[p[1]].clips[p[2]] \in EditClips
  <2> DEFINE s == T[p[1]].clips
  <2>1. s \in Seq(EditClips) /\ p[2] \in DOMAIN s
    BY <1>1, <1>3
  <2> HIDE DEF s
  <2>2. p[2] \in 1 .. Len(s) /\ s[p[2]] \in EditClips
    <3> HIDE DEF EditClips
    <3> QED
      BY <2>1, LenProperties
  <2> QED
    BY <2>2 DEF s
<1>6. /\ op.type \in {"move", "duplicate", "trim", "split", "delete", "reorder", "disable",
                      "set_clip_properties"}
      /\ op.type \in {"move", "duplicate"} =>
            op.target \in 1 .. Len(T) /\ op.start \in ETimes \cup {EKeep}
      /\ op.type = "trim" => /\ op.from \in ETimes \cup {EKeep} /\ op.to \in ETimes \cup {EKeep}
                             /\ op.start \in ETimes \cup {EKeep}
  BY <1>1, <1>2
<1>7. /\ op.type = "split" => op.time \in ETimes
      /\ op.type = "reorder" => op.index = 1
      /\ op.type = "disable" => op.disabled \in BOOLEAN
      /\ op.type = "set_clip_properties" => op.speed \in {1, 2}
  BY <1>2
<1> QED
  BY <1>1, <1>3, <1>4, <1>5, <1>6, <1>7

\* What an operation on a clip leaves: tracks, and those of other places as
\* they were but for the end of one that is not locked.
Leaves(U, T, i) ==
    /\ U \in Seq(EditTracks) /\ Len(U) = Len(T) /\ DOMAIN U = DOMAIN T
    /\ \A k \in 1 .. Len(T) : /\ U[k].locked = T[k].locked /\ U[k].type = T[k].type
                              /\ k # i /\ T[k].locked => U[k].clips = T[k].clips

LEMMA PutLeaves ==
    ASSUME NEW T \in Seq(EditTracks), NEW i \in 1 .. Len(T), NEW new \in Seq(EditClips),
           NEW U, U = [T EXCEPT ![i].clips = new]
    PROVE  Leaves(U, T, i)
<1>1. IsPut(U, T, i, new)
  BY PutClips
<1> QED
  BY <1>1 DEF Leaves, IsPut

\* A resized clip is one.
LEMMA ResizedClip ==
    ASSUME NEW k \in EditClips
    PROVE  Resized(k) \in EditClips
<1>1. Length(k) \in Int
  <2>1. k.from \in Int /\ k.to \in Int /\ k.speed \in {1, 2}
    BY DEF EditClips
  <2>2. CASE k.speed = 1
    BY <2>1, <2>2 DEF Length
  <2>3. CASE k.speed = 2
    BY <2>1, <2>3 DEF Length
  <2> QED
    BY <2>1, <2>2, <2>3
<1> QED
  BY <1>1 DEF Resized, EditClips

LEMMA ChosenTime ==
    ASSUME NEW v \in ETimes \cup {EKeep}, NEW x \in Int
    PROVE  Or(v, x) \in Int
BY EditConstants DEF Or, EKeep

\* Every operation on a clip leaves the rest; a split and a change of order
\* leave what is shown.
LEMMA ClipOperationLeaves ==
    ASSUME NEW T \in Seq(EditTracks), NEW op \in ClipOperations(T), NEW U \in OnClip(T, op)
    PROVE  /\ Leaves(U, T, op.at[1])
           /\ op.type \in {"split", "reorder"} =>
                 \A k \in 1 .. Len(T) : ShownBy(U[k].clips) = ShownBy(T[k].clips)
<1> DEFINE i == op.at[1]
           n == op.at[2]
           clips == T[i].clips
           clip == clips[n]
<1>1. i \in 1 .. Len(T) /\ n \in 1 .. Len(clips) /\ clips \in Seq(EditClips) /\ clip \in EditClips
  BY OperationOn
<1>0. /\ op.type \in {"move", "duplicate", "trim", "split", "delete", "reorder", "disable",
                      "set_clip_properties"}
      /\ op.type \in {"move", "duplicate"} =>
            op.target \in 1 .. Len(T) /\ op.start \in ETimes \cup {EKeep}
      /\ op.type = "trim" => /\ op.from \in ETimes \cup {EKeep} /\ op.to \in ETimes \cup {EKeep}
                             /\ op.start \in ETimes \cup {EKeep}
      /\ op.type = "split" => op.time \in ETimes
      /\ op.type = "reorder" => op.index = 1
      /\ op.type = "disable" => op.disabled \in BOOLEAN
      /\ op.type = "set_clip_properties" => op.speed \in {1, 2}
  BY OperationOn
<1>2. ASSUME NEW j \in 1 .. Len(T) PROVE T[j] \in EditTracks /\ T[j].clips \in Seq(EditClips)
  <2>1. T[j] \in EditTracks
    BY LenProperties
  <2> QED
    BY <2>1 DEF EditTracks
<1>3. /\ clip.start \in Int /\ clip.duration \in Int /\ clip.from \in Int /\ clip.to \in Int
      /\ ClipEnd(clip) \in Int
  <2> HIDE DEF clip
  <2> QED
    BY <1>1 DEF EditClips, ClipEnd
<1>4. ASSUME NEW new \in Seq(EditClips), U \in {[T EXCEPT ![i].clips = new]} PROVE Leaves(U, T, i)
  <2>1. U = [T EXCEPT ![i].clips = new]
    BY <1>4
  <2> HIDE DEF i
  <2> QED
    BY <1>1, <2>1, PutLeaves
<1>5. ASSUME NEW k \in EditClips, U \in {[T EXCEPT ![i].clips = ReplaceAt(clips, n, k)]} PROVE Leaves(U, T, i)
  <2> DEFINE new == ReplaceAt(clips, n, k)
  <2>1. new \in Seq(EditClips)
    <3> HIDE DEF clips, n
    <3> QED
      BY <1>1, ReplaceIds
  <2> QED
    BY <1>4, <1>5, <2>1
<1> HIDE DEF i, n, clips, clip
<1>6. CASE op.type = "move"
  <2> DEFINE moved == [clip EXCEPT !.start = Or(op.start, @)]
             j == op.target
  <2>1. moved \in EditClips
    <3>1. Or(op.start, clip.start) \in Int
      BY <1>0, <1>3, <1>6, ChosenTime
    <3> QED
      BY <1>1, <3>1 DEF EditClips
  <2> HIDE DEF moved
  <2>2. U \in IF j = i THEN {[T EXCEPT ![i].clips = ReplaceAt(clips, n, moved)]}
             ELSE IF ~Receives(T, i, j) THEN {}
             ELSE {[T EXCEPT ![i].clips = RemoveAt(clips, n), ![j].clips = Append(@, moved)]}
    BY <1>6 DEF OnClip, i, n, clips, clip, moved
  <2>3. CASE j = i
    BY <1>5, <1>6, <2>1, <2>2, <2>3 DEF i
  <2>4. CASE j # i
    <3> DEFINE left == RemoveAt(clips, n)
               V == [T EXCEPT ![i].clips = left]
               more == Append(T[j].clips, moved)
    <3>1. Receives(T, i, j) /\ j \in 1 .. Len(T)
      BY <1>0, <1>6, <2>2, <2>4
    <3>2. left \in Seq(EditClips)
      BY <1>1, RemoveIds
    <3> HIDE DEF left
    <3>3. IsPut(V, T, i, left)
      BY <1>1, <3>2, PutClips
    <3>4. more \in Seq(EditClips)
      <4>1. T[j].clips \in Seq(EditClips)
        BY <1>2, <3>1
      <4> DEFINE cs == T[j].clips
      <4> HIDE DEF cs
      <4> QED
        BY <2>1, <4>1, AppendProperties DEF cs
    <3>5. U = [V EXCEPT ![j].clips = more]
      <4> DEFINE x == [T[i] EXCEPT !.clips = left]
                 y == [T[j] EXCEPT !.clips = more]
      <4>1. U = [T EXCEPT ![i].clips = left, ![j].clips = Append(@, moved)]
        BY <2>2, <2>4, <3>1 DEF left
      <4>2. U = [T EXCEPT ![i] = x, ![j] = y]
        BY <2>4, <4>1
      <4>3. V = [T EXCEPT ![i] = x]
        OBVIOUS
      <4>4. V[j] = T[j]
        BY <2>4, <3>1
      <4>5. y = [V[j] EXCEPT !.clips = more]
        BY <4>4
      <4> HIDE DEF x, y
      <4>6. U = [[T EXCEPT ![i] = x] EXCEPT ![j] = y]
        BY <4>2
      <4> HIDE DEF V, more
      <4>7. U = [V EXCEPT ![j] = y]
        BY <4>3, <4>6
      <4> QED
        BY <4>5, <4>7
    <3> HIDE DEF V, more, j
    <3>9. V \in Seq(EditTracks) /\ j \in 1 .. Len(V)
      BY <3>1, <3>3 DEF IsPut
    <3>6. IsPut(U, V, j, more)
      BY <3>4, <3>5, <3>9, PutClips
    <3>7. ~T[j].locked
      BY <3>1 DEF Receives
    <3>8. Leaves(U, T, i)
      BY <2>4, <3>3, <3>6, <3>7 DEF Leaves, IsPut, j
    <3> QED
      BY <1>6, <3>8 DEF i
  <2> QED
    BY <2>3, <2>4
<1>7. CASE op.type = "duplicate"
  <2> DEFINE copy == [clip EXCEPT !.start = Or(op.start, ClipEnd(clip))]
             j == op.target
  <2>1. copy \in EditClips
    <3>1. Or(op.start, ClipEnd(clip)) \in Int
      BY <1>0, <1>3, <1>7, ChosenTime
    <3> QED
      BY <1>1, <3>1 DEF EditClips
  <2> HIDE DEF copy
  <2>2. U \in IF j # i /\ ~Receives(T, i, j) THEN {} ELSE {[T EXCEPT ![j].clips = Append(@, copy)]}
    BY <1>7 DEF OnClip, i, n, clips, clip, copy
  <2> DEFINE more == Append(T[j].clips, copy)
  <2>3. U = [T EXCEPT ![j].clips = more] /\ j \in 1 .. Len(T) /\ (j # i => ~T[j].locked)
    BY <1>0, <1>7, <2>2 DEF Receives
  <2>4. more \in Seq(EditClips)
    <3>1. T[j].clips \in Seq(EditClips)
      BY <1>2, <2>3
    <3> DEFINE cs == T[j].clips
    <3> HIDE DEF cs
    <3> QED
      BY <2>1, <3>1, AppendProperties DEF cs
  <2> HIDE DEF more, j
  <2>5. IsPut(U, T, j, more)
    BY <2>3, <2>4, PutClips
  <2>6. Leaves(U, T, i)
    BY <2>3, <2>5 DEF Leaves, IsPut
  <2> QED
    BY <1>7, <2>6 DEF i
<1>8. CASE op.type = "trim"
  <2> DEFINE h == [clip EXCEPT !.from = Or(op.from, @)]
             g == [h EXCEPT !.to = Or(op.to, @)]
             new == [g EXCEPT !.start = Or(op.start, @)]
  <2>1. new \in EditClips
    <3>1. /\ Or(op.from, clip.from) \in Int /\ Or(op.to, clip.to) \in Int
          /\ Or(op.start, clip.start) \in Int
      BY <1>0, <1>3, <1>8, ChosenTime
    <3>2. h \in EditClips /\ h.to = clip.to /\ h.start = clip.start
      BY <1>1, <3>1 DEF EditClips
    <3> HIDE DEF h
    <3>3. g \in EditClips /\ g.start = clip.start
      BY <3>1, <3>2 DEF EditClips
    <3> HIDE DEF g
    <3> QED
      BY <3>1, <3>3 DEF EditClips
  <2>2. new = [clip EXCEPT !.from = Or(op.from, @), !.to = Or(op.to, @), !.start = Or(op.start, @)]
    BY <1>1 DEF EditClips
  <2> HIDE DEF h, g, new
  <2>3. U \in IF new.to <= new.from THEN {}
              ELSE {[T EXCEPT ![i].clips = ReplaceAt(clips, n, Resized(new))]}
    BY <1>8, <2>2 DEF OnClip, i, n, clips, clip
  <2>4. Resized(new) \in EditClips
    BY <2>1, ResizedClip
  <2> QED
    BY <1>5, <1>8, <2>3, <2>4 DEF i
<1>9. CASE op.type = "split"
  <2> DEFINE l == LeftOf(clip, op.time)
             r == RightOf(clip, op.time)
             rep == ReplaceAt(clips, n, l)
             new == InsertAt(rep, n + 1, r)
  <2>1. U \in IF op.time <= clip.start \/ op.time >= ClipEnd(clip) THEN {}
              ELSE {[T EXCEPT ![i].clips = new]}
    BY <1>9 DEF OnClip, i, n, clips, clip
  <2>2. op.time \in Int /\ clip.start < op.time /\ op.time < ClipEnd(clip)
    <3>1. op.time \in Int
      <4>1. op.time \in ETimes
        BY <1>0, <1>9
      <4>2. ETimes \subseteq Nat
        BY EditConstants
      <4>3. op.time \in Nat
        BY <4>1, <4>2
      <4> QED
        BY <4>3
    <3> HIDE DEF new
    <3> QED
      BY <1>3, <2>1, <3>1
  <2>3. /\ l \in EditClips /\ r \in EditClips /\ l.disabled = clip.disabled /\ r.disabled = clip.disabled
        /\ Shown(l) \cup Shown(r) = Shown(clip)
    BY <1>1, <2>2, HalvesShow
  <2> HIDE DEF l, r
  <2>4. rep \in Seq(EditClips) /\ Len(rep) = Len(clips) /\ ToSet(rep) = Others(clips, n) \cup {l}
    <3>1. l \in EditClips
      BY <2>3
    <3>2. n \in 1 .. Len(clips) /\ clips \in Seq(EditClips)
      BY <1>1
    <3>3. rep \in Seq(EditClips)
      BY <3>1, <3>2, ReplaceIds
    <3>4. Len(rep) = Len(clips)
      BY <3>1, <3>2, ReplaceIds
    <3>5. ToSet(ReplaceAt(clips, n, l)) = Others(clips, n) \cup {l}
      <4>1. HasFor(ReplaceAt(clips, n, l), clips, n, l)
        BY <3>1, <3>2, ReplaceIds
      <4> QED
        BY <4>1 DEF HasFor
    <3> QED
      BY <3>3, <3>4, <3>5
  <2> HIDE DEF rep
  <2>5. new \in Seq(EditClips) /\ ToSet(new) = ToSet(rep) \cup {r}
    <3>1. n + 1 \in 1 .. Len(rep) + 1
      <4>1. Len(clips) \in Nat
        BY <1>1, LenProperties
      <4> QED
        BY <1>1, <2>4, <4>1
    <3> QED
      BY <2>3, <2>4, <3>1, InsertIds
  <2> HIDE DEF new
  <2>6. ToSet(clips) = Others(clips, n) \cup {clip}
    BY <1>1, RemoveIds DEF clip
  <2>7. ShownBy(new) = ShownBy(clips)
    <3>1. Plays(ToSet(new)) = Plays(Others(clips, n)) \cup Plays({l, r})
      BY <2>4, <2>5 DEF Plays
    <3>2. Plays(ToSet(clips)) = Plays(Others(clips, n)) \cup Plays({clip})
      BY <2>6 DEF Plays
    <3>3. Plays({l, r}) = Plays({clip})
      BY <2>3 DEF Plays
    <3> QED
      BY <3>1, <3>2, <3>3, PlaysOf
  <2>8. U = [T EXCEPT ![i].clips = new]
    BY <1>3, <2>1, <2>2
  <2>9. Leaves(U, T, i)
    BY <1>1, <2>5, <2>8, PutLeaves
  <2>10. \A k \in 1 .. Len(T) : U[k].clips = IF k = i THEN new ELSE T[k].clips
    <3>1. IsPut(U, T, i, new)
      BY <1>1, <2>5, <2>8, PutClips
    <3> QED
      BY <3>1 DEF IsPut
  <2>11. ASSUME NEW k \in 1 .. Len(T) PROVE ShownBy(U[k].clips) = ShownBy(T[k].clips)
    BY <2>7, <2>10 DEF clips
  <2> QED
    BY <2>9, <2>11 DEF i
<1>10. CASE op.type = "delete"
  <2> DEFINE left == RemoveAt(clips, n)
  <2>1. left \in Seq(EditClips)
    BY <1>1, RemoveIds
  <2>2. U \in {[T EXCEPT ![i].clips = left]}
    BY <1>10 DEF OnClip, i, n, clips, clip
  <2> HIDE DEF left
  <2> QED
    BY <1>4, <1>10, <2>1, <2>2 DEF i
<1>11. CASE op.type = "reorder"
  <2> DEFINE left == RemoveAt(clips, n)
             new == InsertAt(left, 1, clip)
  <2>1. U \in {[T EXCEPT ![i].clips = InsertAt(left, EEarlier(op.index, Len(clips)), clip)]}
    BY <1>11 DEF OnClip, i, n, clips, clip
  <2>2. EEarlier(op.index, Len(clips)) = 1
    <3>1. Len(clips) \in Nat /\ op.index = 1
      BY <1>0, <1>1, <1>11, LenProperties
    <3>2. 1 <= Len(clips)
      BY <1>1, <3>1
    <3> DEFINE m == Len(clips)
    <3> HIDE DEF m
    <3>3. EEarlier(op.index, m) = IF 1 < m THEN 1 ELSE m
      BY <3>1 DEF EEarlier
    <3>4. m \in Nat /\ 1 <= m
      BY <3>1, <3>2 DEF m
    <3>5. EEarlier(op.index, m) = 1
      BY <3>3, <3>4
    <3> QED
      BY <3>5 DEF m
  <2>3. U = [T EXCEPT ![i].clips = new]
    BY <2>1, <2>2
  <2>4. left \in Seq(EditClips) /\ ToSet(left) = Others(clips, n) /\ ToSet(clips) = Others(clips, n) \cup {clip}
    BY <1>1, RemoveIds DEF clip
  <2> HIDE DEF left
  <2>5. new \in Seq(EditClips) /\ ToSet(new) = ToSet(left) \cup {clip}
    <3>1. 1 \in 1 .. Len(left) + 1
      BY <2>4, LenProperties
    <3> QED
      BY <1>1, <2>4, <3>1, InsertIds
  <2> HIDE DEF new
  <2>6. ShownBy(new) = ShownBy(clips)
    BY <2>4, <2>5, PlaysOf
  <2>7. Leaves(U, T, i)
    BY <1>1, <2>3, <2>5, PutLeaves
  <2>8. \A k \in 1 .. Len(T) : U[k].clips = IF k = i THEN new ELSE T[k].clips
    <3>1. IsPut(U, T, i, new)
      BY <1>1, <2>3, <2>5, PutClips
    <3> QED
      BY <3>1 DEF IsPut
  <2>9. ASSUME NEW k \in 1 .. Len(T) PROVE ShownBy(U[k].clips) = ShownBy(T[k].clips)
    BY <2>6, <2>8 DEF clips
  <2> QED
    BY <2>7, <2>9 DEF i
<1>12. CASE op.type = "disable"
  <2> DEFINE new == [clip EXCEPT !.disabled = op.disabled]
  <2>1. new \in EditClips
    BY <1>0, <1>1, <1>12 DEF EditClips
  <2>2. U \in {[T EXCEPT ![i].clips = ReplaceAt(clips, n, new)]}
    BY <1>12 DEF OnClip, i, n, clips, clip
  <2> HIDE DEF new
  <2> QED
    BY <1>5, <1>12, <2>1, <2>2 DEF i
<1>13. CASE op.type = "set_clip_properties"
  <2> DEFINE new == [clip EXCEPT !.speed = op.speed]
  <2>1. new \in EditClips
    BY <1>0, <1>1, <1>13 DEF EditClips
  <2>2. U \in {[T EXCEPT ![i].clips = ReplaceAt(clips, n, Resized(new))]}
    BY <1>13 DEF OnClip, i, n, clips, clip
  <2> HIDE DEF new
  <2>3. Resized(new) \in EditClips
    BY <2>1, ResizedClip
  <2> QED
    BY <1>5, <1>13, <2>2, <2>3 DEF i
<1> QED
  BY <1>0, <1>6, <1>7, <1>8, <1>9, <1>10, <1>11, <1>12, <1>13

\* A batch of one operation, and of two.
LEMMA AppliedOne ==
    ASSUME NEW T, NEW a, NEW U \in AppliedAll(T, <<a>>)
    PROVE  U \in Applied(T, a)
<1> DEFINE ops == <<a>>
           Steps(f) == f = [n \in 0 .. Len(ops) |->
                               IF n = 0 THEN {T} ELSE UNION {Applied(s, ops[n]) : s \in f[n - 1]}]
           after == CHOOSE f : Steps(f)
           one == UNION {Applied(s, a) : s \in {T}}
           g == [n \in 0 .. 1 |-> IF n = 0 THEN {T} ELSE one]
<1>1. Len(ops) = 1 /\ ops[1] = a
  OBVIOUS
<1>2. U \in after[Len(ops)]
  BY DEF AppliedAll
<1> HIDE DEF ops
<1>3. Steps(g)
  <2>1. g[0] = {T} /\ g[1] = one /\ g = [n \in 0 .. 1 |-> g[n]]
    OBVIOUS
  <2>2. \A n \in 0 .. 1 : n = 0 \/ (n = 1 /\ n - 1 = 0)
    OBVIOUS
  <2> HIDE DEF g
  <2>3. ASSUME NEW n \in 0 .. 1
        PROVE  g[n] = IF n = 0 THEN {T} ELSE UNION {Applied(s, ops[n]) : s \in g[n - 1]}
    <3>1. CASE n = 0
      BY <2>1, <3>1
    <3>2. CASE n = 1 /\ n - 1 = 0
      <4>1. g[n] = one /\ g[n - 1] = {T} /\ ops[n] = a /\ n # 0
        BY <1>1, <2>1, <3>2
      <4>2. one = UNION {Applied(s, ops[n]) : s \in g[n - 1]}
        BY <4>1
      <4> QED
        BY <4>1, <4>2
    <3> QED
      BY <2>2, <3>1, <3>2
  <2>4. g = [n \in 0 .. 1 |-> IF n = 0 THEN {T} ELSE UNION {Applied(s, ops[n]) : s \in g[n - 1]}]
    BY <2>1, <2>3
  <2> QED
    BY <1>1, <2>4
<1>4. Steps(after)
  <2>1. \E f : Steps(f)
    BY <1>3
  <2> QED
    BY <2>1
<1> HIDE DEF after
<1>5. after[1] = UNION {Applied(s, a) : s \in after[0]} /\ after[0] = {T}
  <2>1. after = [n \in 0 .. 1 |-> IF n = 0 THEN {T} ELSE UNION {Applied(s, ops[n]) : s \in after[n - 1]}]
    BY <1>1, <1>4
  <2>2. 0 \in 0 .. 1 /\ 1 \in 0 .. 1 /\ 1 # 0 /\ 1 - 1 = 0
    OBVIOUS
  <2>3. after[1] = UNION {Applied(s, ops[1]) : s \in after[1 - 1]}
    BY <2>1, <2>2
  <2> QED
    BY <1>1, <2>1, <2>2, <2>3
<1> QED
  BY <1>1, <1>2, <1>5

LEMMA AppliedTwo ==
    ASSUME NEW T, NEW a, NEW b, NEW U \in AppliedAll(T, <<a, b>>)
    PROVE  \E V \in Applied(T, a) : U \in Applied(V, b)
<1> DEFINE ops == <<a, b>>
           Steps(f) == f = [n \in 0 .. Len(ops) |->
                               IF n = 0 THEN {T} ELSE UNION {Applied(s, ops[n]) : s \in f[n - 1]}]
           after == CHOOSE f : Steps(f)
           one == UNION {Applied(s, a) : s \in {T}}
           two == UNION {Applied(s, b) : s \in one}
           g == [n \in 0 .. 2 |-> IF n = 0 THEN {T} ELSE IF n = 1 THEN one ELSE two]
<1>1. Len(ops) = 2 /\ ops[1] = a /\ ops[2] = b
  OBVIOUS
<1>2. U \in after[Len(ops)]
  BY DEF AppliedAll
<1> HIDE DEF ops
<1>3. Steps(g)
  <2>1. g[0] = {T} /\ g[1] = one /\ g[2] = two /\ g = [n \in 0 .. 2 |-> g[n]]
    OBVIOUS
  <2>2. \A n \in 0 .. 2 : n = 0 \/ (n = 1 /\ n - 1 = 0) \/ (n = 2 /\ n - 1 = 1)
    OBVIOUS
  <2> HIDE DEF g
  <2>3. ASSUME NEW n \in 0 .. 2
        PROVE  g[n] = IF n = 0 THEN {T} ELSE UNION {Applied(s, ops[n]) : s \in g[n - 1]}
    <3>1. CASE n = 0
      BY <2>1, <3>1
    <3>2. CASE n = 1 /\ n - 1 = 0
      <4>1. g[n] = one /\ g[n - 1] = {T} /\ ops[n] = a /\ n # 0
        BY <1>1, <2>1, <3>2
      <4> QED
        BY <4>1
    <3>3. CASE n = 2 /\ n - 1 = 1
      <4>1. g[n] = two /\ g[n - 1] = one /\ ops[n] = b /\ n # 0
        BY <1>1, <2>1, <3>3
      <4> HIDE DEF one
      <4> QED
        BY <4>1
    <3> QED
      BY <2>2, <3>1, <3>2, <3>3
  <2>4. g = [n \in 0 .. 2 |-> IF n = 0 THEN {T} ELSE UNION {Applied(s, ops[n]) : s \in g[n - 1]}]
    BY <2>1, <2>3
  <2> QED
    BY <1>1, <2>4
<1>4. Steps(after)
  <2>1. \E f : Steps(f)
    BY <1>3
  <2> QED
    BY <2>1
<1> HIDE DEF after
<1>5. /\ after[2] = UNION {Applied(s, b) : s \in after[1]}
      /\ after[1] = UNION {Applied(s, a) : s \in after[0]} /\ after[0] = {T}
  <2>1. after = [n \in 0 .. 2 |-> IF n = 0 THEN {T} ELSE UNION {Applied(s, ops[n]) : s \in after[n - 1]}]
    BY <1>1, <1>4
  <2>2. 0 \in 0 .. 2 /\ 1 \in 0 .. 2 /\ 2 \in 0 .. 2 /\ 1 # 0 /\ 2 # 0 /\ 1 - 1 = 0 /\ 2 - 1 = 1
    OBVIOUS
  <2>3. after[1] = UNION {Applied(s, ops[1]) : s \in after[1 - 1]}
    BY <2>1, <2>2
  <2>4. after[2] = UNION {Applied(s, ops[2]) : s \in after[2 - 1]}
    BY <2>1, <2>2
  <2> QED
    BY <1>1, <2>1, <2>2, <2>3, <2>4
<1>6. PICK V \in after[1] : U \in Applied(V, b)
  BY <1>1, <1>2, <1>5
<1>7. V \in Applied(T, a)
  BY <1>5, <1>6
<1> QED
  BY <1>6, <1>7

\* The state of a track is set.
LEMMA StateLeaves ==
    ASSUME NEW T \in Seq(EditTracks), NEW op \in TrackStates(T), NEW V \in Applied(T, op)
    PROVE  /\ V \in Seq(EditTracks) /\ Len(V) = Len(T) /\ DOMAIN V = DOMAIN T
           /\ \A k \in 1 .. Len(T) : /\ V[k].clips = T[k].clips
                                     /\ V[k].locked = IF k = op.track THEN op.locked ELSE T[k].locked
<1>1. Len(T) \in Nat /\ DOMAIN T = 1 .. Len(T) /\ \A k \in 1 .. Len(T) : T[k] \in EditTracks
  BY LenProperties
<1>2. /\ op.type = "set_track_state" /\ op.track \in 1 .. Len(T) /\ op.locked \in BOOLEAN
      /\ op.disabled \in BOOLEAN
  BY <1>1 DEF TrackStates
<1> DEFINE i == op.track
           h == [T[i] EXCEPT !.locked = op.locked]
           r == [h EXCEPT !.disabled = op.disabled]
<1>3. r \in EditTracks /\ r.clips = T[i].clips /\ r.locked = op.locked
  <2>1. T[i] \in EditTracks
    BY <1>1, <1>2
  <2>2. h \in EditTracks /\ h.clips = T[i].clips /\ h.locked = op.locked
    BY <1>2, <2>1 DEF EditTracks
  <2> HIDE DEF h
  <2> QED
    BY <1>2, <2>2 DEF EditTracks
<1>4. V = [T EXCEPT ![i] = r]
  <2>1. V = [T EXCEPT ![i].locked = op.locked, ![i].disabled = op.disabled]
    BY <1>2 DEF Applied
  <2> QED
    BY <1>1, <1>2, <2>1
<1> HIDE DEF r, i
<1>5. /\ V \in [1 .. Len(T) -> EditTracks]
      /\ \A k \in 1 .. Len(T) : V[k] = IF k = i THEN r ELSE T[k]
  BY <1>1, <1>2, <1>3, <1>4 DEF i
<1>6. V \in Seq(EditTracks) /\ Len(V) = Len(T) /\ DOMAIN V = DOMAIN T
  <2> HIDE DEF EditTracks
  <2> QED
    BY <1>1, <1>5, FunctionIsList
<1>7. \A k \in 1 .. Len(T) : /\ V[k].clips = T[k].clips
                             /\ V[k].locked = IF k = i THEN op.locked ELSE T[k].locked
  BY <1>3, <1>5
<1> QED
  BY <1>6, <1>7 DEF i

\* An operation on a clip of a track that is not locked.
LEMMA OperationLeaves ==
    ASSUME NEW T \in Seq(EditTracks), NEW op \in ClipOperations(T), NEW U \in Applied(T, op)
    PROVE  /\ U \in Seq(EditTracks) /\ Len(U) = Len(T)
           /\ \A k \in 1 .. Len(T) : T[k].locked => U[k].clips = T[k].clips
           /\ op.type \in {"split", "reorder"} =>
                 \A k \in 1 .. Len(T) : ShownBy(U[k].clips) = ShownBy(T[k].clips)
<1>1. op.type # "set_track_state"
  BY OperationOn
<1>2. ~T[op.at[1]].locked /\ U \in OnClip(T, op)
  BY <1>1 DEF Applied
<1>3. /\ Leaves(U, T, op.at[1])
      /\ op.type \in {"split", "reorder"} =>
            \A k \in 1 .. Len(T) : ShownBy(U[k].clips) = ShownBy(T[k].clips)
  BY <1>2, ClipOperationLeaves
<1> QED
  BY <1>2, <1>3 DEF Leaves

\* What a batch leaves.
Spares(U, T, ops) ==
    /\ U \in Seq(EditTracks) /\ Len(U) = Len(T)
    /\ \A k \in 1 .. Len(T) :
          \/ ~T[k].locked
          \/ \E op \in ToSet(ops) : op.type = "set_track_state" /\ op.track = k /\ ~op.locked
          \/ U[k].clips = T[k].clips
    /\ ops[1].type \in {"split", "reorder"} =>
          \A k \in 1 .. Len(T) : ShownBy(U[k].clips) = ShownBy(T[k].clips)

\* A batch applied spares what it must.
LEMMA BatchSpares ==
    ASSUME NEW T \in Seq(EditTracks), NEW ops \in Batches(T), NEW U \in AppliedAll(T, ops)
    PROVE  Spares(U, T, ops)
<1>1. ASSUME NEW op \in TrackStates(T), ops = <<op>> PROVE Spares(U, T, ops)
  <2>1. U \in Applied(T, op) /\ op.type = "set_track_state"
    BY <1>1, AppliedOne DEF TrackStates
  <2>2. /\ U \in Seq(EditTracks) /\ Len(U) = Len(T)
        /\ \A k \in 1 .. Len(T) : U[k].clips = T[k].clips
    BY <2>1, StateLeaves
  <2>3. ops[1] = op
    BY <1>1
  <2> QED
    BY <2>1, <2>2, <2>3 DEF Spares
<1>2. ASSUME NEW op \in ClipOperations(T), ops = <<op>> PROVE Spares(U, T, ops)
  <2>1. U \in Applied(T, op)
    BY <1>2, AppliedOne
  <2>2. /\ U \in Seq(EditTracks) /\ Len(U) = Len(T)
        /\ \A k \in 1 .. Len(T) : T[k].locked => U[k].clips = T[k].clips
        /\ op.type \in {"split", "reorder"} =>
              \A k \in 1 .. Len(T) : ShownBy(U[k].clips) = ShownBy(T[k].clips)
    BY <2>1, OperationLeaves
  <2>3. ops[1] = op
    BY <1>2
  <2> QED
    BY <2>2, <2>3 DEF Spares
<1>3. ASSUME NEW s \in TrackStates(T), NEW op \in ClipOperations(T), ops = <<s, op>>
      PROVE  Spares(U, T, ops)
  <2>1. PICK V \in Applied(T, s) : U \in Applied(V, op)
    BY <1>3, AppliedTwo
  <2>2. /\ V \in Seq(EditTracks) /\ Len(V) = Len(T) /\ DOMAIN V = DOMAIN T
        /\ \A k \in 1 .. Len(T) : /\ V[k].clips = T[k].clips
                                  /\ V[k].locked = IF k = s.track THEN s.locked ELSE T[k].locked
    BY <2>1, StateLeaves
  <2>3. ClipOperations(V) = ClipOperations(T)
    <3>1. DOMAIN T = 1 .. Len(T)
      BY LenProperties
    <3>2. \A k \in DOMAIN T : DOMAIN V[k].clips = DOMAIN T[k].clips
      BY <2>2, <3>1
    <3>3. Places(V) = Places(T)
      <4>1. {{k} \X DOMAIN V[k].clips : k \in DOMAIN V} = {{k} \X DOMAIN T[k].clips : k \in DOMAIN T}
        BY <2>2, <3>2
      <4> QED
        BY <4>1 DEF Places
    <3> QED
      BY <2>2, <3>3 DEF ClipOperations
  <2>4. op \in ClipOperations(V)
    BY <2>3
  <2>5. /\ U \in Seq(EditTracks) /\ Len(U) = Len(V)
        /\ \A k \in 1 .. Len(V) : V[k].locked => U[k].clips = V[k].clips
    BY <2>1, <2>2, <2>4, OperationLeaves
  <2>6. ops[1] = s /\ s \in ToSet(ops) /\ s.type = "set_track_state" /\ s.locked \in BOOLEAN
    <3>1. DOMAIN <<s, op>> = 1 .. 2 /\ <<s, op>>[1] = s
      OBVIOUS
    <3>2. s \in ToSet(<<s, op>>)
      BY <3>1 DEF ToSet
    <3> QED
      BY <1>3, <3>1, <3>2 DEF TrackStates
  <2>7. ASSUME NEW k \in 1 .. Len(T), T[k].locked, ~(s.track = k /\ ~s.locked) PROVE U[k].clips = T[k].clips
    <3>1. V[k].locked
      BY <2>2, <2>6, <2>7
    <3> QED
      BY <2>2, <2>5, <3>1
  <2> QED
    BY <2>2, <2>5, <2>6, <2>7 DEF Spares
<1>4. \/ \E op \in TrackStates(T) \cup ClipOperations(T) : ops = <<op>>
      \/ \E s \in TrackStates(T), op \in ClipOperations(T) : ops = <<s, op>>
  BY DEF Batches
<1> QED
  BY <1>1, <1>2, <1>3, <1>4

-----------------------------------------------------------------------------
(* TimelineEdits: the versions of a timeline.                              *)

\* A version is what its request says of the versions before it.
BuildsOn(row, versions, last) ==
    IF row.type = "restore"
    THEN row.restored \in 1 .. last /\ row.tracks = versions[row.restored].tracks
    ELSE /\ row.type = "edit" /\ row.ops \in Batches(versions[last].tracks)
         /\ row.tracks \in AppliedAll(versions[last].tracks, row.ops)

\* The first version is made of the analysis, the others build on the one before.
VersionsHold(versions, analysis) ==
    /\ IsListed(versions)
    /\ \A v \in 1 .. Len(versions) : versions[v].tracks \in Seq(EditTracks)
    /\ Len(versions) > 0 => versions[1].tracks = InitialTracks(analysis)
    /\ \A v \in 2 .. Len(versions) : BuildsOn(versions[v], versions, v - 1)

\* A request whose version is still the last holds what it builds on it.
EditorHolds(editor, versions) ==
    editor.pc \in {"looked", "committing"} =>
        /\ editor.expected \in 1 .. Len(versions)
        /\ editor.pc = "committing" /\ editor.expected = Len(versions) =>
              BuildsOn(editor.row, versions, Len(versions))

EditInv ==
    /\ eAnalysis \in EAnalyses
    /\ VersionsHold(eVersions, eAnalysis)
    /\ DOMAIN eEditor = Editors
    /\ \A e \in Editors : DOMAIN eEditor[e] = {"pc", "expected", "row"}
    /\ \A e \in Editors : EditorHolds(eEditor[e], eVersions)

\* A step of one editor, whatever becomes of the versions, if the rows of the
\* others still build on them.
LEMMA EditorMoves ==
    ASSUME EditInv, NEW e \in Editors, DOMAIN eEditor' = Editors,
           \A o \in Editors : o # e => eEditor'[o] = eEditor[o],
           DOMAIN eEditor'[e] = {"pc", "expected", "row"},
           EditorHolds(eEditor'[e], eVersions'), eVersions' = eVersions,
           eAnalysis' = eAnalysis
    PROVE  EditInv'
<1>1. \A o \in Editors : /\ DOMAIN eEditor'[o] = {"pc", "expected", "row"}
                         /\ EditorHolds(eEditor'[o], eVersions')
  BY DEF EditInv
<1>2. VersionsHold(eVersions', eAnalysis') /\ eAnalysis' \in EAnalyses
  BY DEF EditInv
<1> QED
  BY <1>1, <1>2 DEF EditInv

\* What a request builds on the last version is a list of tracks.
LEMMA BuiltIsTracks ==
    ASSUME EditInv, NEW row, Len(eVersions) > 0, BuildsOn(row, eVersions, Len(eVersions))
    PROVE  row.tracks \in Seq(EditTracks)
<1>1. Len(eVersions) \in 1 .. Len(eVersions) /\ VersionsHold(eVersions, eAnalysis)
  BY DEF EditInv, VersionsHold, IsListed
<1>2. CASE row.type = "restore"
  BY <1>1, <1>2 DEF BuildsOn, VersionsHold
<1>3. CASE row.type # "restore"
  <2> DEFINE T == eVersions[Len(eVersions)].tracks
             U == row.tracks
             ops == row.ops
  <2>1. T \in Seq(EditTracks) /\ ops \in Batches(T) /\ U \in AppliedAll(T, ops)
    BY <1>1, <1>3 DEF BuildsOn, VersionsHold
  <2> HIDE DEF T, U, ops
  <2>2. U \in Seq(EditTracks)
    BY <2>1, BatchSpares DEF Spares
  <2> QED
    BY <2>2 DEF U
<1> QED
  BY <1>2, <1>3

\* A version more: those before it say what they said, and requests of the one
\* before are of the past.
LEMMA VersionCommitted ==
    ASSUME EditInv, NEW row, eVersions' = Append(eVersions, row), eAnalysis' = eAnalysis,
           row.tracks \in Seq(EditTracks),
           Len(eVersions) = 0 => row.tracks = InitialTracks(eAnalysis),
           Len(eVersions) > 0 => BuildsOn(row, eVersions, Len(eVersions))
    PROVE  /\ VersionsHold(eVersions', eAnalysis') /\ eAnalysis' \in EAnalyses
           /\ \A e \in Editors : EditorHolds(eEditor[e], eVersions')
<1>0. VersionsHold(eVersions, eAnalysis) /\ eAnalysis' \in EAnalyses /\ IsListed(eVersions)
  BY DEF EditInv, VersionsHold
<1>1. /\ IsListed(eVersions') /\ Len(eVersions) \in Nat
      /\ Len(eVersions') = Len(eVersions) + 1 /\ eVersions'[Len(eVersions) + 1] = row
      /\ \A n \in 1 .. Len(eVersions) : eVersions'[n] = eVersions[n]
  BY <1>0, ListGrows
<1>2. ASSUME NEW q, NEW last \in 1 .. Len(eVersions), BuildsOn(q, eVersions, last)
      PROVE  BuildsOn(q, eVersions', last)
  <2>1. eVersions'[last] = eVersions[last]
    BY <1>1
  <2>2. CASE q.type = "restore"
    <3>1. q.restored \in 1 .. last /\ q.tracks = eVersions[q.restored].tracks
      BY <1>2, <2>2 DEF BuildsOn
    <3>2. q.restored \in 1 .. Len(eVersions)
      BY <1>1, <3>1
    <3>3. eVersions'[q.restored] = eVersions[q.restored]
      BY <1>1, <3>2
    <3> QED
      BY <2>2, <3>1, <3>3 DEF BuildsOn
  <2>3. CASE q.type # "restore"
    BY <1>2, <2>1, <2>3 DEF BuildsOn
  <2> QED
    BY <2>2, <2>3
<1>3. ASSUME NEW v \in 2 .. Len(eVersions') PROVE BuildsOn(eVersions'[v], eVersions', v - 1)
  <2>1. v - 1 \in 1 .. Len(eVersions)
    BY <1>1
  <2>2. CASE v = Len(eVersions) + 1
    <3>1. eVersions'[v] = row /\ v - 1 = Len(eVersions) /\ Len(eVersions) > 0
      BY <1>1, <2>1, <2>2
    <3> QED
      BY <1>2, <2>1, <3>1
  <2>3. CASE v # Len(eVersions) + 1
    <3>1. v \in 2 .. Len(eVersions) /\ v \in 1 .. Len(eVersions)
      BY <1>1, <2>3
    <3>2. eVersions'[v] = eVersions[v] /\ BuildsOn(eVersions[v], eVersions, v - 1)
      BY <1>0, <1>1, <3>1 DEF VersionsHold
    <3> QED
      BY <1>2, <2>1, <3>2
  <2> QED
    BY <2>2, <2>3
<1>4. ASSUME NEW e \in Editors PROVE EditorHolds(eEditor[e], eVersions')
  <2>1. EditorHolds(eEditor[e], eVersions)
    BY DEF EditInv
  <2> QED
    BY <1>1, <2>1 DEF EditorHolds
<1>5. ASSUME NEW v \in 1 .. Len(eVersions') PROVE eVersions'[v].tracks \in Seq(EditTracks)
  <2>1. v \in 1 .. Len(eVersions) \/ v = Len(eVersions) + 1
    BY <1>1
  <2> QED
    BY <1>0, <1>1, <2>1 DEF VersionsHold
<1>6. eVersions'[1].tracks = InitialTracks(eAnalysis')
  <2>1. CASE Len(eVersions) = 0
    BY <1>1, <2>1
  <2>2. CASE Len(eVersions) # 0
    <3>1. 1 \in 1 .. Len(eVersions) /\ Len(eVersions) > 0
      BY <1>1, <2>2
    <3>2. eVersions'[1] = eVersions[1]
      BY <1>1, <3>1
    <3> QED
      BY <1>0, <3>1, <3>2 DEF VersionsHold
  <2> QED
    BY <2>1, <2>2
<1>7. VersionsHold(eVersions', eAnalysis')
  BY <1>1, <1>3, <1>5, <1>6 DEF VersionsHold
<1> QED
  BY <1>0, <1>4, <1>7

\* Every version builds on the one before it, in every reachable state.
THEOREM EditInvariant == ESpec => []EditInv
<1>1. ASSUME EInit PROVE EditInv
  <2>1. IsListed(eVersions) /\ Len(eVersions) = 0
    BY <1>1 DEF EInit, IsListed
  <2>2. VersionsHold(eVersions, eAnalysis) /\ eAnalysis \in EAnalyses
    BY <1>1, <2>1 DEF EInit, VersionsHold
  <2> QED
    BY <1>1, <2>2 DEF EInit, EIdle, EditInv, EditorHolds
<1>2. ASSUME EditInv, [ENext]_eVars PROVE EditInv'
  <2>0. /\ Len(eVersions) \in Nat /\ (eVersions # <<>> => Len(eVersions) > 0)
        /\ (eVersions = <<>> => Len(eVersions) = 0) /\ IsListed(eVersions)
        /\ eAnalysis \in EAnalyses
    BY <1>2 DEF EditInv, VersionsHold, IsListed
  <2>1. CASE UNCHANGED eVars
    <3>1. eAnalysis' = eAnalysis /\ eVersions' = eVersions /\ eEditor' = eEditor
      BY <2>1 DEF eVars
    <3> QED
      BY <1>2, <3>1 DEF EditInv
  <2>2. CASE CreateTimeline
    <3> DEFINE row == EVersion(InitialTracks(eAnalysis), "initialize", <<>>, 0)
    <3>1. /\ eVersions' = Append(eVersions, row)
          /\ Len(eVersions) = 0 /\ eEditor' = eEditor /\ eAnalysis' = eAnalysis
      BY <2>0, <2>2 DEF CreateTimeline
    <3>2. row.tracks = InitialTracks(eAnalysis)
      BY DEF EVersion
    <3> HIDE DEF row
    <3>3. row.tracks \in Seq(EditTracks)
      BY <2>0, <3>2, FirstTracks
    <3>4. /\ VersionsHold(eVersions', eAnalysis') /\ eAnalysis' \in EAnalyses
          /\ \A e \in Editors : EditorHolds(eEditor[e], eVersions')
      BY <1>2, <3>1, <3>2, <3>3, VersionCommitted
    <3> QED
      BY <1>2, <3>1, <3>4 DEF EditInv
  <2>3. ASSUME NEW e \in Editors, LookAtTimeline(e) PROVE EditInv'
    <3> DEFINE half == [eEditor[e] EXCEPT !.pc = "looked"]
               row == [half EXCEPT !.expected = Len(eVersions)]
    <3>1. /\ DOMAIN eEditor = Editors /\ DOMAIN eEditor[e] = {"pc", "expected", "row"}
          /\ Len(eVersions) \in 1 .. Len(eVersions) /\ eVersions' = eVersions
          /\ eAnalysis' = eAnalysis
      BY <1>2, <2>0, <2>3 DEF EditInv, LookAtTimeline
    <3>2. eEditor' = [eEditor EXCEPT ![e] = row]
      BY <2>3, <3>1 DEF LookAtTimeline
    <3>3. DOMAIN row = {"pc", "expected", "row"} /\ row.pc = "looked" /\ row.expected = Len(eVersions)
      BY <3>1
    <3> HIDE DEF row
    <3>4. EditorHolds(row, eVersions')
      BY <3>1, <3>3 DEF EditorHolds
    <3> QED
      BY <1>2, <3>1, <3>2, <3>3, <3>4, EditorMoves
  <2>4. ASSUME NEW e \in Editors, NEW new, eEditor[e].pc = "looked", eVersions' = eVersions,
               eAnalysis' = eAnalysis,
               eEditor' = [eEditor EXCEPT ![e].pc = "committing", ![e].row = new],
               BuildsOn(new, eVersions, Len(eVersions))
        PROVE  EditInv'
    <3> DEFINE half == [eEditor[e] EXCEPT !.pc = "committing"]
               row == [half EXCEPT !.row = new]
    <3>1. /\ DOMAIN eEditor = Editors /\ DOMAIN eEditor[e] = {"pc", "expected", "row"}
          /\ eEditor[e].expected \in 1 .. Len(eVersions)
      BY <1>2, <2>4 DEF EditInv, EditorHolds
    <3>2. eEditor' = [eEditor EXCEPT ![e] = row]
      BY <2>4, <3>1
    <3>3. /\ DOMAIN row = {"pc", "expected", "row"} /\ row.pc = "committing"
          /\ row.expected = eEditor[e].expected /\ row.row = new
      BY <3>1
    <3> HIDE DEF row
    <3>4. EditorHolds(row, eVersions')
      BY <2>4, <3>1, <3>3 DEF EditorHolds
    <3> QED
      BY <1>2, <2>4, <3>1, <3>2, <3>3, <3>4, EditorMoves
  <2>5. ASSUME NEW e \in Editors, Mutate(e) PROVE EditInv'
    <3>1. PICK ops \in Batches(ECurrent.tracks) : \E tracks \in AppliedAll(ECurrent.tracks, ops) :
            eEditor' = [eEditor EXCEPT ![e].pc = "committing",
                                       ![e].row = EVersion(tracks, "edit", ops, 0)]
      BY <2>5 DEF Mutate
    <3>2. PICK tracks \in AppliedAll(ECurrent.tracks, ops) :
            eEditor' = [eEditor EXCEPT ![e].pc = "committing",
                                       ![e].row = EVersion(tracks, "edit", ops, 0)]
      BY <3>1
    <3> DEFINE new == EVersion(tracks, "edit", ops, 0)
    <3>3. new.type = "edit" /\ new.tracks = tracks /\ new.ops = ops
      BY DEF EVersion
    <3>4. eEditor' = [eEditor EXCEPT ![e].pc = "committing", ![e].row = new]
      BY <3>2
    <3> HIDE DEF new
    <3>5. /\ ops \in Batches(eVersions[Len(eVersions)].tracks)
          /\ tracks \in AppliedAll(eVersions[Len(eVersions)].tracks, ops)
      BY <3>1, <3>2 DEF ECurrent
    <3>6. BuildsOn(new, eVersions, Len(eVersions))
      BY <3>3, <3>5 DEF BuildsOn
    <3>7. eEditor[e].pc = "looked" /\ eVersions' = eVersions /\ eAnalysis' = eAnalysis
      BY <2>5 DEF Mutate
    <3> QED
      BY <2>4, <3>4, <3>6, <3>7
  <2>6. ASSUME NEW e \in Editors, Restore(e) PROVE EditInv'
    <3>1. PICK v \in DOMAIN eVersions :
            eEditor' = [eEditor EXCEPT ![e].pc = "committing",
                                       ![e].row = EVersion(eVersions[v].tracks, "restore", <<>>, v)]
      BY <2>6 DEF Restore
    <3> DEFINE new == EVersion(eVersions[v].tracks, "restore", <<>>, v)
    <3>2. new.type = "restore" /\ new.tracks = eVersions[v].tracks /\ new.restored = v
      BY DEF EVersion
    <3>3. v \in 1 .. Len(eVersions)
      BY <2>0, <3>1 DEF IsListed
    <3>4. eEditor' = [eEditor EXCEPT ![e].pc = "committing", ![e].row = new]
      BY <3>1
    <3> HIDE DEF new
    <3>5. BuildsOn(new, eVersions, Len(eVersions))
      BY <3>2, <3>3 DEF BuildsOn
    <3>6. eEditor[e].pc = "looked" /\ eVersions' = eVersions /\ eAnalysis' = eAnalysis
      BY <2>6 DEF Restore
    <3> QED
      BY <2>4, <3>4, <3>5, <3>6
  <2>7. ASSUME NEW e \in Editors, MutateRefused(e) PROVE EditInv'
    <3>1. /\ DOMAIN eEditor = Editors /\ eVersions' = eVersions /\ eAnalysis' = eAnalysis
          /\ eEditor' = [eEditor EXCEPT ![e] = EIdle]
      BY <1>2, <2>7 DEF EditInv, MutateRefused
    <3>2. DOMAIN EIdle = {"pc", "expected", "row"} /\ EIdle.pc = "idle"
      BY DEF EIdle
    <3>3. EditorHolds(EIdle, eVersions')
      BY <3>2 DEF EditorHolds
    <3> QED
      BY <1>2, <3>1, <3>2, <3>3, EditorMoves
  <2>8. ASSUME NEW e \in Editors, CommitVersion(e) PROVE EditInv'
    <3>1. /\ DOMAIN eEditor = Editors /\ eEditor' = [eEditor EXCEPT ![e] = EIdle]
          /\ eEditor[e].pc = "committing" /\ EditorHolds(eEditor[e], eVersions)
          /\ eAnalysis' = eAnalysis
      BY <1>2, <2>8 DEF EditInv, CommitVersion
    <3>2. DOMAIN EIdle = {"pc", "expected", "row"} /\ EIdle.pc = "idle" /\ EditorHolds(EIdle, eVersions')
      BY DEF EIdle, EditorHolds
    <3>3. CASE ~Expected(e)
      <4>1. eVersions' = eVersions
        BY <2>8, <3>3 DEF CommitVersion
      <4> QED
        BY <1>2, <3>1, <3>2, <4>1, EditorMoves
    <3>4. CASE Expected(e)
      <4>1. eVersions' = Append(eVersions, eEditor[e].row)
        BY <2>8, <3>4 DEF CommitVersion
      <4>2. BuildsOn(eEditor[e].row, eVersions, Len(eVersions)) /\ Len(eVersions) > 0
        BY <2>0, <3>1, <3>4 DEF EditorHolds, Expected
      <4>6. eEditor[e].row.tracks \in Seq(EditTracks)
        BY <1>2, <4>2, BuiltIsTracks
      <4>3. /\ VersionsHold(eVersions', eAnalysis') /\ eAnalysis' \in EAnalyses
            /\ \A o \in Editors : EditorHolds(eEditor[o], eVersions')
        BY <1>2, <2>0, <3>1, <4>1, <4>2, <4>6, VersionCommitted
      <4>4. ASSUME NEW o \in Editors
            PROVE  DOMAIN eEditor'[o] = {"pc", "expected", "row"} /\ EditorHolds(eEditor'[o], eVersions')
        <5>1. CASE o = e
          BY <3>1, <3>2, <5>1
        <5>2. CASE o # e
          <6>1. eEditor'[o] = eEditor[o] /\ DOMAIN eEditor[o] = {"pc", "expected", "row"}
            BY <1>2, <3>1, <5>2 DEF EditInv
          <6> QED
            BY <4>3, <6>1
        <5> QED
          BY <5>1, <5>2
      <4>5. DOMAIN eEditor' = Editors
        BY <3>1
      <4> QED
        BY <1>2, <4>3, <4>4, <4>5 DEF EditInv
    <3> QED
      BY <3>3, <3>4
  <2> QED
    BY <1>2, <2>1, <2>2, <2>3, <2>5, <2>6, <2>7, <2>8 DEF ENext
<1> QED
  BY <1>1, <1>2, PTL DEF ESpec

\* No committed edit is lost: each version is the one before it with exactly its
\* own operations applied, or the version it restores, whatever the operations
\* do and however many editors overlap.
THEOREM EditsAreKept == ESpec => []EditsBuildOnTheLast
<1>1. EditInv => EditsBuildOnTheLast
  BY DEF EditInv, VersionsHold, EditsBuildOnTheLast, BuildsOn
<1> QED
  BY <1>1, EditInvariant, PTL

\* What an edit leaves of the version before it.
LEMMA EditSpares ==
    ASSUME EditInv, NEW v \in 2 .. Len(eVersions), eVersions[v].type = "edit"
    PROVE  /\ Spares(eVersions[v].tracks, eVersions[v - 1].tracks, eVersions[v].ops)
           /\ DOMAIN eVersions[v].tracks = 1 .. Len(eVersions[v - 1].tracks)
<1> DEFINE T == eVersions[v - 1].tracks
           U == eVersions[v].tracks
           ops == eVersions[v].ops
<1>1. VersionsHold(eVersions, eAnalysis) /\ Len(eVersions) \in Nat
  BY DEF EditInv, VersionsHold, IsListed
<1>2. v - 1 \in 1 .. Len(eVersions)
  BY <1>1
<1>3. T \in Seq(EditTracks)
  BY <1>1, <1>2 DEF VersionsHold
<1>4. ops \in Batches(T) /\ U \in AppliedAll(T, ops)
  <2>1. BuildsOn(eVersions[v], eVersions, v - 1)
    BY <1>1 DEF VersionsHold
  <2> QED
    BY <2>1 DEF BuildsOn
<1> HIDE DEF T, U, ops
<1>5. Spares(U, T, ops)
  BY <1>3, <1>4, BatchSpares
<1>6. DOMAIN U = 1 .. Len(T)
  <2>1. U \in Seq(EditTracks) /\ Len(U) = Len(T)
    BY <1>5 DEF Spares
  <2> QED
    BY <2>1
<1> QED
  BY <1>5, <1>6 DEF T, U, ops

\* The first version shows what the analysis keeps, in the source's order, with
\* its sound and its words, and no inserted picture past the end; a split and a
\* change of order change nothing of what plays; a locked track keeps its clips.
THEOREM TimelinesHold == ESpec => [](FirstVersionShowsWhatWasKept /\ EditsKeepTheRest)
<1>1. ASSUME EditInv PROVE FirstVersionShowsWhatWasKept
  <2>1. CASE eVersions = <<>>
    BY <2>1 DEF FirstVersionShowsWhatWasKept
  <2>2. CASE eVersions # <<>>
    <3>1. VersionsHold(eVersions, eAnalysis) /\ eAnalysis \in EAnalyses
      BY <1>1 DEF EditInv
    <3>2. eVersions[1].tracks = InitialTracks(eAnalysis)
      BY <2>2, <3>1 DEF VersionsHold, IsListed
    <3>3. ShowsKept(eVersions[1].tracks, eAnalysis)
      BY <3>1, <3>2, FirstTracks
    <3> QED
      BY <3>3 DEF FirstVersionShowsWhatWasKept, ShowsKept, Kept
  <2> QED
    BY <2>1, <2>2
<1>2. ASSUME EditInv PROVE SplitsShowTheSame
  <2> SUFFICES ASSUME NEW v \in 2 .. Len(eVersions), eVersions[v].type = "edit",
                      eVersions[v].ops[1].type \in {"split", "reorder"},
                      NEW i \in DOMAIN eVersions[v].tracks
               PROVE  ShownBy(eVersions[v].tracks[i].clips) = ShownBy(eVersions[v - 1].tracks[i].clips)
    BY DEF SplitsShowTheSame
  <2> QED
    BY <1>2, EditSpares DEF Spares
<1>3. ASSUME EditInv PROVE LockedTracksKeep
  <2> SUFFICES ASSUME NEW v \in 2 .. Len(eVersions), eVersions[v].type = "edit",
                      NEW i \in DOMAIN eVersions[v].tracks
               PROVE  \/ ~eVersions[v - 1].tracks[i].locked
                      \/ \E op \in ToSet(eVersions[v].ops) :
                            op.type = "set_track_state" /\ op.track = i /\ ~op.locked
                      \/ eVersions[v].tracks[i].clips = eVersions[v - 1].tracks[i].clips
    BY DEF LockedTracksKeep
  <2> QED
    BY <1>3, EditSpares DEF Spares
<1>4. ASSUME EditInv PROVE EditsBuildOnTheLast
  BY <1>4 DEF EditInv, VersionsHold, EditsBuildOnTheLast, BuildsOn
<1>5. EditInv => FirstVersionShowsWhatWasKept /\ EditsKeepTheRest
  BY <1>1, <1>2, <1>3, <1>4 DEF EditsKeepTheRest
<1> QED
  BY <1>5, EditInvariant, PTL
=============================================================================
