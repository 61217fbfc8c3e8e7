-------------------------- MODULE RectanglesProofs --------------------------
(***************************************************************************)
(* Proofs about FrameBuffer and Rectangles, for a screen, tiles, colours,  *)
(* palettes and subrectangles of any size and number: whatever the server  *)
(* sends, in Raw, CopyRect, RRE, Hextile or ZRLE, the client takes exactly *)
(* that, and its frame buffer becomes the server's screen.                 *)
(*                                                                         *)
(* First, what is drawn by each walk of a pointer through the memory of    *)
(* the frame buffer; then sequences, tiles and clients; then, one encoding *)
(* after the other, that the client waits again, with the server's screen, *)
(* when it has read what was sent (After4).  ZRLE comes last: its client   *)
(* walks through a block, and is shown to come from one item of it to the  *)
(* next, which is a line, a run, a tile (Begins, InRuns, AtItem).          *)
(***************************************************************************)
EXTENDS Rectangles, SequenceTheorems, WellFoundedInduction, TLAPS

-----------------------------------------------------------------------------
(* Induction and recursion.                                                *)

Less == {p \in Nat \X Nat : p[1] < p[2]}

LEMMA LessIsWellFounded == IsWellFoundedOn(Less, Nat)
<1>1. OpToRel(<, Nat) = Less
  BY Zenon DEF OpToRel, Less
<1> QED BY <1>1, NatLessThanWellFounded, Zenon

\* A set of numbers that is not empty has a least one.
LEMMA LeastOf ==
    ASSUME NEW T, T \subseteq Nat, T # {}
    PROVE  \E x \in T : \A y \in T : ~(y < x)
<1>1. PICK x \in T : \A y \in T : <<y, x>> \notin Less
  BY LessIsWellFounded, WFMin
<1>2. \A y \in T : ~(y < x)
  BY <1>1 DEF Less
<1> QED BY <1>2

LEMMA InductionTo ==
    ASSUME NEW n \in Nat, NEW G, 0 \in G,
           \A i \in 1 .. n : i - 1 \in G => i \in G
    PROVE  \A i \in 0 .. n : i \in G
<1> SUFFICES ASSUME \E i \in 0 .. n : i \notin G PROVE FALSE
  OBVIOUS
<1> DEFINE T == {i \in 0 .. n : i \notin G}
<1>1. T \subseteq Nat /\ T # {}
  OBVIOUS
<1>2. PICK x \in T : \A y \in T : ~(y < x)
  <2> HIDE DEF T
  <2> QED BY <1>1, LeastOf
<1>3. x \in 1 .. n /\ x - 1 \in 0 .. n
  BY <1>2
<1>4. x - 1 \notin T
  BY <1>2, <1>3
<1> QED BY <1>2, <1>3, <1>4

\* A loop that takes x through n steps, none of which leaves S: g[k] is what it
\* has after k of them.
Loop(S, n, x, step, g) ==
    /\ g \in [0 .. n -> S] /\ g[0] = x
    /\ \A i \in 1 .. n : g[i] = step[i - 1][g[i - 1]]

LEMMA Recursion ==
    ASSUME NEW S, NEW n \in Nat, NEW x \in S,
           NEW step \in [0 .. n - 1 -> [S -> S]]
    PROVE  \E g : Loop(S, n, x, step, g)
<1> DEFINE By(k, g) ==
              g[0] = x /\ \A i \in 1 .. k : g[i] = step[i - 1][g[i - 1]]
           G == {k \in 0 .. n : \E g \in [0 .. k -> S] : By(k, g)}
<1>1. 0 \in G
  <2> DEFINE h == [i \in 0 .. 0 |-> x]
  <2>1. h \in [0 .. 0 -> S] /\ h[0] = x
    OBVIOUS
  <2>2. \A i \in 1 .. 0 : h[i] = step[i - 1][h[i - 1]]
    OBVIOUS
  <2> HIDE DEF h
  <2>3. By(0, h)
    BY <2>1, <2>2
  <2>4. 0 \in 0 .. n
    OBVIOUS
  <2> HIDE DEF By
  <2> QED BY <2>1, <2>3, <2>4
<1>2. ASSUME NEW k \in 1 .. n, k - 1 \in G PROVE k \in G
  <2>1. PICK g \in [0 .. k - 1 -> S] : By(k - 1, g)
    BY <1>2
  <2> DEFINE h == [i \in 0 .. k |-> IF i = k THEN step[k - 1][g[k - 1]]
                                             ELSE g[i]]
  <2>2. step[k - 1][g[k - 1]] \in S
    <3>1. k - 1 \in 0 .. n - 1 /\ k - 1 \in 0 .. k - 1
      OBVIOUS
    <3> QED BY <3>1
  <2>3. h \in [0 .. k -> S]
    BY <2>2
  <2>4. h[0] = x
    BY <2>1
  <2>5. ASSUME NEW i \in 1 .. k PROVE h[i] = step[i - 1][h[i - 1]]
    <3>1. h[i - 1] = g[i - 1]
      OBVIOUS
    <3>2. CASE i = k
      <4>1. h[i] = step[k - 1][g[k - 1]]
        BY <3>2
      <4> HIDE DEF h
      <4> QED BY <4>1, <3>1, <3>2
    <3>3. CASE i # k
      <4>1. i \in 1 .. k - 1 /\ h[i] = g[i]
        BY <3>3
      <4>2. g[i] = step[i - 1][g[i - 1]]
        BY <4>1, <2>1
      <4> HIDE DEF h
      <4> QED BY <4>1, <4>2, <3>1
    <3> QED BY <3>2, <3>3
  <2> HIDE DEF h
  <2> QED BY <2>3, <2>4, <2>5
<1>3. \A i \in 0 .. n : i \in G
  <2> HIDE DEF G
  <2> QED BY <1>1, <1>2, InductionTo
<1>4. n \in G
  <2> HIDE DEF G
  <2>1. n \in 0 .. n
    OBVIOUS
  <2> QED BY <1>3, <2>1
<1> QED BY <1>4 DEF Loop

-----------------------------------------------------------------------------
(* Drawing into the memory of a frame buffer.                              *)

Cells == 0 .. Width * Height - 1

\* The n steps of g draw color into m, at one cell after the other.
Draws(n, m, at, color, g) ==
    /\ at \in [0 .. n - 1 -> Cells] /\ color \in [0 .. n - 1 -> Colors]
    /\ \A j, k \in 0 .. n - 1 : at[j] = at[k] => j = k
    /\ g[0] = m
    /\ \A k \in 1 .. n : g[k] = [g[k - 1] EXCEPT ![at[k - 1]] = color[k - 1]]

\* d is m, but for the n cells that have been drawn.
Drawn(n, m, at, color, d) ==
    /\ d \in Memory
    /\ \A j \in 0 .. n - 1 : d[at[j]] = color[j]
    /\ \A i \in Cells : (\A j \in 0 .. n - 1 : at[j] # i) => d[i] = m[i]

LEMMA DrawsWhatIsDrawn ==
    ASSUME NEW n \in Nat, NEW m \in Memory, NEW at, NEW color, NEW g,
           Draws(n, m, at, color, g)
    PROVE  Drawn(n, m, at, color, g[n])
<1> USE DEF Draws
<1> DEFINE After(k) ==
              /\ g[k] \in Memory
              /\ \A j \in 0 .. k - 1 : g[k][at[j]] = color[j]
              /\ \A i \in Cells :
                    (\A j \in 0 .. k - 1 : at[j] # i) => g[k][i] = m[i]
           G == {k \in 0 .. n : After(k)}
<1>1. Memory = [Cells -> Colors]
  BY DEF Memory, Cells
<1>2. 0 \in G
  <2>1. After(0)
    BY <1>1
  <2>2. 0 \in 0 .. n
    OBVIOUS
  <2> QED BY <2>1, <2>2
<1>3. ASSUME NEW k \in 1 .. n, k - 1 \in G PROVE k \in G
  <2>1. After(k - 1)
    BY <1>3
  <2>2. k - 1 \in 0 .. n - 1 /\ k \in 0 .. n
    OBVIOUS
  <2>3. at[k - 1] \in Cells /\ color[k - 1] \in Colors
    BY <2>2
  <2>4. g[k] = [g[k - 1] EXCEPT ![at[k - 1]] = color[k - 1]]
    OBVIOUS
  <2>5. g[k - 1] \in [Cells -> Colors]
    BY <1>1, <2>1
  <2>6. g[k] \in [Cells -> Colors]
    BY <2>3, <2>4, <2>5
  <2>7. ASSUME NEW j \in 0 .. k - 1 PROVE g[k][at[j]] = color[j]
    <3>1. j \in 0 .. n - 1 /\ at[j] \in Cells
      OBVIOUS
    <3>2. CASE j = k - 1
      BY <2>3, <2>4, <2>5, <3>2
    <3>3. CASE j # k - 1
      <4>1. at[j] # at[k - 1]
        BY <2>2, <3>1, <3>3
      <4>2. g[k - 1][at[j]] = color[j]
        BY <2>1, <3>3
      <4> QED BY <2>4, <2>5, <3>1, <4>1, <4>2
    <3> QED BY <3>2, <3>3
  <2>8. ASSUME NEW i \in Cells, \A j \in 0 .. k - 1 : at[j] # i
        PROVE  g[k][i] = m[i]
    <3>1. g[k - 1][i] = m[i]
      BY <2>1, <2>8
    <3>2. at[k - 1] # i
      BY <2>8
    <3> QED BY <2>4, <2>5, <3>1, <3>2
  <2> QED BY <1>1, <2>2, <2>6, <2>7, <2>8
<1>4. \A k \in 0 .. n : k \in G
  <2> HIDE DEF G
  <2> QED BY <1>2, <1>3, InductionTo
<1>5. n \in G
  <2>1. n \in 0 .. n
    OBVIOUS
  <2> HIDE DEF G
  <2> QED BY <1>4, <2>1
<1> QED BY <1>5 DEF Drawn

LEMMA Division ==
    ASSUME NEW w \in Nat \ {0}, NEW h \in Nat
    PROVE  /\ \A k \in 0 .. w * h - 1 : /\ k % w \in 0 .. w - 1
                                        /\ k \div w \in 0 .. h - 1
                                        /\ k = (k \div w) * w + (k % w)
           /\ \A a \in 0 .. w - 1, b \in 0 .. h - 1 :
                 /\ b * w + a \in 0 .. w * h - 1
                 /\ (b * w + a) \div w = b /\ (b * w + a) % w = a
OBVIOUS

LEMMA CellOf ==
    ASSUME NEW x \in 0 .. Width - 1, NEW y \in 0 .. Height - 1
    PROVE  /\ At(x, y) \in Cells
           /\ \A a \in 0 .. Width - 1, b \in 0 .. Height - 1 :
                 At(x, y) = At(a, b) => x = a /\ y = b
BY FrameBufferAssumption DEF At, Cells

\* Where the k-th pixel of r is.
LEMMA PixelIs ==
    ASSUME NEW r \in Inside, NEW k \in 0 .. r.w * r.h - 1
    PROVE  LET x == r.x + (k % r.w)
               y == r.y + (k \div r.w)
           IN  /\ x \in r.x .. MaxX(r) - 1 /\ y \in r.y .. MaxY(r) - 1
               /\ x \in 0 .. Width - 1 /\ y \in 0 .. Height - 1
               /\ PixelOf(r, k) = At(x, y)
<1> USE FrameBufferAssumption
<1> DEFINE a == k % r.w
           b == k \div r.w
<1>1. /\ r.x \in Nat /\ r.y \in Nat /\ r.w \in Nat \ {0} /\ r.h \in Nat
      /\ r.x + r.w <= Width /\ r.y + r.h <= Height
  BY DEF Inside, TooLarge, MaxX, MaxY
<1>2. a \in 0 .. r.w - 1 /\ b \in 0 .. r.h - 1 /\ k = b * r.w + a
  BY <1>1, Division
<1>3. PixelOf(r, k) = r.y * Width + r.x + k + (Width - r.w) * b
  BY <1>1, <1>2 DEF PixelOf, Pointer, At
<1> HIDE DEF a, b
<1>4. PixelOf(r, k) = At(r.x + a, r.y + b)
  <2>1. (Width - r.w) * b = b * Width - b * r.w
    BY <1>1, <1>2
  <2>2. (r.y + b) * Width = r.y * Width + b * Width
    BY <1>1, <1>2
  <2> QED BY <1>1, <1>2, <1>3, <2>1, <2>2 DEF At
<1>5. /\ r.x + a \in r.x .. MaxX(r) - 1 /\ r.y + b \in r.y .. MaxY(r) - 1
      /\ r.x + a \in 0 .. Width - 1 /\ r.y + b \in 0 .. Height - 1
  BY <1>1, <1>2 DEF MaxX, MaxY
<1> QED BY <1>4, <1>5 DEF a, b

\* The place of a point in r, from 0.
Place(r, p) == (p[2] - r.y) * r.w + (p[1] - r.x)

LEMMA PlaceIs ==
    ASSUME NEW r \in Inside, NEW p \in PointsOf(r)
    PROVE  /\ p \in Points /\ p[1] \in 0 .. Width - 1 /\ p[2] \in 0 .. Height - 1
           /\ Place(r, p) \in 0 .. r.w * r.h - 1
           /\ PixelOf(r, Place(r, p)) = At(p[1], p[2])
<1> USE FrameBufferAssumption
<1> DEFINE k == Place(r, p)
<1>1. /\ r.x \in Nat /\ r.y \in Nat /\ r.w \in Nat \ {0} /\ r.h \in Nat
      /\ r.x + r.w <= Width /\ r.y + r.h <= Height
  BY DEF Inside, TooLarge, MaxX, MaxY
<1>2. /\ p \in Points /\ p[1] \in 0 .. Width - 1 /\ p[2] \in 0 .. Height - 1
      /\ p[1] - r.x \in 0 .. r.w - 1 /\ p[2] - r.y \in 0 .. r.h - 1
  BY <1>1 DEF PointsOf, Points, MaxX, MaxY
<1>3. /\ k \in 0 .. r.w * r.h - 1
      /\ k \div r.w = p[2] - r.y /\ k % r.w = p[1] - r.x
  <2> DEFINE a == p[1] - r.x
             b == p[2] - r.y
  <2>1. a \in 0 .. r.w - 1 /\ b \in 0 .. r.h - 1 /\ k = b * r.w + a
    BY <1>2 DEF Place
  <2> HIDE DEF a, b, k
  <2>2. \A c \in 0 .. r.w - 1, d \in 0 .. r.h - 1 :
           /\ d * r.w + c \in 0 .. r.w * r.h - 1
           /\ (d * r.w + c) \div r.w = d /\ (d * r.w + c) % r.w = c
    BY <1>1, Division
  <2>3. k \in 0 .. r.w * r.h - 1 /\ k \div r.w = b /\ k % r.w = a
    BY <2>1, <2>2
  <2> QED BY <2>3 DEF a, b
<1>4. PixelOf(r, k) = At(r.x + (p[1] - r.x), r.y + (p[2] - r.y))
  <2> HIDE DEF k
  <2> QED BY <1>3, PixelIs
<1>5. r.x + (p[1] - r.x) = p[1] /\ r.y + (p[2] - r.y) = p[2]
  BY <1>1, <1>2
<1> QED BY <1>2, <1>3, <1>4, <1>5

\* And the other way round.
LEMMA PixelHasPlace ==
    ASSUME NEW r \in Inside, NEW k \in 0 .. r.w * r.h - 1, NEW p \in Points,
           PixelOf(r, k) = At(p[1], p[2])
    PROVE  p \in PointsOf(r) /\ k = Place(r, p)
<1> DEFINE a == k % r.w
           b == k \div r.w
<1>1. r.x \in Nat /\ r.y \in Nat /\ r.w \in Nat \ {0} /\ r.h \in Nat
  BY DEF Inside
<1>2. a \in 0 .. r.w - 1 /\ b \in 0 .. r.h - 1 /\ k = b * r.w + a
  BY <1>1, Division
<1>3. /\ r.x + a \in r.x .. MaxX(r) - 1 /\ r.y + b \in r.y .. MaxY(r) - 1
      /\ r.x + a \in 0 .. Width - 1 /\ r.y + b \in 0 .. Height - 1
      /\ PixelOf(r, k) = At(r.x + a, r.y + b)
  BY PixelIs
<1>4. p[1] \in 0 .. Width - 1 /\ p[2] \in 0 .. Height - 1
  BY DEF Points
<1> HIDE DEF a, b
<1>5. p[1] = r.x + a /\ p[2] = r.y + b
  <2> DEFINE x == r.x + a
             y == r.y + b
  <2>1. x \in 0 .. Width - 1 /\ y \in 0 .. Height - 1 /\ At(x, y) = At(p[1], p[2])
    BY <1>3
  <2> HIDE DEF x, y
  <2>2. p[1] = x /\ p[2] = y
    BY <1>4, <2>1, CellOf
  <2> QED BY <2>2 DEF x, y
<1>6. p[2] - r.y = b /\ p[1] - r.x = a
  BY <1>1, <1>2, <1>5
<1> QED BY <1>2, <1>3, <1>5, <1>6 DEF PointsOf, Place

LEMMA PixelsDiffer ==
    ASSUME NEW r \in Inside, NEW j \in 0 .. r.w * r.h - 1,
           NEW k \in 0 .. r.w * r.h - 1, PixelOf(r, j) = PixelOf(r, k)
    PROVE  j = k
<1> DEFINE p == <<r.x + (k % r.w), r.y + (k \div r.w)>>
<1>1. p \in Points /\ PixelOf(r, k) = At(p[1], p[2])
  BY PixelIs DEF Points
<1> HIDE DEF p
<1>2. j = Place(r, p) /\ k = Place(r, p)
  BY <1>1, PixelHasPlace
<1> QED BY <1>2

\* What is on the screen when m is in the frame buffer.
Seen(m) == [p \in Points |-> m[At(p[1], p[2])]]

LEMMA SeenIs ==
    ASSUME NEW m \in Memory
    PROVE  /\ Seen(m) \in [Points -> Colors]
           /\ \A p \in Points : Seen(m)[p] = m[At(p[1], p[2])]
<1>1. Memory = [Cells -> Colors]
  BY DEF Memory, Cells
<1>2. \A p \in Points : At(p[1], p[2]) \in Cells
  <2> TAKE p \in Points
  <2>1. p[1] \in 0 .. Width - 1 /\ p[2] \in 0 .. Height - 1
    BY DEF Points
  <2> QED BY <2>1, CellOf
<1> QED BY <1>1, <1>2 DEF Seen

\* fillRect:withColor: draws the pixels of the rectangle and no others.
LEMMA FillRectIs ==
    ASSUME NEW m \in Memory, NEW r \in Inside, NEW c \in Colors
    PROVE  /\ FillRect(m, r, c) \in Memory
           /\ Seen(FillRect(m, r, c)) = Painted(Seen(m), r, c)
<1> DEFINE n == r.w * r.h
           at == [k \in 0 .. n - 1 |-> PixelOf(r, k)]
           color == [k \in 0 .. n - 1 |-> c]
           step == [k \in 0 .. n - 1 |->
                      [now \in Memory |-> [now EXCEPT ![PixelOf(r, k)] = c]]]
           Good(h) == h = [k \in 0 .. n |->
                             IF k = 0 THEN m
                             ELSE [h[k - 1] EXCEPT ![PixelOf(r, k - 1)] = c]]
           g == CHOOSE h : Good(h)
<1>1. n \in Nat /\ Memory = [Cells -> Colors]
  BY DEF Inside, Memory, Cells
<1>2. Clip(r) = r
  <2>1. r \in [x : 0 .. Width - 1, y : 0 .. Height - 1, w : 1 .. Width, h : 1 .. Height]
    BY DEF Inside
  <2>2. Least(r.w, Width - r.x) = r.w /\ Least(r.h, Height - r.y) = r.h
    BY FrameBufferAssumption DEF Least, Inside, TooLarge, MaxX, MaxY
  <2> QED BY <2>1, <2>2 DEF Clip
<1>3. \A k \in 0 .. n - 1 : PixelOf(r, k) \in Cells
  BY PixelIs, CellOf
<1>4. step \in [0 .. n - 1 -> [Memory -> Memory]]
  BY <1>1, <1>3
<1>5. PICK h : Loop(Memory, n, m, step, h)
  <2> HIDE DEF step, n
  <2> QED BY <1>1, <1>4, Recursion
<1>6. Good(h)
  <2>1. ASSUME NEW k \in 1 .. n
        PROVE  h[k] = [h[k - 1] EXCEPT ![PixelOf(r, k - 1)] = c]
    <3> HIDE DEF n
    <3>1. k - 1 \in 0 .. n - 1 /\ k - 1 \in 0 .. n
      BY <1>1
    <3>2. h[k - 1] \in Memory /\ h[k] = step[k - 1][h[k - 1]]
      BY <1>5, <3>1 DEF Loop
    <3> QED BY <3>1, <3>2
  <2> HIDE DEF step, n
  <2>2. h \in [0 .. n -> Memory] /\ h[0] = m
    BY <1>5 DEF Loop
  <2>3. \A k \in 0 .. n : k = 0 \/ k \in 1 .. n
    BY <1>1
  <2> QED BY <2>1, <2>2, <2>3
<1>7. Good(g)
  <2> HIDE DEF Good
  <2> QED BY <1>6
<1>8. FillRect(m, r, c) = g[n]
  BY <1>2, Zenon DEF FillRect, Filled, Walk
<1>9. g[0] = m /\ \A k \in 1 .. n : g[k] = [g[k - 1] EXCEPT ![at[k - 1]] = color[k - 1]]
  <2> HIDE DEF g, n
  <2>1. g = [k \in 0 .. n |-> IF k = 0 THEN m
                              ELSE [g[k - 1] EXCEPT ![PixelOf(r, k - 1)] = c]]
    BY <1>7
  <2>2. ASSUME NEW k \in 1 .. n
        PROVE  g[k] = [g[k - 1] EXCEPT ![at[k - 1]] = color[k - 1]]
    <3>1. k - 1 \in 0 .. n - 1 /\ k \in 0 .. n /\ k # 0
      BY <1>1
    <3>2. g[k] = [g[k - 1] EXCEPT ![PixelOf(r, k - 1)] = c]
      BY <2>1, <3>1
    <3> QED BY <3>1, <3>2
  <2>3. 0 \in 0 .. n
    BY <1>1
  <2> QED BY <2>1, <2>2, <2>3
<1>10. at \in [0 .. n - 1 -> Cells] /\ color \in [0 .. n - 1 -> Colors]
  BY <1>3
<1>11. \A j, k \in 0 .. n - 1 : at[j] = at[k] => j = k
  BY PixelsDiffer
<1> HIDE DEF g, n, at, color
<1>12. Drawn(n, m, at, color, g[n])
  <2>1. Draws(n, m, at, color, g)
    BY <1>9, <1>10, <1>11 DEF Draws
  <2> QED BY <1>1, <2>1, DrawsWhatIsDrawn
<1>13. ASSUME NEW p \in Points
       PROVE  g[n][At(p[1], p[2])] = IF p \in PointsOf(r) THEN c ELSE Seen(m)[p]
  <2>1. p[1] \in 0 .. Width - 1 /\ p[2] \in 0 .. Height - 1
    BY DEF Points
  <2>2. At(p[1], p[2]) \in Cells
    BY <2>1, CellOf
  <2>3. CASE p \in PointsOf(r)
    <3>1. Place(r, p) \in 0 .. n - 1 /\ at[Place(r, p)] = At(p[1], p[2])
      BY <2>3, PlaceIs DEF at, n
    <3>2. color[Place(r, p)] = c
      BY <3>1 DEF color
    <3> QED BY <1>12, <2>3, <3>1, <3>2 DEF Drawn
  <2>4. CASE p \notin PointsOf(r)
    <3>1. \A j \in 0 .. n - 1 : at[j] # At(p[1], p[2])
      BY <2>4, PixelHasPlace DEF at, n
    <3> QED BY <1>12, <2>2, <2>4, <3>1, SeenIs DEF Drawn
  <2> QED BY <2>3, <2>4
<1> QED BY <1>8, <1>12, <1>13 DEF Seen, Painted, Drawn

\* putRect:fromData: draws each point of the rectangle in its colour.
LEMMA PutRectIs ==
    ASSUME NEW m \in Memory, NEW r \in Inside, NEW data \in [1 .. Pixels(r) -> Colors]
    PROVE  /\ PutRect(m, r, data) \in Memory
           /\ Seen(PutRect(m, r, data)) = Put(Seen(m), r, data)
<1> DEFINE n == r.w * r.h
           at == [k \in 0 .. n - 1 |-> PixelOf(r, k)]
           color == [k \in 0 .. n - 1 |-> data[k + 1]]
           step == [k \in 0 .. n - 1 |->
                      [now \in Memory |-> [now EXCEPT ![PixelOf(r, k)] = data[k + 1]]]]
           Good(h) == h = [k \in 0 .. n |->
                             IF k = 0 THEN m
                             ELSE [h[k - 1] EXCEPT ![PixelOf(r, k - 1)] = data[k - 1 + 1]]]
           g == CHOOSE h : Good(h)
<1>1. n \in Nat /\ Memory = [Cells -> Colors]
  BY DEF Inside, Memory, Cells
<1>2. ~TooLarge(r)
  BY DEF Inside
<1>3. \A k \in 0 .. n - 1 : PixelOf(r, k) \in Cells /\ data[k + 1] \in Colors
  <2> TAKE k \in 0 .. n - 1
  <2>1. k + 1 \in 1 .. Pixels(r)
    BY <1>1 DEF Pixels
  <2> QED BY <2>1, PixelIs, CellOf
<1>4. step \in [0 .. n - 1 -> [Memory -> Memory]]
  BY <1>1, <1>3
<1>5. PICK h : Loop(Memory, n, m, step, h)
  <2> HIDE DEF step, n
  <2> QED BY <1>1, <1>4, Recursion
<1>6. Good(h)
  <2>1. ASSUME NEW k \in 1 .. n
        PROVE  h[k] = [h[k - 1] EXCEPT ![PixelOf(r, k - 1)] = data[k - 1 + 1]]
    <3> HIDE DEF n
    <3>1. k - 1 \in 0 .. n - 1 /\ k - 1 \in 0 .. n
      BY <1>1
    <3>2. h[k - 1] \in Memory /\ h[k] = step[k - 1][h[k - 1]]
      BY <1>5, <3>1 DEF Loop
    <3> QED BY <3>1, <3>2
  <2> HIDE DEF step, n
  <2>2. h \in [0 .. n -> Memory] /\ h[0] = m
    BY <1>5 DEF Loop
  <2>3. \A k \in 0 .. n : k = 0 \/ k \in 1 .. n
    BY <1>1
  <2> QED BY <2>1, <2>2, <2>3
<1>7. Good(g)
  <2> HIDE DEF Good
  <2> QED BY <1>6
<1>8. PutRect(m, r, data) = g[n]
  BY <1>2, Zenon DEF PutRect, Walk
<1>9. g[0] = m /\ \A k \in 1 .. n : g[k] = [g[k - 1] EXCEPT ![at[k - 1]] = color[k - 1]]
  <2> HIDE DEF g, n
  <2>1. g = [k \in 0 .. n |-> IF k = 0 THEN m
                              ELSE [g[k - 1] EXCEPT ![PixelOf(r, k - 1)] = data[k - 1 + 1]]]
    BY <1>7
  <2>2. ASSUME NEW k \in 1 .. n
        PROVE  g[k] = [g[k - 1] EXCEPT ![at[k - 1]] = color[k - 1]]
    <3>1. k - 1 \in 0 .. n - 1 /\ k \in 0 .. n /\ k # 0
      BY <1>1
    <3>2. g[k] = [g[k - 1] EXCEPT ![PixelOf(r, k - 1)] = data[k - 1 + 1]]
      BY <2>1, <3>1
    <3> QED BY <3>1, <3>2
  <2>3. 0 \in 0 .. n
    BY <1>1
  <2> QED BY <2>1, <2>2, <2>3
<1>10. at \in [0 .. n - 1 -> Cells] /\ color \in [0 .. n - 1 -> Colors]
  BY <1>3
<1>11. \A j, k \in 0 .. n - 1 : at[j] = at[k] => j = k
  BY PixelsDiffer
<1> HIDE DEF g, n, at, color
<1>12. Drawn(n, m, at, color, g[n])
  <2>1. Draws(n, m, at, color, g)
    BY <1>9, <1>10, <1>11 DEF Draws
  <2> QED BY <1>1, <2>1, DrawsWhatIsDrawn
<1>13. ASSUME NEW p \in Points
       PROVE  g[n][At(p[1], p[2])] = 
                   IF p \in PointsOf(r) THEN data[Place(r, p) + 1] ELSE Seen(m)[p]
  <2>1. p[1] \in 0 .. Width - 1 /\ p[2] \in 0 .. Height - 1
    BY DEF Points
  <2>2. At(p[1], p[2]) \in Cells
    BY <2>1, CellOf
  <2>3. CASE p \in PointsOf(r)
    <3>1. Place(r, p) \in 0 .. n - 1 /\ at[Place(r, p)] = At(p[1], p[2])
      BY <2>3, PlaceIs DEF at, n
    <3>2. color[Place(r, p)] = data[Place(r, p) + 1]
      BY <3>1 DEF color
    <3> QED BY <1>12, <2>3, <3>1, <3>2 DEF Drawn
  <2>4. CASE p \notin PointsOf(r)
    <3>1. \A j \in 0 .. n - 1 : at[j] # At(p[1], p[2])
      BY <2>4, PixelHasPlace DEF at, n
    <3> QED BY <1>12, <2>2, <2>4, <3>1, SeenIs DEF Drawn
  <2> QED BY <2>3, <2>4
<1>14. ASSUME NEW p \in PointsOf(r)
       PROVE  (p[2] - r.y) * r.w + p[1] - r.x + 1 = Place(r, p) + 1
  <2>1. p[1] \in Int /\ (p[2] - r.y) * r.w \in Int /\ r.x \in Int
    BY PlaceIs DEF Inside
  <2> DEFINE a == (p[2] - r.y) * r.w
  <2> HIDE DEF a
  <2>2. a + p[1] - r.x + 1 = a + (p[1] - r.x) + 1
    BY <2>1 DEF a
  <2> QED BY <2>2 DEF a, Place
<1> QED BY <1>8, <1>12, <1>13, <1>14 DEF Seen, Put, Drawn

\* A copy whose steps never read what an earlier one has drawn.
Copies(n, m, at, from, g) ==
    /\ at \in [0 .. n - 1 -> Cells] /\ from \in [0 .. n - 1 -> Cells]
    /\ \A j, k \in 0 .. n - 1 : at[j] = at[k] => j = k
    /\ \A j, k \in 0 .. n - 1 : j < k => at[j] # from[k]
    /\ g[0] = m
    /\ \A k \in 1 .. n :
          g[k] = [g[k - 1] EXCEPT ![at[k - 1]] = g[k - 1][from[k - 1]]]

LEMMA CopiesDraw ==
    ASSUME NEW n \in Nat, NEW m \in Memory, NEW at, NEW from, NEW g,
           Copies(n, m, at, from, g)
    PROVE  Draws(n, m, at, [k \in 0 .. n - 1 |-> m[from[k]]], g)
<1> USE DEF Copies
<1> DEFINE Still(k) ==
              /\ g[k] \in Memory
              /\ \A i \in Cells :
                    (\A j \in 0 .. k - 1 : at[j] # i) => g[k][i] = m[i]
           G == {k \in 0 .. n : Still(k)}
<1>1. Memory = [Cells -> Colors]
  BY DEF Memory, Cells
<1>2. 0 \in G
  <2>1. Still(0)
    BY <1>1
  <2>2. 0 \in 0 .. n
    OBVIOUS
  <2> QED BY <2>1, <2>2
<1>3. ASSUME NEW k \in 1 .. n, k - 1 \in G PROVE k \in G
  <2>1. Still(k - 1)
    BY <1>3
  <2>2. k - 1 \in 0 .. n - 1 /\ k \in 0 .. n
    OBVIOUS
  <2>3. at[k - 1] \in Cells /\ from[k - 1] \in Cells
    BY <2>2
  <2>4. g[k] = [g[k - 1] EXCEPT ![at[k - 1]] = g[k - 1][from[k - 1]]]
    OBVIOUS
  <2>5. g[k - 1] \in [Cells -> Colors] /\ g[k - 1][from[k - 1]] \in Colors
    BY <1>1, <2>1, <2>3
  <2>6. g[k] \in [Cells -> Colors]
    BY <2>3, <2>4, <2>5
  <2>7. ASSUME NEW i \in Cells, \A j \in 0 .. k - 1 : at[j] # i
        PROVE  g[k][i] = m[i]
    <3>1. g[k - 1][i] = m[i]
      BY <2>1, <2>7
    <3>2. at[k - 1] # i
      BY <2>7
    <3> QED BY <2>4, <2>5, <3>1, <3>2
  <2> QED BY <1>1, <2>2, <2>6, <2>7
<1>4. \A k \in 0 .. n : k \in G
  <2> HIDE DEF G
  <2> QED BY <1>2, <1>3, InductionTo
<1>5. ASSUME NEW k \in 0 .. n - 1 PROVE g[k][from[k]] = m[from[k]]
  <2>1. Still(k)
    BY <1>4
  <2>2. from[k] \in Cells /\ \A j \in 0 .. k - 1 : at[j] # from[k]
    OBVIOUS
  <2> QED BY <2>1, <2>2
<1>6. ASSUME NEW k \in 1 .. n
      PROVE  g[k] = [g[k - 1] EXCEPT ![at[k - 1]] = m[from[k - 1]]]
  <2>1. k - 1 \in 0 .. n - 1
    OBVIOUS
  <2> QED BY <1>5, <2>1
<1>7. \A k \in 0 .. n - 1 : m[from[k]] \in Colors
  BY <1>1
<1>8. \A k \in 1 .. n : k - 1 \in 0 .. n - 1
  OBVIOUS
<1> DEFINE color == [k \in 0 .. n - 1 |-> m[from[k]]]
<1>9. color \in [0 .. n - 1 -> Colors]
  BY <1>7
<1>10. \A k \in 1 .. n : g[k] = [g[k - 1] EXCEPT ![at[k - 1]] = color[k - 1]]
  BY <1>6, <1>8
<1> HIDE DEF color
<1>11. Draws(n, m, at, color, g)
  BY <1>9, <1>10 DEF Draws
<1> QED BY <1>11 DEF color

\* The k-th pixel of r that is copied: from left to right or from right to left,
\* from top to bottom or from bottom to top.
Turned(r, k, left, up) ==
    (IF up THEN k \div r.w ELSE r.h - 1 - (k \div r.w)) * r.w
        + (IF left THEN k % r.w ELSE r.w - 1 - (k % r.w))

LEMMA TurnedIs ==
    ASSUME NEW r \in Inside, NEW k \in 0 .. r.w * r.h - 1,
           NEW left \in BOOLEAN, NEW up \in BOOLEAN
    PROVE  LET t == Turned(r, k, left, up)
           IN  /\ t \in 0 .. r.w * r.h - 1
               /\ t % r.w = IF left THEN k % r.w ELSE r.w - 1 - (k % r.w)
               /\ t \div r.w = IF up THEN k \div r.w ELSE r.h - 1 - (k \div r.w)
               /\ Turned(r, t, left, up) = k
<1> DEFINE t == Turned(r, k, left, up)
           u == k % r.w
           v == k \div r.w
           a == IF left THEN u ELSE r.w - 1 - u
           b == IF up THEN v ELSE r.h - 1 - v
<1>1. r.w \in Nat \ {0} /\ r.h \in Nat
  BY DEF Inside
<1>2. u \in 0 .. r.w - 1 /\ v \in 0 .. r.h - 1 /\ k = v * r.w + u
  BY <1>1, Division
<1>4. t = b * r.w + a
  BY DEF Turned
<1> HIDE DEF u, v
<1>3. a \in 0 .. r.w - 1 /\ b \in 0 .. r.h - 1
  BY <1>1, <1>2
<1>5. \A c \in 0 .. r.w - 1, d \in 0 .. r.h - 1 :
         /\ d * r.w + c \in 0 .. r.w * r.h - 1
         /\ (d * r.w + c) \div r.w = d /\ (d * r.w + c) % r.w = c
  BY <1>1, Division
<1>6. t \in 0 .. r.w * r.h - 1 /\ t % r.w = a /\ t \div r.w = b
  <2> HIDE DEF a, b, t
  <2> QED BY <1>3, <1>4, <1>5
<1>7. (IF left THEN a ELSE r.w - 1 - a) = u
  BY <1>1, <1>2
<1>8. (IF up THEN b ELSE r.h - 1 - b) = v
  BY <1>1, <1>2
<1>9. Turned(r, t, left, up) = k
  <2> HIDE DEF a, b, t
  <2> QED BY <1>2, <1>6, <1>7, <1>8 DEF Turned
<1> QED BY <1>6, <1>9 DEF u, v

\* The steps and strides of copyRect:to: go through the pixels of r so.
LEMMA PointerIs ==
    ASSUME NEW r \in Inside, NEW k \in 0 .. r.w * r.h - 1,
           NEW left \in BOOLEAN, NEW up \in BOOLEAN
    PROVE  LET step == IF left THEN 1 ELSE -1
               stride == IF up THEN (IF left THEN Width - r.w ELSE Width + r.w)
                         ELSE (IF left THEN -Width - r.w ELSE -Width + r.w)
               dx == IF left THEN 0 ELSE r.w - 1
               dy == IF up THEN 0 ELSE r.h - 1
           IN  Pointer(At(r.x + dx, r.y + dy), k, r.w, step, stride)
                  = PixelOf(r, Turned(r, k, left, up))
<1> USE FrameBufferAssumption
<1> DEFINE t == Turned(r, k, left, up)
           u == k % r.w
           v == k \div r.w
           a == IF left THEN u ELSE r.w - 1 - u
           b == IF up THEN v ELSE r.h - 1 - v
           step == IF left THEN 1 ELSE -1
           stride == IF up THEN (IF left THEN Width - r.w ELSE Width + r.w)
                     ELSE (IF left THEN -Width - r.w ELSE -Width + r.w)
           dx == IF left THEN 0 ELSE r.w - 1
           dy == IF up THEN 0 ELSE r.h - 1
           W == Width
           w == r.w
           h == r.h
<1>1. r.x \in Nat /\ r.y \in Nat /\ w \in Nat \ {0} /\ h \in Nat /\ W \in Nat \ {0}
  BY DEF Inside
<1>2. u \in 0 .. w - 1 /\ v \in 0 .. h - 1 /\ k = v * w + u
  BY <1>1, Division
<1>3. t \in 0 .. w * h - 1 /\ t % w = a /\ t \div w = b
  BY TurnedIs
<1>4. PixelOf(r, t) = At(r.x + a, r.y + b)
  <2> HIDE DEF a, b, t
  <2> QED BY <1>3, PixelIs
<1>5. Pointer(At(r.x + dx, r.y + dy), k, r.w, step, stride)
        = (r.y + dy) * W + (r.x + dx) + step * k + stride * v
  BY DEF Pointer, At
<1>6. (r.y + dy) * W + (r.x + dx) + step * k + stride * v = (r.y + b) * W + (r.x + a)
  <2> HIDE DEF u, v, W, w, h
  <2>1. CASE left /\ up
    <3>1. a = u /\ b = v /\ dx = 0 /\ dy = 0 /\ step = 1 /\ stride = W - w
      BY <2>1 DEF w, W
    <3> HIDE DEF a, b, dx, dy, step, stride
    <3> QED BY <1>1, <1>2, <3>1
  <2>2. CASE left /\ ~up
    <3>1. a = u /\ b = h - 1 - v /\ dx = 0 /\ dy = h - 1 /\ step = 1 /\ stride = -W - w
      BY <2>2 DEF w, W, h
    <3> HIDE DEF a, b, dx, dy, step, stride
    <3> QED BY <1>1, <1>2, <3>1
  <2>3. CASE ~left /\ up
    <3>1. a = w - 1 - u /\ b = v /\ dx = w - 1 /\ dy = 0 /\ step = -1 /\ stride = W + w
      BY <2>3 DEF w, W
    <3> HIDE DEF a, b, dx, dy, step, stride
    <3> QED BY <1>1, <1>2, <3>1
  <2>4. CASE ~left /\ ~up
    <3>1. /\ a = w - 1 - u /\ b = h - 1 - v /\ dx = w - 1 /\ dy = h - 1
          /\ step = -1 /\ stride = -W + w
      BY <2>4 DEF w, W, h
    <3> HIDE DEF a, b, dx, dy, step, stride
    <3> QED BY <1>1, <1>2, <3>1
  <2> QED BY <2>1, <2>2, <2>3, <2>4
<1>7. At(r.x + a, r.y + b) = (r.y + b) * W + (r.x + a)
  BY DEF At
<1> QED
  <2> HIDE DEF a, b, t, u, v, W
  <2> QED BY <1>4, <1>5, <1>6, <1>7 DEF t

\* Two pixels of rectangles of one size, the first at the place of j and drawn,
\* the second at that of k and read.  If they are one, j is not before k.
LEMMA ReadBeforeDrawn ==
    ASSUME NEW r \in Inside, NEW to \in Inside, to.w = r.w, to.h = r.h,
           NEW left \in BOOLEAN, NEW up \in BOOLEAN,
           left <=> to.x < r.x, up <=> to.y < r.y,
           NEW j \in 0 .. r.w * r.h - 1, NEW k \in 0 .. r.w * r.h - 1,
           PixelOf(to, Turned(to, j, left, up)) = PixelOf(r, Turned(r, k, left, up))
    PROVE  ~(j < k)
<1> DEFINE t == Turned(r, j, left, up)
           s == Turned(r, k, left, up)
           u == k % r.w
           v == k \div r.w
           c == j % r.w
           d == j \div r.w
           a == IF left THEN u ELSE r.w - 1 - u
           b == IF up THEN v ELSE r.h - 1 - v
           e == IF left THEN c ELSE r.w - 1 - c
           f == IF up THEN d ELSE r.h - 1 - d
<1>1. /\ r.x \in Nat /\ r.y \in Nat /\ r.w \in Nat \ {0} /\ r.h \in Nat
      /\ to.x \in Nat /\ to.y \in Nat 
  BY DEF Inside
<1>2. /\ u \in 0 .. r.w - 1 /\ v \in 0 .. r.h - 1 /\ k = v * r.w + u
      /\ c \in 0 .. r.w - 1 /\ d \in 0 .. r.h - 1 /\ j = d * r.w + c
  BY <1>1, Division
<1>3. s \in 0 .. r.w * r.h - 1 /\ s % r.w = a /\ s \div r.w = b
  BY TurnedIs
<1>4. t \in 0 .. r.w * r.h - 1 /\ t % r.w = e /\ t \div r.w = f
  BY TurnedIs
<1>5. Turned(to, j, left, up) = t
  BY DEF Turned
<1>6. PixelOf(to, t) = PixelOf(r, s)
  BY <1>5
<1> HIDE DEF a, b, e, f, s, t
<1>7. /\ PixelOf(r, s) = At(r.x + a, r.y + b)
      /\ r.x + a \in 0 .. Width - 1 /\ r.y + b \in 0 .. Height - 1
  BY <1>3, PixelIs
<1>8. /\ PixelOf(to, t) = At(to.x + e, to.y + f)
      /\ to.x + e \in 0 .. Width - 1 /\ to.y + f \in 0 .. Height - 1
  <2>1. t \in 0 .. to.w * to.h - 1 /\ t % to.w = e /\ t \div to.w = f
    BY <1>4
  <2> QED BY <2>1, PixelIs
<1>9. r.x + a = to.x + e /\ r.y + b = to.y + f
  <2> DEFINE x == r.x + a
             y == r.y + b
             z == to.x + e
             q == to.y + f
  <2>1. /\ At(x, y) = At(z, q) /\ x \in 0 .. Width - 1 /\ y \in 0 .. Height - 1
        /\ z \in 0 .. Width - 1 /\ q \in 0 .. Height - 1
    BY <1>6, <1>7, <1>8
  <2> HIDE DEF x, y, z, q
  <2>2. x = z /\ y = q
    BY <2>1, CellOf
  <2> QED BY <2>2 DEF x, y, z, q
<1>10. d < v \/ (d = v /\ c < u) => FALSE
  <2> HIDE DEF u, v, c, d
  <2> QED BY <1>1, <1>2, <1>9 DEF a, b, e, f
<1>11. j < k => d < v \/ (d = v /\ c < u)
  <2> HIDE DEF u, v, c, d
  <2>1. CASE d > v
    <3>1. d * r.w >= (v + 1) * r.w
      BY <1>1, <1>2, <2>1
    <3> QED BY <1>1, <1>2, <3>1
  <2>2. CASE d = v
    BY <1>1, <1>2, <2>2
  <2> QED BY <1>2, <2>1, <2>2
<1> QED BY <1>10, <1>11

LEMMA DivisionInside ==
    ASSUME NEW r \in Inside
    PROVE  \A c \in 0 .. r.w - 1, d \in 0 .. r.h - 1 :
              /\ d * r.w + c \in 0 .. r.w * r.h - 1
              /\ (d * r.w + c) \div r.w = d /\ (d * r.w + c) % r.w = c
<1>1. r.w \in Nat \ {0} /\ r.h \in Nat
  BY DEF Inside
<1> QED BY <1>1, Division

LEMMA PixelInMemory ==
    ASSUME NEW r \in Inside, NEW k \in 0 .. r.w * r.h - 1
    PROVE  PixelOf(r, k) \in Cells
BY PixelIs, CellOf

\* copyRect:to: moves what the rectangle showed before it, however the two
\* rectangles overlap.
LEMMA CopyRectIs ==
    ASSUME NEW m \in Memory, NEW r \in Inside, NEW x, NEW y, NEW to \in Inside,
           to.x = x, to.y = y, to.w = r.w, to.h = r.h
    PROVE  /\ CopyRect(m, r, x, y) \in Memory
           /\ Seen(CopyRect(m, r, x, y)) = Copied(Seen(m), r, x, y)
<1> DEFINE left == x < r.x
           up == y < r.y
           way == IF left THEN 1 ELSE -1
           stride == IF up THEN (IF left THEN Width - r.w ELSE Width + r.w)
                     ELSE (IF left THEN -Width - r.w ELSE -Width + r.w)
           dx == IF left THEN 0 ELSE r.w - 1
           dy == IF up THEN 0 ELSE r.h - 1
           To(k) == Pointer(At(x + dx, y + dy), k, r.w, way, stride)
           From(k) == Pointer(At(r.x + dx, r.y + dy), k, r.w, way, stride)
           n == r.w * r.h
           at == [k \in 0 .. n - 1 |-> To(k)]
           from == [k \in 0 .. n - 1 |-> From(k)]
           step == [k \in 0 .. n - 1 |->
                      [now \in Memory |-> [now EXCEPT ![To(k)] = now[From(k)]]]]
           Good(h) == h = [k \in 0 .. n |->
                             IF k = 0 THEN m
                             ELSE [h[k - 1] EXCEPT ![To(k - 1)]
                                      = h[k - 1][From(k - 1)]]]
           g == CHOOSE h : Good(h)
<1>1. /\ n \in Nat /\ Memory = [Cells -> Colors]
      /\ to.w = r.w /\ to.h = r.h /\ to.x = x /\ to.y = y
      /\ left \in BOOLEAN /\ up \in BOOLEAN /\ x \in Nat /\ y \in Nat
  <2>1. to \in [x : 0 .. Width - 1, y : 0 .. Height - 1, w : 1 .. Width, h : 1 .. Height]
    BY DEF Inside
  <2>2. r \in [x : 0 .. Width - 1, y : 0 .. Height - 1, w : 1 .. Width, h : 1 .. Height]
    BY DEF Inside
  <2>4. x \in Nat /\ y \in Nat /\ n \in Nat
    <3>1. to.x \in Nat /\ to.y \in Nat
      BY <2>1, FrameBufferAssumption
    <3>2. r.w \in Nat /\ r.h \in Nat
      BY <2>2, FrameBufferAssumption
    <3> QED BY <3>1, <3>2
  <2>5. Memory = [Cells -> Colors]
    BY DEF Memory, Cells
  <2>6. left \in BOOLEAN /\ up \in BOOLEAN
    <3>1. r.x \in Nat /\ r.y \in Nat
      BY <2>2, FrameBufferAssumption
    <3> QED BY <2>4, <3>1
  <2> HIDE DEF n, left, up
  <2> QED BY <2>4, <2>5, <2>6
<1>2. ~TooLarge(r) /\ ~TooLarge([r EXCEPT !.x = x, !.y = y])
  <2>1. ~TooLarge(r) /\ ~TooLarge(to)
    BY DEF Inside
  <2>2. r \in [x : 0 .. Width - 1, y : 0 .. Height - 1, w : 1 .. Width, h : 1 .. Height]
    BY DEF Inside
  <2> QED BY <2>1, <2>2 DEF TooLarge, MaxX, MaxY
<1>3. CopyRect(m, r, x, y) = g[n]
  BY <1>2, Zenon DEF CopyRect, Walk
<1>4. ASSUME NEW k \in 0 .. n - 1
      PROVE  /\ Turned(r, k, left, up) \in 0 .. n - 1
             /\ Turned(r, Turned(r, k, left, up), left, up) = k
             /\ Turned(to, k, left, up) = Turned(r, k, left, up)
             /\ From(k) = PixelOf(r, Turned(r, k, left, up))
             /\ To(k) = PixelOf(to, Turned(to, k, left, up))
  <2> HIDE DEF left, up
  <2>1. /\ Turned(r, k, left, up) \in 0 .. n - 1
        /\ Turned(r, Turned(r, k, left, up), left, up) = k
    BY <1>1, TurnedIs
  <2>2. From(k) = PixelOf(r, Turned(r, k, left, up))
    BY <1>1, PointerIs, Zenon
  <2>3. k \in 0 .. to.w * to.h - 1
    BY <1>1
  <2>4. To(k) = PixelOf(to, Turned(to, k, left, up))
    <3>1. Pointer(At(to.x + (IF left THEN 0 ELSE to.w - 1),
                     to.y + (IF up THEN 0 ELSE to.h - 1)), k, to.w, way,
                  IF up THEN (IF left THEN Width - to.w ELSE Width + to.w)
                  ELSE (IF left THEN -Width - to.w ELSE -Width + to.w))
            = PixelOf(to, Turned(to, k, left, up))
      BY <1>1, <2>3, PointerIs, Zenon
    <3> QED BY <1>1, <3>1
  <2>5. Turned(to, k, left, up) = Turned(r, k, left, up)
    BY <1>1 DEF Turned
  <2> QED BY <2>1, <2>2, <2>4, <2>5
<1> HIDE DEF To, From
<1>5. \A k \in 0 .. n - 1 : To(k) \in Cells /\ From(k) \in Cells
  <2> TAKE k \in 0 .. n - 1
  <2> DEFINE t == Turned(r, k, left, up)
  <2>1. /\ t \in 0 .. n - 1 /\ t \in 0 .. to.w * to.h - 1
        /\ To(k) = PixelOf(to, t) /\ From(k) = PixelOf(r, t)
    BY <1>1, <1>4
  <2> HIDE DEF t
  <2> QED BY <2>1, PixelInMemory
<1>6. step \in [0 .. n - 1 -> [Memory -> Memory]]
  <2>1. ASSUME NEW k \in 0 .. n - 1, NEW now \in Memory
        PROVE  [now EXCEPT ![To(k)] = now[From(k)]] \in Memory
    BY <1>1, <1>5
  <2> QED BY <2>1
<1>7. PICK h : Loop(Memory, n, m, step, h)
  <2> HIDE DEF step, n
  <2> QED BY <1>1, <1>6, Recursion
<1>8. Good(h)
  <2>1. ASSUME NEW k \in 1 .. n
        PROVE  h[k] = [h[k - 1] EXCEPT ![To(k - 1)] = h[k - 1][From(k - 1)]]
    <3> HIDE DEF n
    <3>1. k - 1 \in 0 .. n - 1 /\ k - 1 \in 0 .. n
      BY <1>1
    <3>2. h[k - 1] \in Memory /\ h[k] = step[k - 1][h[k - 1]]
      BY <1>7, <3>1 DEF Loop
    <3> QED BY <3>1, <3>2
  <2> HIDE DEF step, n
  <2>2. h \in [0 .. n -> Memory] /\ h[0] = m
    BY <1>7 DEF Loop
  <2>3. \A k \in 0 .. n : k = 0 \/ k \in 1 .. n
    BY <1>1
  <2> QED BY <2>1, <2>2, <2>3
<1>9. Good(g)
  <2> HIDE DEF Good
  <2> QED BY <1>8
<1>10. /\ g[0] = m
       /\ \A k \in 1 .. n : g[k] = [g[k - 1] EXCEPT ![at[k - 1]]
                                       = g[k - 1][from[k - 1]]]
  <2> HIDE DEF g, n
  <2>1. g = [k \in 0 .. n |-> IF k = 0 THEN m
                              ELSE [g[k - 1] EXCEPT ![To(k - 1)]
                                       = g[k - 1][From(k - 1)]]]
    BY <1>9
  <2>2. ASSUME NEW k \in 1 .. n
        PROVE  g[k] = [g[k - 1] EXCEPT ![at[k - 1]] = g[k - 1][from[k - 1]]]
    <3>1. k - 1 \in 0 .. n - 1 /\ k \in 0 .. n /\ k # 0
      BY <1>1
    <3>2. g[k] = [g[k - 1] EXCEPT ![To(k - 1)] = g[k - 1][From(k - 1)]]
      BY <2>1, <3>1
    <3> QED BY <3>1, <3>2
  <2>3. 0 \in 0 .. n
    BY <1>1
  <2> QED BY <2>1, <2>2, <2>3
<1>11. at \in [0 .. n - 1 -> Cells] /\ from \in [0 .. n - 1 -> Cells]
  BY <1>5
<1>12. \A j, k \in 0 .. n - 1 : at[j] = at[k] => j = k
  <2> SUFFICES ASSUME NEW j \in 0 .. n - 1, NEW k \in 0 .. n - 1, To(j) = To(k)
               PROVE  j = k
    OBVIOUS
  <2> DEFINE s == Turned(r, j, left, up)
             t == Turned(r, k, left, up)
  <2>1. /\ s \in 0 .. to.w * to.h - 1 /\ t \in 0 .. to.w * to.h - 1
        /\ PixelOf(to, s) = PixelOf(to, t)
        /\ Turned(r, s, left, up) = j /\ Turned(r, t, left, up) = k
    BY <1>1, <1>4
  <2> HIDE DEF s, t
  <2>2. s = t
    BY <2>1, PixelsDiffer
  <2> QED BY <2>1, <2>2
<1>13. \A j, k \in 0 .. n - 1 : j < k => at[j] # from[k]
  <2> SUFFICES ASSUME NEW j \in 0 .. n - 1, NEW k \in 0 .. n - 1, To(j) = From(k)
               PROVE  ~(j < k)
    OBVIOUS
  <2>1. PixelOf(to, Turned(to, j, left, up)) = PixelOf(r, Turned(r, k, left, up))
    BY <1>4
  <2>2. (left <=> to.x < r.x) /\ (up <=> to.y < r.y)
    BY <1>1
  <2> HIDE DEF left, up
  <2> QED BY <1>1, <2>1, <2>2, ReadBeforeDrawn
<1> HIDE DEF g, at, from, left, up, n
<1> DEFINE color == [k \in 0 .. n - 1 |-> m[from[k]]]
<1>14. Drawn(n, m, at, color, g[n])
  <2>1. Copies(n, m, at, from, g)
    BY <1>10, <1>11, <1>12, <1>13 DEF Copies
  <2>2. Draws(n, m, at, color, g)
    BY <1>1, <2>1, CopiesDraw
  <2> HIDE DEF color
  <2> QED BY <1>1, <2>2, DrawsWhatIsDrawn
<1>15. ASSUME NEW p \in PointsOf(to)
       PROVE  g[n][At(p[1], p[2])] = Seen(m)[<<p[1] - x + r.x, p[2] - y + r.y>>]
  <2> DEFINE k == Place(to, p)
             t == Turned(r, k, left, up)
             a == p[1] - x
             b == p[2] - y
  <2>1. /\ k \in 0 .. n - 1 /\ PixelOf(to, k) = At(p[1], p[2])
        /\ p[1] \in Int /\ p[2] \in Int
    <3>1. /\ k \in 0 .. to.w * to.h - 1 /\ PixelOf(to, k) = At(p[1], p[2])
          /\ p[1] \in 0 .. Width - 1 /\ p[2] \in 0 .. Height - 1
      BY PlaceIs
    <3> HIDE DEF k
    <3> QED BY <1>1, <3>1, FrameBufferAssumption DEF n
  <2>2. a \in 0 .. r.w - 1 /\ b \in 0 .. r.h - 1 /\ k = b * r.w + a
    <3>1. p[1] \in x .. x + r.w - 1 /\ p[2] \in y .. y + r.h - 1
      <4>1. p[1] \in to.x .. MaxX(to) - 1 /\ p[2] \in to.y .. MaxY(to) - 1
        BY DEF PointsOf
      <4>2. MaxX(to) = x + r.w /\ MaxY(to) = y + r.h
        BY <1>1 DEF MaxX, MaxY
      <4>3. r.w \in Nat /\ r.h \in Nat
        BY DEF Inside
      <4> QED BY <1>1, <4>1, <4>2, <4>3
    <3>2. r.w \in Nat /\ r.h \in Nat
      BY DEF Inside
    <3>3. a \in 0 .. r.w - 1 /\ b \in 0 .. r.h - 1
      BY <1>1, <2>1, <3>1, <3>2
    <3>4. k = b * r.w + a
      BY <1>1 DEF Place
    <3> QED BY <3>3, <3>4
  <2> HIDE DEF k, a, b
  <2>3. t \in 0 .. n - 1 /\ Turned(r, t, left, up) = k
    BY <1>4, <2>1
  <2> HIDE DEF t
  <2>4. at[t] = PixelOf(to, k) /\ from[t] = PixelOf(r, k)
    BY <1>4, <2>3 DEF at, from
  <2>5. g[n][At(p[1], p[2])] = m[PixelOf(r, k)]
    BY <1>14, <2>1, <2>3, <2>4 DEF Drawn
  <2>6. k % r.w = a /\ k \div r.w = b
    <3>2. \A c \in 0 .. r.w - 1, d \in 0 .. r.h - 1 :
             (d * r.w + c) \div r.w = d /\ (d * r.w + c) % r.w = c
      BY DivisionInside
    <3> QED BY <2>2, <3>2
  <2>7. /\ PixelOf(r, k) = At(r.x + a, r.y + b)
        /\ <<r.x + a, r.y + b>> \in Points
    BY <2>1, <2>6, PixelIs DEF n, Points
  <2>8. Seen(m)[<<r.x + a, r.y + b>>] = m[PixelOf(r, k)]
    BY <2>7, SeenIs
  <2>9. r.x + a = p[1] - x + r.x /\ r.y + b = p[2] - y + r.y
    BY <1>1, <2>1 DEF Inside, a, b
  <2> QED BY <2>5, <2>8, <2>9
<1>16. ASSUME NEW p \in Points, p \notin PointsOf(to)
       PROVE  g[n][At(p[1], p[2])] = Seen(m)[p]
  <2>1. At(p[1], p[2]) \in Cells
    BY CellOf DEF Points
  <2>2. \A j \in 0 .. n - 1 : at[j] # At(p[1], p[2])
    <3> TAKE j \in 0 .. n - 1
    <3> DEFINE t == Turned(r, j, left, up)
    <3>1. at[j] = PixelOf(to, t) /\ t \in 0 .. to.w * to.h - 1
      BY <1>1, <1>4 DEF at, n
    <3> HIDE DEF t
    <3> QED BY <1>16, <3>1, PixelHasPlace
  <2> QED BY <1>14, <2>1, <2>2, SeenIs DEF Drawn
<1>17. PointsOf([r EXCEPT !.x = x, !.y = y]) = PointsOf(to)
  <2>1. r \in [x : 0 .. Width - 1, y : 0 .. Height - 1, w : 1 .. Width, h : 1 .. Height]
    BY DEF Inside
  <2> QED BY <2>1 DEF PointsOf, MaxX, MaxY
<1> QED BY <1>3, <1>14, <1>15, <1>16, <1>17 DEF Seen, Copied, Drawn

\* The k-th pixel of a run that begins at the offset.
LEMMA RunPixelIs ==
    ASSUME NEW r \in Inside, NEW offset \in 0 .. r.w * r.h - 1, NEW k \in Nat
    PROVE  LET lines == offset \div r.w
               pixels == offset - lines * r.w
           IN  At(r.x + pixels, r.y + lines) + k + (Width - r.w) * ((k + pixels) \div r.w)
                  = PixelOf(r, offset + k)
<1> DEFINE W == Width
           w == r.w
           lines == offset \div r.w
           pixels == offset - lines * r.w
           q == (k + pixels) \div w
           u == (k + pixels) % w
<1>1. /\ r.x \in Nat /\ r.y \in Nat /\ w \in Nat \ {0} /\ r.h \in Nat /\ W \in Nat
      /\ offset \in Nat
  BY FrameBufferAssumption DEF Inside
<1>2. lines \in Nat /\ pixels \in 0 .. w - 1 /\ offset = lines * w + pixels
  <2> DEFINE v == offset % r.w
             z == lines * w
  <2>1. v \in 0 .. w - 1 /\ lines \in 0 .. r.h - 1 /\ offset = z + v
    BY <1>1, Division
  <2> HIDE DEF lines, v, w
  <2>2. z \in Nat
    BY <1>1, <2>1
  <2>4. pixels = offset - z
    BY DEF w
  <2> HIDE DEF z, pixels
  <2>3. pixels = v /\ offset = z + pixels /\ lines \in Nat
    BY <1>1, <2>1, <2>2, <2>4
  <2> QED BY <2>1, <2>3 DEF z
<1> HIDE DEF lines, pixels, W, w
<1>3. q \in Nat /\ u \in 0 .. w - 1 /\ k + pixels = q * w + u
  BY <1>1, <1>2
<1> HIDE DEF q, u
<1>4. (offset + k) \div w = lines + q
  <2>1. offset + k = (lines + q) * w + u
    BY <1>1, <1>2, <1>3
  <2>2. \A a \in 0 .. w - 1, b \in Nat : (b * w + a) \div w = b
    BY <1>1
  <2>3. lines + q \in Nat
    BY <1>2, <1>3
  <2> QED BY <1>3, <2>1, <2>2, <2>3
<1>5. PixelOf(r, offset + k) = r.y * W + r.x + 1 * (offset + k) + (W - w) * (lines + q)
  BY <1>4 DEF PixelOf, Pointer, At, W, w
<1>6. (r.y + lines) * W + (r.x + pixels) + k + (W - w) * q
        = r.y * W + r.x + 1 * (offset + k) + (W - w) * (lines + q)
  BY <1>1, <1>2, <1>3
<1> QED BY <1>5, <1>6 DEF At, lines, pixels, W, w, q

\* s, when the pixels of r from a to b - 1 are of the colour c.
Run(s, r, a, b, c) ==
    [p \in Points |-> IF p \in PointsOf(r) /\ Place(r, p) \in a .. b - 1
                      THEN c ELSE s[p]]

\* putRun:ofLength:at:pixelOffset: draws the run, wherever in a line it begins.
LEMMA PutRunIs ==
    ASSUME NEW m \in Memory, NEW r \in Inside, NEW c \in Colors,
           NEW offset \in 0 .. r.w * r.h - 1, NEW length \in Nat \ {0},
           offset + length <= r.w * r.h
    PROVE  /\ PutRun(m, c, length, r, offset) \in Memory
           /\ Seen(PutRun(m, c, length, r, offset))
                = Run(Seen(m), r, offset, offset + length, c)
<1> DEFINE n == Least(length, r.w * r.h - offset)
           lines == offset \div r.w
           pixels == offset - lines * r.w
           start == At(r.x + pixels, r.y + lines)
           Cell(k) == start + k + (Width - r.w) * ((k + pixels) \div r.w)
           at == [k \in 0 .. n - 1 |-> Cell(k)]
           color == [k \in 0 .. n - 1 |-> c]
           step == [k \in 0 .. n - 1 |->
                      [now \in Memory |-> [now EXCEPT ![Cell(k)] = c]]]
           Good(h) == h = [k \in 0 .. n |->
                             IF k = 0 THEN m
                             ELSE [h[k - 1] EXCEPT ![Cell(k - 1)] = c]]
           g == CHOOSE h : Good(h)
<1>1. n = length /\ n \in Nat /\ Memory = [Cells -> Colors]
  BY DEF Least, Inside, Memory, Cells
<1>2. ~TooLarge(r)
  BY DEF Inside
<1>8. PutRun(m, c, length, r, offset) = g[n]
  BY <1>2, Zenon DEF PutRun, Walk
<1>14. \A k \in 0 .. n - 1 : Cell(k) = PixelOf(r, offset + k)
  BY <1>1, RunPixelIs
<1>15. \A k \in 0 .. n - 1 : offset + k \in 0 .. r.w * r.h - 1
  <2> HIDE DEF n
  <2> QED BY <1>1 DEF Inside
<1> HIDE DEF Cell
<1>3. \A k \in 0 .. n - 1 : Cell(k) \in Cells
  BY <1>14, <1>15, PixelInMemory
<1>4. step \in [0 .. n - 1 -> [Memory -> Memory]]
  BY <1>1, <1>3
<1>5. PICK h : Loop(Memory, n, m, step, h)
  <2> HIDE DEF step, n
  <2> QED BY <1>1, <1>4, Recursion
<1>6. Good(h)
  <2>1. ASSUME NEW k \in 1 .. n
        PROVE  h[k] = [h[k - 1] EXCEPT ![Cell(k - 1)] = c]
    <3> HIDE DEF n
    <3>1. k - 1 \in 0 .. n - 1 /\ k - 1 \in 0 .. n
      BY <1>1
    <3>2. h[k - 1] \in Memory /\ h[k] = step[k - 1][h[k - 1]]
      BY <1>5, <3>1 DEF Loop
    <3> QED BY <3>1, <3>2
  <2> HIDE DEF step, n
  <2>2. h \in [0 .. n -> Memory] /\ h[0] = m
    BY <1>5 DEF Loop
  <2>3. \A k \in 0 .. n : k = 0 \/ k \in 1 .. n
    BY <1>1
  <2> QED BY <2>1, <2>2, <2>3
<1>7. Good(g)
  <2> HIDE DEF Good
  <2> QED BY <1>6
<1>9. g[0] = m /\ \A k \in 1 .. n : g[k] = [g[k - 1] EXCEPT ![at[k - 1]] = color[k - 1]]
  <2> HIDE DEF g, n
  <2>1. g = [k \in 0 .. n |-> IF k = 0 THEN m
                              ELSE [g[k - 1] EXCEPT ![Cell(k - 1)] = c]]
    BY <1>7
  <2>2. ASSUME NEW k \in 1 .. n
        PROVE  g[k] = [g[k - 1] EXCEPT ![at[k - 1]] = color[k - 1]]
    <3>1. k - 1 \in 0 .. n - 1 /\ k \in 0 .. n /\ k # 0
      BY <1>1
    <3>2. g[k] = [g[k - 1] EXCEPT ![Cell(k - 1)] = c]
      BY <2>1, <3>1
    <3> QED BY <3>1, <3>2
  <2>3. 0 \in 0 .. n
    BY <1>1
  <2> QED BY <2>1, <2>2, <2>3
<1>10. at \in [0 .. n - 1 -> Cells] /\ color \in [0 .. n - 1 -> Colors]
  BY <1>3
<1>11. \A j, k \in 0 .. n - 1 : at[j] = at[k] => j = k
  <2> SUFFICES ASSUME NEW j \in 0 .. n - 1, NEW k \in 0 .. n - 1, Cell(j) = Cell(k)
               PROVE  j = k
    OBVIOUS
  <2> HIDE DEF n
  <2>1. offset + j = offset + k
    BY <1>14, <1>15, PixelsDiffer
  <2> QED BY <1>1, <2>1 DEF Inside
<1> HIDE DEF g, n, at, color
<1>12. Drawn(n, m, at, color, g[n])
  <2>1. Draws(n, m, at, color, g)
    BY <1>9, <1>10, <1>11 DEF Draws
  <2> QED BY <1>1, <2>1, DrawsWhatIsDrawn
<1>13. ASSUME NEW p \in Points
       PROVE  g[n][At(p[1], p[2])]
                = IF p \in PointsOf(r) /\ Place(r, p) \in offset .. offset + length - 1
                  THEN c ELSE Seen(m)[p]
  <2>1. At(p[1], p[2]) \in Cells
    BY CellOf DEF Points
  <2>2. CASE p \in PointsOf(r) /\ Place(r, p) \in offset .. offset + length - 1
    <3> DEFINE k == Place(r, p) - offset
    <3>1. PixelOf(r, Place(r, p)) = At(p[1], p[2])
      BY <2>2, PlaceIs
    <3>2. k \in 0 .. n - 1 /\ offset + k = Place(r, p)
      BY <1>1, <2>2 DEF Inside
    <3> HIDE DEF k
    <3>3. at[k] = At(p[1], p[2]) /\ color[k] = c
      BY <1>14, <3>1, <3>2 DEF at, color
    <3> QED BY <1>12, <2>2, <3>2, <3>3 DEF Drawn
  <2>3. CASE ~(p \in PointsOf(r) /\ Place(r, p) \in offset .. offset + length - 1)
    <3>1. \A j \in 0 .. n - 1 : at[j] # At(p[1], p[2])
      <4> SUFFICES ASSUME NEW j \in 0 .. n - 1, at[j] = At(p[1], p[2]) PROVE FALSE
        OBVIOUS
      <4>1. offset + j \in 0 .. r.w * r.h - 1 /\ PixelOf(r, offset + j) = At(p[1], p[2])
        BY <1>14, <1>15 DEF at
      <4>2. p \in PointsOf(r) /\ Place(r, p) = offset + j
        BY <4>1, PixelHasPlace
      <4>3. offset + j \in offset .. offset + length - 1
        BY <1>1 DEF Inside
      <4> QED BY <2>3, <4>2, <4>3
    <3> QED BY <1>12, <2>1, <2>3, <3>1, SeenIs DEF Drawn
  <2> QED BY <2>2, <2>3
<1> QED BY <1>8, <1>12, <1>13 DEF Seen, Run, Drawn

LEMMA InsideIs ==
    ASSUME NEW r \in Inside
    PROVE  /\ r \in [x : 0 .. Width - 1, y : 0 .. Height - 1, w : 1 .. Width, h : 1 .. Height]
           /\ r.x + r.w <= Width /\ r.y + r.h <= Height
<1>1. r \in [x : 0 .. Width - 1, y : 0 .. Height - 1, w : 1 .. Width, h : 1 .. Height]
  BY DEF Inside
<1>2. ~TooLarge(r)
  BY DEF Inside
<1>3. MaxX(r) <= Width /\ MaxY(r) <= Height
  BY <1>1, <1>2, FrameBufferAssumption DEF TooLarge, MaxX, MaxY
<1> QED BY <1>1, <1>3 DEF MaxX, MaxY

\* A subrectangle of r, where it is.
LEMMA WithinIs ==
    ASSUME NEW r \in Inside, NEW q \in SubRects(r)
    PROVE  Within(q, r) \in Inside
<1>1. r \in [x : 0 .. Width - 1, y : 0 .. Height - 1, w : 1 .. Width, h : 1 .. Height]
      /\ r.x + r.w <= Width /\ r.y + r.h <= Height
  BY InsideIs
<1>2. q \in [x : 0 .. r.w - 1, y : 0 .. r.h - 1, w : 1 .. r.w, h : 1 .. r.h]
  BY DEF SubRects
<1>6. q.x + q.w <= r.w /\ q.y + q.h <= r.h
  BY DEF SubRects, MaxX, MaxY
<1> DEFINE t == [x |-> q.x + r.x, y |-> q.y + r.y, w |-> q.w, h |-> q.h]
<1>3. Within(q, r) = t
  BY DEF Within
<1>4. t.x + t.w <= Width /\ t.y + t.h <= Height
  BY <1>1, <1>2, <1>6, FrameBufferAssumption
<1>5. t \in [x : 0 .. Width - 1, y : 0 .. Height - 1, w : 1 .. Width, h : 1 .. Height]
  BY <1>1, <1>2, FrameBufferAssumption
<1> HIDE DEF t
<1> QED BY <1>3, <1>4, <1>5, FrameBufferAssumption DEF Inside, TooLarge, MaxX, MaxY

Subs(r) == Seq([r : SubRects(r), color : Colors])

LEMMA SubIs ==
    ASSUME NEW r \in Inside, NEW subs \in Subs(r), NEW k \in 0 .. Len(subs) - 1
    PROVE  Within(subs[k + 1].r, r) \in Inside /\ subs[k + 1].color \in Colors
<1>1. k + 1 \in 1 .. Len(subs)
  <2>1. Len(subs) \in Nat
    BY DEF Subs
  <2> QED BY <2>1
<1> DEFINE S == [r : SubRects(r), color : Colors]
<1>2. subs[k + 1] \in S
  <2> HIDE DEF S
  <2>1. subs \in Seq(S)
    BY DEF Subs, S
  <2> QED BY <1>1, <2>1
<1> QED BY <1>2, WithinIs

Colorings == [Points -> Colors]

\* What a server paints, one subrectangle after the other.
LEMMA PaintedAllLoops ==
    ASSUME NEW s \in Colorings, NEW r \in Inside, NEW subs \in Subs(r)
    PROVE  \E g \in [0 .. Len(subs) -> Colorings] :
              /\ g[0] = s /\ PaintedAll(s, r, subs) = g[Len(subs)]
              /\ \A k \in 1 .. Len(subs) : g[k] = Painted(g[k - 1], Within(subs[k - 1 + 1].r, r), subs[k - 1 + 1].color)
<1> DEFINE S == Colorings
           n == Len(subs)
           x == s
           Step(a, k) == Painted(a, Within(subs[k + 1].r, r), subs[k + 1].color)
           step == [k \in 0 .. n - 1 |-> [a \in S |-> Step(a, k)]]
           Good(h) == h = [k \in 0 .. n |-> IF k = 0 THEN x
                                            ELSE Step(h[k - 1], k - 1)]
           g == CHOOSE h : Good(h)
<1>1. PaintedAll(s, r, subs) = g[n]
  BY Zenon DEF PaintedAll, Walk
<1>2. n \in Nat /\ x \in S
  BY DEF Subs
<1>3. ASSUME NEW a \in S, NEW k \in 0 .. n - 1 PROVE Step(a, k) \in S
  BY <1>3, SubIs DEF Painted, Colorings
<1> HIDE DEF Step, S, n, x
<1>4. step \in [0 .. n - 1 -> [S -> S]]
  BY <1>3
<1>5. PICK h : Loop(S, n, x, step, h)
  <2> HIDE DEF step
  <2> QED BY <1>2, <1>4, Recursion
<1>6. ASSUME NEW k \in 1 .. n PROVE h[k] = Step(h[k - 1], k - 1)
  <2>1. k - 1 \in 0 .. n - 1 /\ k - 1 \in 0 .. n
    BY <1>2
  <2>2. h[k - 1] \in S /\ h[k] = step[k - 1][h[k - 1]]
    <3> HIDE DEF step
    <3> QED BY <1>5, <2>1 DEF Loop
  <2> QED BY <2>1, <2>2
<1>7. Good(h)
  <2> HIDE DEF step
  <2>1. h \in [0 .. n -> S] /\ h[0] = x
    BY <1>5 DEF Loop
  <2>2. \A k \in 0 .. n : k = 0 \/ k \in 1 .. n
    BY <1>2
  <2> QED BY <1>6, <2>1, <2>2
<1>8. Good(g)
  <2> HIDE DEF Good
  <2> QED BY <1>7
<1> HIDE DEF g
<1>9. g[0] = x /\ \A k \in 1 .. n : g[k] = Step(g[k - 1], k - 1)
  <2>1. g = [k \in 0 .. n |-> IF k = 0 THEN x ELSE Step(g[k - 1], k - 1)]
    BY <1>8
  <2>2. \A k \in 1 .. n : k \in 0 .. n /\ k # 0
    BY <1>2
  <2>3. 0 \in 0 .. n
    BY <1>2
  <2> QED BY <2>1, <2>2, <2>3
<1>10. g \in [0 .. n -> S]
  <2> DEFINE G == {k \in 0 .. n : g[k] \in S}
  <2>1. 0 \in G
    BY <1>2, <1>9
  <2>2. ASSUME NEW k \in 1 .. n, k - 1 \in G PROVE k \in G
    <3>1. k - 1 \in 0 .. n - 1 /\ g[k - 1] \in S /\ k \in 0 .. n
      BY <1>2, <2>2
    <3> QED BY <1>3, <1>9, <3>1
  <2>3. \A k \in 0 .. n : k \in G
    <3> HIDE DEF G
    <3> QED BY <1>2, <2>1, <2>2, InductionTo
  <2>4. \A k \in 0 .. n : g[k] \in S
    BY <2>3
  <2>5. g = [k \in 0 .. n |-> IF k = 0 THEN x ELSE Step(g[k - 1], k - 1)]
    BY <1>8
  <2> HIDE DEF G
  <2> QED BY <2>4, <2>5
<1> QED BY <1>1, <1>9, <1>10 DEF S, n, x, Step

\* And what the client fills.
LEMMA FillAllLoops ==
    ASSUME NEW m \in Memory, NEW r \in Inside, NEW subs \in Subs(r)
    PROVE  \E g \in [0 .. Len(subs) -> Memory] :
              /\ g[0] = m /\ FillAll(m, r, subs) = g[Len(subs)]
              /\ \A k \in 1 .. Len(subs) : g[k] = FillRect(g[k - 1], Within(subs[k - 1 + 1].r, r), subs[k - 1 + 1].color)
<1> DEFINE S == Memory
           n == Len(subs)
           x == m
           Step(a, k) == FillRect(a, Within(subs[k + 1].r, r), subs[k + 1].color)
           step == [k \in 0 .. n - 1 |-> [a \in S |-> Step(a, k)]]
           Good(h) == h = [k \in 0 .. n |-> IF k = 0 THEN x
                                            ELSE Step(h[k - 1], k - 1)]
           g == CHOOSE h : Good(h)
<1>1. FillAll(m, r, subs) = g[n]
  BY Zenon DEF FillAll, Walk
<1>2. n \in Nat /\ x \in S
  BY DEF Subs
<1>3. ASSUME NEW a \in S, NEW k \in 0 .. n - 1 PROVE Step(a, k) \in S
  BY <1>3, SubIs, FillRectIs
<1> HIDE DEF Step, S, n, x
<1>4. step \in [0 .. n - 1 -> [S -> S]]
  BY <1>3
<1>5. PICK h : Loop(S, n, x, step, h)
  <2> HIDE DEF step
  <2> QED BY <1>2, <1>4, Recursion
<1>6. ASSUME NEW k \in 1 .. n PROVE h[k] = Step(h[k - 1], k - 1)
  <2>1. k - 1 \in 0 .. n - 1 /\ k - 1 \in 0 .. n
    BY <1>2
  <2>2. h[k - 1] \in S /\ h[k] = step[k - 1][h[k - 1]]
    <3> HIDE DEF step
    <3> QED BY <1>5, <2>1 DEF Loop
  <2> QED BY <2>1, <2>2
<1>7. Good(h)
  <2> HIDE DEF step
  <2>1. h \in [0 .. n -> S] /\ h[0] = x
    BY <1>5 DEF Loop
  <2>2. \A k \in 0 .. n : k = 0 \/ k \in 1 .. n
    BY <1>2
  <2> QED BY <1>6, <2>1, <2>2
<1>8. Good(g)
  <2> HIDE DEF Good
  <2> QED BY <1>7
<1> HIDE DEF g
<1>9. g[0] = x /\ \A k \in 1 .. n : g[k] = Step(g[k - 1], k - 1)
  <2>1. g = [k \in 0 .. n |-> IF k = 0 THEN x ELSE Step(g[k - 1], k - 1)]
    BY <1>8
  <2>2. \A k \in 1 .. n : k \in 0 .. n /\ k # 0
    BY <1>2
  <2>3. 0 \in 0 .. n
    BY <1>2
  <2> QED BY <2>1, <2>2, <2>3
<1>10. g \in [0 .. n -> S]
  <2> DEFINE G == {k \in 0 .. n : g[k] \in S}
  <2>1. 0 \in G
    BY <1>2, <1>9
  <2>2. ASSUME NEW k \in 1 .. n, k - 1 \in G PROVE k \in G
    <3>1. k - 1 \in 0 .. n - 1 /\ g[k - 1] \in S /\ k \in 0 .. n
      BY <1>2, <2>2
    <3> QED BY <1>3, <1>9, <3>1
  <2>3. \A k \in 0 .. n : k \in G
    <3> HIDE DEF G
    <3> QED BY <1>2, <2>1, <2>2, InductionTo
  <2>4. \A k \in 0 .. n : g[k] \in S
    BY <2>3
  <2>5. g = [k \in 0 .. n |-> IF k = 0 THEN x ELSE Step(g[k - 1], k - 1)]
    BY <1>8
  <2> HIDE DEF G
  <2> QED BY <2>4, <2>5
<1> QED BY <1>1, <1>9, <1>10 DEF S, n, x, Step

\* They are the same.
LEMMA FillAllIs ==
    ASSUME NEW m \in Memory, NEW r \in Inside, NEW subs \in Subs(r)
    PROVE  /\ FillAll(m, r, subs) \in Memory
           /\ Seen(FillAll(m, r, subs)) = PaintedAll(Seen(m), r, subs)
<1> DEFINE n == Len(subs)
<1>1. n \in Nat
  BY DEF Subs
<1>2. Seen(m) \in Colorings
  BY SeenIs DEF Colorings
<1>3. PICK p \in [0 .. n -> Colorings] :
          /\ p[0] = Seen(m) /\ PaintedAll(Seen(m), r, subs) = p[n]
          /\ \A k \in 1 .. n : p[k] = Painted(p[k - 1], Within(subs[k - 1 + 1].r, r),
                                              subs[k - 1 + 1].color)
  BY <1>2, PaintedAllLoops
<1>4. PICK f \in [0 .. n -> Memory] :
          /\ f[0] = m /\ FillAll(m, r, subs) = f[n]
          /\ \A k \in 1 .. n : f[k] = FillRect(f[k - 1], Within(subs[k - 1 + 1].r, r),
                                               subs[k - 1 + 1].color)
  BY FillAllLoops
<1> DEFINE G == {k \in 0 .. n : Seen(f[k]) = p[k]}
<1> HIDE DEF n
<1>5. 0 \in G
  BY <1>1, <1>3, <1>4
<1>6. ASSUME NEW k \in 1 .. n, k - 1 \in G PROVE k \in G
  <2>1. /\ k - 1 \in 0 .. n /\ k - 1 \in 0 .. n - 1 /\ k \in 0 .. n
        /\ Seen(f[k - 1]) = p[k - 1] /\ f[k - 1] \in Memory
    BY <1>1, <1>4, <1>6
  <2> DEFINE q == Within(subs[k - 1 + 1].r, r)
             c == subs[k - 1 + 1].color
  <2>2. q \in Inside /\ c \in Colors
    BY <2>1, SubIs DEF n
  <2>3. f[k] = FillRect(f[k - 1], q, c) /\ p[k] = Painted(p[k - 1], q, c)
    BY <1>3, <1>4
  <2> HIDE DEF q, c
  <2>4. Seen(f[k]) = p[k]
    BY <2>1, <2>2, <2>3, FillRectIs
  <2> QED BY <2>1, <2>4
<1>7. \A k \in 0 .. n : k \in G
  <2> HIDE DEF G
  <2> QED BY <1>1, <1>5, <1>6, InductionTo
<1>8. n \in 0 .. n
  BY <1>1
<1> QED BY <1>3, <1>4, <1>7, <1>8

-----------------------------------------------------------------------------
(* Sequences of numbers.                                                   *)

Numbers == Seq(Nat)

\* What is taken from the front of a and b, if it is as much as a.
LEMMA Split ==
    ASSUME NEW a \in Numbers, NEW b \in Numbers
    PROVE  /\ a \o b \in Numbers /\ Len(a \o b) = Len(a) + Len(b)
           /\ SubSeq(a \o b, 1, Len(a)) = a
           /\ SubSeq(a \o b, Len(a) + 1, Len(a \o b)) = b
<1> DEFINE n == Len(a)
           m == Len(b)
           ab == a \o b
<1>1. n \in Nat /\ m \in Nat /\ ab \in Numbers /\ Len(ab) = n + m
      /\ \A i \in 1 .. n + m : ab[i] = IF i <= n THEN a[i] ELSE b[i - n]
  BY ConcatProperties, LenProperties DEF Numbers
<1>2. \A i \in 1 .. n + m : ab[i] \in Nat
  BY <1>1, ElementOfSeq DEF Numbers
<1> HIDE DEF n, m, ab
<1>3. SubSeq(ab, 1, n) = a
  <2>1. /\ SubSeq(ab, 1, n) \in Numbers
        /\ Len(SubSeq(ab, 1, n)) = IF 1 <= n THEN n - 1 + 1 ELSE 0
        /\ \A i \in 1 .. n - 1 + 1 : SubSeq(ab, 1, n)[i] = ab[1 + i - 1]
    <3>1. \A i \in 1 .. n : ab[i] \in Nat
      BY <1>1, <1>2
    <3> QED BY <1>1, <3>1, SubSeqProperties DEF Numbers
  <2>2. Len(SubSeq(ab, 1, n)) = n
    BY <1>1, <2>1
  <2>3. \A i \in 1 .. n : SubSeq(ab, 1, n)[i] = a[i]
    BY <1>1, <2>1
  <2> QED BY <1>1, <2>1, <2>2, <2>3, SeqEqual DEF Numbers, n
<1>4. SubSeq(ab, n + 1, n + m) = b
  <2> DEFINE lo == n + 1
             hi == n + m
             q == SubSeq(ab, lo, hi)
  <2>1. lo = n + 1 /\ hi = n + m /\ lo \in Int /\ hi \in Int
    BY <1>1
  <2>2. \A i \in lo .. hi : ab[i] \in Nat
    BY <1>1, <1>2
  <2> HIDE DEF lo, hi
  <2>3. /\ q \in Numbers
        /\ Len(q) = IF lo <= hi THEN hi - lo + 1 ELSE 0
        /\ \A i \in 1 .. hi - lo + 1 : q[i] = ab[lo + i - 1]
    BY <2>1, <2>2, SubSeqProperties DEF Numbers
  <2> HIDE DEF q
  <2>4. Len(q) = m
    BY <1>1, <2>1, <2>3
  <2>5. \A i \in 1 .. m : q[i] = b[i]
    <3> TAKE i \in 1 .. m
    <3>1. i \in 1 .. hi - lo + 1 /\ n + i \in 1 .. n + m /\ ~(n + i <= n)
          /\ lo + i - 1 = n + i /\ n + i - n = i
      BY <1>1, <2>1
    <3>2. q[i] = ab[n + i] /\ ab[n + i] = b[n + i - n]
      BY <1>1, <2>3, <3>1
    <3> QED BY <3>1, <3>2
  <2>6. q = b
    BY <1>1, <2>3, <2>4, <2>5, SeqEqual DEF Numbers, m
  <2> QED BY <2>6 DEF q, lo, hi
<1> QED BY <1>1, <1>3, <1>4 DEF n, m, ab

\* And if there is no more than a.
LEMMA Whole ==
    ASSUME NEW a \in Numbers
    PROVE  SubSeq(a, 1, Len(a)) = a /\ SubSeq(a, Len(a) + 1, Len(a)) = <<>>
<1>1. Len(a) \in Nat
  BY LenProperties DEF Numbers
<1>2. SubSeq(a, Len(a) + 1, Len(a)) = <<>>
  BY <1>1, SubSeqEmpty
<1> QED BY <1>2, SubSeqFull DEF Numbers

\* FlattenSeq goes through the items and adds up their lengths.
Offsets(items, off) ==
    /\ off \in [0 .. Len(items) -> Nat] /\ off[0] = 0
    /\ \A k \in 1 .. Len(items) : off[k] = off[k - 1] + Len(items[k])

Flat(items, off, w) ==
    /\ Offsets(items, off)
    /\ w \in Numbers /\ Len(w) = off[Len(items)]
    /\ \A k \in 1 .. Len(items) : \A j \in 1 .. Len(items[k]) : w[off[k - 1] + j] = items[k][j]

LEMMA FlattenSeqLoops ==
    ASSUME NEW items \in Seq(Numbers), items # <<>>
    PROVE  \E g \in [0 .. Len(items) - 1 -> Numbers] :
              /\ g[0] = items[1] /\ FlattenSeq(items) = g[Len(items) - 1]
              /\ \A k \in 1 .. Len(items) - 1 : g[k] = g[k - 1] \o items[k + 1]
<1> DEFINE n == Len(items) - 1
           step == [k \in 0 .. n - 1 |-> [a \in Numbers |-> a \o items[k + 2]]]
           Good(h) == h = [i \in 1 .. Len(items) |->
                              IF i = 1 THEN items[i] ELSE h[i - 1] \o items[i]]
           f == CHOOSE h : Good(h)
<1>1. n \in Nat /\ Len(items) = n + 1 /\ Len(items) \in Nat
  BY EmptySeq, LenProperties
<1>2. \A i \in 1 .. n + 1 : items[i] \in Numbers
  BY <1>1, ElementOfSeq
<1>3. FlattenSeq(items) = f[Len(items)]
  <2>1. Len(items) # 0
    BY <1>1
  <2> QED BY <2>1, Zenon DEF FlattenSeq
<1> HIDE DEF n
<1>4. step \in [0 .. n - 1 -> [Numbers -> Numbers]]
  <2> SUFFICES ASSUME NEW k \in 0 .. n - 1, NEW a \in Numbers
               PROVE  a \o items[k + 2] \in Numbers
    OBVIOUS
  <2>1. items[k + 2] \in Numbers
    BY <1>1, <1>2
  <2> QED BY <2>1, ConcatProperties DEF Numbers
<1>5. items[1] \in Numbers
  BY <1>1, <1>2
<1>6. PICK g : Loop(Numbers, n, items[1], step, g)
  <2> HIDE DEF step
  <2> QED BY <1>1, <1>4, <1>5, Recursion
<1>7. ASSUME NEW k \in 1 .. n PROVE g[k] = g[k - 1] \o items[k + 1]
  <2>1. k - 1 \in 0 .. n - 1 /\ k - 1 \in 0 .. n /\ k - 1 + 2 = k + 1
    BY <1>1
  <2>2. g[k - 1] \in Numbers /\ g[k] = step[k - 1][g[k - 1]]
    <3> HIDE DEF step
    <3> QED BY <1>6, <2>1 DEF Loop
  <2> QED BY <2>1, <2>2
<1>8. g \in [0 .. n -> Numbers] /\ g[0] = items[1]
  BY <1>6 DEF Loop
<1> HIDE DEF step
<1>9. \E h : Good(h)
  <2> DEFINE h == [i \in 1 .. Len(items) |-> g[i - 1]]
  <2>1. \A i \in 1 .. Len(items) : h[i] = IF i = 1 THEN items[i] ELSE h[i - 1] \o items[i]
    <3> TAKE i \in 1 .. Len(items)
    <3>1. CASE i = 1
      BY <1>1, <1>8, <3>1
    <3>2. CASE i # 1
      <4>1. i - 1 \in 1 .. n /\ i - 1 \in 1 .. Len(items) /\ i - 1 + 1 = i
        BY <1>1, <3>2
      <4>2. h[i] = g[i - 1] /\ h[i - 1] = g[i - 1 - 1]
        BY <4>1
      <4>3. g[i - 1] = g[i - 1 - 1] \o items[i]
        BY <1>7, <4>1
      <4> QED BY <3>2, <4>2, <4>3
    <3> QED BY <3>1, <3>2
  <2>2. h = [i \in 1 .. Len(items) |-> h[i]]
    OBVIOUS
  <2> HIDE DEF h
  <2>3. Good(h)
    BY <2>1, <2>2
  <2> QED BY <2>3
<1>10. Good(f)
  <2> HIDE DEF Good
  <2> QED BY <1>9
<1> HIDE DEF f
<1>11. f[1] = items[1] /\ \A k \in 1 .. n : f[k + 1] = f[k] \o items[k + 1]
  <2>1. \A k \in 1 .. n : k + 1 \in 1 .. Len(items) /\ k + 1 # 1 /\ k + 1 - 1 = k
    BY <1>1
  <2>2. 1 \in 1 .. Len(items)
    BY <1>1
  <2>3. \A i \in 1 .. Len(items) : f[i] = IF i = 1 THEN items[i] ELSE f[i - 1] \o items[i]
    BY <1>10
  <2> HIDE DEF Good
  <2>4. f[1] = items[1]
    BY <2>2, <2>3
  <2>5. ASSUME NEW k \in 1 .. n PROVE f[k + 1] = f[k] \o items[k + 1]
    <3> DEFINE u == k + 1
    <3>1. u \in 1 .. Len(items) /\ u # 1 /\ u - 1 = k
      BY <2>1
    <3> HIDE DEF u
    <3>2. f[u] = f[u - 1] \o items[u]
      BY <2>3, <3>1
    <3>3. f[u] = f[k] \o items[u]
      BY <3>1, <3>2
    <3> QED BY <3>3 DEF u
  <2> QED BY <2>4, <2>5
<1> DEFINE G == {k \in 0 .. n : f[k + 1] = g[k]}
<1>12. 0 \in G
  BY <1>1, <1>8, <1>11
<1>13. ASSUME NEW k \in 1 .. n, k - 1 \in G PROVE k \in G
  <2>1. f[k - 1 + 1] = g[k - 1] /\ k - 1 + 1 = k /\ k \in 0 .. n
    BY <1>1, <1>13
  <2> QED BY <1>7, <1>11, <2>1
<1>14. \A k \in 0 .. n : k \in G
  <2> HIDE DEF G
  <2> QED BY <1>1, <1>12, <1>13, InductionTo
<1>15. f[Len(items)] = g[n]
  <2>1. n \in 0 .. n
    BY <1>1
  <2> QED BY <1>1, <1>14, <2>1
<1> QED BY <1>1, <1>3, <1>7, <1>8, <1>15

LEMMA FlattenSeqIs ==
    ASSUME NEW items \in Seq(Numbers)
    PROVE  \E off : Flat(items, off, FlattenSeq(items))
<1>1. Len(items) \in Nat /\ \A i \in 1 .. Len(items) : items[i] \in Numbers
  BY LenProperties, ElementOfSeq
<1>2. CASE items = <<>>
  <2>1. Len(items) = 0 /\ FlattenSeq(items) = <<>>
    BY <1>2, Zenon, EmptySeq DEF FlattenSeq
  <2>2. <<>> \in Numbers /\ Len(<<>>) = 0
    BY EmptySeq DEF Numbers
  <2> DEFINE off == [k \in 0 .. 0 |-> 0]
  <2>3. Flat(items, off, FlattenSeq(items))
    BY <2>1, <2>2 DEF Flat, Offsets
  <2> QED BY <2>3
<1>3. CASE items # <<>>
  <2> DEFINE n == Len(items)
  <2>1. n \in Nat \ {0}
    BY <1>3, EmptySeq
  <2>2. PICK g \in [0 .. n - 1 -> Numbers] :
              /\ g[0] = items[1] /\ FlattenSeq(items) = g[n - 1]
              /\ \A k \in 1 .. n - 1 : g[k] = g[k - 1] \o items[k + 1]
    BY <1>3, FlattenSeqLoops
  <2> DEFINE off == [k \in 0 .. n |-> IF k = 0 THEN 0 ELSE Len(g[k - 1])]
  <2>3. \A k \in 0 .. n - 1 : g[k] \in Numbers /\ Len(g[k]) \in Nat
    BY <2>2, LenProperties DEF Numbers
  <2> HIDE DEF n
  <2>4. off \in [0 .. n -> Nat] /\ off[0] = 0 /\ \A k \in 1 .. n : off[k] = Len(g[k - 1])
    <3>1. \A k \in 0 .. n : k = 0 \/ (k # 0 /\ k - 1 \in 0 .. n - 1)
      BY <2>1
    <3>2. \A k \in 1 .. n : k # 0 /\ k \in 0 .. n
      BY <2>1
    <3> QED BY <2>1, <2>3, <3>1, <3>2
  <2> HIDE DEF off
  <2>5. ASSUME NEW k \in 1 .. n - 1
        PROVE  /\ Len(g[k]) = Len(g[k - 1]) + Len(items[k + 1])
               /\ \A i \in 1 .. Len(g[k - 1]) : g[k][i] = g[k - 1][i]
               /\ \A i \in 1 .. Len(items[k + 1]) : g[k][Len(g[k - 1]) + i] = items[k + 1][i]
    <3> DEFINE a == g[k - 1]
               b == items[k + 1]
    <3>1. a \in Numbers /\ b \in Numbers /\ Len(a) \in Nat /\ Len(b) \in Nat
      <4>1. k - 1 \in 0 .. n - 1 /\ k + 1 \in 1 .. n
        BY <2>1
      <4> QED BY <1>1, <2>3, <4>1, LenProperties DEF Numbers, n
    <3>2. g[k] = a \o b
      BY <2>2
    <3> HIDE DEF a, b
    <3>3. /\ Len(a \o b) = Len(a) + Len(b)
          /\ \A i \in 1 .. Len(a) + Len(b) : (a \o b)[i] = IF i <= Len(a) THEN a[i] ELSE b[i - Len(a)]
      BY <3>1, ConcatProperties DEF Numbers
    <3>4. \A i \in 1 .. Len(a) : (a \o b)[i] = a[i]
      BY <3>1, <3>3
    <3>5. \A i \in 1 .. Len(b) : (a \o b)[Len(a) + i] = b[i]
      <4> TAKE i \in 1 .. Len(b)
      <4>1. Len(a) + i \in 1 .. Len(a) + Len(b) /\ ~(Len(a) + i <= Len(a)) /\ Len(a) + i - Len(a) = i
        BY <3>1
      <4> QED BY <3>3, <4>1
    <3> QED BY <3>2, <3>3, <3>4, <3>5 DEF a, b
  <2>6. ASSUME NEW k \in 1 .. n PROVE off[k] = off[k - 1] + Len(items[k])
    <3>1. CASE k = 1
      <4>1. Len(items[1]) \in Nat
        BY <1>1, <2>1, LenProperties DEF Numbers, n
      <4> QED BY <2>1, <2>2, <2>4, <3>1, <4>1
    <3>2. CASE k # 1
      <4>1. k - 1 \in 1 .. n - 1 /\ k - 1 \in 1 .. n /\ k - 1 + 1 = k
        BY <2>1, <3>2
      <4> QED BY <2>4, <2>5, <4>1
    <3> QED BY <3>1, <3>2
  <2> DEFINE G == {i \in 0 .. n - 1 :
                      \A k \in 1 .. i + 1 : \A j \in 1 .. Len(items[k]) :
                          off[k - 1] + j \in 1 .. Len(g[i]) /\ g[i][off[k - 1] + j] = items[k][j]}
  <2>7. 0 \in G
    <3> SUFFICES ASSUME NEW k \in 1 .. 0 + 1, NEW j \in 1 .. Len(items[k])
                 PROVE  off[k - 1] + j \in 1 .. Len(g[0]) /\ g[0][off[k - 1] + j] = items[k][j]
      BY <2>1
    <3>1. k = 1 /\ k - 1 = 0 /\ Len(items[1]) \in Nat
      BY <1>1, <2>1, LenProperties DEF Numbers, n
    <3>2. off[k - 1] = 0
      BY <2>4, <3>1
    <3>3. 0 + j = j
      BY <3>1
    <3> QED BY <2>2, <3>1, <3>2, <3>3
  <2>8. ASSUME NEW i \in 1 .. n - 1, i - 1 \in G PROVE i \in G
    <3>1. \A k \in 1 .. i : \A j \in 1 .. Len(items[k]) :
             off[k - 1] + j \in 1 .. Len(g[i - 1]) /\ g[i - 1][off[k - 1] + j] = items[k][j]
      BY <2>1, <2>8
    <3>2. i \in 1 .. n /\ i - 1 \in 0 .. n - 1 /\ i \in 0 .. n - 1 /\ i + 1 \in 1 .. n
      BY <2>1
    <3>3. Len(g[i - 1]) \in Nat /\ Len(items[i + 1]) \in Nat
      BY <1>1, <2>3, <3>2, LenProperties DEF Numbers, n
    <3> SUFFICES ASSUME NEW k \in 1 .. i + 1, NEW j \in 1 .. Len(items[k])
                 PROVE  off[k - 1] + j \in 1 .. Len(g[i]) /\ g[i][off[k - 1] + j] = items[k][j]
      BY <3>2
    <3>4. Len(g[i]) = Len(g[i - 1]) + Len(items[i + 1])
      BY <2>5
    <3>5. CASE k \in 1 .. i
      <4> DEFINE u == off[k - 1] + j
      <4>1. u \in 1 .. Len(g[i - 1]) /\ g[i - 1][u] = items[k][j]
        BY <3>1, <3>5
      <4>2. g[i][u] = g[i - 1][u]
        BY <2>5, <4>1
      <4> HIDE DEF u
      <4>3. u \in 1 .. Len(g[i])
        <5> DEFINE a == Len(g[i - 1])
                   b == Len(items[i + 1])
                   c == Len(g[i])
        <5>1. a \in Nat /\ b \in Nat /\ c = a + b /\ u \in 1 .. a
          BY <3>3, <3>4, <4>1
        <5> HIDE DEF a, b, c
        <5>2. u \in 1 .. c
          BY <5>1
        <5> QED BY <5>2 DEF c
      <4> QED BY <4>1, <4>2, <4>3 DEF u
    <3>6. CASE k = i + 1
      <4>1. off[k - 1] = Len(g[i - 1])
        BY <2>4, <3>2, <3>6
      <4>2. j \in 1 .. Len(items[i + 1])
        BY <3>6
      <4>3. g[i][Len(g[i - 1]) + j] = items[i + 1][j]
        BY <2>5, <4>2
      <4>4. Len(g[i - 1]) + j \in 1 .. Len(g[i])
        <5> DEFINE a == Len(g[i - 1])
                   b == Len(items[i + 1])
                   c == Len(g[i])
        <5>1. a \in Nat /\ b \in Nat /\ c = a + b /\ j \in 1 .. b
          BY <3>3, <3>4, <4>2
        <5> HIDE DEF a, b, c
        <5>2. a + j \in 1 .. c
          BY <5>1
        <5> QED BY <5>2 DEF a, c
      <4> QED BY <3>6, <4>1, <4>3, <4>4
    <3> QED BY <2>1, <3>5, <3>6
  <2>9. \A i \in 0 .. n - 1 : i \in G
    <3>1. n - 1 \in Nat
      BY <2>1
    <3> HIDE DEF G
    <3> QED BY <2>7, <2>8, <3>1, InductionTo
  <2>10. \A k \in 1 .. n : \A j \in 1 .. Len(items[k]) : g[n - 1][off[k - 1] + j] = items[k][j]
    <3>1. n - 1 \in 0 .. n - 1 /\ n - 1 + 1 = n
      BY <2>1
    <3> QED BY <2>9, <3>1
  <2>11. off[n] = Len(g[n - 1]) /\ g[n - 1] \in Numbers
    BY <2>1, <2>3, <2>4
  <2>12. Flat(items, off, FlattenSeq(items))
    BY <2>2, <2>4, <2>6, <2>10, <2>11 DEF Flat, Offsets, n
  <2> QED BY <2>12
<1> QED BY <1>2, <1>3

\* Items of the same length
LEMMA FlattenSeqOfEqual ==
    ASSUME NEW items \in Seq(Numbers), NEW s \in Nat,
           \A k \in 1 .. Len(items) : Len(items[k]) = s
    PROVE  /\ FlattenSeq(items) \in Numbers /\ Len(FlattenSeq(items)) = s * Len(items)
           /\ \A k \in 1 .. Len(items) : \A j \in 1 .. s :
                 FlattenSeq(items)[s * (k - 1) + j] = items[k][j]
<1>1. PICK off : Flat(items, off, FlattenSeq(items))
  BY FlattenSeqIs
<1> DEFINE n == Len(items)
           w == FlattenSeq(items)
<1>2. n \in Nat
  BY LenProperties
<1>3. /\ off \in [0 .. n -> Nat] /\ off[0] = 0
      /\ \A k \in 1 .. n : off[k] = off[k - 1] + s
      /\ w \in Numbers /\ Len(w) = off[n]
      /\ \A k \in 1 .. n : \A j \in 1 .. s : w[off[k - 1] + j] = items[k][j]
  BY <1>1 DEF Flat, Offsets
<1> DEFINE G == {k \in 0 .. n : off[k] = s * k}
<1> HIDE DEF n, w
<1>4. 0 \in G
  BY <1>2, <1>3
<1>5. ASSUME NEW k \in 1 .. n, k - 1 \in G PROVE k \in G
  <2>1. off[k - 1] = s * (k - 1) /\ k \in 0 .. n /\ k \in Nat
    BY <1>2, <1>5
  <2>2. off[k] = s * (k - 1) + s
    BY <1>3, <2>1
  <2>3. s * (k - 1) + s = s * k
    BY <2>1
  <2> QED BY <2>1, <2>2, <2>3
<1>6. \A k \in 0 .. n : k \in G
  <2> HIDE DEF G
  <2> QED BY <1>2, <1>4, <1>5, InductionTo
<1>7. \A k \in 0 .. n : off[k] = s * k
  BY <1>6
<1>8. \A k \in 1 .. n : k - 1 \in 0 .. n
  BY <1>2
<1>9. \A k \in 1 .. n : off[k - 1] = s * (k - 1)
  BY <1>7, <1>8
<1>10. Len(w) = s * n
  BY <1>2, <1>3, <1>7
<1>11. \A k \in 1 .. n : \A j \in 1 .. s : w[s * (k - 1) + j] = items[k][j]
  BY <1>3, <1>9
<1> QED BY <1>3, <1>10, <1>11 DEF n, w

-----------------------------------------------------------------------------
(* Tiles.                                                                  *)

LEMMA CeilDivIs ==
    ASSUME NEW a \in Nat \ {0}, NEW b \in Nat \ {0}
    PROVE  /\ CeilDiv(a, b) \in Nat \ {0}
           /\ \A i \in Nat : i < CeilDiv(a, b) <=> i * b < a
<1> DEFINE n == a + b - 1
           q == n \div b
<1>1. n \in Nat /\ n >= b
  OBVIOUS
<1>2. q \in Nat /\ b * q <= n /\ n < b * q + b
  <2> HIDE DEF n
  <2>1. n \div b \in Nat /\ n % b \in 0 .. b - 1 /\ n = b * (n \div b) + (n % b)
    BY <1>1
  <2> HIDE DEF q
  <2> QED BY <1>1, <2>1 DEF q
<1>3. CeilDiv(a, b) = q
  BY DEF CeilDiv
<1>4. n = a + b - 1
  OBVIOUS
<1> HIDE DEF n, q
<1>5. q # 0
  BY <1>1, <1>2
<1>6. ASSUME NEW i \in Nat PROVE i < q <=> i * b < a
  <2>1. CASE i < q
    <3>1. i + 1 <= q
      BY <1>2, <2>1
    <3>2. (i + 1) * b <= q * b
      BY <1>2, <3>1
    <3>4. (i + 1) * b = i * b + b /\ q * b = b * q /\ i * b \in Nat
      BY <1>2
    <3>3. i * b + b <= n
      BY <1>2, <1>1, <3>2, <3>4
    <3> QED BY <1>4, <2>1, <3>3
  <2>2. CASE ~(i < q)
    <3>1. i * b >= q * b
      BY <1>2, <2>2
    <3> QED BY <1>1, <1>2, <1>4, <2>2, <3>1
  <2> QED BY <2>1, <2>2
<1> QED BY <1>2, <1>3, <1>5, <1>6

\* The i-th tile of the j-th line of tiles, both from 0
TilePlace(f, side, i, j) ==
    [x |-> f.x + i * side, y |-> f.y + j * side,
     w |-> Least(side, f.w - i * side), h |-> Least(side, f.h - j * side)]

LEMMA TilePlaceIs ==
    ASSUME NEW f \in Inside, NEW side \in Nat \ {0},
           NEW i \in 0 .. CeilDiv(f.w, side) - 1, NEW j \in 0 .. CeilDiv(f.h, side) - 1
    PROVE  /\ TilePlace(f, side, i, j) \in Inside
           /\ TilePlace(f, side, i, j).w <= side /\ TilePlace(f, side, i, j).h <= side
           /\ i * side < f.w /\ j * side < f.h
<1>1. /\ f \in [x : 0 .. Width - 1, y : 0 .. Height - 1, w : 1 .. Width, h : 1 .. Height]
      /\ f.x + f.w <= Width /\ f.y + f.h <= Height
  BY InsideIs
<1>2. f.x \in Nat /\ f.y \in Nat /\ f.w \in Nat \ {0} /\ f.h \in Nat \ {0}
      /\ Width \in Nat /\ Height \in Nat
  BY <1>1, FrameBufferAssumption
<1>3. i \in Nat /\ i * side < f.w
  BY <1>2, CeilDivIs
<1>4. j \in Nat /\ j * side < f.h
  <2>1. CeilDiv(f.h, side) \in Nat
    BY <1>2, CeilDivIs
  <2>2. j \in Nat /\ j < CeilDiv(f.h, side)
    BY <2>1
  <2> QED BY <1>2, <2>2, CeilDivIs
<1> DEFINE u == i * side
           v == j * side
           t == TilePlace(f, side, i, j)
<1>5. u \in Nat /\ v \in Nat /\ u < f.w /\ v < f.h
  BY <1>3, <1>4
<1>6. /\ t = [x |-> f.x + u, y |-> f.y + v, w |-> Least(side, f.w - u), h |-> Least(side, f.h - v)]
  BY DEF TilePlace
<1> HIDE DEF u, v, t
<1> DEFINE w == Least(side, f.w - u)
           h == Least(side, f.h - v)
<1>7. w \in 1 .. f.w /\ w <= f.w - u /\ w <= side
  BY <1>2, <1>5 DEF Least
<1>8. h \in 1 .. f.h /\ h <= f.h - v /\ h <= side
  BY <1>2, <1>5 DEF Least
<1>9. t = [x |-> f.x + u, y |-> f.y + v, w |-> w, h |-> h]
  BY <1>6
<1> HIDE DEF w, h
<1>10. t.x = f.x + u /\ t.y = f.y + v /\ t.w = w /\ t.h = h
  BY <1>9
<1>11. t \in [x : 0 .. Width - 1, y : 0 .. Height - 1, w : 1 .. Width, h : 1 .. Height]
  <2>1. f.x + u \in 0 .. Width - 1 /\ f.y + v \in 0 .. Height - 1
    BY <1>1, <1>2, <1>5
  <2>2. w \in 1 .. Width /\ h \in 1 .. Height
    BY <1>1, <1>2, <1>7, <1>8
  <2> QED BY <1>9, <2>1, <2>2
<1>12. ~TooLarge(t)
  <2>1. f.x + u + w <= Width /\ f.y + v + h <= Height
    BY <1>1, <1>2, <1>5, <1>7, <1>8
  <2> QED BY <1>2, <1>5, <1>7, <1>8, <1>10, <2>1 DEF TooLarge, MaxX, MaxY
<1> QED BY <1>3, <1>4, <1>7, <1>8, <1>10, <1>11, <1>12 DEF Inside, t

Across(f, side) == CeilDiv(f.w, side)
Down(f, side) == CeilDiv(f.h, side)

LEMMA TilesOfIs ==
    ASSUME NEW f \in Inside, NEW side \in Nat \ {0}
    PROVE  LET n == Across(f, side) * Down(f, side)
           IN  /\ Across(f, side) \in Nat \ {0} /\ Down(f, side) \in Nat \ {0}
               /\ n \in Nat \ {0} /\ Len(TilesOf(f, side)) = n
               /\ TilesOf(f, side) \in Seq(Inside)
               /\ \A k \in 1 .. n :
                     LET i == (k - 1) % Across(f, side)
                         j == (k - 1) \div Across(f, side)
                     IN  /\ i \in 0 .. Across(f, side) - 1 /\ j \in 0 .. Down(f, side) - 1
                         /\ TilesOf(f, side)[k] = TilePlace(f, side, i, j)
                         /\ k - 1 = Across(f, side) * j + i
<1> DEFINE a == Across(f, side)
           d == Down(f, side)
           n == a * d
           T == TilesOf(f, side)
<1>1. f.w \in Nat \ {0} /\ f.h \in Nat \ {0}
  BY InsideIs, FrameBufferAssumption
<1>2. a \in Nat \ {0} /\ d \in Nat \ {0}
  BY <1>1, CeilDivIs DEF Across, Down
<1>3. T = [k \in 1 .. a * d |-> TilePlace(f, side, (k - 1) % a, (k - 1) \div a)]
  BY DEF TilesOf, TilePlace, Across, Down
<1> HIDE DEF T
<1>4. ASSUME NEW i \in 0 .. a - 1, NEW j \in 0 .. d - 1
      PROVE  TilePlace(f, side, i, j) \in Inside
  BY TilePlaceIs DEF Across, Down
<1> HIDE DEF a, d
<1>5. n \in Nat \ {0}
  BY <1>2
<1>6. ASSUME NEW k \in 1 .. n
      PROVE  /\ (k - 1) % a \in 0 .. a - 1 /\ (k - 1) \div a \in 0 .. d - 1
             /\ k - 1 = a * ((k - 1) \div a) + ((k - 1) % a)
  <2> DEFINE b == k - 1
  <2>1. b \in Nat /\ b < a * d
    BY <1>2
  <2> HIDE DEF b
  <2>2. b % a \in 0 .. a - 1 /\ b \div a \in Nat /\ b = a * (b \div a) + (b % a)
    BY <1>2, <2>1
  <2> DEFINE q == b \div a
             r == b % a
  <2>3. q \in Nat /\ r \in 0 .. a - 1 /\ b = a * q + r
    BY <2>2
  <2> HIDE DEF q, r
  <2>4. q < d
    <3> SUFFICES ASSUME q >= d PROVE FALSE
      BY <1>2, <2>3
    <3>1. a * q >= a * d
      BY <1>2, <2>3
    <3> QED BY <1>2, <2>1, <2>3, <3>1
  <2>5. q \in 0 .. d - 1
    BY <1>2, <2>3, <2>4
  <2> QED BY <2>2, <2>5 DEF b, q
<1>7. \A k \in 1 .. n : T[k] = TilePlace(f, side, (k - 1) % a, (k - 1) \div a)
  BY <1>3
<1>8. \A k \in 1 .. n : T[k] \in Inside
  BY <1>4, <1>6, <1>7
<1> HIDE DEF n
<1>9. T = [k \in 1 .. n |-> T[k]]
  BY <1>3 DEF n
<1>10. T \in Seq(Inside) /\ Len(T) = n
  BY <1>5, <1>8, <1>9
<1> QED BY <1>2, <1>5, <1>6, <1>7, <1>10, Zenon DEF a, d, n, T

\* The tile after the k-th one
LEMMA NextPlace ==
    ASSUME NEW a \in Nat \ {0}, NEW d \in Nat \ {0}, NEW k \in 1 .. a * d
    PROVE  LET i == (k - 1) % a
               j == (k - 1) \div a
           IN  /\ i < a - 1 => k < a * d /\ k % a = i + 1 /\ k \div a = j
               /\ (i = a - 1 /\ j < d - 1) => k < a * d /\ k % a = 0 /\ k \div a = j + 1
               /\ (i = a - 1 /\ j = d - 1) => k = a * d
<1> DEFINE b == k - 1
           i == b % a
           j == b \div a
<1>1. b \in Nat /\ k = b + 1 /\ b < a * d
  OBVIOUS
<1> HIDE DEF b
<1>2. i \in 0 .. a - 1 /\ j \in Nat /\ b = a * j + i
  BY <1>1
<1>3. \A q \in Nat : \A r \in 0 .. a - 1 : (a * q + r) % a = r /\ (a * q + r) \div a = q
  OBVIOUS
<1> HIDE DEF i, j
<1>4. j <= d - 1
  <2> SUFFICES ASSUME j >= d PROVE FALSE
    BY <1>2
  <2>1. a * j >= a * d
    BY <1>2
  <2> QED BY <1>1, <1>2, <2>1
<1>5. a * (j + 1) <= a * d /\ a * (j + 1) = a * j + a
  BY <1>2, <1>4
<1>6. CASE i < a - 1
  <2>1. k = a * j + (i + 1) /\ i + 1 \in 0 .. a - 1
    BY <1>1, <1>2, <1>6
  <2>2. k % a = i + 1 /\ k \div a = j
    BY <1>2, <1>3, <2>1
  <2>3. k < a * d
    BY <1>1, <1>2, <1>5, <1>6, <2>1
  <2> QED BY <1>6, <2>2, <2>3 DEF i, j, b
<1>7. CASE i = a - 1 /\ j < d - 1
  <2>1. k = a * (j + 1) + 0 /\ 0 \in 0 .. a - 1 /\ j + 1 \in Nat
    BY <1>1, <1>2, <1>5, <1>7
  <2>2. k % a = 0 /\ k \div a = j + 1
    BY <1>3, <2>1
  <2>3. a * (j + 2) <= a * d /\ a * (j + 2) = a * (j + 1) + a
    BY <1>2, <1>7
  <2>4. k < a * d
    BY <1>2, <2>1, <2>3
  <2> QED BY <1>7, <2>2, <2>4 DEF i, j, b
<1>8. CASE i = a - 1 /\ j = d - 1
  <2>1. k = a * d
    BY <1>1, <1>2, <1>5, <1>8
  <2> QED BY <1>8, <2>1 DEF i, j, b
<1> QED BY <1>2, <1>4, <1>6, <1>7, <1>8 DEF i, j, b

-----------------------------------------------------------------------------
(* Clients.                                                                *)

Wait(action, size) == [action |-> action, size |-> size]

\* A client that has not stopped
C(frame, tile, back, fore, mask, count, reader, pixels) ==
    [frame |-> frame, tile |-> tile, back |-> back, fore |-> fore,
     mask |-> mask, count |-> count, reader |-> reader,
     pixels |-> pixels, stopped |-> FALSE]

LEMMA ClientIs ==
    ASSUME NEW c \in Client, ~c.stopped
    PROVE  /\ c = C(c.frame, c.tile, c.back, c.fore, c.mask, c.count, c.reader, c.pixels)
           /\ c.reader = Wait(c.reader.action, c.reader.size)
BY DEF Client, C, Wait

LEMMA FieldsOf ==
    ASSUME NEW f, NEW t, NEW b, NEW g, NEW m, NEW n, NEW r, NEW px
    PROVE  LET c == C(f, t, b, g, m, n, r, px)
           IN  /\ c.frame = f /\ c.tile = t /\ c.back = b /\ c.fore = g
               /\ c.mask = m /\ c.count = n /\ c.reader = r /\ c.pixels = px /\ ~c.stopped
BY DEF C

LEMMA WaitIs ==
    ASSUME NEW a, NEW s
    PROVE  Wait(a, s).action = a /\ Wait(a, s).size = s
BY DEF Wait

LEMMA SetFrameIs ==
    ASSUME NEW f, NEW t, NEW b, NEW g, NEW m, NEW n, NEW r, NEW px, NEW v
    PROVE  [C(f, t, b, g, m, n, r, px) EXCEPT !.frame = v] = C(v, t, b, g, m, n, r, px)
<1> DEFINE T == [frame : {f, v}, tile : {t}, back : {b}, fore : {g},
                  mask : {m}, count : {n}, reader : {r}, pixels : {px}, stopped : {FALSE}]
           c == C(f, t, b, g, m, n, r, px)
           e == [c EXCEPT !.frame = v]
<1>1. c \in T
  BY DEF C
<1>2. c.frame = f /\ c.tile = t /\ c.back = b /\ c.fore = g /\ c.mask = m /\ c.count = n /\ c.reader = r /\ c.pixels = px
      /\ c.stopped = FALSE
  BY FieldsOf DEF C
<1> HIDE DEF c
<1>3. e \in T /\ e.frame = v /\ e.tile = t /\ e.back = b /\ e.fore = g /\ e.mask = m /\ e.count = n /\ e.reader = r /\ e.pixels = px
      /\ e.stopped = FALSE
  BY <1>1, <1>2
<1> HIDE DEF e
<1>4. e = [frame |-> e.frame, tile |-> e.tile, back |-> e.back, fore |-> e.fore, mask |-> e.mask, count |-> e.count, reader |-> e.reader, pixels |-> e.pixels,
           stopped |-> e.stopped]
  BY <1>3
<1> QED BY <1>3, <1>4 DEF e, c, C

LEMMA SetTileIs ==
    ASSUME NEW f, NEW t, NEW b, NEW g, NEW m, NEW n, NEW r, NEW px, NEW v
    PROVE  [C(f, t, b, g, m, n, r, px) EXCEPT !.tile = v] = C(f, v, b, g, m, n, r, px)
<1> DEFINE T == [frame : {f}, tile : {t, v}, back : {b}, fore : {g},
                  mask : {m}, count : {n}, reader : {r}, pixels : {px}, stopped : {FALSE}]
           c == C(f, t, b, g, m, n, r, px)
           e == [c EXCEPT !.tile = v]
<1>1. c \in T
  BY DEF C
<1>2. c.tile = t /\ c.frame = f /\ c.back = b /\ c.fore = g /\ c.mask = m /\ c.count = n /\ c.reader = r /\ c.pixels = px
      /\ c.stopped = FALSE
  BY FieldsOf DEF C
<1> HIDE DEF c
<1>3. e \in T /\ e.frame = f /\ e.tile = v /\ e.back = b /\ e.fore = g /\ e.mask = m /\ e.count = n /\ e.reader = r /\ e.pixels = px
      /\ e.stopped = FALSE
  BY <1>1, <1>2
<1> HIDE DEF e
<1>4. e = [frame |-> e.frame, tile |-> e.tile, back |-> e.back, fore |-> e.fore, mask |-> e.mask, count |-> e.count, reader |-> e.reader, pixels |-> e.pixels,
           stopped |-> e.stopped]
  BY <1>3
<1> QED BY <1>3, <1>4 DEF e, c, C

LEMMA SetBackIs ==
    ASSUME NEW f, NEW t, NEW b, NEW g, NEW m, NEW n, NEW r, NEW px, NEW v
    PROVE  [C(f, t, b, g, m, n, r, px) EXCEPT !.back = v] = C(f, t, v, g, m, n, r, px)
<1> DEFINE T == [frame : {f}, tile : {t}, back : {b, v}, fore : {g},
                  mask : {m}, count : {n}, reader : {r}, pixels : {px}, stopped : {FALSE}]
           c == C(f, t, b, g, m, n, r, px)
           e == [c EXCEPT !.back = v]
<1>1. c \in T
  BY DEF C
<1>2. c.back = b /\ c.frame = f /\ c.tile = t /\ c.fore = g /\ c.mask = m /\ c.count = n /\ c.reader = r /\ c.pixels = px
      /\ c.stopped = FALSE
  BY FieldsOf DEF C
<1> HIDE DEF c
<1>3. e \in T /\ e.frame = f /\ e.tile = t /\ e.back = v /\ e.fore = g /\ e.mask = m /\ e.count = n /\ e.reader = r /\ e.pixels = px
      /\ e.stopped = FALSE
  BY <1>1, <1>2
<1> HIDE DEF e
<1>4. e = [frame |-> e.frame, tile |-> e.tile, back |-> e.back, fore |-> e.fore, mask |-> e.mask, count |-> e.count, reader |-> e.reader, pixels |-> e.pixels,
           stopped |-> e.stopped]
  BY <1>3
<1> QED BY <1>3, <1>4 DEF e, c, C

LEMMA SetForeIs ==
    ASSUME NEW f, NEW t, NEW b, NEW g, NEW m, NEW n, NEW r, NEW px, NEW v
    PROVE  [C(f, t, b, g, m, n, r, px) EXCEPT !.fore = v] = C(f, t, b, v, m, n, r, px)
<1> DEFINE T == [frame : {f}, tile : {t}, back : {b}, fore : {g, v},
                  mask : {m}, count : {n}, reader : {r}, pixels : {px}, stopped : {FALSE}]
           c == C(f, t, b, g, m, n, r, px)
           e == [c EXCEPT !.fore = v]
<1>1. c \in T
  BY DEF C
<1>2. c.fore = g /\ c.frame = f /\ c.tile = t /\ c.back = b /\ c.mask = m /\ c.count = n /\ c.reader = r /\ c.pixels = px
      /\ c.stopped = FALSE
  BY FieldsOf DEF C
<1> HIDE DEF c
<1>3. e \in T /\ e.frame = f /\ e.tile = t /\ e.back = b /\ e.fore = v /\ e.mask = m /\ e.count = n /\ e.reader = r /\ e.pixels = px
      /\ e.stopped = FALSE
  BY <1>1, <1>2
<1> HIDE DEF e
<1>4. e = [frame |-> e.frame, tile |-> e.tile, back |-> e.back, fore |-> e.fore, mask |-> e.mask, count |-> e.count, reader |-> e.reader, pixels |-> e.pixels,
           stopped |-> e.stopped]
  BY <1>3
<1> QED BY <1>3, <1>4 DEF e, c, C

LEMMA SetMaskIs ==
    ASSUME NEW f, NEW t, NEW b, NEW g, NEW m, NEW n, NEW r, NEW px, NEW v
    PROVE  [C(f, t, b, g, m, n, r, px) EXCEPT !.mask = v] = C(f, t, b, g, v, n, r, px)
<1> DEFINE T == [frame : {f}, tile : {t}, back : {b}, fore : {g},
                  mask : {m, v}, count : {n}, reader : {r}, pixels : {px}, stopped : {FALSE}]
           c == C(f, t, b, g, m, n, r, px)
           e == [c EXCEPT !.mask = v]
<1>1. c \in T
  BY DEF C
<1>2. c.mask = m /\ c.frame = f /\ c.tile = t /\ c.back = b /\ c.fore = g /\ c.count = n /\ c.reader = r /\ c.pixels = px
      /\ c.stopped = FALSE
  BY FieldsOf DEF C
<1> HIDE DEF c
<1>3. e \in T /\ e.frame = f /\ e.tile = t /\ e.back = b /\ e.fore = g /\ e.mask = v /\ e.count = n /\ e.reader = r /\ e.pixels = px
      /\ e.stopped = FALSE
  BY <1>1, <1>2
<1> HIDE DEF e
<1>4. e = [frame |-> e.frame, tile |-> e.tile, back |-> e.back, fore |-> e.fore, mask |-> e.mask, count |-> e.count, reader |-> e.reader, pixels |-> e.pixels,
           stopped |-> e.stopped]
  BY <1>3
<1> QED BY <1>3, <1>4 DEF e, c, C

LEMMA SetCountIs ==
    ASSUME NEW f, NEW t, NEW b, NEW g, NEW m, NEW n, NEW r, NEW px, NEW v
    PROVE  [C(f, t, b, g, m, n, r, px) EXCEPT !.count = v] = C(f, t, b, g, m, v, r, px)
<1> DEFINE T == [frame : {f}, tile : {t}, back : {b}, fore : {g},
                  mask : {m}, count : {n, v}, reader : {r}, pixels : {px}, stopped : {FALSE}]
           c == C(f, t, b, g, m, n, r, px)
           e == [c EXCEPT !.count = v]
<1>1. c \in T
  BY DEF C
<1>2. c.count = n /\ c.frame = f /\ c.tile = t /\ c.back = b /\ c.fore = g /\ c.mask = m /\ c.reader = r /\ c.pixels = px
      /\ c.stopped = FALSE
  BY FieldsOf DEF C
<1> HIDE DEF c
<1>3. e \in T /\ e.frame = f /\ e.tile = t /\ e.back = b /\ e.fore = g /\ e.mask = m /\ e.count = v /\ e.reader = r /\ e.pixels = px
      /\ e.stopped = FALSE
  BY <1>1, <1>2
<1> HIDE DEF e
<1>4. e = [frame |-> e.frame, tile |-> e.tile, back |-> e.back, fore |-> e.fore, mask |-> e.mask, count |-> e.count, reader |-> e.reader, pixels |-> e.pixels,
           stopped |-> e.stopped]
  BY <1>3
<1> QED BY <1>3, <1>4 DEF e, c, C

LEMMA SetReaderIs ==
    ASSUME NEW f, NEW t, NEW b, NEW g, NEW m, NEW n, NEW r, NEW px, NEW v
    PROVE  [C(f, t, b, g, m, n, r, px) EXCEPT !.reader = v] = C(f, t, b, g, m, n, v, px)
<1> DEFINE T == [frame : {f}, tile : {t}, back : {b}, fore : {g},
                  mask : {m}, count : {n}, reader : {r, v}, pixels : {px}, stopped : {FALSE}]
           c == C(f, t, b, g, m, n, r, px)
           e == [c EXCEPT !.reader = v]
<1>1. c \in T
  BY DEF C
<1>2. c.reader = r /\ c.frame = f /\ c.tile = t /\ c.back = b /\ c.fore = g /\ c.mask = m /\ c.count = n /\ c.pixels = px
      /\ c.stopped = FALSE
  BY FieldsOf DEF C
<1> HIDE DEF c
<1>3. e \in T /\ e.frame = f /\ e.tile = t /\ e.back = b /\ e.fore = g /\ e.mask = m /\ e.count = n /\ e.reader = v /\ e.pixels = px
      /\ e.stopped = FALSE
  BY <1>1, <1>2
<1> HIDE DEF e
<1>4. e = [frame |-> e.frame, tile |-> e.tile, back |-> e.back, fore |-> e.fore, mask |-> e.mask, count |-> e.count, reader |-> e.reader, pixels |-> e.pixels,
           stopped |-> e.stopped]
  BY <1>3
<1> QED BY <1>3, <1>4 DEF e, c, C

LEMMA SetPixelsIs ==
    ASSUME NEW f, NEW t, NEW b, NEW g, NEW m, NEW n, NEW r, NEW px, NEW v
    PROVE  [C(f, t, b, g, m, n, r, px) EXCEPT !.pixels = v] = C(f, t, b, g, m, n, r, v)
<1> DEFINE T == [frame : {f}, tile : {t}, back : {b}, fore : {g},
                  mask : {m}, count : {n}, reader : {r}, pixels : {px, v}, stopped : {FALSE}]
           c == C(f, t, b, g, m, n, r, px)
           e == [c EXCEPT !.pixels = v]
<1>1. c \in T
  BY DEF C
<1>2. c.pixels = px /\ c.frame = f /\ c.tile = t /\ c.back = b /\ c.fore = g /\ c.mask = m /\ c.count = n /\ c.reader = r
      /\ c.stopped = FALSE
  BY FieldsOf DEF C
<1> HIDE DEF c
<1>3. e \in T /\ e.frame = f /\ e.tile = t /\ e.back = b /\ e.fore = g /\ e.mask = m /\ e.count = n /\ e.reader = r /\ e.pixels = v
      /\ e.stopped = FALSE
  BY <1>1, <1>2
<1> HIDE DEF e
<1>4. e = [frame |-> e.frame, tile |-> e.tile, back |-> e.back, fore |-> e.fore, mask |-> e.mask, count |-> e.count, reader |-> e.reader, pixels |-> e.pixels,
           stopped |-> e.stopped]
  BY <1>3
<1> QED BY <1>3, <1>4 DEF e, c, C

LEMMA SetReaderTo ==
    ASSUME NEW f, NEW t, NEW b, NEW g, NEW m, NEW n, NEW r, NEW px, NEW action, NEW size
    PROVE  /\ SetReader(C(f, t, b, g, m, n, r, px), action, size)
                 = C(f, t, b, g, m, n, Wait(action, size), px)
           /\ DidRect(C(f, t, b, g, m, n, r, px)) = C(f, t, b, g, m, n, Wait("setRect", 5), px)
BY SetReaderIs DEF SetReader, DidRect, Wait

LEMMA FillIs ==
    ASSUME NEW f, NEW t, NEW b, NEW g, NEW m, NEW n, NEW r, NEW px, NEW q, NEW color
    PROVE  Fill(C(f, t, b, g, m, n, r, px), q, color)
              = C(f, t, b, g, m, n, r, FillRect(px, q, color))
BY SetPixelsIs, FieldsOf DEF Fill

LEMMA FillSubsIs ==
    ASSUME NEW f, NEW t, NEW b, NEW g, NEW m, NEW n, NEW r, NEW px, NEW q, NEW subs
    PROVE  FillSubs(C(f, t, b, g, m, n, r, px), q, subs)
              = C(f, t, b, g, m, n, r, FillAll(px, q, subs))
BY SetPixelsIs, FieldsOf DEF FillSubs

\* What a client does that has what it waits for
LEMMA ActIs ==
    ASSUME NEW c, NEW d
    PROVE  /\ c.reader.action = "setRect" => Act(c, d) = SetRect(c, d)
           /\ c.reader.action = "setPixels" => Act(c, d) = SetPixels(c, d)
           /\ c.reader.action = "setPosition" => Act(c, d) = SetPosition(c, d)
           /\ c.reader.action = "setNumOfRects" => Act(c, d) = SetNumOfRects(c, d)
           /\ c.reader.action = "setBackground" => Act(c, d) = SetBackground(c, d)
           /\ c.reader.action = "drawRectangles" => Act(c, d) = DrawRectangles(c, d)
           /\ c.reader.action = "setSubEncoding" => Act(c, d) = SetSubEncoding(c, d)
           /\ c.reader.action = "drawRawTile" => Act(c, d) = DrawRawTile(c, d)
           /\ c.reader.action = "setTileHeader" => Act(c, d) = SetTileHeader(c, d)
           /\ c.reader.action = "drawSubColorRects" => Act(c, d) = DrawSubColorRects(c, d)
           /\ c.reader.action = "drawSubRects" => Act(c, d) = DrawSubRects(c, d)
           /\ c.reader.action = "setUncompressedData" => Act(c, d) = SetUncompressedData(c, d)
           /\ c.reader.action = "setLength" => Act(c, d) = SetReader(c, "setUncompressedData", d[1])
<1>1. c.reader.action = "setRect" => Act(c, d) = SetRect(c, d)
  BY DEF Act
<1>2. c.reader.action = "setPixels" => Act(c, d) = SetPixels(c, d)
  BY DEF Act
<1>3. c.reader.action = "setPosition" => Act(c, d) = SetPosition(c, d)
  BY DEF Act
<1>4. c.reader.action = "setNumOfRects" => Act(c, d) = SetNumOfRects(c, d)
  BY DEF Act
<1>5. c.reader.action = "setBackground" => Act(c, d) = SetBackground(c, d)
  BY DEF Act
<1>6. c.reader.action = "drawRectangles" => Act(c, d) = DrawRectangles(c, d)
  BY DEF Act
<1>7. c.reader.action = "setSubEncoding" => Act(c, d) = SetSubEncoding(c, d)
  BY DEF Act
<1>8. c.reader.action = "drawRawTile" => Act(c, d) = DrawRawTile(c, d)
  BY DEF Act
<1>9. c.reader.action = "setTileHeader" => Act(c, d) = SetTileHeader(c, d)
  BY DEF Act
<1>10. c.reader.action = "drawSubColorRects" => Act(c, d) = DrawSubColorRects(c, d)
  BY DEF Act
<1>11. c.reader.action = "drawSubRects" => Act(c, d) = DrawSubRects(c, d)
  BY DEF Act
<1>12. c.reader.action = "setUncompressedData" => Act(c, d) = SetUncompressedData(c, d)
  BY DEF Act
<1>13. c.reader.action = "setLength" => Act(c, d) = SetReader(c, "setUncompressedData", d[1])
  BY DEF Act
<1> QED
  BY <1>1, <1>2, <1>3, <1>4, <1>5, <1>6, <1>7, <1>8, <1>9, <1>10, <1>11, <1>12, <1>13

LEMMA InsideIsRect ==
    ASSUME NEW r \in Inside
    PROVE  /\ r \in Rect /\ r.x \in Nat /\ r.y \in Nat /\ r.w \in Nat \ {0} /\ r.h \in Nat \ {0}
           /\ r = [x |-> r.x, y |-> r.y, w |-> r.w, h |-> r.h]
           /\ Pixels(r) \in Nat \ {0}
<1>1. r \in [x : 0 .. Width - 1, y : 0 .. Height - 1, w : 1 .. Width, h : 1 .. Height]
  BY InsideIs
<1>2. /\ r \in Rect /\ r.x \in Nat /\ r.y \in Nat /\ r.w \in Nat \ {0} /\ r.h \in Nat \ {0}
      /\ r = [x |-> r.x, y |-> r.y, w |-> r.w, h |-> r.h]
  BY <1>1, FrameBufferAssumption DEF Rect
<1>3. Pixels(r) \in Nat \ {0}
  BY <1>2 DEF Pixels
<1> QED BY <1>2, <1>3

LEMMA ClientOf ==
    ASSUME NEW f \in Rect, NEW t \in Rect, NEW b \in Colors \cup {0}, NEW g \in Colors \cup {0},
           NEW m \in 0 .. 255, NEW n \in Nat, NEW action \in Actions, NEW size \in Nat, NEW px \in Memory
    PROVE  C(f, t, b, g, m, n, Wait(action, size), px) \in Client
BY DEF C, Client, Wait

LEMMA HeaderIs ==
    ASSUME NEW f \in Inside, NEW e \in Nat
    PROVE  /\ Header(f, e) \in Numbers /\ Len(Header(f, e)) = 5
           /\ [x |-> Header(f, e)[1], y |-> Header(f, e)[2],
               w |-> Header(f, e)[3], h |-> Header(f, e)[4]] = f
           /\ Header(f, e)[5] = e
<1>1. /\ f.x \in Nat /\ f.y \in Nat /\ f.w \in Nat \ {0} /\ f.h \in Nat \ {0}
      /\ f = [x |-> f.x, y |-> f.y, w |-> f.w, h |-> f.h]
  BY InsideIsRect
<1>2. Header(f, e) = <<f.x, f.y, f.w, f.h, e>>
  BY DEF Header
<1>3. <<f.x, f.y, f.w, f.h, e>> \in Numbers
  BY <1>1 DEF Numbers
<1> QED BY <1>1, <1>2, <1>3

-----------------------------------------------------------------------------
(* What a client reads.                                                    *)

Reads(c, w) == ~c.stopped /\ w # <<>> /\ c.reader.size \in 1 .. Len(w)

\* What it becomes, and what is left
Now(c, w) == Act(c, SubSeq(w, 1, c.reader.size))
Rest(c, w) == SubSeq(w, c.reader.size + 1, Len(w))

\* It waits for a rectangle, or for the next tile to come, or, after a tile with
\* an empty list of subrectangles, for nothing at all.
ForRectangle(c, t) == t = Nothing /\ c.reader = Wait("setRect", 5)

ForTile(c, t) ==
    /\ c.reader = Wait("setSubEncoding", 1)
    /\ c.frame \in Inside
    /\ \E k \in 1 .. Len(TilesOf(c.frame, HextileSide)) :
          /\ c.tile = TilesOf(c.frame, HextileSide)[k]
          /\ t.tiles = SubSeq(TilesOf(c.frame, HextileSide), k,
                              Len(TilesOf(c.frame, HextileSide)))
    /\ t.back \in {Unspecified, c.back} /\ t.fore \in {Unspecified, c.fore}
    /\ t.back \in Colors \cup {Unspecified} /\ t.fore \in Colors \cup {Unspecified}
    /\ t = [tiles |-> t.tiles, back |-> t.back, fore |-> t.fore]

Starved(c) ==
    /\ c.reader \in {Wait("drawSubRects", 0), Wait("drawSubColorRects", 0)}
    /\ c.count = 0 /\ Bit(c.mask, HexAnySubrects)

Waits(c, s, t) ==
    /\ c \in Client /\ ~c.stopped
    /\ \/ Starved(c)
       \/ Seen(c.pixels) = s /\ (ForRectangle(c, t) \/ ForTile(c, t))

\* It will wait, with screen s and what is left to send t, when it has read w,
\* which is what at most so many readers take.
After0(c, w, s, t) == w = <<>> /\ Waits(c, s, t)
After1(c, w, s, t) ==
    After0(c, w, s, t) \/ (Reads(c, w) /\ After0(Now(c, w), Rest(c, w), s, t))
After2(c, w, s, t) ==
    After0(c, w, s, t) \/ (Reads(c, w) /\ After1(Now(c, w), Rest(c, w), s, t))
After3(c, w, s, t) ==
    After0(c, w, s, t) \/ (Reads(c, w) /\ After2(Now(c, w), Rest(c, w), s, t))
After4(c, w, s, t) ==
    After0(c, w, s, t) \/ (Reads(c, w) /\ After3(Now(c, w), Rest(c, w), s, t))

LEMMA AfterFewer ==
    ASSUME NEW c, NEW w, NEW s, NEW t
    PROVE  /\ After1(c, w, s, t) => After2(c, w, s, t)
           /\ After2(c, w, s, t) => After3(c, w, s, t)
           /\ After3(c, w, s, t) => After4(c, w, s, t)
<1>1. \A d, v : After0(d, v, s, t) => After1(d, v, s, t)
  BY DEF After1
<1>2. \A d, v : After1(d, v, s, t) => After2(d, v, s, t)
  BY <1>1, Zenon DEF After1, After2
<1>3. \A d, v : After2(d, v, s, t) => After3(d, v, s, t)
  BY <1>2, Zenon DEF After2, After3
<1>4. \A d, v : After3(d, v, s, t) => After4(d, v, s, t)
  BY <1>3, Zenon DEF After3, After4
<1> QED BY <1>2, <1>3, <1>4

LEMMA ReadsFront ==
    ASSUME NEW c, ~c.stopped, NEW a \in Numbers, NEW b \in Numbers, a # <<>>,
           c.reader.size = Len(a)
    PROVE  /\ Reads(c, a \o b) /\ Now(c, a \o b) = Act(c, a) /\ Rest(c, a \o b) = b
           /\ Reads(c, a) /\ Now(c, a) = Act(c, a) /\ Rest(c, a) = <<>>
<1>1. Len(a) \in Nat \ {0} /\ Len(b) \in Nat
  BY EmptySeq, LenProperties DEF Numbers
<1>2. a \o b # <<>>
  <2>1. Len(a \o b) # 0
    BY <1>1, Split
  <2> QED BY <2>1, EmptySeq
<1>3. Len(a \o b) = Len(a) + Len(b)
  BY Split
<1>4. Len(a) \in 1 .. Len(a \o b) /\ Len(a) \in 1 .. Len(a)
  BY <1>1, <1>3
<1>5. Reads(c, a \o b) /\ Reads(c, a)
  BY <1>2, <1>4, Zenon DEF Reads
<1>6. Now(c, a \o b) = Act(c, a) /\ Rest(c, a \o b) = b
  <2>1. SubSeq(a \o b, 1, Len(a)) = a /\ SubSeq(a \o b, Len(a) + 1, Len(a \o b)) = b
    BY Split
  <2> QED BY <2>1, Zenon DEF Now, Rest
<1>7. Now(c, a) = Act(c, a) /\ Rest(c, a) = <<>>
  <2>1. SubSeq(a, 1, Len(a)) = a /\ SubSeq(a, Len(a) + 1, Len(a)) = <<>>
    BY Whole
  <2> QED BY <2>1, Zenon DEF Now, Rest
<1> QED BY <1>5, <1>6, <1>7

LEMMA TakesLast ==
    ASSUME NEW c, ~c.stopped, NEW a \in Numbers, a # <<>>, c.reader.size = Len(a), NEW s, NEW t,
           Waits(Act(c, a), s, t)
    PROVE  After1(c, a, s, t)
<1>1. Reads(c, a) /\ Now(c, a) = Act(c, a) /\ Rest(c, a) = <<>>
  BY ReadsFront
<1>2. After0(Now(c, a), Rest(c, a), s, t)
  BY <1>1, Zenon DEF After0
<1> QED BY <1>1, <1>2, Zenon DEF After1

LEMMA Takes ==
    ASSUME NEW c, ~c.stopped, NEW a \in Numbers, NEW b \in Numbers, a # <<>>,
           c.reader.size = Len(a), NEW s, NEW t
    PROVE  /\ After1(Act(c, a), b, s, t) => After2(c, a \o b, s, t)
           /\ After2(Act(c, a), b, s, t) => After3(c, a \o b, s, t)
           /\ After3(Act(c, a), b, s, t) => After4(c, a \o b, s, t)
<1>1. Reads(c, a \o b) /\ Now(c, a \o b) = Act(c, a) /\ Rest(c, a \o b) = b
  BY ReadsFront
<1> QED BY <1>1, Zenon DEF After2, After3, After4

-----------------------------------------------------------------------------
(* Raw pixels, copies and RRE.                                             *)

LEMMA DataIs ==
    ASSUME NEW n \in Nat \ {0}, NEW d \in [1 .. n -> Colors]
    PROVE  d \in Numbers /\ Len(d) = n /\ d # <<>>
<1>2. \A i \in 1 .. n : d[i] \in Nat
  BY FrameBufferAssumption
<1>3. d = [i \in 1 .. n |-> d[i]]
  OBVIOUS
<1>1. d \in Seq(Nat) /\ Len(d) = n
  BY <1>2, <1>3
<1> QED BY <1>1, EmptySeq DEF Numbers

LEMMA SetRectIs ==
    ASSUME NEW f \in Inside, NEW h, NEW t, NEW b, NEW g, NEW m, NEW n, NEW r, NEW px
    PROVE  LET c == C(h, t, b, g, m, n, r, px)
           IN  /\ SetRect(c, Header(f, EncRaw))
                     = C(f, t, b, g, m, n, Wait("setPixels", Pixels(f)), px)
               /\ SetRect(c, Header(f, EncCopy))
                     = C(f, t, b, g, m, n, Wait("setPosition", 2), px)
               /\ SetRect(c, Header(f, EncRRE))
                     = C(f, t, b, g, m, n, Wait("setNumOfRects", 1), px)
               /\ SetRect(c, Header(f, EncHextile)) = FirstTile(C(f, t, b, g, m, n, r, px))
               /\ SetRect(c, Header(f, EncZRLE))
                     = C(f, t, b, g, m, n, Wait("setLength", 1), px)
<1> DEFINE c == C(h, t, b, g, m, n, r, px)
           now == C(f, t, b, g, m, n, r, px)
<1>1. [c EXCEPT !.frame = f] = now
  BY SetFrameIs
<1> HIDE DEF c, now
<1>2. ASSUME NEW e \in Nat
      PROVE  SetRect(c, Header(f, e)) =
               CASE e = EncRaw     -> SetReader(now, "setPixels", Pixels(f))
                 [] e = EncCopy    -> SetReader(now, "setPosition", 2)
                 [] e = EncRRE     -> SetReader(now, "setNumOfRects", 1)
                 [] e = EncHextile -> FirstTile(now)
                 [] e = EncZRLE    -> SetReader(now, "setLength", 1)
                 [] OTHER          -> Terminate(now)
  BY <1>1, HeaderIs, Zenon DEF SetRect
<1>3. /\ EncRaw \in Nat /\ EncCopy \in Nat /\ EncRRE \in Nat /\ EncHextile \in Nat /\ EncZRLE \in Nat
      /\ EncRaw = 0 /\ EncCopy = 1 /\ EncRRE = 2 /\ EncHextile = 5 /\ EncZRLE = 16
  BY DEF EncRaw, EncCopy, EncRRE, EncHextile, EncZRLE
<1>4. /\ SetRect(c, Header(f, EncRaw)) = SetReader(now, "setPixels", Pixels(f))
      /\ SetRect(c, Header(f, EncCopy)) = SetReader(now, "setPosition", 2)
      /\ SetRect(c, Header(f, EncRRE)) = SetReader(now, "setNumOfRects", 1)
      /\ SetRect(c, Header(f, EncHextile)) = FirstTile(now)
      /\ SetRect(c, Header(f, EncZRLE)) = SetReader(now, "setLength", 1)
  <2>1. SetRect(c, Header(f, EncRaw)) = SetReader(now, "setPixels", Pixels(f))
    BY <1>2, <1>3
  <2>2. SetRect(c, Header(f, EncCopy)) = SetReader(now, "setPosition", 2)
    BY <1>2, <1>3
  <2>3. SetRect(c, Header(f, EncRRE)) = SetReader(now, "setNumOfRects", 1)
    BY <1>2, <1>3
  <2>4. SetRect(c, Header(f, EncHextile)) = FirstTile(now)
    BY <1>2, <1>3
  <2>5. SetRect(c, Header(f, EncZRLE)) = SetReader(now, "setLength", 1)
    BY <1>2, <1>3
  <2> QED BY <2>1, <2>2, <2>3, <2>4, <2>5
<1> QED BY <1>4, SetReaderTo DEF c, now

\* A client that waits for a rectangle
Idle(c) == c \in Client /\ ~c.stopped /\ c.reader = Wait("setRect", 5)

LEMMA IdleIs ==
    ASSUME NEW c, Idle(c)
    PROVE  /\ c = C(c.frame, c.tile, c.back, c.fore, c.mask, c.count, Wait("setRect", 5), c.pixels)
           /\ c.tile \in Rect /\ c.back \in Colors \cup {0} /\ c.fore \in Colors \cup {0}
           /\ c.mask \in 0 .. 255 /\ c.count \in Nat /\ c.pixels \in Memory
           /\ c.reader.size = 5 /\ c.reader.action = "setRect" /\ ~c.stopped
BY ClientIs, WaitIs DEF Idle, Client

\* And it will do so again.
LEMMA IdleWaits ==
    ASSUME NEW f \in Rect, NEW t \in Rect, NEW b \in Colors \cup {0}, NEW g \in Colors \cup {0},
           NEW m \in 0 .. 255, NEW n \in Nat, NEW px \in Memory
    PROVE  Waits(C(f, t, b, g, m, n, Wait("setRect", 5), px), Seen(px), Nothing)
<1> DEFINE c == C(f, t, b, g, m, n, Wait("setRect", 5), px)
<1>1. c \in Client
  <2>1. "setRect" \in Actions
    BY DEF Actions
  <2>2. 5 \in Nat
    OBVIOUS
  <2> QED BY <2>1, <2>2, ClientOf
<1>2. ~c.stopped /\ c.reader = Wait("setRect", 5) /\ c.pixels = px
  BY FieldsOf
<1> HIDE DEF c
<1>3. ForRectangle(c, Nothing) /\ Seen(c.pixels) = Seen(px)
  BY <1>2, Zenon DEF ForRectangle
<1> QED BY <1>1, <1>2, <1>3, Zenon DEF Waits, c

\* The header of a rectangle has been read.
LEMMA TakesHeader ==
    ASSUME NEW c, Idle(c), NEW f \in Inside, NEW e \in Nat, NEW b \in Numbers, NEW s, NEW t
    PROVE  /\ After1(SetRect(c, Header(f, e)), b, s, t) => After2(c, Header(f, e) \o b, s, t)
           /\ After2(SetRect(c, Header(f, e)), b, s, t) => After3(c, Header(f, e) \o b, s, t)
           /\ After3(SetRect(c, Header(f, e)), b, s, t) => After4(c, Header(f, e) \o b, s, t)
<1>1. Act(c, Header(f, e)) = SetRect(c, Header(f, e)) /\ ~c.stopped /\ c.reader.size = 5
  BY IdleIs, ActIs
<1>2. Header(f, e) \in Numbers /\ Len(Header(f, e)) = 5
  BY HeaderIs
<1>3. Header(f, e) # <<>>
  <2>1. Len(<<>>) = 0 /\ 0 # 5
    BY EmptySeq
  <2> QED BY <1>2, <2>1, Zenon
<1> QED BY <1>1, <1>2, <1>3, Takes

LEMMA RawIs ==
    ASSUME NEW c, Idle(c), NEW f \in RawFrames, NEW data \in Contents(f)
    PROVE  After4(c, Header(f, EncRaw) \o data, Put(Seen(c.pixels), f, data), Nothing)
<1>1. f \in Inside
  BY RectanglesAssumption DEF Frames
<1>2. f \in Rect /\ Pixels(f) \in Nat \ {0}
  BY <1>1, InsideIsRect
<1>3. data \in [1 .. Pixels(f) -> Colors] /\ data \in Numbers /\ Len(data) = Pixels(f) /\ data # <<>>
  BY <1>2, DataIs DEF Contents
<1> DEFINE t == c.tile
           b == c.back
           g == c.fore
           m == c.mask
           n == c.count
           px == c.pixels
           now == C(f, t, b, g, m, n, Wait("setPixels", Pixels(f)), px)
           new == PutRect(px, f, data)
           done == C(f, t, b, g, m, n, Wait("setRect", 5), new)
<1>4. /\ c = C(c.frame, t, b, g, m, n, Wait("setRect", 5), px)
      /\ t \in Rect /\ b \in Colors \cup {0} /\ g \in Colors \cup {0}
      /\ m \in 0 .. 255 /\ n \in Nat /\ px \in Memory
  BY IdleIs
<1> HIDE DEF t, b, g, m, n, px
<1>5. SetRect(c, Header(f, EncRaw)) = now
  BY <1>1, <1>4, SetRectIs
<1>6. new \in Memory /\ Seen(new) = Put(Seen(px), f, data)
  BY <1>1, <1>3, <1>4, PutRectIs
<1>7. ~now.stopped /\ now.reader.size = Pixels(f) /\ now.reader.action = "setPixels"
      /\ now.frame = f /\ now.pixels = px
  BY FieldsOf, WaitIs
<1>8. Act(now, data) = done
  <2>1. Act(now, data) = SetPixels(now, data)
    BY <1>7, ActIs
  <2>2. [now EXCEPT !.pixels = new] = C(f, t, b, g, m, n, Wait("setPixels", Pixels(f)), new)
    BY SetPixelsIs
  <2> HIDE DEF now
  <2>3. SetPixels(now, data) = DidRect([now EXCEPT !.pixels = new])
    BY <1>7, Zenon DEF SetPixels
  <2> QED BY <2>1, <2>2, <2>3, SetReaderTo
<1> HIDE DEF new
<1>9. Waits(done, Seen(new), Nothing)
  BY <1>2, <1>4, <1>6, IdleWaits
<1> HIDE DEF done, now
<1>10. After1(now, data, Seen(new), Nothing)
  BY <1>3, <1>7, <1>8, <1>9, TakesLast
<1>11. EncRaw \in Nat
  BY DEF EncRaw
<1>12. After2(c, Header(f, EncRaw) \o data, Seen(new), Nothing)
  BY <1>1, <1>3, <1>5, <1>10, <1>11, TakesHeader
<1> QED BY <1>6, <1>12, AfterFewer DEF px

LEMMA CopyIs ==
    ASSUME NEW c, Idle(c), NEW f \in CopyFrames, NEW to \in CopyFrames, f.w = to.w, f.h = to.h
    PROVE  After4(c, Header(to, EncCopy) \o <<f.x, f.y>>,
                  Copied(Seen(c.pixels), f, to.x, to.y), Nothing)
<1>1. f \in Inside /\ to \in Inside
  BY RectanglesAssumption DEF Frames
<1>2. to \in Rect /\ f.x \in Nat /\ f.y \in Nat
      /\ f = [x |-> f.x, y |-> f.y, w |-> to.w, h |-> to.h]
  BY <1>1, InsideIsRect
<1> DEFINE data == <<f.x, f.y>>
           t == c.tile
           b == c.back
           g == c.fore
           m == c.mask
           n == c.count
           px == c.pixels
           now == C(to, t, b, g, m, n, Wait("setPosition", 2), px)
           new == CopyRect(px, f, to.x, to.y)
           done == C(to, t, b, g, m, n, Wait("setRect", 5), new)
<1>3. data \in Numbers /\ Len(data) = 2 /\ data # <<>> /\ data[1] = f.x /\ data[2] = f.y
  BY <1>2 DEF Numbers
<1>4. /\ c = C(c.frame, t, b, g, m, n, Wait("setRect", 5), px)
      /\ t \in Rect /\ b \in Colors \cup {0} /\ g \in Colors \cup {0}
      /\ m \in 0 .. 255 /\ n \in Nat /\ px \in Memory
  BY IdleIs
<1> HIDE DEF t, b, g, m, n, px, data
<1>5. SetRect(c, Header(to, EncCopy)) = now
  BY <1>1, <1>4, SetRectIs
<1>6. new \in Memory /\ Seen(new) = Copied(Seen(px), f, to.x, to.y)
  BY <1>1, <1>4, CopyRectIs
<1>7. ~now.stopped /\ now.reader.size = 2 /\ now.reader.action = "setPosition"
      /\ now.frame = to /\ now.pixels = px
  BY FieldsOf, WaitIs
<1>8. Act(now, data) = done
  <2>1. Act(now, data) = SetPosition(now, data)
    BY <1>7, ActIs
  <2>2. [now EXCEPT !.pixels = new] = C(to, t, b, g, m, n, Wait("setPosition", 2), new)
    BY SetPixelsIs
  <2>3. [to EXCEPT !.x = f.x, !.y = f.y] = f
    BY <1>2 DEF Rect
  <2> HIDE DEF now
  <2>4. SetPosition(now, data) = DidRect([now EXCEPT !.pixels = new])
    BY <1>3, <1>7, <2>3, Zenon DEF SetPosition
  <2> QED BY <2>1, <2>2, <2>4, SetReaderTo
<1> HIDE DEF new
<1>9. Waits(done, Seen(new), Nothing)
  BY <1>2, <1>4, <1>6, IdleWaits
<1> HIDE DEF done, now
<1>10. After1(now, data, Seen(new), Nothing)
  BY <1>3, <1>7, <1>8, <1>9, TakesLast
<1>11. EncCopy \in Nat
  BY DEF EncCopy
<1>12. After2(c, Header(to, EncCopy) \o data, Seen(new), Nothing)
  BY <1>1, <1>3, <1>5, <1>10, <1>11, TakesHeader
<1> QED BY <1>6, <1>12, AfterFewer DEF px, data

\* The numbers of the subrectangles of RRE, and what is made of them
RRENumbers(subs) ==
    FlattenSeq([i \in DOMAIN subs |->
                  <<subs[i].color, subs[i].r.x, subs[i].r.y, subs[i].r.w, subs[i].r.h>>])

LEMMA SubsAre ==
    ASSUME NEW r \in Inside, NEW subs \in Subs(r)
    PROVE  /\ Len(subs) \in Nat /\ DOMAIN subs = 1 .. Len(subs)
           /\ subs = [i \in 1 .. Len(subs) |-> subs[i]]
           /\ \A i \in 1 .. Len(subs) :
                 LET q == subs[i].r
                 IN  /\ subs[i] = [r |-> q, color |-> subs[i].color]
                     /\ q = [x |-> q.x, y |-> q.y, w |-> q.w, h |-> q.h]
                     /\ subs[i].color \in Colors /\ subs[i].color \in Nat
                     /\ q.x \in 0 .. r.w - 1 /\ q.y \in 0 .. r.h - 1
                     /\ q.w \in 1 .. r.w /\ q.h \in 1 .. r.h
<1> DEFINE S == [r : SubRects(r), color : Colors]
<1>1. subs \in Seq(S)
  BY DEF Subs
<1>2. Len(subs) \in Nat /\ DOMAIN subs = 1 .. Len(subs) /\ subs \in [1 .. Len(subs) -> S]
  <2> HIDE DEF S
  <2> QED BY <1>1, LenProperties
<1>3. subs = [i \in 1 .. Len(subs) |-> subs[i]] /\ \A i \in 1 .. Len(subs) : subs[i] \in S
  <2> HIDE DEF S
  <2> QED BY <1>2
<1>4. ASSUME NEW i \in 1 .. Len(subs)
      PROVE  /\ subs[i] = [r |-> subs[i].r, color |-> subs[i].color]
             /\ subs[i].r \in SubRects(r) /\ subs[i].color \in Colors
  BY <1>3
<1>5. ASSUME NEW q \in SubRects(r)
      PROVE  /\ q = [x |-> q.x, y |-> q.y, w |-> q.w, h |-> q.h]
             /\ q.x \in 0 .. r.w - 1 /\ q.y \in 0 .. r.h - 1
             /\ q.w \in 1 .. r.w /\ q.h \in 1 .. r.h
  BY DEF SubRects
<1>6. \A color \in Colors : color \in Nat
  BY FrameBufferAssumption
<1> HIDE DEF S
<1> QED BY <1>2, <1>3, <1>4, <1>5, <1>6

LEMMA RREDecodes ==
    ASSUME NEW r \in Inside, NEW subs \in Subs(r)
    PROVE  LET d == RRENumbers(subs)
               Sub(i) == [r |-> [x |-> d[5 * i - 3], y |-> d[5 * i - 2],
                                 w |-> d[5 * i - 1], h |-> d[5 * i]],
                          color |-> d[5 * i - 4]]
           IN  /\ d \in Numbers /\ Len(d) = 5 * Len(subs)
               /\ [i \in 1 .. Len(subs) |-> Sub(i)] = subs
<1> DEFINE n == Len(subs)
           It(i) == <<subs[i].color, subs[i].r.x, subs[i].r.y, subs[i].r.w, subs[i].r.h>>
           items == [i \in 1 .. n |-> It(i)]
           d == RRENumbers(subs)
           Sub(i) == [r |-> [x |-> d[5 * i - 3], y |-> d[5 * i - 2],
                             w |-> d[5 * i - 1], h |-> d[5 * i]],
                      color |-> d[5 * i - 4]]
<1>1. n \in Nat /\ DOMAIN subs = 1 .. n
  BY SubsAre
<1>2. d = FlattenSeq(items)
  BY <1>1, Zenon DEF RRENumbers
<1>3. r.w \in Nat /\ r.h \in Nat
  BY InsideIsRect
<1>4. ASSUME NEW i \in 1 .. n
      PROVE  /\ subs[i].color \in Nat /\ subs[i].r.x \in Nat /\ subs[i].r.y \in Nat
             /\ subs[i].r.w \in Nat /\ subs[i].r.h \in Nat
  <2>1. /\ subs[i].color \in Nat /\ subs[i].r.x \in 0 .. r.w - 1 /\ subs[i].r.y \in 0 .. r.h - 1
        /\ subs[i].r.w \in 1 .. r.w /\ subs[i].r.h \in 1 .. r.h
    BY SubsAre, Zenon
  <2>2. \A u : /\ u \in 0 .. r.w - 1 => u \in Nat
               /\ u \in 0 .. r.h - 1 => u \in Nat
               /\ u \in 1 .. r.w => u \in Nat
               /\ u \in 1 .. r.h => u \in Nat
    BY <1>3
  <2> QED BY <2>1, <2>2, Zenon
<1>5. \A i \in 1 .. n : It(i) \in Numbers /\ Len(It(i)) = 5
  BY <1>4 DEF Numbers
<1> HIDE DEF n
<1>6. items \in Seq(Numbers) /\ Len(items) = n /\ \A i \in 1 .. n : items[i] = It(i)
  <2> HIDE DEF It
  <2> QED BY <1>1, <1>5
<1> HIDE DEF items
<1>7. \A k \in 1 .. Len(items) : Len(items[k]) = 5
  <2> HIDE DEF It
  <2> QED BY <1>5, <1>6
<1>8. /\ d \in Numbers /\ Len(d) = 5 * n
      /\ \A k \in 1 .. n : \A j \in 1 .. 5 : d[5 * (k - 1) + j] = items[k][j]
  <2> HIDE DEF d, It
  <2>1. 5 \in Nat
    OBVIOUS
  <2>2. /\ FlattenSeq(items) \in Numbers /\ Len(FlattenSeq(items)) = 5 * Len(items)
        /\ \A k \in 1 .. Len(items) : \A j \in 1 .. 5 :
              FlattenSeq(items)[5 * (k - 1) + j] = items[k][j]
    BY <1>6, <1>7, <2>1, FlattenSeqOfEqual
  <2> QED BY <1>2, <1>6, <2>2, Zenon
<1> HIDE DEF d
<1>9. ASSUME NEW i \in 1 .. n PROVE Sub(i) = subs[i]
  <2>1. \A j \in 1 .. 5 : d[5 * (i - 1) + j] = It(i)[j]
    <3> HIDE DEF It
    <3> QED BY <1>6, <1>8
  <2>2. /\ 5 * (i - 1) + 1 = 5 * i - 4 /\ 5 * (i - 1) + 2 = 5 * i - 3
        /\ 5 * (i - 1) + 3 = 5 * i - 2 /\ 5 * (i - 1) + 4 = 5 * i - 1
        /\ 5 * (i - 1) + 5 = 5 * i
    BY <1>1
  <2>3. /\ d[5 * (i - 1) + 1] = It(i)[1] /\ d[5 * (i - 1) + 2] = It(i)[2]
        /\ d[5 * (i - 1) + 3] = It(i)[3] /\ d[5 * (i - 1) + 4] = It(i)[4]
        /\ d[5 * (i - 1) + 5] = It(i)[5]
    <3> HIDE DEF It
    <3> QED BY <2>1
  <2>4. /\ d[5 * i - 4] = It(i)[1] /\ d[5 * i - 3] = It(i)[2] /\ d[5 * i - 2] = It(i)[3]
        /\ d[5 * i - 1] = It(i)[4] /\ d[5 * i] = It(i)[5]
    <3> HIDE DEF It
    <3> QED BY <2>2, <2>3, Zenon
  <2>5. /\ d[5 * i - 4] = subs[i].color /\ d[5 * i - 3] = subs[i].r.x
        /\ d[5 * i - 2] = subs[i].r.y /\ d[5 * i - 1] = subs[i].r.w /\ d[5 * i] = subs[i].r.h
    BY <2>4
  <2>6. /\ subs[i] = [r |-> subs[i].r, color |-> subs[i].color]
        /\ subs[i].r = [x |-> subs[i].r.x, y |-> subs[i].r.y, w |-> subs[i].r.w, h |-> subs[i].r.h]
    BY SubsAre DEF n
  <2>7. Sub(i) = [r |-> [x |-> subs[i].r.x, y |-> subs[i].r.y, w |-> subs[i].r.w, h |-> subs[i].r.h],
                  color |-> subs[i].color]
    BY <2>5, Zenon
  <2> QED BY <2>6, <2>7, Zenon
<1>10. subs = [i \in 1 .. n |-> subs[i]]
  BY SubsAre DEF n
<1>11. [i \in 1 .. n |-> Sub(i)] = subs
  <2> HIDE DEF Sub
  <2>1. [i \in 1 .. n |-> Sub(i)] = [i \in 1 .. n |-> subs[i]]
    BY <1>9
  <2> QED BY <1>10, <2>1
<1> QED BY <1>8, <1>11 DEF n, d

Regrouped(h, a, b, w) == h \o <<a, b>> \o w = h \o (<<a>> \o (<<b>> \o w))

LEMMA Regroup ==
    ASSUME NEW h \in Numbers, NEW a \in Nat, NEW b \in Nat, NEW w \in Numbers
    PROVE  /\ Regrouped(h, a, b, w)
           /\ <<a>> \in Numbers /\ <<b>> \in Numbers
           /\ <<b>> \o w \in Numbers /\ <<a>> \o (<<b>> \o w) \in Numbers
           /\ Len(<<a>>) = 1 /\ <<a>> # <<>> /\ <<a>>[1] = a
<1>1. <<a>> \in Numbers /\ <<b>> \in Numbers /\ <<a, b>> \in Numbers
  BY DEF Numbers
<1>2. <<a, b>> = <<a>> \o <<b>>
  <2> DEFINE p == <<a>> \o <<b>>
             q == <<a, b>>
  <2>1. p \in Numbers /\ Len(p) = 2 /\ p[1] = a /\ p[2] = b
    <3>1. Len(<<a>>) = 1 /\ Len(<<b>>) = 1 /\ <<a>>[1] = a /\ <<b>>[1] = b
      OBVIOUS
    <3>2. /\ p \in Numbers /\ Len(p) = 1 + 1
          /\ \A i \in 1 .. 1 + 1 : p[i] = IF i <= 1 THEN <<a>>[i] ELSE <<b>>[i - 1]
      BY <1>1, <3>1, ConcatProperties DEF Numbers
    <3> HIDE DEF p
    <3>3. p[1] = <<a>>[1] /\ p[2] = <<b>>[2 - 1]
      BY <3>2
    <3> QED BY <3>1, <3>2, <3>3
  <2>2. q \in Numbers /\ Len(q) = 2 /\ q[1] = a /\ q[2] = b
    BY <1>1
  <2> HIDE DEF p, q
  <2>3. \A i \in 1 .. Len(p) : p[i] = q[i]
    BY <2>1, <2>2
  <2>4. p = q
    BY <2>1, <2>2, <2>3, SeqEqual DEF Numbers
  <2> QED BY <2>4 DEF p, q
<1>3. <<b>> \o w \in Numbers
  BY <1>1, ConcatProperties DEF Numbers
<1>4. <<a>> \o (<<b>> \o w) \in Numbers
  BY <1>1, <1>3, ConcatProperties DEF Numbers
<1>5. (h \o <<a, b>>) \o w = h \o (<<a, b>> \o w)
  BY <1>1, ConcatAssociative DEF Numbers
<1>6. (<<a>> \o <<b>>) \o w = <<a>> \o (<<b>> \o w)
  BY <1>1, ConcatAssociative DEF Numbers
<1>7. Len(<<a>>) = 1 /\ <<a>> # <<>> /\ <<a>>[1] = a
  OBVIOUS
<1> QED BY <1>1, <1>2, <1>3, <1>4, <1>5, <1>6, <1>7 DEF Regrouped

LEMMA OneIs ==
    ASSUME NEW a \in Nat
    PROVE  /\ <<a>> \in Numbers /\ Len(<<a>>) = 1 /\ <<a>> # <<>> /\ <<a>>[1] = a
           /\ <<a>> \o <<>> = <<a>> /\ <<>> \in Numbers
<1>1. <<a>> \in Numbers /\ Len(<<a>>) = 1 /\ <<a>> # <<>> /\ <<a>>[1] = a
  BY DEF Numbers
<1>2. <<>> \in Numbers
  BY EmptySeq DEF Numbers
<1> QED BY <1>1, <1>2, ConcatEmptySeq DEF Numbers

LEMMA PaintedNothing ==
    ASSUME NEW s \in Colorings, NEW r \in Inside, NEW subs \in Subs(r), Len(subs) = 0
    PROVE  PaintedAll(s, r, subs) = s
<1>1. PICK g \in [0 .. Len(subs) -> Colorings] : g[0] = s /\ PaintedAll(s, r, subs) = g[Len(subs)]
  BY PaintedAllLoops
<1> QED BY <1>1

LEMMA RREIs ==
    ASSUME NEW c, Idle(c), NEW f \in RREFrames, NEW back \in Colors, NEW subs \in SubLists(f)
    PROVE  After4(c, Header(f, EncRRE) \o <<Len(subs), back>> \o RRENumbers(subs),
                  PaintedAll(Painted(Seen(c.pixels), f, back), f, subs), Nothing)
<1>1. f \in Inside
  BY RectanglesAssumption DEF Frames
<1>2. f \in Rect /\ subs \in Subs(f) /\ back \in Nat
  BY <1>1, InsideIsRect, RectanglesAssumption, FrameBufferAssumption DEF Subs
<1> DEFINE k == Len(subs)
           w == RRENumbers(subs)
           t == c.tile
           b == c.back
           g == c.fore
           m == c.mask
           n == c.count
           px == c.pixels
           c1 == C(f, t, b, g, m, n, Wait("setNumOfRects", 1), px)
           c2 == C(f, t, b, g, m, k, Wait("setBackground", 1), px)
           mid == FillRect(px, f, back)
           c3 == C(f, t, b, g, m, k, Wait("drawRectangles", 5 * k), mid)
           new == FillAll(mid, f, subs)
           done == C(f, t, b, g, m, k, Wait("setRect", 5), new)
           s == PaintedAll(Painted(Seen(px), f, back), f, subs)
<1>3. k \in Nat /\ w \in Numbers /\ Len(w) = 5 * k
  BY <1>1, <1>2, SubsAre, RREDecodes
<1>4. /\ c = C(c.frame, t, b, g, m, n, Wait("setRect", 5), px)
      /\ t \in Rect /\ b \in Colors \cup {0} /\ g \in Colors \cup {0}
      /\ m \in 0 .. 255 /\ n \in Nat /\ px \in Memory
  BY IdleIs
<1> HIDE DEF t, b, g, m, n, px
<1>5. SetRect(c, Header(f, EncRRE)) = c1
  BY <1>1, <1>4, SetRectIs
<1>6. mid \in Memory /\ Seen(mid) = Painted(Seen(px), f, back)
  BY <1>1, <1>4, FillRectIs
<1>7. new \in Memory /\ Seen(new) = s
  <2> HIDE DEF mid
  <2> QED BY <1>1, <1>2, <1>6, FillAllIs
<1> HIDE DEF k
<1>8. Act(c1, <<k>>) = c2 /\ ~c1.stopped /\ c1.reader.size = 1
  <2>1. ~c1.stopped /\ c1.reader.size = 1 /\ c1.reader.action = "setNumOfRects"
    BY FieldsOf, WaitIs
  <2>2. Act(c1, <<k>>) = SetNumOfRects(c1, <<k>>)
    BY <2>1, ActIs
  <2>3. [c1 EXCEPT !.count = k] = C(f, t, b, g, m, k, Wait("setNumOfRects", 1), px)
    BY SetCountIs
  <2>4. <<k>>[1] = k
    BY <1>3, OneIs
  <2> HIDE DEF c1
  <2>5. SetNumOfRects(c1, <<k>>) = SetReader([c1 EXCEPT !.count = k], "setBackground", 1)
    BY <2>4, Zenon DEF SetNumOfRects
  <2> QED BY <2>1, <2>2, <2>3, <2>5, SetReaderTo
<1>9. /\ ~c2.stopped /\ c2.reader.size = 1
      /\ Act(c2, <<back>>) = IF k = 0 THEN C(f, t, b, g, m, k, Wait("setRect", 5), mid) ELSE c3
  <2>1. ~c2.stopped /\ c2.reader.size = 1 /\ c2.reader.action = "setBackground"
        /\ c2.count = k /\ c2.frame = f
    BY FieldsOf, WaitIs
  <2>2. Act(c2, <<back>>) = SetBackground(c2, <<back>>)
    BY <2>1, ActIs
  <2>3. Fill(c2, f, back) = C(f, t, b, g, m, k, Wait("setBackground", 1), mid)
    BY FillIs
  <2>4. <<back>>[1] = back
    BY <1>2, OneIs
  <2> HIDE DEF c2
  <2>5. SetBackground(c2, <<back>>) =
           IF k = 0 THEN DidRect(Fill(c2, f, back))
           ELSE SetReader(Fill(c2, f, back), "drawRectangles", 5 * k)
    BY <2>1, <2>4, Zenon DEF SetBackground
  <2> HIDE DEF mid
  <2> QED BY <2>1, <2>2, <2>3, <2>5, SetReaderTo
<1>10. Act(c3, w) = done /\ ~c3.stopped /\ c3.reader.size = 5 * k
  <2>1. ~c3.stopped /\ c3.reader.size = 5 * k /\ c3.reader.action = "drawRectangles"
        /\ c3.count = k /\ c3.frame = f
    BY FieldsOf, WaitIs
  <2>2. Act(c3, w) = DrawRectangles(c3, w)
    BY <2>1, ActIs
  <2>3. FillSubs(c3, f, subs) = C(f, t, b, g, m, k, Wait("drawRectangles", 5 * k), new)
    BY FillSubsIs
  <2>4. [i \in 1 .. k |->
            [r |-> [x |-> w[5 * i - 3], y |-> w[5 * i - 2], w |-> w[5 * i - 1], h |-> w[5 * i]],
             color |-> w[5 * i - 4]]] = subs
    BY <1>1, <1>2, RREDecodes DEF k
  <2> HIDE DEF c3, w
  <2>5. DrawRectangles(c3, w) = DidRect(FillSubs(c3, f, subs))
    BY <2>1, <2>4, Zenon DEF DrawRectangles
  <2> HIDE DEF new
  <2> QED BY <2>1, <2>2, <2>3, <2>5, SetReaderTo
<1>11. EncRRE \in Nat
  BY DEF EncRRE
<1> HIDE DEF w
<1>12. Header(f, EncRRE) \o <<k, back>> \o w = Header(f, EncRRE) \o (<<k>> \o (<<back>> \o w))
       /\ <<back>> \o w \in Numbers /\ <<k>> \o (<<back>> \o w) \in Numbers
       /\ <<k>> \in Numbers /\ Len(<<k>>) = 1 /\ <<k>> # <<>>
  <2> DEFINE h == Header(f, EncRRE)
  <2>1. h \in Numbers
    BY <1>1, <1>11, HeaderIs
  <2> HIDE DEF h
  <2>2. h \o <<k, back>> \o w = h \o (<<k>> \o (<<back>> \o w))
    <3>1. Regrouped(h, k, back, w)
      BY <1>2, <1>3, <2>1, Regroup
    <3> QED BY <3>1, Zenon DEF Regrouped
  <2>3. /\ <<back>> \o w \in Numbers /\ <<k>> \o (<<back>> \o w) \in Numbers
        /\ <<k>> \in Numbers /\ Len(<<k>>) = 1 /\ <<k>> # <<>>
    BY <1>2, <1>3, <2>1, Regroup
  <2> QED BY <2>2, <2>3 DEF h
<1>13. <<back>> \in Numbers /\ Len(<<back>>) = 1 /\ <<back>> # <<>> /\ <<back>> \o <<>> = <<back>>
  BY <1>2, OneIs
<1>14. After3(c1, <<k>> \o (<<back>> \o w), s, Nothing)
  <2>1. CASE k = 0
    <3>1. w = <<>>
      BY <1>3, <2>1, EmptySeq DEF Numbers
    <3>2. Seen(mid) = s
      <4>1. Seen(mid) \in Colorings
        BY <1>6, SeenIs DEF Colorings
      <4> QED BY <1>1, <1>2, <1>6, <2>1, <4>1, PaintedNothing DEF k
    <3> DEFINE end == C(f, t, b, g, m, k, Wait("setRect", 5), mid)
    <3> HIDE DEF s, mid
    <3>3. Waits(end, s, Nothing)
      BY <1>2, <1>3, <1>4, <1>6, <3>2, IdleWaits
    <3>4. Act(c2, <<back>>) = end
      BY <1>9, <2>1
    <3> HIDE DEF end, c2
    <3>5. After1(c2, <<back>>, s, Nothing)
      BY <1>9, <1>13, <3>3, <3>4, TakesLast
    <3> HIDE DEF c1
    <3>6. After2(c1, <<k>> \o <<back>>, s, Nothing)
      BY <1>8, <1>12, <1>13, <3>5, Takes
    <3> QED BY <1>13, <3>1, <3>6, AfterFewer
  <2>2. CASE k # 0
    <3>1. w # <<>>
      <4>1. Len(w) # 0
        BY <1>3, <2>2
      <4> QED BY <4>1, EmptySeq
    <3> HIDE DEF s, new, mid
    <3>2. Waits(done, s, Nothing)
      BY <1>2, <1>3, <1>4, <1>7, IdleWaits
    <3>3. Act(c2, <<back>>) = c3
      BY <1>9, <2>2
    <3> HIDE DEF done, c3, c2, c1
    <3>4. After1(c3, w, s, Nothing)
      BY <1>3, <1>10, <3>1, <3>2, TakesLast
    <3>5. After2(c2, <<back>> \o w, s, Nothing)
      BY <1>3, <1>9, <1>13, <3>3, <3>4, Takes
    <3> QED BY <1>8, <1>12, <3>5, Takes
  <2> QED BY <2>1, <2>2
<1> HIDE DEF c1, s
<1>15. After4(c, Header(f, EncRRE) \o (<<k>> \o (<<back>> \o w)), s, Nothing)
  BY <1>1, <1>5, <1>11, <1>12, <1>14, TakesHeader
<1> QED BY <1>12, <1>15 DEF s, k, w, px

-----------------------------------------------------------------------------
(* Hextile.                                                                *)

LEMMA HextileSideIs == HextileSide \in Nat \ {0} /\ HextileSide <= 16
BY RectanglesAssumption

\* The tiles of a rectangle of Hextile
Tiles(f) == TilesOf(f, HextileSide)

LEMMA TilesAre ==
    ASSUME NEW f \in Inside
    PROVE  /\ Len(Tiles(f)) \in Nat \ {0} /\ Tiles(f) \in Seq(Inside)
           /\ \A k \in 1 .. Len(Tiles(f)) :
                 Tiles(f)[k] \in Inside /\ Tiles(f)[k].w <= 16 /\ Tiles(f)[k].h <= 16
<1> DEFINE a == Across(f, HextileSide)
           d == Down(f, HextileSide)
           n == a * d
<1>1. /\ n \in Nat \ {0} /\ Len(Tiles(f)) = n /\ Tiles(f) \in Seq(Inside)
      /\ \A k \in 1 .. n :
            /\ (k - 1) % a \in 0 .. a - 1 /\ (k - 1) \div a \in 0 .. d - 1
            /\ Tiles(f)[k] = TilePlace(f, HextileSide, (k - 1) % a, (k - 1) \div a)
  BY HextileSideIs, TilesOfIs DEF Tiles
<1>2. ASSUME NEW i \in 0 .. a - 1, NEW j \in 0 .. d - 1
      PROVE  /\ TilePlace(f, HextileSide, i, j) \in Inside
             /\ TilePlace(f, HextileSide, i, j).w <= HextileSide
             /\ TilePlace(f, HextileSide, i, j).h <= HextileSide
  BY HextileSideIs, TilePlaceIs DEF Across, Down
<1> HIDE DEF a, d, n
<1>3. ASSUME NEW k \in 1 .. n
      PROVE  Tiles(f)[k] \in Inside /\ Tiles(f)[k].w <= 16 /\ Tiles(f)[k].h <= 16
  <2> DEFINE q == Tiles(f)[k]
  <2>1. q \in Inside /\ q.w <= HextileSide /\ q.h <= HextileSide
    BY <1>1, <1>2
  <2> HIDE DEF q
  <2>2. q.w \in Nat /\ q.h \in Nat
    BY <2>1, InsideIsRect
  <2>3. q.w <= 16 /\ q.h <= 16
    BY <2>1, <2>2, HextileSideIs
  <2> QED BY <2>1, <2>3 DEF q
<1> QED BY <1>1, <1>3

LEMMA FirstTileIs ==
    ASSUME NEW f \in Inside,
           NEW t, NEW b, NEW g, NEW m, NEW n, NEW r, NEW px
    PROVE  FirstTile(C(f, t, b, g, m, n, r, px))
              = C(f, Tiles(f)[1], b, g, m, n, Wait("setSubEncoding", 1), px)
<1> DEFINE q == [f EXCEPT !.w = Least(@, HextileSide), !.h = Least(@, HextileSide)]
           c == C(f, t, b, g, m, n, r, px)
           a == Across(f, HextileSide)
<1>1. /\ f \in Rect /\ f.x \in Nat /\ f.y \in Nat /\ f.w \in Nat \ {0} /\ f.h \in Nat \ {0}
  BY InsideIsRect
<1>2. Tiles(f)[1] = TilePlace(f, HextileSide, 0, 0)
  <2>1. /\ a \in Nat \ {0}
        /\ \A k \in 1 .. Len(Tiles(f)) :
              Tiles(f)[k] = TilePlace(f, HextileSide, (k - 1) % a, (k - 1) \div a)
    BY HextileSideIs, TilesOfIs DEF Tiles
  <2>2. 1 \in 1 .. Len(Tiles(f))
    BY TilesAre
  <2> HIDE DEF a
  <2>3. (1 - 1) % a = 0 /\ (1 - 1) \div a = 0
    BY <2>1
  <2> QED BY <2>1, <2>2, <2>3
<1>3. q = [x |-> f.x, y |-> f.y, w |-> Least(f.w, HextileSide), h |-> Least(f.h, HextileSide)]
  <2> DEFINE w == Least(f.w, HextileSide)
             h == Least(f.h, HextileSide)
  <2>1. w \in Nat /\ h \in Nat
    BY <1>1, HextileSideIs DEF Least
  <2>2. q = [f EXCEPT !.w = w, !.h = h]
    OBVIOUS
  <2> HIDE DEF w, h, q
  <2>3. q \in Rect /\ q.x = f.x /\ q.y = f.y /\ q.w = w /\ q.h = h
    BY <1>1, <2>1, <2>2 DEF Rect
  <2>4. q = [x |-> q.x, y |-> q.y, w |-> q.w, h |-> q.h]
    BY <2>3 DEF Rect
  <2> QED BY <2>3, <2>4 DEF w, h
<1>4. TilePlace(f, HextileSide, 0, 0)
         = [x |-> f.x, y |-> f.y, w |-> Least(f.w, HextileSide), h |-> Least(f.h, HextileSide)]
  <2>1. /\ f.x + 0 * HextileSide = f.x /\ f.y + 0 * HextileSide = f.y
        /\ Least(HextileSide, f.w - 0 * HextileSide) = Least(f.w, HextileSide)
        /\ Least(HextileSide, f.h - 0 * HextileSide) = Least(f.h, HextileSide)
    BY <1>1, HextileSideIs DEF Least
  <2> QED BY <2>1, Zenon DEF TilePlace
<1>5. c.frame = f
  BY FieldsOf
<1>6. [c EXCEPT !.tile = q] = C(f, q, b, g, m, n, r, px)
  BY SetTileIs
<1> HIDE DEF c
<1>7. FirstTile(c) = SetReader([c EXCEPT !.tile = q], "setSubEncoding", 1)
  BY <1>5, Zenon DEF FirstTile
<1> HIDE DEF q
<1> QED BY <1>2, <1>3, <1>4, <1>6, <1>7, SetReaderTo DEF c

\* Where the next tile is, if u and v is where this one is.
NextAt(fx, fy, fw, fh, mx, my, side, u, v, row, x, y) ==
    /\ row <=> ~(u + side < fw)
    /\ ~row => /\ x = fx + (u + side) /\ y = fy + v
               /\ mx - x = fw - (u + side) /\ my - y = fh - v
               /\ ~(y >= my)
    /\ row => /\ x = fx + 0 /\ y = fy + (v + side)
              /\ mx - x = fw - 0 /\ my - y = fh - (v + side)
              /\ y >= my <=> ~(v + side < fh)

LEMMA NextIs ==
    ASSUME NEW fx \in Nat, NEW fy \in Nat, NEW fw \in Nat, NEW fh \in Nat, NEW side \in Nat,
           NEW u \in Nat, NEW v \in Nat, u < fw, v < fh, NEW qx, NEW qy, NEW mx, NEW my,
           NEW row, NEW x, NEW y,
           qx = fx + u, qy = fy + v, mx = fx + fw, my = fy + fh,
           row \in BOOLEAN, row <=> qx + side >= mx,
           x = (IF row THEN fx ELSE qx + side), y = (IF row THEN qy + side ELSE qy)
    PROVE  NextAt(fx, fy, fw, fh, mx, my, side, u, v, row, x, y)
<1>1. CASE row
  <2>1. x = fx /\ y = fy + v + side
    BY <1>1
  <2> QED BY <1>1, <2>1 DEF NextAt
<1>2. CASE ~row
  <2>1. x = fx + u + side /\ y = fy + v
    BY <1>2
  <2> QED BY <1>2, <2>1 DEF NextAt
<1> QED BY <1>1, <1>2

\* What the client is when it has drawn the k-th tile.
TileDrawn(f, k, b, g, m, n, px) ==
    IF k = Len(Tiles(f))
    THEN C(f, Tiles(f)[k], b, g, m, n, Wait("setRect", 5), px)
    ELSE C(f, Tiles(f)[k + 1], b, g, m, n, Wait("setSubEncoding", 1), px)

LEMMA NextTileIs ==
    ASSUME NEW f \in Inside, NEW k \in 1 .. Len(Tiles(f)),
           NEW b, NEW g, NEW m, NEW n, NEW r, NEW px
    PROVE  NextTile(C(f, Tiles(f)[k], b, g, m, n, r, px)) = TileDrawn(f, k, b, g, m, n, px)
<1> DEFINE a == Across(f, HextileSide)
           d == Down(f, HextileSide)
           i == (k - 1) % a
           j == (k - 1) \div a
           side == HextileSide
           T == Tiles(f)
           q == T[k]
           c == C(f, q, b, g, m, n, r, px)
           row == q.x + side >= MaxX(f)
           x == IF row THEN f.x ELSE q.x + side
           y == IF row THEN q.y + side ELSE q.y
           next == [x |-> x, y |-> y, w |-> Least(side, MaxX(f) - x),
                    h |-> Least(side, MaxY(f) - y)]
<1>1. /\ a \in Nat \ {0} /\ d \in Nat \ {0} /\ Len(T) = a * d /\ Len(T) \in Nat \ {0}
      /\ \A l \in 1 .. Len(T) : T[l] = TilePlace(f, side, (l - 1) % a, (l - 1) \div a)
      /\ i \in 0 .. a - 1 /\ j \in 0 .. d - 1
  BY HextileSideIs, TilesOfIs DEF Tiles
<1>2. f.x \in Nat /\ f.y \in Nat /\ f.w \in Nat \ {0} /\ f.h \in Nat \ {0} /\ side \in Nat \ {0}
  BY InsideIsRect, HextileSideIs
<1>3. q.x = f.x + i * side /\ q.y = f.y + j * side
  <2>1. k \in 1 .. Len(T)
    OBVIOUS
  <2>2. q = TilePlace(f, side, i, j)
    <3> HIDE DEF a, d, side, T
    <3> QED BY <1>1, <2>1
  <2> HIDE DEF q, i, j, side
  <2> QED BY <2>2 DEF TilePlace
<1>4. /\ \A l \in Nat : l < a <=> l * side < f.w
      /\ \A l \in Nat : l < d <=> l * side < f.h
  BY <1>2, CeilDivIs DEF Across, Down
<1>5. c.frame = f /\ c.tile = q
  BY FieldsOf
<1>6. NextTile(c) = IF y >= MaxY(f) THEN DidRect(c)
                    ELSE SetReader([c EXCEPT !.tile = next], "setSubEncoding", 1)
  <2> HIDE DEF c, q
  <2> QED BY <1>5, Zenon DEF NextTile
<1>7. /\ i < a - 1 => k < a * d /\ k % a = i + 1 /\ k \div a = j
      /\ (i = a - 1 /\ j < d - 1) => k < a * d /\ k % a = 0 /\ k \div a = j + 1
      /\ (i = a - 1 /\ j = d - 1) => k = a * d
  <2> HIDE DEF a, d
  <2>1. k \in 1 .. a * d
    BY <1>1
  <2> QED BY <1>1, <2>1, NextPlace
<1>15. x = (IF row THEN f.x ELSE q.x + side) /\ y = (IF row THEN q.y + side ELSE q.y)
       /\ next = [x |-> x, y |-> y, w |-> Least(side, MaxX(f) - x), h |-> Least(side, MaxY(f) - y)]
       /\ (row <=> q.x + side >= MaxX(f))
  OBVIOUS
<1> HIDE DEF a, d, i, j, side, q, x, y, row, next, T
<1>8. MaxX(f) = f.x + f.w /\ MaxY(f) = f.y + f.h
  BY DEF MaxX, MaxY
<1> DEFINE u == i * side
           v == j * side
<1>16. u \in Nat /\ v \in Nat
  BY <1>1, <1>2
<1>20. (i + 1) * side = u + side /\ (j + 1) * side = v + side /\ 0 * side = 0
  BY <1>1, <1>2
<1>17. q.x = f.x + u /\ q.y = f.y + v
  BY <1>3
<1>18. /\ u < f.w /\ v < f.h /\ (i + 1 < a <=> u + side < f.w) /\ (j + 1 < d <=> v + side < f.h)
  <2>1. i \in Nat /\ j \in Nat /\ i < a /\ j < d /\ i + 1 \in Nat /\ j + 1 \in Nat
    BY <1>1
  <2>2. i * side < f.w /\ j * side < f.h /\ (i + 1 < a <=> (i + 1) * side < f.w)
        /\ (j + 1 < d <=> (j + 1) * side < f.h)
    BY <1>4, <2>1
  <2> QED BY <1>20, <2>2
<1> HIDE DEF u, v
<1>22. row \in BOOLEAN
  BY DEF row
<1>21. NextAt(f.x, f.y, f.w, f.h, MaxX(f), MaxY(f), side, u, v, row, x, y)
  <2>1. /\ f.x \in Nat /\ f.y \in Nat /\ f.w \in Nat /\ f.h \in Nat /\ side \in Nat
    BY <1>2
  <2>2. u < f.w /\ v < f.h
    BY <1>18
  <2> QED BY <1>8, <1>15, <1>16, <1>17, <1>22, <2>1, <2>2, NextIs
<1>9. row <=> i = a - 1
  <2>1. i + 1 < a <=> ~row
    BY <1>18, <1>21, Zenon DEF NextAt
  <2> QED BY <1>1, <2>1
<1>19. \A l \in 1 .. Len(T) - 1 : T[l + 1] = TilePlace(f, side, l % a, l \div a)
  <2> TAKE l \in 1 .. Len(T) - 1
  <2> DEFINE e == l + 1
  <2>1. e \in 1 .. Len(T) /\ e - 1 = l
    BY <1>1
  <2> HIDE DEF e
  <2>2. T[e] = TilePlace(f, side, l % a, l \div a)
    BY <1>1, <2>1
  <2> QED BY <2>2 DEF e
<1>11. CASE i < a - 1
  <2>1. ~row
    BY <1>1, <1>9, <1>11
  <2>2. x = f.x + (u + side) /\ y = f.y + v /\ ~(y >= MaxY(f))
        /\ MaxX(f) - x = f.w - (u + side) /\ MaxY(f) - y = f.h - v
    BY <1>21, <2>1, Zenon DEF NextAt
  <2>5. next = TilePlace(f, side, i + 1, j)
    BY <1>15, <1>20, <2>2, Zenon DEF TilePlace, v
  <2>6. k < a * d /\ k % a = i + 1 /\ k \div a = j
    BY <1>7, <1>11
  <2>7. k \in 1 .. Len(T) - 1 /\ k # Len(T)
    BY <1>1, <2>6
  <2>8. T[k + 1] = next
    BY <1>19, <2>5, <2>6, <2>7, Zenon
  <2>9. [c EXCEPT !.tile = next] = C(f, next, b, g, m, n, r, px)
    BY SetTileIs
  <2> HIDE DEF c
  <2>10. NextTile(c) = C(f, next, b, g, m, n, Wait("setSubEncoding", 1), px)
    <3>1. NextTile(c) = SetReader([c EXCEPT !.tile = next], "setSubEncoding", 1)
      BY <1>6, <2>2, Zenon
    <3> QED BY <2>9, <3>1, SetReaderTo
  <2> QED BY <2>7, <2>8, <2>10 DEF c, q, T, TileDrawn
<1>12. CASE i = a - 1 /\ j < d - 1
  <2>1. row
    BY <1>9, <1>12
  <2>3. j + 1 < d
    BY <1>1, <1>12
  <2>2. x = f.x + 0 /\ y = f.y + (v + side) /\ ~(y >= MaxY(f))
        /\ MaxX(f) - x = f.w - 0 /\ MaxY(f) - y = f.h - (v + side)
    BY <1>18, <1>21, <2>1, <2>3, Zenon DEF NextAt
  <2>5. next = TilePlace(f, side, 0, j + 1)
    BY <1>15, <1>20, <2>2, Zenon DEF TilePlace
  <2>6. k < a * d /\ k % a = 0 /\ k \div a = j + 1
    BY <1>7, <1>12
  <2>7. k \in 1 .. Len(T) - 1 /\ k # Len(T)
    BY <1>1, <2>6
  <2>8. T[k + 1] = next
    BY <1>19, <2>5, <2>6, <2>7, Zenon
  <2>9. [c EXCEPT !.tile = next] = C(f, next, b, g, m, n, r, px)
    BY SetTileIs
  <2> HIDE DEF c
  <2>10. NextTile(c) = C(f, next, b, g, m, n, Wait("setSubEncoding", 1), px)
    <3>1. NextTile(c) = SetReader([c EXCEPT !.tile = next], "setSubEncoding", 1)
      BY <1>6, <2>2, Zenon
    <3> QED BY <2>9, <3>1, SetReaderTo
  <2> QED BY <2>7, <2>8, <2>10 DEF c, q, T, TileDrawn
<1>13. CASE i = a - 1 /\ j = d - 1
  <2>1. row
    BY <1>9, <1>13
  <2>2. ~(j + 1 < d)
    BY <1>1, <1>13
  <2>3. y >= MaxY(f)
    BY <1>18, <1>21, <2>1, <2>2, Zenon DEF NextAt
  <2>4. k = Len(T)
    BY <1>1, <1>7, <1>13
  <2>5. NextTile(c) = DidRect(c)
    BY <1>6, <2>3
  <2> QED BY <2>4, <2>5, SetReaderTo DEF T, q, TileDrawn
<1>14. i < a - 1 \/ (i = a - 1 /\ j < d - 1) \/ (i = a - 1 /\ j = d - 1)
  BY <1>1
<1> QED BY <1>11, <1>12, <1>13, <1>14

\* What is left to send after a tile
Sent(t, back, fore) ==
    IF Len(t.tiles) = 1 THEN Nothing
    ELSE [t EXCEPT !.tiles = Tail(@), !.back = back, !.fore = fore]

\* The server is about to send the k-th tile of f.
Sending(t, f, k) ==
    /\ k \in 1 .. Len(Tiles(f))
    /\ t.tiles = SubSeq(Tiles(f), k, Len(Tiles(f)))
    /\ t = [tiles |-> t.tiles, back |-> t.back, fore |-> t.fore]

LEMMA SentIs ==
    ASSUME NEW f \in Inside, NEW t, NEW k, Sending(t, f, k), NEW back, NEW fore
    PROVE  /\ k = Len(Tiles(f)) => Sent(t, back, fore) = Nothing
           /\ k # Len(Tiles(f)) =>
                 Sent(t, back, fore) = [tiles |-> SubSeq(Tiles(f), k + 1, Len(Tiles(f))),
                                        back |-> back, fore |-> fore]
           /\ Head(t.tiles) = Tiles(f)[k] /\ t.tiles # <<>>
<1> DEFINE T == Tiles(f)
           n == Len(T)
           rest == SubSeq(T, k + 1, n)
           S == [tiles : {t.tiles, rest}, back : {t.back, back}, fore : {t.fore, fore}]
           e == [t EXCEPT !.tiles = Tail(t.tiles), !.back = back, !.fore = fore]
<1>1. T \in Seq(Inside) /\ n \in Nat \ {0} /\ k \in 1 .. n
  BY TilesAre DEF Sending
<1>2. t.tiles = SubSeq(T, k, n) /\ t = [tiles |-> t.tiles, back |-> t.back, fore |-> t.fore]
  BY DEF Sending
<1> HIDE DEF T, n
<1>3. /\ Head(t.tiles) = T[k] /\ Tail(t.tiles) = rest
      /\ Len(t.tiles) = n - k + 1
  <2>1. n \in k .. n /\ n \in 1 .. n /\ n = Len(T) /\ k \in Int /\ n \in Int /\ k <= n
    BY <1>1 DEF n
  <2>2. \A i \in k .. n : T[i] \in Inside
    <3>1. \A i \in k .. n : i \in 1 .. Len(T)
      BY <1>1, <2>1
    <3> QED BY <1>1, <3>1, ElementOfSeq
  <2>3. Head(SubSeq(T, k, n)) = T[k] /\ Tail(SubSeq(T, k, n)) = SubSeq(T, k + 1, n)
    BY <1>1, <2>1, HeadTailOfSubSeq
  <2>4. Len(SubSeq(T, k, n)) = IF k <= n THEN n - k + 1 ELSE 0
    BY <2>1, <2>2, SubSeqProperties
  <2> QED BY <1>2, <2>1, <2>3, <2>4
<1>4. Len(t.tiles) = 1 <=> k = n
  BY <1>1, <1>3
<1>5. t.tiles # <<>>
  <2>1. Len(t.tiles) # 0
    BY <1>1, <1>3
  <2> QED BY <2>1, EmptySeq
<1>6. e = [tiles |-> rest, back |-> back, fore |-> fore]
  <2>1. t \in S
    BY <1>2
  <2> DEFINE e0 == [t EXCEPT !.tiles = rest, !.back = back, !.fore = fore]
  <2>2. e0 \in S /\ e0.tiles = rest /\ e0.back = back /\ e0.fore = fore
    <3> HIDE DEF rest
    <3> QED BY <2>1
  <2>3. e0 = [tiles |-> e0.tiles, back |-> e0.back, fore |-> e0.fore]
    <3> HIDE DEF e0, rest
    <3> QED BY <2>2
  <2>4. e = e0
    BY <1>3, Zenon
  <2> HIDE DEF e, e0, rest
  <2> QED BY <2>2, <2>3, <2>4
<1>7. Sent(t, back, fore) = IF Len(t.tiles) = 1 THEN Nothing ELSE e
  BY Zenon DEF Sent
<1> HIDE DEF e
<1> QED BY <1>3, <1>4, <1>5, <1>6, <1>7 DEF T, n

\* A colour the server takes for specified is what the client has kept.
Agrees(kept, specified) ==
    specified \in {Unspecified, kept} /\ specified \in Colors \cup {Unspecified}

LEMMA TileWaits ==
    ASSUME NEW f \in Inside, NEW t, NEW k, Sending(t, f, k),
           NEW b \in Colors \cup {0}, NEW g \in Colors \cup {0},
           NEW m \in 0 .. 255, NEW n \in Nat, NEW r, NEW px \in Memory,
           NEW back, NEW fore, Agrees(b, back), Agrees(g, fore)
    PROVE  Waits(NextTile(C(f, Tiles(f)[k], b, g, m, n, r, px)), Seen(px), Sent(t, back, fore))
<1> DEFINE T == Tiles(f)
           last == C(f, T[k], b, g, m, n, Wait("setRect", 5), px)
           next == C(f, T[k + 1], b, g, m, n, Wait("setSubEncoding", 1), px)
           u == Sent(t, back, fore)
<1>1. k \in 1 .. Len(T) /\ Len(T) \in Nat \ {0}
  BY TilesAre DEF Sending
<1>2. f \in Rect
  BY InsideIsRect
<1>3. NextTile(C(f, T[k], b, g, m, n, r, px)) = IF k = Len(T) THEN last ELSE next
  <2>1. NextTile(C(f, T[k], b, g, m, n, r, px)) = TileDrawn(f, k, b, g, m, n, px)
    BY <1>1, NextTileIs
  <2> QED BY <2>1, Zenon DEF TileDrawn
<1>4. CASE k = Len(T)
  <2>1. u = Nothing
    BY <1>4, SentIs
  <2>2. T[k] \in Rect
    BY <1>1, TilesAre, InsideIsRect
  <2> HIDE DEF T, u
  <2>3. Waits(last, Seen(px), Nothing)
    BY <1>2, <2>2, IdleWaits
  <2> HIDE DEF last
  <2> QED BY <1>3, <1>4, <2>1, <2>3 DEF T, u
<1>5. CASE k # Len(T)
  <2>1. u = [tiles |-> SubSeq(T, k + 1, Len(T)), back |-> back, fore |-> fore]
    BY <1>5, SentIs
  <2>2. k + 1 \in 1 .. Len(T)
    BY <1>1, <1>5
  <2>3. T[k + 1] \in Rect
    BY <2>2, TilesAre, InsideIsRect
  <2> HIDE DEF T, u
  <2>4. next \in Client
    <3>1. "setSubEncoding" \in Actions /\ 1 \in Nat
      BY DEF Actions
    <3> QED BY <1>2, <2>3, <3>1, ClientOf
  <2>5. /\ next.frame = f /\ next.tile = T[k + 1] /\ next.back = b /\ next.fore = g
        /\ next.reader = Wait("setSubEncoding", 1) /\ next.pixels = px /\ ~next.stopped
    BY FieldsOf
  <2>6. u.tiles = SubSeq(T, k + 1, Len(T)) /\ u.back = back /\ u.fore = fore
        /\ u = [tiles |-> u.tiles, back |-> u.back, fore |-> u.fore]
    BY <2>1
  <2> HIDE DEF next
  <2>7. ForTile(next, u)
    BY <2>2, <2>5, <2>6, Zenon DEF ForTile, Agrees, T, Tiles
  <2>8. Waits(next, Seen(px), u)
    BY <2>4, <2>5, <2>7, Zenon DEF Waits
  <2> QED BY <1>3, <1>5, <2>8 DEF T, u
<1> QED BY <1>4, <1>5

LEMMA ConcatThree ==
    ASSUME NEW a \in Numbers, NEW b \in Numbers, NEW d \in Numbers
    PROVE  LET w == (a \o b) \o d
           IN  /\ w \in Numbers /\ Len(w) = Len(a) + Len(b) + Len(d)
               /\ \A i \in 1 .. Len(a) : w[i] = a[i]
               /\ \A i \in 1 .. Len(b) : w[Len(a) + i] = b[i]
               /\ \A i \in 1 .. Len(d) : w[Len(a) + Len(b) + i] = d[i]
<1> DEFINE n == Len(a)
           m == Len(b)
           k == Len(d)
           ab == a \o b
           w == ab \o d
<1>1. n \in Nat /\ m \in Nat /\ k \in Nat
  BY LenProperties DEF Numbers
<1>2. ab \in Numbers /\ Len(ab) = n + m
      /\ \A i \in 1 .. n + m : ab[i] = IF i <= n THEN a[i] ELSE b[i - n]
  BY ConcatProperties DEF Numbers
<1> HIDE DEF ab
<1>3. w \in Numbers /\ Len(w) = Len(ab) + k
      /\ \A i \in 1 .. Len(ab) + k : w[i] = IF i <= Len(ab) THEN ab[i] ELSE d[i - Len(ab)]
  <2>1. ab \in Numbers
    BY <1>2
  <2>2. /\ w \in Numbers /\ Len(w) = Len(ab) + Len(d)
        /\ \A i \in 1 .. Len(ab) + Len(d) : w[i] = IF i <= Len(ab) THEN ab[i] ELSE d[i - Len(ab)]
    BY <2>1, ConcatProperties, Zenon DEF Numbers
  <2> QED BY <2>2
<1> HIDE DEF w, n, m, k
<1>4. ASSUME NEW i \in 1 .. n PROVE w[i] = a[i]
  <2>1. i \in 1 .. n + m /\ i \in 1 .. n + m + k /\ i <= n + m /\ i <= n
    BY <1>1
  <2> QED BY <1>2, <1>3, <2>1
<1>5. ASSUME NEW i \in 1 .. m PROVE w[n + i] = b[i]
  <2> DEFINE j == n + i
  <2>1. j \in 1 .. n + m /\ j \in 1 .. n + m + k /\ j <= n + m /\ ~(j <= n) /\ j - n = i
    BY <1>1
  <2> HIDE DEF j
  <2>2. w[j] = ab[j] /\ ab[j] = b[j - n]
    BY <1>2, <1>3, <2>1
  <2> QED BY <2>1, <2>2 DEF j
<1>6. ASSUME NEW i \in 1 .. k PROVE w[n + m + i] = d[i]
  <2> DEFINE j == n + m + i
  <2>1. j \in 1 .. n + m + k /\ ~(j <= n + m) /\ j - (n + m) = i
    BY <1>1
  <2> HIDE DEF j
  <2>2. w[j] = d[j - (n + m)]
    BY <1>2, <1>3, <2>1
  <2> QED BY <2>1, <2>2 DEF j
<1>7. Len(w) = n + m + k
  BY <1>2, <1>3
<1> QED BY <1>3, <1>4, <1>5, <1>6, <1>7 DEF n, m, k, w, ab

\* The bits of a tile that is not raw, and the colours and the number that follow.
Mask(bs, fs, any, col) ==
    Flag(bs, HexBackground) + Flag(fs, HexForeground)
        + Flag(any, HexAnySubrects) + Flag(col, HexColoured)

Opt(given, a) == IF given THEN <<a>> ELSE <<>>

LEMMA MaskIs ==
    ASSUME NEW bs \in BOOLEAN, NEW fs \in BOOLEAN, NEW any \in BOOLEAN, NEW col \in BOOLEAN
    PROVE  /\ Mask(bs, fs, any, col) \in 0 .. 255
           /\ ~Bit(Mask(bs, fs, any, col), HexRaw)
           /\ IF bs THEN Bit(Mask(bs, fs, any, col), HexBackground)
                    ELSE ~Bit(Mask(bs, fs, any, col), HexBackground)
           /\ IF fs THEN Bit(Mask(bs, fs, any, col), HexForeground)
                    ELSE ~Bit(Mask(bs, fs, any, col), HexForeground)
           /\ IF any THEN Bit(Mask(bs, fs, any, col), HexAnySubrects)
                     ELSE ~Bit(Mask(bs, fs, any, col), HexAnySubrects)
           /\ IF col THEN Bit(Mask(bs, fs, any, col), HexColoured)
                     ELSE ~Bit(Mask(bs, fs, any, col), HexColoured)
<1> DEFINE e == Mask(bs, fs, any, col)
<1>1. e = (IF bs THEN 2 ELSE 0) + (IF fs THEN 4 ELSE 0) + (IF any THEN 8 ELSE 0) + (IF col THEN 16 ELSE 0)
  BY DEF Mask, Flag, HexBackground, HexForeground, HexAnySubrects, HexColoured
<1>2. /\ e \in 0 .. 255 /\ (e \div 1) % 2 = 0
      /\ (e \div 2) % 2 = (IF bs THEN 1 ELSE 0) /\ (e \div 4) % 2 = (IF fs THEN 1 ELSE 0)
      /\ (e \div 8) % 2 = (IF any THEN 1 ELSE 0) /\ (e \div 16) % 2 = (IF col THEN 1 ELSE 0)
  <2> HIDE DEF e
  <2>1. CASE bs
    <3>1. CASE fs
      BY <1>1, <2>1, <3>1
    <3>2. CASE ~fs
      BY <1>1, <2>1, <3>2
    <3> QED BY <3>1, <3>2
  <2>2. CASE ~bs
    <3>1. CASE fs
      BY <1>1, <2>2, <3>1
    <3>2. CASE ~fs
      BY <1>1, <2>2, <3>2
    <3> QED BY <3>1, <3>2
  <2> QED BY <2>1, <2>2
<1> HIDE DEF e
<1>3. /\ ~Bit(e, 1) /\ (Bit(e, 2) <=> bs) /\ (Bit(e, 4) <=> fs)
      /\ (Bit(e, 8) <=> any) /\ (Bit(e, 16) <=> col)
  BY <1>2 DEF Bit
<1> QED
  BY <1>2, <1>3 DEF e, HexRaw, HexBackground, HexForeground, HexAnySubrects, HexColoured

LEMMA OptIs ==
    ASSUME NEW given \in BOOLEAN, NEW a, given => a \in Nat
    PROVE  /\ Opt(given, a) \in Numbers /\ Len(Opt(given, a)) = Flag(given, 1)
           /\ (given => Opt(given, a)[1] = a)
<1>1. CASE given
  BY <1>1, OneIs DEF Opt, Flag
<1>2. CASE ~given
  <2>1. <<>> \in Numbers /\ Len(<<>>) = 0
    BY EmptySeq DEF Numbers
  <2> QED BY <1>2, <2>1 DEF Opt, Flag
<1> QED BY <1>1, <1>2

TileHead(bs, bk, fs, fo, any, cnt) == (Opt(bs, bk) \o Opt(fs, fo)) \o Opt(any, cnt)

LEMMA TileHeadIs ==
    ASSUME NEW bs \in BOOLEAN, NEW fs \in BOOLEAN, NEW any \in BOOLEAN, NEW bk, NEW fo, NEW cnt,
           bs => bk \in Nat, fs => fo \in Nat, any => cnt \in Nat
    PROVE  LET d == TileHead(bs, bk, fs, fo, any, cnt)
               x == Flag(bs, 1)
               y == Flag(fs, 1)
           IN  /\ d \in Numbers /\ Len(d) = x + y + Flag(any, 1)
               /\ (bs => d[1] = bk)
               /\ (fs => d[x + 1] = fo)
               /\ (any => d[x + y + 1] = cnt)
<1> DEFINE a == Opt(bs, bk)
           b == Opt(fs, fo)
           c == Opt(any, cnt)
           d == (a \o b) \o c
<1>1. a \in Numbers /\ Len(a) = Flag(bs, 1) /\ (bs => a[1] = bk)
  BY OptIs
<1>2. b \in Numbers /\ Len(b) = Flag(fs, 1) /\ (fs => b[1] = fo)
  BY OptIs
<1>3. c \in Numbers /\ Len(c) = Flag(any, 1) /\ (any => c[1] = cnt)
  BY OptIs
<1>4. /\ d \in Numbers /\ Len(d) = Len(a) + Len(b) + Len(c)
      /\ \A i \in 1 .. Len(a) : d[i] = a[i]
      /\ \A i \in 1 .. Len(b) : d[Len(a) + i] = b[i]
      /\ \A i \in 1 .. Len(c) : d[Len(a) + Len(b) + i] = c[i]
  <2> HIDE DEF a, b, c
  <2> QED BY <1>1, <1>2, <1>3, ConcatThree, Zenon
<1> HIDE DEF a, b, c, d
<1>5. Len(a) \in Nat /\ Len(b) \in Nat /\ Len(c) \in Nat
  BY <1>1, <1>2, <1>3, LenProperties DEF Numbers
<1>6. bs => d[1] = bk
  <2>1. bs => Len(a) = 1
    BY <1>1 DEF Flag
  <2>2. 1 \in 1 .. 1
    OBVIOUS
  <2> QED BY <1>1, <1>4, <2>1, <2>2
<1>7. fs => d[Len(a) + 1] = fo
  <2>1. fs => Len(b) = 1
    BY <1>2 DEF Flag
  <2>2. 1 \in 1 .. 1
    OBVIOUS
  <2> QED BY <1>2, <1>4, <2>1, <2>2
<1>8. any => d[Len(a) + Len(b) + 1] = cnt
  <2>1. any => Len(c) = 1
    BY <1>3 DEF Flag
  <2>2. 1 \in 1 .. 1
    OBVIOUS
  <2> QED BY <1>3, <1>4, <2>1, <2>2
<1> QED BY <1>1, <1>2, <1>3, <1>4, <1>6, <1>7, <1>8 DEF d, a, b, c, TileHead

\* The bits of a mask
HasBits(e, bs, fs, any, col) ==
    /\ ~Bit(e, HexRaw)
    /\ IF bs THEN Bit(e, HexBackground) ELSE ~Bit(e, HexBackground)
    /\ IF fs THEN Bit(e, HexForeground) ELSE ~Bit(e, HexForeground)
    /\ IF any THEN Bit(e, HexAnySubrects) ELSE ~Bit(e, HexAnySubrects)
    /\ IF col THEN Bit(e, HexColoured) ELSE ~Bit(e, HexColoured)

LEMMA MaskHasBits ==
    \A bs, fs, any, col \in BOOLEAN :
        /\ Mask(bs, fs, any, col) \in 0 .. 255
        /\ HasBits(Mask(bs, fs, any, col), bs, fs, any, col)
<1> TAKE bs, fs, any, col \in BOOLEAN
<1> DEFINE e == Mask(bs, fs, any, col)
<1>1. e \in 0 .. 255
  BY MaskIs
<1>2. ~Bit(e, HexRaw)
  BY MaskIs
<1>3. IF bs THEN Bit(e, HexBackground) ELSE ~Bit(e, HexBackground)
  BY MaskIs
<1>4. IF fs THEN Bit(e, HexForeground) ELSE ~Bit(e, HexForeground)
  BY MaskIs
<1>5. IF any THEN Bit(e, HexAnySubrects) ELSE ~Bit(e, HexAnySubrects)
  BY MaskIs
<1>6. IF col THEN Bit(e, HexColoured) ELSE ~Bit(e, HexColoured)
  BY MaskIs
<1> HIDE DEF e
<1>7. HasBits(e, bs, fs, any, col)
  BY <1>2, <1>3, <1>4, <1>5, <1>6, Zenon DEF HasBits
<1> QED BY <1>1, <1>7 DEF e

Fields(bs, fs, any) == Flag(bs, 1) + Flag(fs, 1) + Flag(any, 1)

Encoded(c, next, bs, fs, any) ==
    IF Fields(bs, fs, any) = 0 THEN NextTile(next)
    ELSE SetReader(next, "setTileHeader", Fields(bs, fs, any))

LEMMA SetSubEncodingIs ==
    ASSUME NEW f, NEW q, NEW b, NEW g, NEW m, NEW n, NEW r, NEW px,
           NEW bs \in BOOLEAN, NEW fs \in BOOLEAN, NEW any \in BOOLEAN, NEW col \in BOOLEAN,
           ~(fs /\ col)
    PROVE  LET e == Mask(bs, fs, any, col)
               new == IF bs THEN px ELSE FillRect(px, q, b)
           IN  SetSubEncoding(C(f, q, b, g, m, n, r, px), <<e>>)
                  = Encoded(C(f, q, b, g, m, n, r, px), C(f, q, b, g, e, n, r, new), bs, fs, any)
<1> DEFINE e == Mask(bs, fs, any, col)
           c == C(f, q, b, g, m, n, r, px)
           s == C(f, q, b, g, e, n, r, px)
           now == C(f, q, b, g, e, n, r, IF bs THEN px ELSE FillRect(px, q, b))
<1>1. /\ e \in Nat /\ ~Bit(e, HexRaw)
      /\ (Bit(e, HexBackground) <=> bs) /\ (Bit(e, HexForeground) <=> fs)
      /\ (Bit(e, HexAnySubrects) <=> any) /\ (Bit(e, HexColoured) <=> col)
  <2>1. e \in 0 .. 255 /\ HasBits(e, bs, fs, any, col)
    BY MaskHasBits
  <2> HIDE DEF e
  <2>2. e \in Nat
    BY <2>1
  <2> QED BY <2>1, <2>2, Zenon DEF HasBits
<1>2. c.tile = q /\ c.back = b
  BY FieldsOf
<1> HIDE DEF e
<1>3. [c EXCEPT !.mask = e] = s
  BY SetMaskIs
<1>4. Fill(s, q, b) = C(f, q, b, g, e, n, r, FillRect(px, q, b))
  BY FillIs
<1>5. now = IF bs THEN s ELSE Fill(s, q, b)
  <2>1. CASE bs
    BY <2>1, Zenon
  <2>2. CASE ~bs
    BY <1>4, <2>2, Zenon
  <2> QED BY <2>1, <2>2
<1>6. <<e>>[1] = e
  OBVIOUS
<1> HIDE DEF c, s, now
<1>7. Flag(Bit(e, HexBackground), 1) = Flag(bs, 1) /\ Flag(fs, 1) = Flag(Bit(e, HexForeground), 1)
      /\ Flag(Bit(e, HexAnySubrects), 1) = Flag(any, 1)
  BY <1>1 DEF Flag
<1> DEFINE mask == IF Bit(<<e>>[1], HexForeground) /\ Bit(<<e>>[1], HexColoured)
                   THEN <<e>>[1] - HexColoured ELSE <<e>>[1]
           size == Flag(Bit(mask, HexBackground), 1) + Flag(Bit(<<e>>[1], HexForeground), 1)
                      + Flag(Bit(mask, HexAnySubrects), 1)
           t == LET z == [c EXCEPT !.mask = mask]
                IN  IF Bit(mask, HexBackground) THEN z ELSE Fill(z, c.tile, c.back)
<1>8. SetSubEncoding(c, <<e>>) =
         IF Bit(<<e>>[1], HexRaw)
         THEN SetReader([c EXCEPT !.mask = 0], "drawRawTile", Pixels(c.tile))
         ELSE IF size = 0 THEN NextTile(t) ELSE SetReader(t, "setTileHeader", size)
  BY DEF SetSubEncoding
<1>9. mask = e
  BY <1>1, <1>6, Zenon
<1>10. size = Fields(bs, fs, any)
  <2> HIDE DEF mask
  <2> QED BY <1>6, <1>7, <1>9, Zenon DEF Fields
<1>11. t = now
  <2> HIDE DEF mask
  <2>1. t = IF bs THEN s ELSE Fill(s, q, b)
    BY <1>1, <1>2, <1>3, <1>9
  <2> QED BY <1>5, <2>1
<1> HIDE DEF mask, size, t
<1>12. SetSubEncoding(c, <<e>>) = IF size = 0 THEN NextTile(t) ELSE SetReader(t, "setTileHeader", size)
  BY <1>1, <1>6, <1>8
<1> QED BY <1>10, <1>11, <1>12, Zenon DEF e, c, now, Encoded

\* What a header makes of a client that has filled its tile if the background is
\* the one it kept.
Headed(next, cnt, any, col) ==
    IF ~any THEN NextTile(next)
    ELSE SetReader([next EXCEPT !.count = cnt],
                   IF col THEN "drawSubColorRects" ELSE "drawSubRects",
                   IF col THEN 3 * cnt ELSE 2 * cnt)

Old(q, b, px, bs) == IF bs THEN px ELSE FillRect(px, q, b)

HeaderSet(f, q, b, g, n, r, px, bk, fo, cnt, bs, fs, any, col) ==
    LET e == Mask(bs, fs, any, col)
    IN  SetTileHeader(C(f, q, b, g, e, n, r, Old(q, b, px, bs)), TileHead(bs, bk, fs, fo, any, cnt))
           = Headed(C(f, q, bk, fo, e, n, r, FillRect(px, q, bk)), cnt, any, col)

LEMMA SetTileHeaderIs ==
    ASSUME NEW f, NEW q, NEW b, NEW g, NEW n, NEW r, NEW px, NEW bk \in Nat, NEW fo \in Nat,
           NEW cnt \in Nat,
           NEW bs \in BOOLEAN, NEW fs \in BOOLEAN, NEW any \in BOOLEAN, NEW col \in BOOLEAN,
           bs \/ bk = b, fs \/ fo = g
    PROVE  HeaderSet(f, q, b, g, n, r, px, bk, fo, cnt, bs, fs, any, col)
<1> DEFINE e == Mask(bs, fs, any, col)
           old == Old(q, b, px, bs)
           new == FillRect(px, q, bk)
           c == C(f, q, b, g, e, n, r, old)
           d == TileHead(bs, bk, fs, fo, any, cnt)
           next == C(f, q, bk, fo, e, n, r, new)
<1>1. /\ e \in Nat
      /\ (Bit(e, HexBackground) <=> bs) /\ (Bit(e, HexForeground) <=> fs)
      /\ (Bit(e, HexAnySubrects) <=> any) /\ (Bit(e, HexColoured) <=> col)
  <2>1. e \in 0 .. 255 /\ HasBits(e, bs, fs, any, col)
    BY MaskHasBits
  <2> HIDE DEF e
  <2>2. e \in Nat
    BY <2>1
  <2> QED BY <2>1, <2>2, Zenon DEF HasBits
<1>2. /\ (bs => d[1] = bk) /\ (fs => d[Flag(bs, 1) + 1] = fo)
      /\ (any => d[Flag(bs, 1) + Flag(fs, 1) + 1] = cnt)
  BY TileHeadIs
<1> HIDE DEF e, d
<1>3. c.tile = q /\ c.mask = e
  BY FieldsOf
<1> DEFINE B == Flag(Bit(c.mask, HexBackground), 1)
           F == Flag(Bit(c.mask, HexForeground), 1)
           back == IF B = 1 THEN Fill([c EXCEPT !.back = d[1]], c.tile, d[1]) ELSE c
           now == IF F = 1 THEN [back EXCEPT !.fore = d[B + 1]] ELSE back
<1>4. B = Flag(bs, 1) /\ F = Flag(fs, 1)
  BY <1>1, <1>3 DEF Flag
<1>5. (B = 1 <=> bs) /\ (F = 1 <=> fs)
  BY <1>4 DEF Flag
<1>6. SetTileHeader(c, d) =
         IF ~Bit(c.mask, HexAnySubrects) THEN NextTile(now)
         ELSE SetReader([now EXCEPT !.count = d[B + F + 1]],
                        IF Bit(c.mask, HexColoured) THEN "drawSubColorRects" ELSE "drawSubRects",
                        IF Bit(c.mask, HexColoured) THEN 3 * d[B + F + 1] ELSE 2 * d[B + F + 1])
  <2> HIDE DEF c
  <2> QED BY Zenon DEF SetTileHeader
<1> HIDE DEF B, F
<1>7. back = C(f, q, bk, g, e, n, r, new)
  <2>1. CASE bs
    <3>1. [c EXCEPT !.back = bk] = C(f, q, bk, g, e, n, r, px)
      BY <2>1, SetBackIs DEF Old
    <3>2. Fill(C(f, q, bk, g, e, n, r, px), q, bk) = C(f, q, bk, g, e, n, r, new)
      BY FillIs
    <3> HIDE DEF c, new
    <3> QED BY <1>2, <1>3, <1>5, <2>1, <3>1, <3>2
  <2>2. CASE ~bs
    <3>1. back = c
      BY <1>5, <2>2
    <3> QED BY <2>2, <3>1, Zenon DEF Old
  <2> QED BY <2>1, <2>2
<1> HIDE DEF back
<1>8. now = next
  <2>1. CASE fs
    <3>1. [C(f, q, bk, g, e, n, r, new) EXCEPT !.fore = fo] = next
      BY SetForeIs
    <3> HIDE DEF next, new
    <3>2. d[B + 1] = fo
      BY <1>2, <1>4, <2>1
    <3> QED BY <1>5, <1>7, <2>1, <3>1, <3>2
  <2>2. CASE ~fs
    <3>1. now = back
      BY <1>5, <2>2
    <3> QED BY <1>7, <2>2, <3>1, Zenon
  <2> QED BY <2>1, <2>2
<1> HIDE DEF now
<1>9. any => d[B + F + 1] = cnt
  BY <1>2, <1>4
<1> HIDE DEF c, next
<1>10. SetTileHeader(c, d) = Headed(next, cnt, any, col)
  <2>1. CASE any
    BY <1>1, <1>3, <1>6, <1>8, <1>9, <2>1 DEF Headed
  <2>2. CASE ~any
    BY <1>1, <1>3, <1>6, <1>8, <2>2 DEF Headed
  <2> QED BY <2>1, <2>2
<1> QED BY <1>10, Zenon DEF e, d, c, next, old, HeaderSet

\* The client reads the mask of a tile, and then the colours and the number of
\* subrectangles that the mask says follow.
TileClient(f, q, b, g, m, n, px) == C(f, q, b, g, m, n, Wait("setSubEncoding", 1), px)

SubsClient(f, q, bk, fo, e, cnt, col, px) ==
    C(f, q, bk, fo, e, cnt, Wait(IF col THEN "drawSubColorRects" ELSE "drawSubRects",
                                 IF col THEN 3 * cnt ELSE 2 * cnt), px)

MaskRead(f, q, b, g, m, n, px, bs, fs, any, col) ==
    LET e == Mask(bs, fs, any, col)
        c == TileClient(f, q, b, g, m, n, px)
        old == Old(q, b, px, bs)
    IN  /\ ~c.stopped /\ c.reader.size = 1
        /\ <<e>> \in Numbers /\ Len(<<e>>) = 1 /\ <<e>> # <<>> /\ <<e>> \o <<>> = <<e>>
        /\ Fields(bs, fs, any) \in Nat
        /\ Act(c, <<e>>) =
              IF Fields(bs, fs, any) = 0
              THEN NextTile(C(f, q, b, g, e, n, Wait("setSubEncoding", 1), old))
              ELSE C(f, q, b, g, e, n, Wait("setTileHeader", Fields(bs, fs, any)), old)

LEMMA ReadsMask ==
    ASSUME NEW f, NEW q, NEW b, NEW g, NEW m, NEW n, NEW px,
           NEW bs \in BOOLEAN, NEW fs \in BOOLEAN, NEW any \in BOOLEAN, NEW col \in BOOLEAN,
           ~(fs /\ col)
    PROVE  MaskRead(f, q, b, g, m, n, px, bs, fs, any, col)
<1> DEFINE e == Mask(bs, fs, any, col)
           c == TileClient(f, q, b, g, m, n, px)
           old == Old(q, b, px, bs)
           next == C(f, q, b, g, e, n, Wait("setSubEncoding", 1), old)
<1>1. e \in Nat
  <2>1. e \in 0 .. 255
    BY MaskHasBits
  <2> HIDE DEF e
  <2> QED BY <2>1
<1>2. ~c.stopped /\ c.reader.size = 1 /\ c.reader.action = "setSubEncoding"
  BY FieldsOf, WaitIs DEF TileClient
<1>3. Act(c, <<e>>) = SetSubEncoding(c, <<e>>)
  BY <1>2, ActIs
<1>4. SetSubEncoding(c, <<e>>) = Encoded(c, next, bs, fs, any)
  BY SetSubEncodingIs DEF TileClient, Old
<1>5. SetReader(next, "setTileHeader", Fields(bs, fs, any))
         = C(f, q, b, g, e, n, Wait("setTileHeader", Fields(bs, fs, any)), old)
  BY SetReaderTo
<1>6. Fields(bs, fs, any) \in Nat
  BY DEF Fields, Flag
<1>7. <<e>> \in Numbers /\ Len(<<e>>) = 1 /\ <<e>> # <<>> /\ <<e>> \o <<>> = <<e>>
  <2> HIDE DEF e
  <2> QED BY <1>1, OneIs
<1> HIDE DEF e, c, next, old
<1>8. Encoded(c, next, bs, fs, any) =
         IF Fields(bs, fs, any) = 0 THEN NextTile(next)
         ELSE SetReader(next, "setTileHeader", Fields(bs, fs, any))
  BY Zenon DEF Encoded
<1> QED BY <1>2, <1>3, <1>4, <1>5, <1>6, <1>7, <1>8, Zenon DEF e, c, old, next, MaskRead

HeadRead(f, q, b, g, n, px, bk, fo, cnt, bs, fs, any, col) ==
    LET e == Mask(bs, fs, any, col)
        old == Old(q, b, px, bs)
        c == C(f, q, b, g, e, n, Wait("setTileHeader", Fields(bs, fs, any)), old)
        d == TileHead(bs, bk, fs, fo, any, cnt)
    IN  /\ ~c.stopped /\ c.reader.size = Len(d) /\ d \in Numbers /\ d # <<>>
        /\ Act(c, d) =
              IF ~any
              THEN NextTile(C(f, q, bk, fo, e, n, Wait("setTileHeader", Fields(bs, fs, any)),
                              FillRect(px, q, bk)))
              ELSE SubsClient(f, q, bk, fo, e, cnt, col, FillRect(px, q, bk))

HeadLong(bs, bk, fs, fo, any, cnt) ==
    /\ TileHead(bs, bk, fs, fo, any, cnt) \in Numbers
    /\ Len(TileHead(bs, bk, fs, fo, any, cnt)) = Fields(bs, fs, any)

LEMMA HeadIsLong ==
    ASSUME NEW bs \in BOOLEAN, NEW fs \in BOOLEAN, NEW any \in BOOLEAN, NEW bk, NEW fo, NEW cnt,
           bs => bk \in Nat, fs => fo \in Nat, any => cnt \in Nat
    PROVE  HeadLong(bs, bk, fs, fo, any, cnt)
<1>1. TileHead(bs, bk, fs, fo, any, cnt) \in Numbers
  BY TileHeadIs
<1>2. Len(TileHead(bs, bk, fs, fo, any, cnt)) = Flag(bs, 1) + Flag(fs, 1) + Flag(any, 1)
  BY TileHeadIs
<1> QED BY <1>1, <1>2, Zenon DEF HeadLong, Fields

LEMMA ReadsTileHead ==
    ASSUME NEW f, NEW q, NEW b, NEW g, NEW n, NEW px, NEW bk \in Nat, NEW fo \in Nat, NEW cnt \in Nat,
           NEW bs \in BOOLEAN, NEW fs \in BOOLEAN, NEW any \in BOOLEAN, NEW col \in BOOLEAN,
           bs \/ bk = b, fs \/ fo = g, Fields(bs, fs, any) # 0
    PROVE  HeadRead(f, q, b, g, n, px, bk, fo, cnt, bs, fs, any, col)
<1> DEFINE e == Mask(bs, fs, any, col)
           old == Old(q, b, px, bs)
           r == Wait("setTileHeader", Fields(bs, fs, any))
           c == C(f, q, b, g, e, n, r, old)
           d == TileHead(bs, bk, fs, fo, any, cnt)
           next == C(f, q, bk, fo, e, n, r, FillRect(px, q, bk))
           end == SubsClient(f, q, bk, fo, e, cnt, col, FillRect(px, q, bk))
<1>1. ~c.stopped /\ c.reader.size = Fields(bs, fs, any) /\ c.reader.action = "setTileHeader"
  BY FieldsOf, WaitIs
<1>2. d \in Numbers /\ Len(d) = Fields(bs, fs, any)
  <2>1. HeadLong(bs, bk, fs, fo, any, cnt)
    BY HeadIsLong
  <2> QED BY <2>1, Zenon DEF HeadLong
<1>3. Act(c, d) = SetTileHeader(c, d)
  BY <1>1, ActIs
<1>4. SetTileHeader(c, d) = Headed(next, cnt, any, col)
  <2>1. HeaderSet(f, q, b, g, n, r, px, bk, fo, cnt, bs, fs, any, col)
    <3> HIDE DEF r
    <3> QED BY SetTileHeaderIs
  <2> QED BY <2>1, Zenon DEF HeaderSet
<1>5. d # <<>>
  <2> HIDE DEF d
  <2> QED BY <1>2, EmptySeq
<1>6. [next EXCEPT !.count = cnt] = C(f, q, bk, fo, e, cnt, r, FillRect(px, q, bk))
  BY SetCountIs
<1>7. SetReader([next EXCEPT !.count = cnt],
                IF col THEN "drawSubColorRects" ELSE "drawSubRects",
                IF col THEN 3 * cnt ELSE 2 * cnt) = end
  <2> DEFINE new == FillRect(px, q, bk)
  <2> HIDE DEF e, r, next, new
  <2> QED BY <1>6, SetReaderTo DEF SubsClient, new
<1> HIDE DEF e, c, next, old, end, d
<1>8. Headed(next, cnt, any, col) = IF ~any THEN NextTile(next) ELSE end
  BY <1>7, Zenon DEF Headed
<1> QED BY <1>1, <1>2, <1>3, <1>4, <1>5, <1>8, Zenon DEF e, c, next, old, end, d, HeadRead

LEMMA PlainHead ==
    ASSUME NEW f, NEW q, NEW b, NEW g, NEW m, NEW n, NEW px, NEW bk \in Nat, NEW fo \in Nat,
           NEW bs \in BOOLEAN, NEW fs \in BOOLEAN, bs \/ bk = b, fs \/ fo = g, NEW s, NEW t,
           \A r : Waits(NextTile(C(f, q, bk, fo, Mask(bs, fs, FALSE, FALSE), n, r,
                                   FillRect(px, q, bk))), s, t)
    PROVE  After4(TileClient(f, q, b, g, m, n, px),
                  <<Mask(bs, fs, FALSE, FALSE)>> \o TileHead(bs, bk, fs, fo, FALSE, 0), s, t)
<1> DEFINE e == Mask(bs, fs, FALSE, FALSE)
           c == TileClient(f, q, b, g, m, n, px)
           old == Old(q, b, px, bs)
           size == Fields(bs, fs, FALSE)
           d == TileHead(bs, bk, fs, fo, FALSE, 0)
           next == C(f, q, b, g, e, n, Wait("setTileHeader", size), old)
<1>1. /\ ~c.stopped /\ c.reader.size = 1
      /\ <<e>> \in Numbers /\ Len(<<e>>) = 1 /\ <<e>> # <<>> /\ <<e>> \o <<>> = <<e>>
      /\ size \in Nat
      /\ Act(c, <<e>>) =
            IF size = 0 THEN NextTile(C(f, q, b, g, e, n, Wait("setSubEncoding", 1), old))
            ELSE next
  <2>1. MaskRead(f, q, b, g, m, n, px, bs, fs, FALSE, FALSE)
    BY ReadsMask
  <2> QED BY <2>1, Zenon DEF MaskRead
<1>2. CASE size = 0
  <2>1. ~bs /\ ~fs
    BY <1>2 DEF Fields, Flag
  <2>2. d = <<>>
    <3>1. d \in Numbers /\ Len(d) = 0
      <4>1. HeadLong(bs, bk, fs, fo, FALSE, 0)
        BY HeadIsLong
      <4> QED BY <1>2, <4>1, Zenon DEF HeadLong
    <3> HIDE DEF d
    <3> QED BY <3>1, EmptySeq DEF Numbers
  <2>3. C(f, q, b, g, e, n, Wait("setSubEncoding", 1), old)
           = C(f, q, bk, fo, e, n, Wait("setSubEncoding", 1), FillRect(px, q, bk))
    BY <2>1, Zenon DEF Old
  <2> HIDE DEF e, old, c, d, next, size
  <2>4. Waits(Act(c, <<e>>), s, t)
    BY <1>1, <1>2, <2>3, Zenon DEF e
  <2>5. After1(c, <<e>>, s, t)
    BY <1>1, <2>4, TakesLast
  <2>6. After4(c, <<e>>, s, t)
    BY <2>5, AfterFewer
  <2> QED BY <1>1, <2>2, <2>6, Zenon DEF e, c, d
<1>3. CASE size # 0
  <2>1. /\ ~next.stopped /\ next.reader.size = Len(d) /\ d \in Numbers /\ d # <<>>
        /\ Act(next, d) = NextTile(C(f, q, bk, fo, e, n, Wait("setTileHeader", size),
                                     FillRect(px, q, bk)))
    <3>1. 0 \in Nat /\ FALSE \in BOOLEAN
      OBVIOUS
    <3>3. ASSUME NEW any \in BOOLEAN, Fields(bs, fs, any) # 0
          PROVE  HeadRead(f, q, b, g, n, px, bk, fo, 0, bs, fs, any, any)
      BY <3>1, <3>3, ReadsTileHead
    <3>4. Fields(bs, fs, FALSE) # 0
      BY <1>3
    <3>2. HeadRead(f, q, b, g, n, px, bk, fo, 0, bs, fs, FALSE, FALSE)
      BY <3>1, <3>3, <3>4, Zenon
    <3> QED BY <3>2, Zenon DEF HeadRead
  <2>2. Waits(Act(next, d), s, t)
    BY <2>1, Zenon
  <2> HIDE DEF e, c, d, next, size
  <2>3. After1(next, d, s, t)
    BY <2>1, <2>2, TakesLast
  <2>4. Act(c, <<e>>) = next
    BY <1>1, <1>3
  <2>5. After2(c, <<e>> \o d, s, t)
    BY <1>1, <2>1, <2>3, <2>4, Takes
  <2>6. After4(c, <<e>> \o d, s, t)
    BY <2>5, AfterFewer
  <2> QED BY <2>6 DEF e, c, d
<1> QED BY <1>2, <1>3

LEMMA SubsHead ==
    ASSUME NEW f, NEW q, NEW b, NEW g, NEW m, NEW n, NEW px, NEW bk \in Nat, NEW fo \in Nat,
           NEW cnt \in Nat, NEW bs \in BOOLEAN, NEW fs \in BOOLEAN, NEW col \in BOOLEAN,
           ~(fs /\ col), bs \/ bk = b, fs \/ fo = g, NEW s, NEW t, NEW w \in Numbers,
           After1(SubsClient(f, q, bk, fo, Mask(bs, fs, TRUE, col), cnt, col, FillRect(px, q, bk)),
                  w, s, t)
    PROVE  After4(TileClient(f, q, b, g, m, n, px),
                  <<Mask(bs, fs, TRUE, col)>> \o (TileHead(bs, bk, fs, fo, TRUE, cnt) \o w), s, t)
<1> DEFINE e == Mask(bs, fs, TRUE, col)
           c == TileClient(f, q, b, g, m, n, px)
           old == Old(q, b, px, bs)
           size == Fields(bs, fs, TRUE)
           d == TileHead(bs, bk, fs, fo, TRUE, cnt)
           next == C(f, q, b, g, e, n, Wait("setTileHeader", size), old)
<1>1. /\ ~c.stopped /\ c.reader.size = 1
      /\ <<e>> \in Numbers /\ Len(<<e>>) = 1 /\ <<e>> # <<>>
      /\ size \in Nat
      /\ Act(c, <<e>>) =
            IF size = 0 THEN NextTile(C(f, q, b, g, e, n, Wait("setSubEncoding", 1), old))
            ELSE next
  <2>1. MaskRead(f, q, b, g, m, n, px, bs, fs, TRUE, col)
    BY ReadsMask
  <2> QED BY <2>1, Zenon DEF MaskRead
<1>2. size # 0
  BY DEF Fields, Flag
<1>3. /\ ~next.stopped /\ next.reader.size = Len(d) /\ d \in Numbers /\ d # <<>>
      /\ Act(next, d) = SubsClient(f, q, bk, fo, e, cnt, col, FillRect(px, q, bk))
  <2>2. ASSUME NEW any \in BOOLEAN, Fields(bs, fs, any) # 0
        PROVE  HeadRead(f, q, b, g, n, px, bk, fo, cnt, bs, fs, any, col)
    BY <2>2, ReadsTileHead
  <2>3. Fields(bs, fs, TRUE) # 0
    BY <1>2
  <2>4. TRUE \in BOOLEAN
    OBVIOUS
  <2>1. HeadRead(f, q, b, g, n, px, bk, fo, cnt, bs, fs, TRUE, col)
    BY <2>2, <2>3, <2>4, Zenon
  <2> QED BY <2>1, Zenon DEF HeadRead
<1>4. Act(c, <<e>>) = next
  BY <1>1, <1>2
<1>5. After1(Act(next, d), w, s, t)
  BY <1>3, Zenon
<1> HIDE DEF e, c, d, next, size
<1>6. After2(next, d \o w, s, t)
  BY <1>3, <1>5, Takes
<1>7. d \o w \in Numbers
  BY <1>3, Split
<1>8. After3(c, <<e>> \o (d \o w), s, t)
  BY <1>1, <1>4, <1>6, <1>7, Takes
<1>9. After4(c, <<e>> \o (d \o w), s, t)
  BY <1>8, AfterFewer
<1> QED BY <1>9 DEF e, c, d

-----------------------------------------------------------------------------
(* The tiles of a Hextile rectangle.                                       *)

\* The client waits for the tile the server is about to send.
AtTile(c, t, k) ==
    /\ c \in Client /\ ~c.stopped /\ c.reader = Wait("setSubEncoding", 1)
    /\ c.frame \in Inside /\ Sending(t, c.frame, k) /\ c.tile = Tiles(c.frame)[k]
    /\ Agrees(c.back, t.back) /\ Agrees(c.fore, t.fore)

LEMMA AtTileIs ==
    ASSUME NEW c, NEW t, NEW k, AtTile(c, t, k)
    PROVE  /\ c = TileClient(c.frame, c.tile, c.back, c.fore, c.mask, c.count, c.pixels)
           /\ c.frame \in Inside /\ c.tile \in Inside /\ c.tile.w <= 16 /\ c.tile.h <= 16
           /\ c.back \in Colors \cup {0} /\ c.fore \in Colors \cup {0}
           /\ c.back \in Nat /\ c.fore \in Nat
           /\ c.mask \in 0 .. 255 /\ c.count \in Nat /\ c.pixels \in Memory
           /\ c.tile = Head(t.tiles)
<1>1. c \in Client /\ ~c.stopped /\ c.reader = Wait("setSubEncoding", 1) /\ c.frame \in Inside
      /\ Sending(t, c.frame, k) /\ c.tile = Tiles(c.frame)[k]
  BY Zenon DEF AtTile
<1>2. c = C(c.frame, c.tile, c.back, c.fore, c.mask, c.count, c.reader, c.pixels)
  BY <1>1, ClientIs
<1>3. /\ c.back \in Colors \cup {0} /\ c.fore \in Colors \cup {0}
      /\ c.mask \in 0 .. 255 /\ c.count \in Nat /\ c.pixels \in Memory
  BY <1>1 DEF Client
<1>4. c.back \in Nat /\ c.fore \in Nat
  <2>1. \A v \in Colors \cup {0} : v \in Nat
    BY FrameBufferAssumption
  <2> QED BY <1>3, <2>1, Zenon
<1>5. k \in 1 .. Len(Tiles(c.frame))
  BY <1>1 DEF Sending
<1>6. c.tile \in Inside /\ c.tile.w <= 16 /\ c.tile.h <= 16
  BY <1>1, <1>5, TilesAre
<1>7. c.tile = Head(t.tiles)
  BY <1>1, SentIs
<1> QED BY <1>1, <1>2, <1>3, <1>4, <1>6, <1>7, Zenon DEF TileClient

LEMMA DrawnTileWaits ==
    ASSUME NEW c, NEW t, NEW k, AtTile(c, t, k),
           NEW b \in Colors \cup {0}, NEW g \in Colors \cup {0},
           NEW m \in 0 .. 255, NEW n \in Nat, NEW px \in Memory, NEW s, Seen(px) = s,
           NEW back, NEW fore, Agrees(b, back), Agrees(g, fore)
    PROVE  \A r : Waits(NextTile(C(c.frame, c.tile, b, g, m, n, r, px)), s, Sent(t, back, fore))
<1>1. c.frame \in Inside /\ Sending(t, c.frame, k) /\ c.tile = Tiles(c.frame)[k]
  BY Zenon DEF AtTile
<1> QED BY <1>1, TileWaits

LEMMA RawTileIs ==
    ASSUME NEW c, NEW t, NEW k, AtTile(c, t, k), NEW data \in Contents(Head(t.tiles))
    PROVE  After4(c, <<HexRaw>> \o data, Put(Seen(c.pixels), Head(t.tiles), data),
                  Sent(t, t.back, t.fore))
<1> DEFINE f == c.frame
           q == c.tile
           b == c.back
           g == c.fore
           m == c.mask
           n == c.count
           px == c.pixels
           new == PutRect(px, q, data)
           next == C(f, q, b, g, 0, n, Wait("drawRawTile", Pixels(q)), px)
           s == Put(Seen(px), q, data)
           u == Sent(t, t.back, t.fore)
<1>1. /\ c = TileClient(f, q, b, g, m, n, px)
      /\ f \in Inside /\ q \in Inside
      /\ b \in Colors \cup {0} /\ g \in Colors \cup {0}
      /\ m \in 0 .. 255 /\ n \in Nat /\ px \in Memory /\ q = Head(t.tiles)
  BY AtTileIs
<1>2. data \in [1 .. Pixels(q) -> Colors] /\ Pixels(q) \in Nat \ {0}
  BY <1>1, InsideIsRect DEF Contents
<1>3. Agrees(b, t.back) /\ Agrees(g, t.fore)
  BY Zenon DEF AtTile
<1>4. new \in Memory /\ Seen(new) = s
  BY <1>1, <1>2, PutRectIs
<1>5. data \in Numbers /\ Len(data) = Pixels(q) /\ data # <<>>
  BY <1>2, DataIs
<1> HIDE DEF new, s, u
<1>6. 0 \in 0 .. 255
  OBVIOUS
<1> HIDE DEF f, q, b, g, m, n, px
<1>7. \A r : Waits(NextTile(C(f, q, b, g, 0, n, r, new)), s, u)
  BY <1>1, <1>3, <1>4, <1>6, DrawnTileWaits DEF u, f, q
<1>8. /\ ~c.stopped /\ c.reader.size = 1 /\ c.reader.action = "setSubEncoding"
      /\ c.tile = q
  BY <1>1, FieldsOf, WaitIs DEF TileClient
<1>9. Act(c, <<HexRaw>>) = next
  <2>1. <<HexRaw>>[1] = HexRaw /\ Bit(HexRaw, HexRaw)
    BY DEF Bit, HexRaw
  <2>2. [c EXCEPT !.mask = 0] = C(f, q, b, g, 0, n, Wait("setSubEncoding", 1), px)
    BY <1>1, SetMaskIs DEF TileClient
  <2>3. Act(c, <<HexRaw>>) = SetSubEncoding(c, <<HexRaw>>)
    BY <1>8, ActIs
  <2>4. SetSubEncoding(c, <<HexRaw>>) = SetReader([c EXCEPT !.mask = 0], "drawRawTile", Pixels(c.tile))
    BY <2>1, Zenon DEF SetSubEncoding
  <2> QED BY <1>8, <2>2, <2>3, <2>4, SetReaderTo
<1>10. /\ ~next.stopped /\ next.reader.size = Pixels(q)
       /\ Act(next, data) = NextTile(C(f, q, b, g, 0, n, Wait("drawRawTile", Pixels(q)), new))
  <2>1. /\ ~next.stopped /\ next.reader.size = Pixels(q) /\ next.reader.action = "drawRawTile"
        /\ next.tile = q /\ next.pixels = px
    BY FieldsOf, WaitIs
  <2>2. [next EXCEPT !.pixels = new] = C(f, q, b, g, 0, n, Wait("drawRawTile", Pixels(q)), new)
    BY SetPixelsIs
  <2>3. Act(next, data) = DrawRawTile(next, data)
    BY <2>1, ActIs
  <2> HIDE DEF next
  <2>4. DrawRawTile(next, data) = NextTile([next EXCEPT !.pixels = new])
    BY <2>1, Zenon DEF DrawRawTile, new
  <2> QED BY <2>1, <2>2, <2>3, <2>4
<1>11. Waits(Act(next, data), s, u)
  BY <1>7, <1>10, Zenon
<1> HIDE DEF next
<1>12. After1(next, data, s, u)
  BY <1>5, <1>10, <1>11, TakesLast
<1>13. <<HexRaw>> \in Numbers /\ Len(<<HexRaw>>) = 1 /\ <<HexRaw>> # <<>>
  <2>1. HexRaw \in Nat
    BY DEF HexRaw
  <2> QED BY <2>1, OneIs
<1>14. After2(c, <<HexRaw>> \o data, s, u)
  BY <1>5, <1>8, <1>9, <1>12, <1>13, Takes
<1> QED BY <1>1, <1>14, AfterFewer DEF s, u, q, px

\* A colour the server specifies, or does not because it is the same
LEMMA SpecifiesIs ==
    ASSUME NEW kept, NEW old, Agrees(kept, old), NEW p \in Specifies(old)
    PROVE  /\ p[2] \in BOOLEAN /\ p[1] \in Colors /\ p[1] \in Nat
           /\ (p[2] \/ p[1] = kept)
           /\ Given(p) = Opt(p[2], p[1]) /\ Agrees(p[1], p[1])
<1>1. (\E a \in Colors : p = <<a, TRUE>>) \/ (old # Unspecified /\ p = <<old, FALSE>>)
  BY DEF Specifies
<1>2. old = Unspecified \/ (old = kept /\ old \in Colors)
  BY DEF Agrees
<1>3. p[2] \in BOOLEAN /\ p[1] \in Colors /\ (p[2] \/ p[1] = kept)
  <2>1. CASE \E a \in Colors : p = <<a, TRUE>>
    BY <2>1
  <2>2. CASE old # Unspecified /\ p = <<old, FALSE>>
    BY <1>2, <2>2
  <2> QED BY <1>1, <2>1, <2>2
<1>4. p[1] \in Nat
  BY <1>3, FrameBufferAssumption
<1>5. Given(p) = Opt(p[2], p[1])
  BY Zenon DEF Given, Opt
<1>6. Agrees(p[1], p[1])
  BY <1>3, Zenon DEF Agrees
<1> QED BY <1>3, <1>4, <1>5, <1>6

LEMMA PlainTileIs ==
    ASSUME NEW c, NEW t, NEW k, AtTile(c, t, k),
           NEW back \in Specifies(t.back), NEW fore \in Specifies(t.fore)
    PROVE  After4(c, <<Flag(back[2], HexBackground) + Flag(fore[2], HexForeground)>>
                        \o Given(back) \o Given(fore),
                  Painted(Seen(c.pixels), Head(t.tiles), back[1]),
                  Sent(t, back[1], fore[1]))
<1> DEFINE f == c.frame
           q == c.tile
           px == c.pixels
           bk == back[1]
           bs == back[2]
           fo == fore[1]
           fs == fore[2]
           new == FillRect(px, q, bk)
           s == Painted(Seen(px), q, bk)
           u == Sent(t, bk, fo)
           e == Mask(bs, fs, FALSE, FALSE)
           old == Flag(bs, HexBackground) + Flag(fs, HexForeground)
<1>1. /\ c = TileClient(f, q, c.back, c.fore, c.mask, c.count, px)
      /\ f \in Inside /\ q \in Inside
      /\ c.count \in Nat /\ px \in Memory /\ q = Head(t.tiles)
  BY AtTileIs
<1>2. Agrees(c.back, t.back) /\ Agrees(c.fore, t.fore)
  BY Zenon DEF AtTile
<1>3. /\ bs \in BOOLEAN /\ bk \in Colors /\ bk \in Nat /\ (bs \/ bk = c.back)
      /\ Given(back) = Opt(bs, bk) /\ Agrees(bk, bk)
  BY <1>2, SpecifiesIs
<1>4. /\ fs \in BOOLEAN /\ fo \in Colors /\ fo \in Nat /\ (fs \/ fo = c.fore)
      /\ Given(fore) = Opt(fs, fo) /\ Agrees(fo, fo)
  BY <1>2, SpecifiesIs
<1>5. new \in Memory /\ Seen(new) = s
  BY <1>1, <1>3, FillRectIs
<1> HIDE DEF f, q, px, bk, bs, fo, fs, new, s, u
<1>6. e \in 0 .. 255 /\ e = old
  <2>4. ASSUME NEW any \in BOOLEAN PROVE Mask(bs, fs, any, any) \in 0 .. 255
    BY <1>3, <1>4, MaskHasBits
  <2>5. FALSE \in BOOLEAN
    OBVIOUS
  <2>1. e \in 0 .. 255
    BY <2>4, <2>5, Zenon
  <2>2. Flag(bs, HexBackground) \in Nat /\ Flag(fs, HexForeground) \in Nat
    BY DEF Flag, HexBackground, HexForeground
  <2>3. e = Flag(bs, HexBackground) + Flag(fs, HexForeground) + 0 + 0
    BY DEF Mask, Flag
  <2> HIDE DEF e
  <2> QED BY <2>1, <2>2, <2>3
<1>7. bk \in Colors \cup {0} /\ fo \in Colors \cup {0}
  BY <1>3, <1>4
<1>8. \A r : Waits(NextTile(C(f, q, bk, fo, e, c.count, r, new)), s, u)
  <2> HIDE DEF e
  <2> QED BY <1>1, <1>3, <1>4, <1>5, <1>6, <1>7, DrawnTileWaits DEF u, f, q
<1>9. After4(c, <<e>> \o TileHead(bs, bk, fs, fo, FALSE, 0), s, u)
  <2>1. After4(TileClient(f, q, c.back, c.fore, c.mask, c.count, px),
               <<e>> \o TileHead(bs, bk, fs, fo, FALSE, 0), s, u)
    BY <1>3, <1>4, <1>8, PlainHead, Zenon DEF new
  <2> HIDE DEF e
  <2> QED BY <1>1, <2>1, Zenon
<1>10. <<e>> \o TileHead(bs, bk, fs, fo, FALSE, 0) = (<<old>> \o Opt(bs, bk)) \o Opt(fs, fo)
  <2>1. Opt(bs, bk) \in Numbers /\ Opt(fs, fo) \in Numbers /\ <<e>> \in Numbers
    <3> HIDE DEF e
    <3>1. e \in Nat
      BY <1>6
    <3> QED BY <1>3, <1>4, <3>1, OptIs, OneIs
  <2>2. TileHead(bs, bk, fs, fo, FALSE, 0) = (Opt(bs, bk) \o Opt(fs, fo)) \o <<>>
    BY Zenon DEF TileHead, Opt
  <2>3. Opt(bs, bk) \o Opt(fs, fo) \in Numbers
    BY <2>1, Split
  <2>4. (Opt(bs, bk) \o Opt(fs, fo)) \o <<>> = Opt(bs, bk) \o Opt(fs, fo)
    BY <2>3, ConcatEmptySeq DEF Numbers
  <2>5. (<<e>> \o Opt(bs, bk)) \o Opt(fs, fo) = <<e>> \o (Opt(bs, bk) \o Opt(fs, fo))
    BY <2>1, ConcatAssociative DEF Numbers
  <2> HIDE DEF e, old
  <2> QED BY <1>6, <2>2, <2>4, <2>5, Zenon
<1>11. After4(c, (<<old>> \o Given(back)) \o Given(fore), s, u)
  <2> HIDE DEF e, old
  <2> QED BY <1>3, <1>4, <1>9, <1>10, Zenon
<1> QED BY <1>1, <1>11, Zenon DEF f, q, px, bk, bs, fo, fs, s, u


\* Subrectangles of a tile fit the bits that they are given.
SubsOnWire(subs) == FlattenSeq([i \in DOMAIN subs |-> <<XY(subs[i].r), WH(subs[i].r)>>])

ColouredOnWire(subs) ==
    FlattenSeq([i \in DOMAIN subs |-> <<subs[i].color, XY(subs[i].r), WH(subs[i].r)>>])

Extracts(x, y, w, h) ==
    LET q == [x |-> x, y |-> y, w |-> w, h |-> h]
    IN  XY(q) \in Nat /\ WH(q) \in Nat /\ Extract(XY(q), WH(q)) = q

LEMMA ExtractIs ==
    ASSUME NEW x \in 0 .. 15, NEW y \in 0 .. 15, NEW w \in 1 .. 16, NEW h \in 1 .. 16
    PROVE  Extracts(x, y, w, h)
<1> DEFINE q == [x |-> x, y |-> y, w |-> w, h |-> h]
           a == x * 16 + y
           b == (w - 1) * 16 + h - 1
<1>1. XY(q) = a /\ WH(q) = b
  BY DEF XY, WH
<1>2. a \in Nat /\ a \div 16 = x /\ a % 16 = y
  OBVIOUS
<1>3. b \in Nat /\ b \div 16 = w - 1 /\ b % 16 = h - 1
  OBVIOUS
<1>4. (w - 1) + 1 = w /\ (h - 1) + 1 = h
  OBVIOUS
<1> HIDE DEF a, b
<1>5. Extract(a, b) = [x |-> a \div 16, y |-> a % 16, w |-> (b \div 16) + 1, h |-> (b % 16) + 1]
  BY Zenon DEF Extract
<1>6. Extract(a, b) = q
  BY <1>2, <1>3, <1>4, <1>5, Zenon
<1> QED BY <1>1, <1>2, <1>3, <1>6, Zenon DEF Extracts

LEMMA SmallSubs ==
    ASSUME NEW r \in Inside, r.w <= 16, r.h <= 16, NEW subs \in Subs(r), NEW i \in 1 .. Len(subs)
    PROVE  /\ subs[i].color \in Nat /\ XY(subs[i].r) \in Nat /\ WH(subs[i].r) \in Nat
           /\ Extract(XY(subs[i].r), WH(subs[i].r)) = subs[i].r
           /\ subs[i] = [r |-> subs[i].r, color |-> subs[i].color]
<1> DEFINE q == subs[i].r
           W == r.w
           H == r.h
<1>1. /\ subs[i] = [r |-> q, color |-> subs[i].color]
      /\ q = [x |-> q.x, y |-> q.y, w |-> q.w, h |-> q.h]
      /\ subs[i].color \in Nat
      /\ q.x \in 0 .. W - 1 /\ q.y \in 0 .. H - 1 /\ q.w \in 1 .. W /\ q.h \in 1 .. H
  BY SubsAre, Zenon
<1>2. W \in 1 .. 16 /\ H \in 1 .. 16
  <2>1. W \in Nat \ {0} /\ H \in Nat \ {0}
    BY InsideIsRect
  <2>2. W <= 16 /\ H <= 16
    OBVIOUS
  <2> HIDE DEF W, H
  <2> QED BY <2>1, <2>2
<1> HIDE DEF q, W, H
<1>3. /\ q.x \in 0 .. 15 /\ q.y \in 0 .. 15 /\ q.w \in 1 .. 16 /\ q.h \in 1 .. 16
  <2>1. ASSUME NEW a \in 0 .. W - 1, NEW b \in 0 .. H - 1, NEW d \in 1 .. W, NEW e \in 1 .. H
        PROVE  a \in 0 .. 15 /\ b \in 0 .. 15 /\ d \in 1 .. 16 /\ e \in 1 .. 16
    BY <1>2
  <2> QED BY <1>1, <2>1, Zenon
<1>4. XY(q) \in Nat /\ WH(q) \in Nat /\ Extract(XY(q), WH(q)) = q
  <2> DEFINE z == [x |-> q.x, y |-> q.y, w |-> q.w, h |-> q.h]
  <2>1. XY(z) \in Nat /\ WH(z) \in Nat /\ Extract(XY(z), WH(z)) = z
    <3>1. Extracts(q.x, q.y, q.w, q.h)
      BY <1>3, ExtractIs, Zenon
    <3> QED BY <3>1, Zenon DEF Extracts
  <2>2. q = z
    BY <1>1
  <2> HIDE DEF z
  <2> QED BY <2>1, <2>2, Zenon
<1> QED BY <1>1, <1>4, Zenon DEF q

LEMMA SubsDecode ==
    ASSUME NEW r \in Inside, r.w <= 16, r.h <= 16, NEW subs \in Subs(r), NEW color,
           \A i \in 1 .. Len(subs) : subs[i].color = color
    PROVE  LET d == SubsOnWire(subs)
               Sub(i) == [r |-> Extract(d[2 * i - 1], d[2 * i]), color |-> color]
           IN  /\ d \in Numbers /\ Len(d) = 2 * Len(subs)
               /\ [i \in 1 .. Len(subs) |-> Sub(i)] = subs
<1> DEFINE n == Len(subs)
           It(i) == <<XY(subs[i].r), WH(subs[i].r)>>
           items == [i \in 1 .. n |-> It(i)]
           d == SubsOnWire(subs)
           Sub(i) == [r |-> Extract(d[2 * i - 1], d[2 * i]), color |-> color]
<1>1. n \in Nat /\ DOMAIN subs = 1 .. n
  BY SubsAre
<1>2. d = FlattenSeq(items)
  BY <1>1, Zenon DEF SubsOnWire
<1>4. ASSUME NEW i \in 1 .. n
      PROVE  /\ subs[i].color \in Nat /\ XY(subs[i].r) \in Nat /\ WH(subs[i].r) \in Nat
             /\ Extract(XY(subs[i].r), WH(subs[i].r)) = subs[i].r
             /\ subs[i] = [r |-> subs[i].r, color |-> subs[i].color]
  BY SmallSubs
<1>5. ASSUME NEW i \in 1 .. n PROVE It(i) \in Numbers /\ Len(It(i)) = 2
  <2> DEFINE a == subs[i].color
             b == XY(subs[i].r)
             e == WH(subs[i].r)
  <2>1. a \in Nat /\ b \in Nat /\ e \in Nat
    BY <1>4
  <2> HIDE DEF a, b, e
  <2>2. <<b, e>> \in Seq(Nat) /\ Len(<<b, e>>) = 2
    BY <2>1
  <2> QED BY <2>2 DEF a, b, e, Numbers
<1> HIDE DEF n
<1>6. items \in Seq(Numbers) /\ Len(items) = n /\ \A i \in 1 .. n : items[i] = It(i)
  <2> HIDE DEF It
  <2> QED BY <1>1, <1>5
<1> HIDE DEF items
<1>7. \A k \in 1 .. Len(items) : Len(items[k]) = 2
  <2> HIDE DEF It
  <2> QED BY <1>5, <1>6
<1>8. /\ d \in Numbers /\ Len(d) = 2 * n
      /\ \A k \in 1 .. n : \A j \in 1 .. 2 : d[2 * (k - 1) + j] = items[k][j]
  <2> HIDE DEF d, It
  <2>1. 2 \in Nat
    OBVIOUS
  <2>2. /\ FlattenSeq(items) \in Numbers /\ Len(FlattenSeq(items)) = 2 * Len(items)
        /\ \A k \in 1 .. Len(items) : \A j \in 1 .. 2 :
              FlattenSeq(items)[2 * (k - 1) + j] = items[k][j]
    BY <1>6, <1>7, <2>1, FlattenSeqOfEqual
  <2> QED BY <1>2, <1>6, <2>2, Zenon
<1> HIDE DEF d
<1>9. ASSUME NEW i \in 1 .. n PROVE Sub(i) = subs[i]
  <2>1. \A j \in 1 .. 2 : d[2 * (i - 1) + j] = It(i)[j]
    <3> HIDE DEF It
    <3> QED BY <1>6, <1>8
  <2>2. 2 * (i - 1) + 1 = 2 * i - 1 /\ 2 * (i - 1) + 2 = 2 * i
    BY <1>1
  <2>3. d[2 * (i - 1) + 1] = It(i)[1] /\ d[2 * (i - 1) + 2] = It(i)[2]
    <3> HIDE DEF It
    <3> QED BY <2>1
  <2>4. d[2 * i - 1] = It(i)[1] /\ d[2 * i] = It(i)[2]
    <3> HIDE DEF It
    <3> QED BY <2>2, <2>3, Zenon
  <2>5. d[2 * i - 1] = XY(subs[i].r) /\ d[2 * i] = WH(subs[i].r)
    BY <2>4
  <2>6. /\ subs[i] = [r |-> subs[i].r, color |-> subs[i].color]
        /\ Extract(XY(subs[i].r), WH(subs[i].r)) = subs[i].r
    BY <1>4
  <2>7. Sub(i) = [r |-> Extract(XY(subs[i].r), WH(subs[i].r)), color |-> subs[i].color]
    BY <2>5, Zenon DEF n
  <2> QED BY <2>6, <2>7, Zenon
<1>10. subs = [i \in 1 .. n |-> subs[i]]
  BY SubsAre DEF n
<1>11. [i \in 1 .. n |-> Sub(i)] = subs
  <2> HIDE DEF Sub
  <2>1. [i \in 1 .. n |-> Sub(i)] = [i \in 1 .. n |-> subs[i]]
    BY <1>9
  <2> QED BY <1>10, <2>1
<1> QED BY <1>8, <1>11 DEF n, d

LEMMA ColouredDecode ==
    ASSUME NEW r \in Inside, r.w <= 16, r.h <= 16, NEW subs \in Subs(r)
    PROVE  LET d == ColouredOnWire(subs)
               Sub(i) == [r |-> Extract(d[3 * i - 1], d[3 * i]), color |-> d[3 * i - 2]]
           IN  /\ d \in Numbers /\ Len(d) = 3 * Len(subs)
               /\ [i \in 1 .. Len(subs) |-> Sub(i)] = subs
<1> DEFINE n == Len(subs)
           It(i) == <<subs[i].color, XY(subs[i].r), WH(subs[i].r)>>
           items == [i \in 1 .. n |-> It(i)]
           d == ColouredOnWire(subs)
           Sub(i) == [r |-> Extract(d[3 * i - 1], d[3 * i]), color |-> d[3 * i - 2]]
<1>1. n \in Nat /\ DOMAIN subs = 1 .. n
  BY SubsAre
<1>2. d = FlattenSeq(items)
  BY <1>1, Zenon DEF ColouredOnWire
<1>4. ASSUME NEW i \in 1 .. n
      PROVE  /\ subs[i].color \in Nat /\ XY(subs[i].r) \in Nat /\ WH(subs[i].r) \in Nat
             /\ Extract(XY(subs[i].r), WH(subs[i].r)) = subs[i].r
             /\ subs[i] = [r |-> subs[i].r, color |-> subs[i].color]
  BY SmallSubs
<1>5. ASSUME NEW i \in 1 .. n PROVE It(i) \in Numbers /\ Len(It(i)) = 3
  <2> DEFINE a == subs[i].color
             b == XY(subs[i].r)
             e == WH(subs[i].r)
  <2>1. a \in Nat /\ b \in Nat /\ e \in Nat
    BY <1>4
  <2> HIDE DEF a, b, e
  <2>2. <<a, b, e>> \in Seq(Nat) /\ Len(<<a, b, e>>) = 3
    BY <2>1
  <2> QED BY <2>2 DEF a, b, e, Numbers
<1> HIDE DEF n
<1>6. items \in Seq(Numbers) /\ Len(items) = n /\ \A i \in 1 .. n : items[i] = It(i)
  <2> HIDE DEF It
  <2> QED BY <1>1, <1>5
<1> HIDE DEF items
<1>7. \A k \in 1 .. Len(items) : Len(items[k]) = 3
  <2> HIDE DEF It
  <2> QED BY <1>5, <1>6
<1>8. /\ d \in Numbers /\ Len(d) = 3 * n
      /\ \A k \in 1 .. n : \A j \in 1 .. 3 : d[3 * (k - 1) + j] = items[k][j]
  <2> HIDE DEF d, It
  <2>1. 3 \in Nat
    OBVIOUS
  <2>2. /\ FlattenSeq(items) \in Numbers /\ Len(FlattenSeq(items)) = 3 * Len(items)
        /\ \A k \in 1 .. Len(items) : \A j \in 1 .. 3 :
              FlattenSeq(items)[3 * (k - 1) + j] = items[k][j]
    BY <1>6, <1>7, <2>1, FlattenSeqOfEqual
  <2> QED BY <1>2, <1>6, <2>2, Zenon
<1> HIDE DEF d
<1>9. ASSUME NEW i \in 1 .. n PROVE Sub(i) = subs[i]
  <2>1. \A j \in 1 .. 3 : d[3 * (i - 1) + j] = It(i)[j]
    <3> HIDE DEF It
    <3> QED BY <1>6, <1>8
  <2>2. 3 * (i - 1) + 1 = 3 * i - 2 /\ 3 * (i - 1) + 2 = 3 * i - 1 /\ 3 * (i - 1) + 3 = 3 * i
    BY <1>1
  <2>3. /\ d[3 * (i - 1) + 1] = It(i)[1] /\ d[3 * (i - 1) + 2] = It(i)[2]
        /\ d[3 * (i - 1) + 3] = It(i)[3]
    <3> HIDE DEF It
    <3> QED BY <2>1
  <2>4. d[3 * i - 2] = It(i)[1] /\ d[3 * i - 1] = It(i)[2] /\ d[3 * i] = It(i)[3]
    <3> HIDE DEF It
    <3> QED BY <2>2, <2>3, Zenon
  <2>5. /\ d[3 * i - 2] = subs[i].color
        /\ d[3 * i - 1] = XY(subs[i].r) /\ d[3 * i] = WH(subs[i].r)
    BY <2>4
  <2>6. /\ subs[i] = [r |-> subs[i].r, color |-> subs[i].color]
        /\ Extract(XY(subs[i].r), WH(subs[i].r)) = subs[i].r
    BY <1>4
  <2>7. Sub(i) = [r |-> Extract(XY(subs[i].r), WH(subs[i].r)), color |-> subs[i].color]
    BY <2>5, Zenon
  <2> QED BY <2>6, <2>7, Zenon
<1>10. subs = [i \in 1 .. n |-> subs[i]]
  BY SubsAre DEF n
<1>11. [i \in 1 .. n |-> Sub(i)] = subs
  <2> HIDE DEF Sub
  <2>1. [i \in 1 .. n |-> Sub(i)] = [i \in 1 .. n |-> subs[i]]
    BY <1>9
  <2> QED BY <1>10, <2>1
<1> QED BY <1>8, <1>11 DEF n, d

\* w has the subrectangles in the form the mask says.
OfForm(w, subs, col, color) ==
    IF col THEN /\ Len(w) = 3 * Len(subs)
                /\ [i \in 1 .. Len(subs) |->
                       [r |-> Extract(w[3 * i - 1], w[3 * i]), color |-> w[3 * i - 2]]] = subs
    ELSE /\ Len(w) = 2 * Len(subs)
         /\ [i \in 1 .. Len(subs) |->
                [r |-> Extract(w[2 * i - 1], w[2 * i]), color |-> color]] = subs

SubsDrawn(f, q, bk, fo, e, n, col, px, subs, w) ==
    LET c == SubsClient(f, q, bk, fo, e, n, col, px)
    IN  /\ ~c.stopped /\ c.reader.size = Len(w)
        /\ \E r : Act(c, w) = NextTile(C(f, q, bk, fo, e, n, r, FillAll(px, q, subs)))

LEMMA DrawsSubs ==
    ASSUME NEW f, NEW q, NEW bk, NEW fo, NEW e, NEW n, NEW col \in BOOLEAN, NEW px,
           NEW subs, n = Len(subs), NEW w, OfForm(w, subs, col, fo)
    PROVE  SubsDrawn(f, q, bk, fo, e, n, col, px, subs, w)
<1> DEFINE r == Wait(IF col THEN "drawSubColorRects" ELSE "drawSubRects",
                     IF col THEN 3 * n ELSE 2 * n)
           c == C(f, q, bk, fo, e, n, r, px)
           new == C(f, q, bk, fo, e, n, r, FillAll(px, q, subs))
<1>1. /\ ~c.stopped /\ c.reader = r /\ c.count = n /\ c.tile = q /\ c.fore = fo
  BY FieldsOf
<1>2. FillSubs(c, q, subs) = new
  BY FillSubsIs
<1>3. CASE col
  <2>1. r = Wait("drawSubColorRects", 3 * n)
    BY <1>3, Zenon
  <2>2. c.reader.size = 3 * n /\ c.reader.action = "drawSubColorRects"
    BY <1>1, <2>1, WaitIs
  <2> HIDE DEF c, r, new
  <2>3. Act(c, w) = DrawSubColorRects(c, w)
    BY <2>2, ActIs
  <2>4. Len(w) = 3 * n
        /\ [i \in 1 .. n |-> [r |-> Extract(w[3 * i - 1], w[3 * i]), color |-> w[3 * i - 2]]] = subs
    BY <1>3, Zenon DEF OfForm
  <2>5. DrawSubColorRects(c, w) = NextTile(FillSubs(c, q, subs))
    BY <1>1, <2>4, Zenon DEF DrawSubColorRects
  <2> QED
    BY <1>1, <1>2, <2>2, <2>3, <2>4, <2>5, Zenon DEF SubsClient, c, r, new, SubsDrawn
<1>4. CASE ~col
  <2>1. r = Wait("drawSubRects", 2 * n)
    BY <1>4, Zenon
  <2>2. c.reader.size = 2 * n /\ c.reader.action = "drawSubRects"
    BY <1>1, <2>1, WaitIs
  <2> HIDE DEF c, r, new
  <2>3. Act(c, w) = DrawSubRects(c, w)
    BY <2>2, ActIs
  <2>4. Len(w) = 2 * n
        /\ [i \in 1 .. n |-> [r |-> Extract(w[2 * i - 1], w[2 * i]), color |-> fo]] = subs
    BY <1>4, Zenon DEF OfForm
  <2>5. DrawSubRects(c, w) = NextTile(FillSubs(c, q, subs))
    BY <1>1, <2>4, Zenon DEF DrawSubRects
  <2> QED
    BY <1>1, <1>2, <2>2, <2>3, <2>4, <2>5, Zenon DEF SubsClient, c, r, new, SubsDrawn
<1> QED BY <1>3, <1>4

LEMMA SubsTaken ==
    ASSUME NEW c, NEW t, NEW k, AtTile(c, t, k), NEW bk \in Colors, NEW fo \in Colors \cup {0},
           NEW e \in 0 .. 255, Bit(e, HexAnySubrects), NEW px \in Memory,
           NEW subs \in Subs(c.tile), NEW col \in BOOLEAN,
           NEW w \in Numbers, OfForm(w, subs, col, fo),
           NEW back, NEW fore, Agrees(bk, back), Agrees(fo, fore)
    PROVE  After1(SubsClient(c.frame, c.tile, bk, fo, e, Len(subs), col, px), w,
                  PaintedAll(Seen(px), c.tile, subs), Sent(t, back, fore))
<1> DEFINE f == c.frame
           q == c.tile
           n == Len(subs)
           sc == SubsClient(f, q, bk, fo, e, n, col, px)
           new == FillAll(px, q, subs)
           s == PaintedAll(Seen(px), q, subs)
           u == Sent(t, back, fore)
<1>1. f \in Inside /\ q \in Inside
  BY AtTileIs
<1>2. n \in Nat
  BY <1>1, SubsAre
<1>3. Len(w) = IF col THEN 3 * n ELSE 2 * n
  BY Zenon DEF OfForm
<1>4. ~sc.stopped /\ sc.reader.size = Len(w)
      /\ \E r : Act(sc, w) = NextTile(C(f, q, bk, fo, e, n, r, new))
  <2> HIDE DEF f, q
  <2>1. SubsDrawn(f, q, bk, fo, e, n, col, px, subs, w)
    BY DrawsSubs
  <2> QED BY <2>1, Zenon DEF SubsDrawn
<1>5. bk \in Colors \cup {0}
  OBVIOUS
<1>6. CASE n = 0
  <2> DEFINE a == IF col THEN "drawSubColorRects" ELSE "drawSubRects"
             z == C(f, q, bk, fo, e, n, Wait(a, 0), px)
  <2>1. w = <<>>
    <3>1. Len(w) = 0
      BY <1>3, <1>6
    <3> QED BY <3>1, EmptySeq DEF Numbers
  <2>2. sc = z
    <3>1. (IF col THEN 3 * n ELSE 2 * n) = 0
      BY <1>6
    <3> QED BY <3>1, Zenon DEF SubsClient
  <2>3. z \in Client
    <3>1. f \in Rect /\ q \in Rect
      BY <1>1, InsideIsRect
    <3>2. a \in Actions /\ 0 \in Nat
      BY DEF Actions
    <3> HIDE DEF f, q, a
    <3> QED BY <1>2, <1>5, <3>1, <3>2, ClientOf
  <2>4. z.reader = Wait(a, 0) /\ z.count = n /\ z.mask = e /\ ~z.stopped
    BY FieldsOf
  <2> HIDE DEF z, n
  <2>5. Starved(z)
    BY <1>6, <2>4, Zenon DEF Starved
  <2> HIDE DEF sc, s, u
  <2>6. After1(z, <<>>, s, u)
    BY <2>3, <2>4, <2>5, Zenon DEF After1, After0, Waits
  <2> QED BY <2>1, <2>2, <2>6, Zenon DEF sc, s, u, f, q, n
<1>7. CASE n # 0
  <2>1. w # <<>>
    <3>1. Len(w) # 0
      BY <1>2, <1>3, <1>7
    <3> QED BY <3>1, EmptySeq
  <2>2. new \in Memory /\ Seen(new) = s
    BY <1>1, FillAllIs
  <2> HIDE DEF n, new, s
  <2>3. \A r : Waits(NextTile(C(f, q, bk, fo, e, n, r, new)), s, u)
    BY <1>2, <1>5, <2>2, DrawnTileWaits
  <2> HIDE DEF f, q, sc, u
  <2>4. Waits(Act(sc, w), s, u)
    BY <1>4, <2>3, Zenon
  <2>5. After1(sc, w, s, u)
    BY <1>4, <2>1, <2>4, TakesLast
  <2> QED BY <2>5 DEF sc, s, u, f, q, n
<1> QED BY <1>6, <1>7

Associates(x, y, z) == (x \o y) \o z = x \o (y \o z)

LEMMA Assoc ==
    ASSUME NEW x \in Numbers, NEW y \in Numbers, NEW z \in Numbers
    PROVE  Associates(x, y, z)
BY ConcatAssociative DEF Numbers, Associates

TileRegroups(h, a, b, d, w) ==
    /\ (((h \o a) \o b) \o d) \o w = h \o (((a \o b) \o d) \o w)
    /\ ((h \o a) \o d) \o w = h \o (((a \o <<>>) \o d) \o w)

LEMMA RegroupTile ==
    ASSUME NEW h \in Numbers, NEW a \in Numbers, NEW b \in Numbers, NEW d \in Numbers, NEW w \in Numbers
    PROVE  TileRegroups(h, a, b, d, w)
<1> DEFINE ab == a \o b
           abd == ab \o d
           ad == a \o d
<1>1. a \o <<>> = a
  BY ConcatEmptySeq DEF Numbers
<1>2. ab \in Numbers /\ ad \in Numbers
  BY Split
<1>3. (h \o a) \o b = h \o ab /\ (h \o a) \o d = h \o ad
  <2>1. Associates(h, a, b)
    BY Assoc
  <2>2. Associates(h, a, d)
    BY Assoc
  <2> QED BY <2>1, <2>2, Zenon DEF Associates
<1> HIDE DEF ab, ad
<1>4. abd \in Numbers
  BY <1>2, Split
<1>5. (h \o ab) \o d = h \o abd
  <2>1. Associates(h, ab, d)
    BY <1>2, Assoc
  <2> QED BY <2>1, Zenon DEF Associates
<1> HIDE DEF abd
<1>6. (h \o abd) \o w = h \o (abd \o w)
  <2>1. Associates(h, abd, w)
    BY <1>4, Assoc
  <2> QED BY <2>1, Zenon DEF Associates
<1>7. (h \o ad) \o w = h \o (ad \o w)
  <2>1. Associates(h, ad, w)
    BY <1>2, Assoc
  <2> QED BY <2>1, Zenon DEF Associates
<1> QED BY <1>1, <1>3, <1>5, <1>6, <1>7 DEF ab, ad, abd, TileRegroups

LEMMA SubsMessage ==
    ASSUME NEW c, NEW t, NEW k, AtTile(c, t, k),
           NEW bk \in Colors, NEW fo \in Colors \cup {0}, NEW fo2, NEW bs \in BOOLEAN, NEW fs \in BOOLEAN,
           NEW col \in BOOLEAN, ~(fs /\ col), bs \/ bk = c.back, fs \/ fo = c.fore,
           NEW subs \in Subs(c.tile), NEW w \in Numbers, OfForm(w, subs, col, fo),
           Agrees(fo, fo2)
    PROVE  After4(c, <<Mask(bs, fs, TRUE, col)>>
                        \o (((Opt(bs, bk) \o Opt(fs, fo)) \o <<Len(subs)>>) \o w),
                  PaintedAll(Painted(Seen(c.pixels), Head(t.tiles), bk), Head(t.tiles), subs),
                  Sent(t, bk, fo2))
<1> DEFINE f == c.frame
           q == c.tile
           px == c.pixels
           n == Len(subs)
           new == FillRect(px, q, bk)
           s == PaintedAll(Painted(Seen(px), q, bk), q, subs)
           u == Sent(t, bk, fo2)
           e == Mask(bs, fs, TRUE, col)
           d == TileHead(bs, bk, fs, fo, TRUE, n)
<1>1. /\ c = TileClient(f, q, c.back, c.fore, c.mask, c.count, px)
      /\ f \in Inside /\ q \in Inside /\ px \in Memory /\ q = Head(t.tiles)
  BY AtTileIs
<1>2. bk \in Nat /\ fo \in Nat
  <2>1. \A v \in Colors \cup {0} : v \in Nat
    BY FrameBufferAssumption
  <2> QED BY <2>1, Zenon
<1>3. n \in Nat
  BY <1>1, SubsAre
<1>4. new \in Memory /\ Seen(new) = Painted(Seen(px), q, bk)
  BY <1>1, FillRectIs
<1>5. e \in 0 .. 255 /\ Bit(e, HexAnySubrects)
  <2>1. ASSUME NEW any \in BOOLEAN
        PROVE  Mask(bs, fs, any, col) \in 0 .. 255 /\ HasBits(Mask(bs, fs, any, col), bs, fs, any, col)
    BY MaskHasBits
  <2>2. TRUE \in BOOLEAN
    OBVIOUS
  <2>3. e \in 0 .. 255 /\ HasBits(e, bs, fs, TRUE, col)
    BY <2>1, <2>2, Zenon
  <2> HIDE DEF e
  <2> QED BY <2>3, Zenon DEF HasBits
<1>6. Agrees(bk, bk)
  BY Zenon DEF Agrees
<1> HIDE DEF e, n
<1>7. After1(SubsClient(f, q, bk, fo, e, n, col, new), w, s, u)
  <2> DEFINE v == PaintedAll(Seen(new), q, subs)
  <2>1. v = s
    BY <1>4, Zenon
  <2> HIDE DEF s, new, v, u
  <2>2. After1(SubsClient(c.frame, c.tile, bk, fo, e, Len(subs), col, new), w,
               PaintedAll(Seen(new), c.tile, subs), Sent(t, bk, fo2))
    BY <1>4, <1>5, <1>6, SubsTaken
  <2> QED BY <2>1, <2>2, Zenon DEF u, v, n
<1> HIDE DEF f, q, px, s, u
<1>8. After4(TileClient(f, q, c.back, c.fore, c.mask, c.count, px), <<e>> \o (d \o w), s, u)
  BY <1>2, <1>3, <1>7, SubsHead, Zenon DEF new, e
<1>9. After4(c, <<e>> \o (d \o w), s, u)
  <2> HIDE DEF d
  <2> QED BY <1>1, <1>8, Zenon
<1>10. d = (Opt(bs, bk) \o Opt(fs, fo)) \o <<n>>
  BY Zenon DEF TileHead, Opt
<1> HIDE DEF d
<1> QED BY <1>1, <1>9, <1>10, Zenon DEF f, q, px, s, u, e, n

LEMMA SubsTileIs ==
    ASSUME NEW c, NEW t, NEW k, AtTile(c, t, k),
           NEW back \in Specifies(t.back), NEW fore \in Specifies(t.fore),
           NEW subs \in SubLists(Head(t.tiles)),
           \A i \in DOMAIN subs : subs[i].color = fore[1]
    PROVE  After4(c, <<Flag(back[2], HexBackground) + Flag(fore[2], HexForeground) + HexAnySubrects>>
                        \o Given(back) \o Given(fore) \o <<Len(subs)>> \o SubsOnWire(subs),
                  PaintedAll(Painted(Seen(c.pixels), Head(t.tiles), back[1]), Head(t.tiles), subs),
                  Sent(t, back[1], fore[1]))
<1> DEFINE q == c.tile
           bk == back[1]
           bs == back[2]
           fo == fore[1]
           fs == fore[2]
           n == Len(subs)
           w == SubsOnWire(subs)
           s == PaintedAll(Painted(Seen(c.pixels), Head(t.tiles), bk), Head(t.tiles), subs)
           u == Sent(t, bk, fo)
           e == Mask(bs, fs, TRUE, FALSE)
           old == Flag(bs, HexBackground) + Flag(fs, HexForeground) + HexAnySubrects
<1>1. q \in Inside /\ q = Head(t.tiles) /\ q.w <= 16 /\ q.h <= 16
  BY AtTileIs
<1>2. Agrees(c.back, t.back) /\ Agrees(c.fore, t.fore)
  BY Zenon DEF AtTile
<1>3. /\ bs \in BOOLEAN /\ bk \in Colors /\ bk \in Nat /\ (bs \/ bk = c.back)
      /\ Given(back) = Opt(bs, bk)
  BY <1>2, SpecifiesIs
<1>4. /\ fs \in BOOLEAN /\ fo \in Colors /\ fo \in Nat /\ (fs \/ fo = c.fore)
      /\ Given(fore) = Opt(fs, fo) /\ Agrees(fo, fo)
  BY <1>2, SpecifiesIs
<1>5. subs \in Subs(q)
  BY <1>1, RectanglesAssumption DEF Subs
<1>6. n \in Nat /\ DOMAIN subs = 1 .. n
  BY <1>1, <1>5, SubsAre
<1>7. w \in Numbers /\ OfForm(w, subs, FALSE, fo)
  <2>1. \A i \in 1 .. Len(subs) : subs[i].color = fo
    BY <1>6
  <2> HIDE DEF q, fo
  <2>2. /\ w \in Numbers /\ Len(w) = 2 * Len(subs)
        /\ [i \in 1 .. Len(subs) |->
              [r |-> Extract(w[2 * i - 1], w[2 * i]), color |-> fo]] = subs
    BY <1>1, <1>5, <2>1, SubsDecode
  <2> HIDE DEF w
  <2> QED BY <2>2, Zenon DEF OfForm
<1> HIDE DEF bk, bs, fo, fs, s, u, w, n
<1>8. e = old
  <2>1. Flag(bs, HexBackground) \in Nat /\ Flag(fs, HexForeground) \in Nat /\ HexAnySubrects \in Nat
    BY DEF Flag, HexBackground, HexForeground, HexAnySubrects
  <2>2. e = Flag(bs, HexBackground) + Flag(fs, HexForeground) + HexAnySubrects + 0
    BY DEF Mask, Flag
  <2> HIDE DEF e
  <2> QED BY <2>1, <2>2
<1>9. After4(c, <<e>> \o (((Opt(bs, bk) \o Opt(fs, fo)) \o <<n>>) \o w), s, u)
  <2>1. ASSUME NEW col \in BOOLEAN, ~col, OfForm(w, subs, col, fo)
        PROVE  After4(c, <<Mask(bs, fs, TRUE, col)>>
                            \o (((Opt(bs, bk) \o Opt(fs, fo)) \o <<Len(subs)>>) \o w),
                      PaintedAll(Painted(Seen(c.pixels), Head(t.tiles), bk), Head(t.tiles), subs),
                      Sent(t, bk, fo))
    <3>1. fo \in Colors \cup {0}
      BY <1>4
    <3> QED BY <1>3, <1>4, <1>5, <1>7, <2>1, <3>1, SubsMessage DEF q
  <2>2. FALSE \in BOOLEAN /\ ~FALSE
    OBVIOUS
  <2> QED BY <1>7, <2>1, <2>2, Zenon DEF s, u, n
<1>10. <<e>> \o (((Opt(bs, bk) \o Opt(fs, fo)) \o <<n>>) \o w)
          = (((<<old>> \o Opt(bs, bk)) \o Opt(fs, fo)) \o <<n>>) \o w
  <2>1. Opt(bs, bk) \in Numbers /\ Opt(fs, fo) \in Numbers
    BY <1>3, <1>4, OptIs
  <2>2. <<old>> \in Numbers /\ <<n>> \in Numbers
    <3>1. old \in Nat
      BY DEF Flag, HexBackground, HexForeground, HexAnySubrects
    <3> HIDE DEF old
    <3> QED BY <1>6, <3>1, OneIs
  <2> HIDE DEF e, old
  <2> DEFINE h == <<old>>
             a == Opt(bs, bk)
             b == Opt(fs, fo)
             m == <<n>>
  <2>3. h \in Numbers /\ a \in Numbers /\ b \in Numbers /\ m \in Numbers
    BY <2>1, <2>2
  <2> HIDE DEF h, a, b, m
  <2>4. (((h \o a) \o b) \o m) \o w = h \o (((a \o b) \o m) \o w)
    <3>1. TileRegroups(h, a, b, m, w)
      BY <1>7, <2>3, RegroupTile
    <3> QED BY <3>1, Zenon DEF TileRegroups
  <2> QED BY <1>8, <2>4, Zenon DEF h, a, b, m
<1> HIDE DEF e, old
<1>11. After4(c, (((<<old>> \o Opt(bs, bk)) \o Opt(fs, fo)) \o <<n>>) \o w, s, u)
  BY <1>9, <1>10, Zenon
<1> QED BY <1>3, <1>4, <1>11, Zenon DEF old, bk, bs, fo, fs, s, u, w, n

LEMMA ColouredTileIs ==
    ASSUME NEW c, NEW t, NEW k, AtTile(c, t, k),
           NEW back \in Specifies(t.back), NEW subs \in SubLists(Head(t.tiles))
    PROVE  After4(c, <<Flag(back[2], HexBackground) + HexAnySubrects + HexColoured>>
                        \o Given(back) \o <<Len(subs)>> \o ColouredOnWire(subs),
                  PaintedAll(Painted(Seen(c.pixels), Head(t.tiles), back[1]), Head(t.tiles), subs),
                  Sent(t, back[1], t.fore))
<1> DEFINE q == c.tile
           bk == back[1]
           bs == back[2]
           fo == c.fore
           n == Len(subs)
           w == ColouredOnWire(subs)
           s == PaintedAll(Painted(Seen(c.pixels), Head(t.tiles), bk), Head(t.tiles), subs)
           u == Sent(t, bk, t.fore)
           e == Mask(bs, FALSE, TRUE, TRUE)
           old == Flag(bs, HexBackground) + HexAnySubrects + HexColoured
<1>1. q \in Inside /\ q = Head(t.tiles) /\ q.w <= 16 /\ q.h <= 16 /\ fo \in Colors \cup {0}
  BY AtTileIs
<1>2. Agrees(c.back, t.back) /\ Agrees(fo, t.fore)
  BY Zenon DEF AtTile
<1>3. /\ bs \in BOOLEAN /\ bk \in Colors /\ bk \in Nat /\ (bs \/ bk = c.back)
      /\ Given(back) = Opt(bs, bk)
  BY <1>2, SpecifiesIs
<1>5. subs \in Subs(q)
  BY <1>1, RectanglesAssumption DEF Subs
<1>6. n \in Nat
  BY <1>1, <1>5, SubsAre
<1>7. w \in Numbers /\ OfForm(w, subs, TRUE, fo)
  <2> HIDE DEF q, fo
  <2>2. /\ w \in Numbers /\ Len(w) = 3 * Len(subs)
        /\ [i \in 1 .. Len(subs) |->
              [r |-> Extract(w[3 * i - 1], w[3 * i]), color |-> w[3 * i - 2]]] = subs
    BY <1>1, <1>5, ColouredDecode
  <2> HIDE DEF w
  <2> QED BY <2>2, Zenon DEF OfForm
<1> HIDE DEF bk, bs, s, u, w, n
<1>8. e = old
  <2>1. Flag(bs, HexBackground) \in Nat /\ HexColoured \in Nat /\ HexAnySubrects \in Nat
    BY DEF Flag, HexBackground, HexColoured, HexAnySubrects
  <2>2. e = Flag(bs, HexBackground) + 0 + HexAnySubrects + HexColoured
    BY DEF Mask, Flag
  <2> HIDE DEF e
  <2> QED BY <2>1, <2>2
<1>9. After4(c, <<e>> \o (((Opt(bs, bk) \o <<>>) \o <<n>>) \o w), s, u)
  <2>1. ASSUME NEW col \in BOOLEAN, NEW fs \in BOOLEAN, ~fs, OfForm(w, subs, col, fo)
        PROVE  After4(c, <<Mask(bs, fs, TRUE, col)>>
                            \o (((Opt(bs, bk) \o Opt(fs, fo)) \o <<Len(subs)>>) \o w),
                      PaintedAll(Painted(Seen(c.pixels), Head(t.tiles), bk), Head(t.tiles), subs),
                      Sent(t, bk, t.fore))
    BY <1>1, <1>2, <1>3, <1>5, <1>7, <2>1, SubsMessage DEF q
  <2>2. TRUE \in BOOLEAN /\ FALSE \in BOOLEAN /\ ~FALSE
    OBVIOUS
  <2>3. Opt(FALSE, fo) = <<>>
    BY Zenon DEF Opt
  <2> QED BY <1>7, <2>1, <2>2, <2>3, Zenon DEF s, u, n
<1>10. <<e>> \o (((Opt(bs, bk) \o <<>>) \o <<n>>) \o w)
          = ((<<old>> \o Opt(bs, bk)) \o <<n>>) \o w
  <2>1. Opt(bs, bk) \in Numbers /\ <<>> \in Numbers
    BY <1>3, <1>6, OptIs, OneIs
  <2>2. <<old>> \in Numbers /\ <<n>> \in Numbers
    <3>1. old \in Nat
      BY DEF Flag, HexBackground, HexColoured, HexAnySubrects
    <3> HIDE DEF old
    <3> QED BY <1>6, <3>1, OneIs
  <2> HIDE DEF e, old
  <2> DEFINE h == <<old>>
             a == Opt(bs, bk)
             m == <<n>>
  <2>3. h \in Numbers /\ a \in Numbers /\ m \in Numbers
    BY <2>1, <2>2
  <2> HIDE DEF h, a, m
  <2>4. ((h \o a) \o m) \o w = h \o (((a \o <<>>) \o m) \o w)
    <3>1. TileRegroups(h, a, <<>>, m, w)
      BY <1>7, <2>1, <2>3, RegroupTile
    <3> QED BY <3>1, Zenon DEF TileRegroups
  <2> QED BY <1>8, <2>4, Zenon DEF h, a, m
<1> HIDE DEF e, old
<1>11. After4(c, ((<<old>> \o Opt(bs, bk)) \o <<n>>) \o w, s, u)
  BY <1>9, <1>10, Zenon
<1> QED BY <1>3, <1>11, Zenon DEF old, bk, bs, s, u, w, n

LEMMA HextileIs ==
    ASSUME NEW c, Idle(c), NEW f \in HextileFrames
    PROVE  After4(c, Header(f, EncHextile), Seen(c.pixels),
                  [Nothing EXCEPT !.tiles = TilesOf(f, HextileSide)])
<1> DEFINE t == c.tile
           b == c.back
           g == c.fore
           m == c.mask
           n == c.count
           px == c.pixels
           T == TilesOf(f, HextileSide)
           u == [Nothing EXCEPT !.tiles = T]
           next == C(f, T[1], b, g, m, n, Wait("setSubEncoding", 1), px)
           h == Header(f, EncHextile)
<1>1. f \in Inside
  BY RectanglesAssumption DEF Frames
<1>2. /\ c = C(c.frame, t, b, g, m, n, Wait("setRect", 5), px)
      /\ t \in Rect /\ b \in Colors \cup {0} /\ g \in Colors \cup {0}
      /\ m \in 0 .. 255 /\ n \in Nat /\ px \in Memory
      /\ c.reader.size = 5 /\ c.reader.action = "setRect" /\ ~c.stopped
  BY IdleIs
<1>3. Len(T) \in Nat \ {0} /\ T \in Seq(Inside) /\ T[1] \in Inside /\ 1 \in 1 .. Len(T)
  <2>1. Len(T) \in Nat \ {0} /\ T \in Seq(Inside)
        /\ \A k \in 1 .. Len(T) : T[k] \in Inside
    BY <1>1, TilesAre DEF Tiles
  <2> HIDE DEF T
  <2> QED BY <2>1
<1> HIDE DEF t, b, g, m, n, px
<1>4. Act(c, h) = next
  <2>1. SetRect(c, h) = FirstTile(C(f, t, b, g, m, n, Wait("setRect", 5), px))
    BY <1>1, <1>2, SetRectIs
  <2>2. FirstTile(C(f, t, b, g, m, n, Wait("setRect", 5), px)) = next
    BY <1>1, FirstTileIs DEF Tiles
  <2>3. Act(c, h) = SetRect(c, h)
    BY <1>2, ActIs
  <2> HIDE DEF h, next
  <2> QED BY <2>1, <2>2, <2>3
<1>5. h \in Numbers /\ Len(h) = 5
  <2>1. EncHextile \in Nat
    BY DEF EncHextile
  <2> QED BY <1>1, <2>1, HeaderIs
<1>6. h # <<>>
  <2> HIDE DEF h
  <2>1. Len(h) # 0
    BY <1>5
  <2> QED BY <2>1, EmptySeq
<1> HIDE DEF h
<1>7. u = [tiles |-> T, back |-> Unspecified, fore |-> Unspecified]
  <2> HIDE DEF T
  <2> QED BY DEF Nothing
<1>8. SubSeq(T, 1, Len(T)) = T
  <2> HIDE DEF T
  <2> QED BY <1>3, SubSeqFull
<1>9. next \in Client
  <2>1. f \in Rect /\ T[1] \in Rect
    BY <1>1, <1>3, InsideIsRect
  <2>2. "setSubEncoding" \in Actions /\ 1 \in Nat
    BY DEF Actions
  <2> HIDE DEF T
  <2> QED BY <1>2, <2>1, <2>2, ClientOf
<1>10. /\ next.frame = f /\ next.tile = T[1]
       /\ next.reader = Wait("setSubEncoding", 1) /\ next.pixels = px /\ ~next.stopped
  BY FieldsOf
<1>11. u.tiles = T /\ u.back = Unspecified /\ u.fore = Unspecified
       /\ u = [tiles |-> u.tiles, back |-> u.back, fore |-> u.fore]
  <2> HIDE DEF T, u
  <2> QED BY <1>7
<1> HIDE DEF next, u
<1>12. ForTile(next, u)
  <2>1. \E k \in 1 .. Len(T) : T[1] = T[k] /\ u.tiles = SubSeq(T, k, Len(T))
    BY <1>3, <1>8, <1>11, Zenon
  <2>2. /\ u.back \in {Unspecified, next.back} /\ u.fore \in {Unspecified, next.fore}
        /\ u.back \in Colors \cup {Unspecified} /\ u.fore \in Colors \cup {Unspecified}
    BY <1>11
  <2> QED BY <1>1, <1>10, <1>11, <2>1, <2>2, Zenon DEF ForTile
<1>13. Waits(next, Seen(px), u)
  BY <1>9, <1>10, <1>12, Zenon DEF Waits
<1>14. After1(c, h, Seen(px), u)
  BY <1>2, <1>4, <1>5, <1>6, <1>13, TakesLast
<1> QED BY <1>14, AfterFewer DEF h, u, px

-----------------------------------------------------------------------------
(* The invariant.                                                          *)

\* The connection has ended after a tile with an empty list of subrectangles; or
\* the client has read one, and waits for nothing; or it will wait again, with the
\* screen of the server, when it has read what is on the wire.
Keeps(c, w, s, t) ==
    \/ c.stopped /\ w # <<>> /\ c.count = 0 /\ Bit(c.mask, HexAnySubrects)
    \/ c \in Client /\ ~c.stopped /\ Starved(c)
    \/ After4(c, w, s, t)

IInv == Keeps(client, wire, screen, sending)

LEMMA KeepsWaiting ==
    ASSUME NEW c, NEW s, NEW t, Keeps(c, <<>>, s, t)
    PROVE  Waits(c, s, t)
<1>1. ~Reads(c, <<>>)
  BY DEF Reads
<1>2. After4(c, <<>>, s, t) => Waits(c, s, t)
  BY <1>1, Zenon DEF After4, After0
<1>3. c \in Client /\ ~c.stopped /\ Starved(c) => Waits(c, s, t)
  BY Zenon DEF Waits
<1> QED BY <1>2, <1>3, Zenon DEF Keeps

\* What the server sends is a rectangle, or the next tile of one.
LEMMA NothingIsLeft == Nothing.tiles = <<>>
BY DEF Nothing

LEMMA TilesAreLeft ==
    ASSUME NEW c, c \in Client, ~c.stopped, NEW t, ForTile(c, t)
    PROVE  (\E k : AtTile(c, t, k)) /\ t.tiles # <<>>
<1>1. PICK k \in 1 .. Len(Tiles(c.frame)) :
         /\ c.tile = Tiles(c.frame)[k]
         /\ t.tiles = SubSeq(Tiles(c.frame), k, Len(Tiles(c.frame)))
  BY Zenon DEF ForTile, Tiles
<1>2. /\ c.reader = Wait("setSubEncoding", 1) /\ c.frame \in Inside
      /\ t = [tiles |-> t.tiles, back |-> t.back, fore |-> t.fore]
      /\ Agrees(c.back, t.back) /\ Agrees(c.fore, t.fore)
  BY Zenon DEF ForTile, Agrees
<1>3. Sending(t, c.frame, k)
  BY <1>1, <1>2, Zenon DEF Sending
<1>4. AtTile(c, t, k)
  BY <1>1, <1>2, <1>3, Zenon DEF AtTile
<1>5. t.tiles # <<>>
  BY <1>2, <1>3, SentIs
<1> QED BY <1>4, <1>5

LEMMA BetweenRectanglesIdle ==
    ASSUME NEW c, NEW s, Keeps(c, <<>>, s, Nothing)
    PROVE  c \in Client /\ ~c.stopped /\ (Starved(c) \/ (Idle(c) /\ Seen(c.pixels) = s))
<1>1. Waits(c, s, Nothing)
  BY KeepsWaiting
<1>2. c \in Client /\ ~c.stopped
  BY <1>1 DEF Waits
<1>3. ~ForTile(c, Nothing)
  BY <1>2, NothingIsLeft, TilesAreLeft
<1>4. ForRectangle(c, Nothing) => Idle(c)
  BY <1>2, Zenon DEF ForRectangle, Idle
<1> QED BY <1>1, <1>2, <1>3, <1>4, Zenon DEF Waits

LEMMA BetweenTilesAtTile ==
    ASSUME NEW c, NEW s, NEW t, t.tiles # <<>>, Keeps(c, <<>>, s, t)
    PROVE  c \in Client /\ ~c.stopped
           /\ (Starved(c) \/ (Seen(c.pixels) = s /\ \E k : AtTile(c, t, k)))
<1>1. Waits(c, s, t)
  BY KeepsWaiting
<1>2. c \in Client /\ ~c.stopped
  BY <1>1 DEF Waits
<1>3. ~ForRectangle(c, t)
  BY NothingIsLeft DEF ForRectangle
<1>4. ForTile(c, t) => \E k : AtTile(c, t, k)
  BY <1>2, TilesAreLeft
<1> QED BY <1>1, <1>2, <1>3, <1>4, Zenon DEF Waits

\* A client that waits for nothing goes on to do so, whatever is sent.
LEMMA StarvedKeeps ==
    ASSUME NEW c, c \in Client, ~c.stopped, Starved(c), NEW w, NEW s, NEW t
    PROVE  Keeps(c, w, s, t)
BY Zenon DEF Keeps

LEMMA SendRawKeeps ==
    ASSUME IInv, SendRaw
    PROVE  IInv'
<1>1. /\ sending = Nothing /\ wire = <<>> /\ sending' = sending /\ client' = client
  BY DEF SendRaw, SendsRectangle
<1>2. PICK f \in RawFrames : \E data \in Contents(f) :
         wire' = Header(f, EncRaw) \o data /\ screen' = Put(screen, f, data)
  BY DEF SendRaw
<1>3. PICK data \in Contents(f) :
         wire' = Header(f, EncRaw) \o data /\ screen' = Put(screen, f, data)
  BY <1>2
<1>4. client \in Client /\ ~client.stopped
      /\ (Starved(client) \/ (Idle(client) /\ Seen(client.pixels) = screen))
  BY <1>1, BetweenRectanglesIdle DEF IInv
<1>5. Keeps(client, wire', screen', Nothing)
  <2>1. CASE Starved(client)
    BY <1>4, <2>1, StarvedKeeps
  <2>2. CASE Idle(client) /\ Seen(client.pixels) = screen
    <3>1. After4(client, Header(f, EncRaw) \o data, Put(screen, f, data), Nothing)
      BY <2>2, RawIs
    <3> QED BY <1>3, <3>1, Zenon DEF Keeps
  <2> QED BY <1>4, <2>1, <2>2
<1> QED BY <1>1, <1>5, Zenon DEF IInv

LEMMA SendCopyKeeps ==
    ASSUME IInv, SendCopy
    PROVE  IInv'
<1>1. /\ sending = Nothing /\ wire = <<>> /\ sending' = sending /\ client' = client
  BY DEF SendCopy, SendsRectangle
<1>2. PICK f \in CopyFrames, to \in CopyFrames :
         /\ f.w = to.w /\ f.h = to.h
         /\ wire' = Header(to, EncCopy) \o <<f.x, f.y>>
         /\ screen' = Copied(screen, f, to.x, to.y)
  BY DEF SendCopy
<1>4. client \in Client /\ ~client.stopped
      /\ (Starved(client) \/ (Idle(client) /\ Seen(client.pixels) = screen))
  BY <1>1, BetweenRectanglesIdle DEF IInv
<1>5. Keeps(client, wire', screen', Nothing)
  <2>1. CASE Starved(client)
    BY <1>4, <2>1, StarvedKeeps
  <2>2. CASE Idle(client) /\ Seen(client.pixels) = screen
    <3>1. After4(client, Header(to, EncCopy) \o <<f.x, f.y>>, Copied(screen, f, to.x, to.y), Nothing)
      BY <1>2, <2>2, CopyIs
    <3> QED BY <1>2, <3>1, Zenon DEF Keeps
  <2> QED BY <1>4, <2>1, <2>2
<1> QED BY <1>1, <1>5, Zenon DEF IInv

LEMMA SendRREKeeps ==
    ASSUME IInv, SendRRE
    PROVE  IInv'
<1>1. /\ sending = Nothing /\ wire = <<>> /\ sending' = sending /\ client' = client
  BY DEF SendRRE, SendsRectangle
<1>3. PICK f \in RREFrames, back \in Colors : \E subs \in SubLists(f) :
         /\ wire' = Header(f, EncRRE) \o <<Len(subs), back>> \o RRENumbers(subs)
         /\ screen' = PaintedAll(Painted(screen, f, back), f, subs)
  BY Zenon DEF SendRRE, RRENumbers
<1>2. PICK subs \in SubLists(f) :
         /\ wire' = Header(f, EncRRE) \o <<Len(subs), back>> \o RRENumbers(subs)
         /\ screen' = PaintedAll(Painted(screen, f, back), f, subs)
  BY <1>3, Zenon
<1>4. client \in Client /\ ~client.stopped
      /\ (Starved(client) \/ (Idle(client) /\ Seen(client.pixels) = screen))
  BY <1>1, BetweenRectanglesIdle DEF IInv
<1>5. Keeps(client, wire', screen', Nothing)
  <2>1. CASE Starved(client)
    BY <1>4, <2>1, StarvedKeeps
  <2>2. CASE Idle(client) /\ Seen(client.pixels) = screen
    <3>1. After4(client, Header(f, EncRRE) \o <<Len(subs), back>> \o RRENumbers(subs),
                 PaintedAll(Painted(Seen(client.pixels), f, back), f, subs), Nothing)
      BY <2>2, RREIs
    <3> QED BY <1>2, <2>2, <3>1, Zenon DEF Keeps
  <2> QED BY <1>4, <2>1, <2>2
<1> QED BY <1>1, <1>5, Zenon DEF IInv

LEMMA BeginHextileKeeps ==
    ASSUME IInv, BeginHextile
    PROVE  IInv'
<1>1. /\ sending = Nothing /\ wire = <<>> /\ screen' = screen /\ client' = client
  BY DEF BeginHextile, SendsRectangle
<1>2. PICK f \in HextileFrames :
         /\ wire' = Header(f, EncHextile)
         /\ sending' = [Nothing EXCEPT !.tiles = TilesOf(f, HextileSide)]
  BY Zenon DEF BeginHextile
<1>4. client \in Client /\ ~client.stopped
      /\ (Starved(client) \/ (Idle(client) /\ Seen(client.pixels) = screen))
  BY <1>1, BetweenRectanglesIdle DEF IInv
<1>5. Keeps(client, wire', screen, sending')
  <2>1. CASE Starved(client)
    BY <1>4, <2>1, StarvedKeeps
  <2>2. CASE Idle(client) /\ Seen(client.pixels) = screen
    <3>1. After4(client, Header(f, EncHextile), Seen(client.pixels),
                 [Nothing EXCEPT !.tiles = TilesOf(f, HextileSide)])
      BY <2>2, HextileIs
    <3> QED BY <1>2, <2>2, <3>1, Zenon DEF Keeps
  <2> QED BY <1>4, <2>1, <2>2
<1> QED BY <1>1, <1>5, Zenon DEF IInv

LEMMA TileSentIs ==
    ASSUME NEW back, NEW fore
    PROVE  TileSent(back, fore) => sending' = Sent(sending, back, fore)
BY Zenon DEF TileSent, Sent

LEMMA SendRawTileKeeps ==
    ASSUME IInv, SendRawTile
    PROVE  IInv'
<1>1. /\ sending.tiles # <<>> /\ wire = <<>> /\ client' = client
      /\ sending' = Sent(sending, sending.back, sending.fore)
  BY TileSentIs, Zenon DEF SendRawTile, SendsTile
<1>2. PICK data \in Contents(Head(sending.tiles)) :
         /\ wire' = <<HexRaw>> \o data
         /\ screen' = Put(screen, Head(sending.tiles), data)
  BY Zenon DEF SendRawTile
<1>4. client \in Client /\ ~client.stopped
      /\ (Starved(client) \/ (Seen(client.pixels) = screen /\ \E k : AtTile(client, sending, k)))
  BY <1>1, BetweenTilesAtTile, Zenon DEF IInv
<1>5. CASE Starved(client)
  BY <1>1, <1>4, <1>5, StarvedKeeps, Zenon DEF IInv
<1>6. CASE Seen(client.pixels) = screen /\ \E k : AtTile(client, sending, k)
  <2>1. PICK k : AtTile(client, sending, k)
    BY <1>6
  <2>2. After4(client, <<HexRaw>> \o data,
               Put(Seen(client.pixels), Head(sending.tiles), data),
               Sent(sending, sending.back, sending.fore))
    BY <2>1, RawTileIs
  <2> QED BY <1>1, <1>2, <1>6, <2>2, Zenon DEF IInv, Keeps
<1> QED BY <1>4, <1>5, <1>6

LEMMA SendPlainTileKeeps ==
    ASSUME IInv, SendPlainTile
    PROVE  IInv'
<1>1. sending.tiles # <<>> /\ wire = <<>> /\ client' = client
  BY Zenon DEF SendPlainTile, SendsTile
<1>2. PICK back \in Specifies(sending.back), fore \in Specifies(sending.fore) :
         /\ wire' = <<Flag(back[2], HexBackground) + Flag(fore[2], HexForeground)>>
                       \o Given(back) \o Given(fore)
         /\ screen' = Painted(screen, Head(sending.tiles), back[1])
         /\ TileSent(back[1], fore[1])
  BY Zenon DEF SendPlainTile
<1>3. sending' = Sent(sending, back[1], fore[1])
  BY <1>2, TileSentIs, Zenon
<1>4. client \in Client /\ ~client.stopped
      /\ (Starved(client) \/ (Seen(client.pixels) = screen /\ \E k : AtTile(client, sending, k)))
  BY <1>1, BetweenTilesAtTile, Zenon DEF IInv
<1>5. CASE Starved(client)
  BY <1>1, <1>4, <1>5, StarvedKeeps, Zenon DEF IInv
<1>6. CASE Seen(client.pixels) = screen /\ \E k : AtTile(client, sending, k)
  <2>1. PICK k : AtTile(client, sending, k)
    BY <1>6
  <2>2. After4(client, <<Flag(back[2], HexBackground) + Flag(fore[2], HexForeground)>>
                         \o Given(back) \o Given(fore),
               Painted(Seen(client.pixels), Head(sending.tiles), back[1]),
               Sent(sending, back[1], fore[1]))
    BY <2>1, PlainTileIs
  <2> QED BY <1>1, <1>2, <1>3, <1>6, <2>2, Zenon DEF IInv, Keeps
<1> QED BY <1>4, <1>5, <1>6

LEMMA SendTileKeeps ==
    ASSUME IInv, SendTile
    PROVE  IInv'
<1> DEFINE t == Head(sending.tiles)
<1>1. sending.tiles # <<>> /\ wire = <<>> /\ client' = client
  BY Zenon DEF SendTile, SendsTile
<1>7. PICK back \in Specifies(sending.back), fore \in Specifies(sending.fore) :
         \E subs \in SubLists(t) :
            /\ \A i \in DOMAIN subs : subs[i].color = fore[1]
            /\ wire' = <<Flag(back[2], HexBackground) + Flag(fore[2], HexForeground)
                           + HexAnySubrects>>
                          \o Given(back) \o Given(fore) \o <<Len(subs)>> \o SubsOnWire(subs)
            /\ screen' = PaintedAll(Painted(screen, t, back[1]), t, subs)
            /\ TileSent(back[1], fore[1])
  BY Zenon DEF SendTile, SubsOnWire
<1>2. PICK subs \in SubLists(t) :
         /\ \A i \in DOMAIN subs : subs[i].color = fore[1]
         /\ wire' = <<Flag(back[2], HexBackground) + Flag(fore[2], HexForeground)
                        + HexAnySubrects>>
                       \o Given(back) \o Given(fore) \o <<Len(subs)>> \o SubsOnWire(subs)
         /\ screen' = PaintedAll(Painted(screen, t, back[1]), t, subs)
         /\ TileSent(back[1], fore[1])
  BY <1>7, Zenon
<1>3. sending' = Sent(sending, back[1], fore[1])
  BY <1>2, TileSentIs, Zenon
<1>4. client \in Client /\ ~client.stopped
      /\ (Starved(client) \/ (Seen(client.pixels) = screen /\ \E k : AtTile(client, sending, k)))
  BY <1>1, BetweenTilesAtTile, Zenon DEF IInv
<1>5. CASE Starved(client)
  BY <1>1, <1>4, <1>5, StarvedKeeps, Zenon DEF IInv
<1>6. CASE Seen(client.pixels) = screen /\ \E k : AtTile(client, sending, k)
  <2>1. PICK k : AtTile(client, sending, k)
    BY <1>6
  <2>2. After4(client, <<Flag(back[2], HexBackground) + Flag(fore[2], HexForeground)
                           + HexAnySubrects>>
                         \o Given(back) \o Given(fore) \o <<Len(subs)>> \o SubsOnWire(subs),
               PaintedAll(Painted(Seen(client.pixels), t, back[1]), t, subs),
               Sent(sending, back[1], fore[1]))
    BY <1>2, <2>1, SubsTileIs
  <2> QED BY <1>1, <1>2, <1>3, <1>6, <2>2, Zenon DEF IInv, Keeps
<1> QED BY <1>4, <1>5, <1>6

LEMMA SendColouredTileKeeps ==
    ASSUME IInv, SendColouredTile
    PROVE  IInv'
<1> DEFINE t == Head(sending.tiles)
<1>1. sending.tiles # <<>> /\ wire = <<>> /\ client' = client
  BY Zenon DEF SendColouredTile, SendsTile
<1>7. PICK back \in Specifies(sending.back) :
         \E subs \in SubLists(t) :
            /\ wire' = <<Flag(back[2], HexBackground) + HexAnySubrects + HexColoured>>
                          \o Given(back) \o <<Len(subs)>> \o ColouredOnWire(subs)
            /\ screen' = PaintedAll(Painted(screen, t, back[1]), t, subs)
            /\ TileSent(back[1], sending.fore)
  BY Zenon DEF SendColouredTile, ColouredOnWire
<1>2. PICK subs \in SubLists(t) :
         /\ wire' = <<Flag(back[2], HexBackground) + HexAnySubrects + HexColoured>>
                       \o Given(back) \o <<Len(subs)>> \o ColouredOnWire(subs)
         /\ screen' = PaintedAll(Painted(screen, t, back[1]), t, subs)
         /\ TileSent(back[1], sending.fore)
  BY <1>7, Zenon
<1>3. sending' = Sent(sending, back[1], sending.fore)
  BY <1>2, TileSentIs, Zenon
<1>4. client \in Client /\ ~client.stopped
      /\ (Starved(client) \/ (Seen(client.pixels) = screen /\ \E k : AtTile(client, sending, k)))
  BY <1>1, BetweenTilesAtTile, Zenon DEF IInv
<1>5. CASE Starved(client)
  BY <1>1, <1>4, <1>5, StarvedKeeps, Zenon DEF IInv
<1>6. CASE Seen(client.pixels) = screen /\ \E k : AtTile(client, sending, k)
  <2>1. PICK k : AtTile(client, sending, k)
    BY <1>6
  <2>2. After4(client, <<Flag(back[2], HexBackground) + HexAnySubrects + HexColoured>>
                         \o Given(back) \o <<Len(subs)>> \o ColouredOnWire(subs),
               PaintedAll(Painted(Seen(client.pixels), t, back[1]), t, subs),
               Sent(sending, back[1], sending.fore))
    BY <2>1, ColouredTileIs
  <2> QED BY <1>1, <1>2, <1>3, <1>6, <2>2, Zenon DEF IInv, Keeps
<1> QED BY <1>4, <1>5, <1>6

-----------------------------------------------------------------------------
(* What the server has to send, and what is on the wire, whatever the client *)
(* makes of it.                                                              *)

Small == {r \in Inside : r.w <= 16 /\ r.h <= 16}

Sendings == [tiles : Seq(Small), back : Colors \cup {Unspecified},
             fore : Colors \cup {Unspecified}]

ServerInv == wire \in Numbers /\ sending \in Sendings

LEMMA ConcatNumbers ==
    ASSUME NEW a \in Numbers, NEW b \in Numbers
    PROVE  a \o b \in Numbers
BY Split

LEMMA NothingTyped == Nothing \in Sendings /\ <<>> \in Numbers
<1>1. <<>> \in Seq(Small) /\ <<>> \in Seq(Nat)
  BY EmptySeq
<1> QED BY <1>1 DEF Nothing, Sendings, Numbers

LEMMA NextTileTyped ==
    ASSUME NEW t \in Sendings, t.tiles # <<>>,
           NEW back \in Colors \cup {Unspecified}, NEW fore \in Colors \cup {Unspecified}
    PROVE  Sent(t, back, fore) \in Sendings /\ Head(t.tiles) \in Small
<1>1. t.tiles \in Seq(Small)
  BY DEF Sendings
<1>2. Head(t.tiles) \in Small /\ Tail(t.tiles) \in Seq(Small)
  BY <1>1
<1>3. [t EXCEPT !.tiles = Tail(t.tiles), !.back = back, !.fore = fore] \in Sendings
  <2> DEFINE rest == Tail(t.tiles)
  <2>1. rest \in Seq(Small)
    BY <1>2
  <2> HIDE DEF rest
  <2>2. [t EXCEPT !.tiles = rest, !.back = back, !.fore = fore] \in Sendings
    BY <2>1 DEF Sendings
  <2> QED BY <2>2 DEF rest
<1> QED BY <1>2, <1>3, NothingTyped, Zenon DEF Sent

LEMMA GivenTyped ==
    ASSUME NEW old \in Colors \cup {Unspecified}, NEW p \in Specifies(old)
    PROVE  /\ p[1] \in Colors \cup {Unspecified} /\ Given(p) \in Numbers
           /\ \A bit \in Nat : Flag(p[2], bit) \in Nat
<1>1. (\E a \in Colors : p = <<a, TRUE>>) \/ (old # Unspecified /\ p = <<old, FALSE>>)
  BY DEF Specifies
<1>2. p[1] \in Colors
  <2>1. CASE \E a \in Colors : p = <<a, TRUE>>
    BY <2>1
  <2>2. CASE old # Unspecified /\ p = <<old, FALSE>>
    BY <2>2
  <2> QED BY <1>1, <2>1, <2>2
<1>3. p[1] \in Nat
  BY <1>2, FrameBufferAssumption
<1>4. Given(p) \in {<<p[1]>>, <<>>}
  BY Zenon DEF Given
<1>5. Given(p) \in Numbers
  BY <1>3, <1>4, OneIs
<1> QED BY <1>2, <1>5 DEF Flag

LEMMA PixelsTyped ==
    ASSUME NEW r \in Inside, NEW data \in Contents(r)
    PROVE  data \in Numbers
<1>1. Pixels(r) \in Nat \ {0}
  BY InsideIsRect
<1> QED BY <1>1, DataIs DEF Contents

LEMMA FlagsTyped ==
    /\ HexRaw \in Nat /\ HexBackground \in Nat /\ HexForeground \in Nat
    /\ HexAnySubrects \in Nat /\ HexColoured \in Nat
    /\ EncRaw \in Nat /\ EncCopy \in Nat /\ EncRRE \in Nat /\ EncHextile \in Nat /\ EncZRLE \in Nat
BY DEF HexRaw, HexBackground, HexForeground, HexAnySubrects, HexColoured,
       EncRaw, EncCopy, EncRRE, EncHextile, EncZRLE

LEMMA SmallIs ==
    ASSUME NEW r \in Small
    PROVE  /\ r \in Inside /\ r.w <= 16 /\ r.h <= 16
           /\ \A subs \in SubLists(r) : subs \in Subs(r) /\ Len(subs) \in Nat /\ <<Len(subs)>> \in Numbers
<1>1. r \in Inside /\ r.w <= 16 /\ r.h <= 16
  BY DEF Small
<1>2. ASSUME NEW subs \in SubLists(r)
      PROVE  subs \in Subs(r) /\ Len(subs) \in Nat /\ <<Len(subs)>> \in Numbers
  <2>1. subs \in Subs(r)
    BY <1>1, RectanglesAssumption DEF Subs
  <2>2. Len(subs) \in Nat
    BY <1>1, <2>1, SubsAre
  <2> QED BY <2>1, <2>2, OneIs
<1> QED BY <1>1, <1>2

\* The messages
LEMMA HeaderTyped ==
    ASSUME NEW f \in Frames, NEW e \in Nat, NEW b \in Numbers
    PROVE  Header(f, e) \o b \in Numbers /\ Header(f, e) \in Numbers
<1>1. f \in Inside
  BY RectanglesAssumption
<1> QED BY <1>1, HeaderIs, ConcatNumbers

LEMMA TileTyped ==
    ASSUME NEW e \in Nat, NEW a \in Numbers, NEW b \in Numbers, NEW n \in Numbers, NEW w \in Numbers
    PROVE  /\ <<e>> \o a \in Numbers /\ <<e>> \o a \o b \in Numbers
           /\ <<e>> \o a \o n \o w \in Numbers /\ <<e>> \o a \o b \o n \o w \in Numbers
<1>1. <<e>> \in Numbers
  BY OneIs
<1>2. <<e>> \o a \in Numbers
  BY <1>1, ConcatNumbers
<1>3. <<e>> \o a \o b \in Numbers /\ <<e>> \o a \o n \in Numbers
  BY <1>2, ConcatNumbers
<1>4. <<e>> \o a \o b \o n \in Numbers /\ <<e>> \o a \o n \o w \in Numbers
  BY <1>3, ConcatNumbers
<1> QED BY <1>2, <1>3, <1>4, ConcatNumbers

LEMMA RectanglesTyped ==
    ASSUME ServerInv, SendRaw \/ SendCopy \/ SendRRE \/ BeginHextile
    PROVE  ServerInv'
<1>1. RawFrames \subseteq Frames /\ CopyFrames \subseteq Frames /\ RREFrames \subseteq Frames
      /\ HextileFrames \subseteq Frames /\ Frames \subseteq Inside
  BY RectanglesAssumption DEF Frames
<1>2. CASE SendRaw
  <2>4. PICK f \in RawFrames : \E data \in Contents(f) : wire' = Header(f, EncRaw) \o data
    BY <1>2, Zenon DEF SendRaw
  <2>1. PICK data \in Contents(f) : wire' = Header(f, EncRaw) \o data
    BY <2>4
  <2>2. data \in Numbers
    BY <1>1, PixelsTyped
  <2>3. wire' \in Numbers
    BY <1>1, <2>1, <2>2, HeaderTyped, FlagsTyped
  <2> QED BY <1>2, <2>3 DEF SendRaw, ServerInv
<1>3. CASE SendCopy
  <2>1. PICK f \in CopyFrames, to \in CopyFrames : wire' = Header(to, EncCopy) \o <<f.x, f.y>>
    BY <1>3, Zenon DEF SendCopy
  <2>2. <<f.x, f.y>> \in Numbers
    BY <1>1, InsideIsRect DEF Numbers
  <2>3. wire' \in Numbers
    BY <1>1, <2>1, <2>2, HeaderTyped, FlagsTyped
  <2> QED BY <1>3, <2>3 DEF SendCopy, ServerInv
<1>4. CASE SendRRE
  <2>1. PICK f \in RREFrames, back \in Colors : \E subs \in SubLists(f) :
           wire' = Header(f, EncRRE) \o <<Len(subs), back>> \o RRENumbers(subs)
    BY <1>4, Zenon DEF SendRRE, RRENumbers
  <2>2. PICK subs \in SubLists(f) :
           wire' = Header(f, EncRRE) \o <<Len(subs), back>> \o RRENumbers(subs)
    BY <2>1
  <2>3. f \in Inside /\ back \in Nat
    BY <1>1, FrameBufferAssumption
  <2>4. subs \in Subs(f)
    BY <2>3, RectanglesAssumption DEF Subs
  <2>5. Len(subs) \in Nat /\ RRENumbers(subs) \in Numbers
    BY <2>3, <2>4, SubsAre, RREDecodes
  <2>6. <<Len(subs), back>> \in Numbers
    BY <2>3, <2>5 DEF Numbers
  <2>7. Header(f, EncRRE) \o <<Len(subs), back>> \in Numbers
    BY <1>1, <2>6, HeaderTyped, FlagsTyped
  <2>8. wire' \in Numbers
    BY <2>2, <2>5, <2>7, ConcatNumbers
  <2> QED BY <1>4, <2>8, Zenon DEF SendRRE, ServerInv
<1>5. CASE BeginHextile
  <2>1. PICK f \in HextileFrames :
           /\ wire' = Header(f, EncHextile)
           /\ sending' = [Nothing EXCEPT !.tiles = TilesOf(f, HextileSide)]
    BY <1>5, Zenon DEF BeginHextile
  <2>2. f \in Inside
    BY <1>1
  <2>3. Len(Tiles(f)) \in Nat \ {0} /\ Tiles(f) \in Seq(Inside)
        /\ \A k \in 1 .. Len(Tiles(f)) : Tiles(f)[k] \in Small
    BY <2>2, TilesAre DEF Small
  <2>4. Tiles(f) \in Seq(Small)
    <3> DEFINE T == Tiles(f)
    <3> HIDE DEF T
    <3>1. T \in Seq(Inside) /\ \A k \in 1 .. Len(T) : T[k] \in Small
      BY <2>3 DEF T
    <3>2. T \in Seq(Small)
      BY <3>1
    <3> QED BY <3>2 DEF T
  <2>5. sending' \in Sendings
    <3> DEFINE T == Tiles(f)
    <3>1. sending' = [Nothing EXCEPT !.tiles = T]
      BY <2>1, Zenon DEF Tiles
    <3> HIDE DEF T
    <3>2. [Nothing EXCEPT !.tiles = T] \in Sendings
      BY <2>4, NothingTyped DEF T, Sendings
    <3> QED BY <3>1, <3>2
  <2>6. wire' \in Numbers
    BY <2>1, <2>2, HeaderIs, FlagsTyped
  <2> QED BY <2>5, <2>6 DEF ServerInv
<1> QED BY <1>2, <1>3, <1>4, <1>5

LEMMA TilesTyped ==
    ASSUME ServerInv, SendRawTile \/ SendPlainTile \/ SendTile \/ SendColouredTile
    PROVE  ServerInv'
<1> DEFINE t == Head(sending.tiles)
<1>1. sending.tiles # <<>> /\ sending \in Sendings
      /\ sending.back \in Colors \cup {Unspecified} /\ sending.fore \in Colors \cup {Unspecified}
  BY Zenon DEF SendRawTile, SendPlainTile, SendTile, SendColouredTile, SendsTile, ServerInv, Sendings
<1>2. t \in Small /\ t \in Inside /\ t.w <= 16 /\ t.h <= 16
      /\ \A subs \in SubLists(t) : subs \in Subs(t) /\ Len(subs) \in Nat /\ <<Len(subs)>> \in Numbers
  <2>1. t \in Small
    BY <1>1, NextTileTyped
  <2> QED BY <2>1, SmallIs
<1> HIDE DEF t
<1>3. ASSUME NEW back \in Colors \cup {Unspecified}, NEW fore \in Colors \cup {Unspecified}
      PROVE  TileSent(back, fore) => sending' \in Sendings
  <2>1. Sent(sending, back, fore) \in Sendings
    BY <1>1, <1>3, NextTileTyped
  <2> QED BY <2>1, TileSentIs
<1>4. CASE SendRawTile
  <2>1. PICK data \in Contents(t) : wire' = <<HexRaw>> \o data
    BY <1>4, Zenon DEF SendRawTile, t
  <2>2. data \in Numbers
    BY <1>2, PixelsTyped
  <2>3. wire' \in Numbers
    BY <2>1, <2>2, TileTyped, FlagsTyped
  <2>4. sending' \in Sendings
    BY <1>1, <1>3, <1>4, Zenon DEF SendRawTile
  <2> QED BY <2>3, <2>4 DEF ServerInv
<1>5. CASE SendPlainTile
  <2>1. PICK back \in Specifies(sending.back), fore \in Specifies(sending.fore) :
           /\ wire' = <<Flag(back[2], HexBackground) + Flag(fore[2], HexForeground)>>
                         \o Given(back) \o Given(fore)
           /\ TileSent(back[1], fore[1])
    BY <1>5, Zenon DEF SendPlainTile
  <2>2. /\ back[1] \in Colors \cup {Unspecified} /\ Given(back) \in Numbers
        /\ fore[1] \in Colors \cup {Unspecified} /\ Given(fore) \in Numbers
        /\ Flag(back[2], HexBackground) \in Nat /\ Flag(fore[2], HexForeground) \in Nat
    BY <1>1, GivenTyped, FlagsTyped
  <2>3. Flag(back[2], HexBackground) + Flag(fore[2], HexForeground) \in Nat
    BY <2>2
  <2>4. wire' \in Numbers
    BY <2>1, <2>2, <2>3, TileTyped
  <2>5. sending' \in Sendings
    BY <1>3, <2>1, <2>2, Zenon
  <2> QED BY <2>4, <2>5 DEF ServerInv
<1>6. CASE SendTile
  <2>6. PICK back \in Specifies(sending.back), fore \in Specifies(sending.fore) :
           \E subs \in SubLists(t) :
              /\ \A i \in DOMAIN subs : subs[i].color = fore[1]
              /\ wire' = <<Flag(back[2], HexBackground) + Flag(fore[2], HexForeground)
                             + HexAnySubrects>>
                            \o Given(back) \o Given(fore) \o <<Len(subs)>> \o SubsOnWire(subs)
              /\ TileSent(back[1], fore[1])
    BY <1>6, Zenon DEF SendTile, SubsOnWire, t
  <2>1. PICK subs \in SubLists(t) :
              /\ \A i \in DOMAIN subs : subs[i].color = fore[1]
              /\ wire' = <<Flag(back[2], HexBackground) + Flag(fore[2], HexForeground)
                             + HexAnySubrects>>
                            \o Given(back) \o Given(fore) \o <<Len(subs)>> \o SubsOnWire(subs)
              /\ TileSent(back[1], fore[1])
    BY <2>6, Zenon
  <2>2. /\ back[1] \in Colors \cup {Unspecified} /\ Given(back) \in Numbers
        /\ fore[1] \in Colors \cup {Unspecified} /\ Given(fore) \in Numbers
        /\ Flag(back[2], HexBackground) \in Nat /\ Flag(fore[2], HexForeground) \in Nat
    BY <1>1, GivenTyped, FlagsTyped
  <2>3. Flag(back[2], HexBackground) + Flag(fore[2], HexForeground) + HexAnySubrects \in Nat
    BY <2>2, FlagsTyped
  <2>7. subs \in Subs(t) /\ <<Len(subs)>> \in Numbers /\ DOMAIN subs = 1 .. Len(subs)
    BY <1>2, SubsAre
  <2>8. SubsOnWire(subs) \in Numbers
    BY <1>2, <2>1, <2>7, SubsDecode
  <2>4. wire' \in Numbers
    BY <2>1, <2>2, <2>3, <2>7, <2>8, TileTyped
  <2>5. sending' \in Sendings
    BY <1>3, <2>1, <2>2, Zenon
  <2> QED BY <2>4, <2>5 DEF ServerInv
<1>7. CASE SendColouredTile
  <2>6. PICK back \in Specifies(sending.back) :
           \E subs \in SubLists(t) :
              /\ wire' = <<Flag(back[2], HexBackground) + HexAnySubrects + HexColoured>>
                            \o Given(back) \o <<Len(subs)>> \o ColouredOnWire(subs)
              /\ TileSent(back[1], sending.fore)
    BY <1>7, Zenon DEF SendColouredTile, ColouredOnWire, t
  <2>1. PICK subs \in SubLists(t) :
              /\ wire' = <<Flag(back[2], HexBackground) + HexAnySubrects + HexColoured>>
                            \o Given(back) \o <<Len(subs)>> \o ColouredOnWire(subs)
              /\ TileSent(back[1], sending.fore)
    BY <2>6, Zenon
  <2>2. /\ back[1] \in Colors \cup {Unspecified} /\ Given(back) \in Numbers
        /\ Flag(back[2], HexBackground) \in Nat
    BY <1>1, GivenTyped, FlagsTyped
  <2>3. Flag(back[2], HexBackground) + HexAnySubrects + HexColoured \in Nat
    BY <2>2, FlagsTyped
  <2>7. subs \in Subs(t) /\ <<Len(subs)>> \in Numbers
    BY <1>2
  <2>8. ColouredOnWire(subs) \in Numbers
    BY <1>2, <2>7, ColouredDecode
  <2>4. wire' \in Numbers
    BY <2>1, <2>2, <2>3, <2>7, <2>8, TileTyped
  <2>5. sending' \in Sendings
    BY <1>1, <1>3, <2>1, <2>2, Zenon
  <2> QED BY <2>4, <2>5 DEF ServerInv
<1> QED BY <1>4, <1>5, <1>6, <1>7

-----------------------------------------------------------------------------
(* The client reads.                                                       *)

LEMMA TerminateIs ==
    ASSUME NEW f, NEW t, NEW b, NEW g, NEW m, NEW n, NEW r, NEW px
    PROVE  LET c == Terminate(C(f, t, b, g, m, n, r, px))
           IN  c.stopped /\ c.count = n /\ c.mask = m
<1> DEFINE T == [frame : {f}, tile : {t}, back : {b}, fore : {g},
                  mask : {m}, count : {n}, reader : {r}, pixels : {px}, stopped : BOOLEAN]
           c == C(f, t, b, g, m, n, r, px)
           e == [c EXCEPT !.stopped = TRUE]
<1>1. c \in T
  BY DEF C
<1> HIDE DEF c
<1>2. e \in T /\ e.stopped
  BY <1>1
<1>3. Terminate(c) = e
  BY Zenon DEF Terminate
<1> HIDE DEF e
<1>4. e.count = n /\ e.mask = m
  BY <1>2
<1> QED BY <1>2, <1>3, <1>4 DEF c

\* A client that is done with a tile, or with a rectangle
LEMMA NextTileKeepsMask ==
    ASSUME NEW f, NEW t, NEW b, NEW g, NEW m, NEW n, NEW r, NEW px
    PROVE  \E v, s : NextTile(C(f, t, b, g, m, n, r, px)) = C(f, v, b, g, m, n, s, px)
<1> DEFINE c == C(f, t, b, g, m, n, r, px)
           d == NextTile(c)
<1>1. d = DidRect(c) \/ \E v : d = SetReader([c EXCEPT !.tile = v], "setSubEncoding", 1)
  <2> HIDE DEF c
  <2> QED BY Zenon DEF NextTile
<1>2. ASSUME d = DidRect(c)
      PROVE  d = C(f, t, b, g, m, n, Wait("setRect", 5), px)
  BY <1>2, SetReaderTo
<1>3. ASSUME NEW v, d = SetReader([c EXCEPT !.tile = v], "setSubEncoding", 1)
      PROVE  d = C(f, v, b, g, m, n, Wait("setSubEncoding", 1), px)
  <2>1. [c EXCEPT !.tile = v] = C(f, v, b, g, m, n, r, px)
    BY SetTileIs
  <2>2. SetReader(C(f, v, b, g, m, n, r, px), "setSubEncoding", 1)
           = C(f, v, b, g, m, n, Wait("setSubEncoding", 1), px)
    BY SetReaderTo
  <2> HIDE DEF c, d
  <2> QED BY <1>3, <2>1, <2>2, Zenon
<1> HIDE DEF d
<1> QED BY <1>1, <1>2, <1>3, Zenon DEF d, c

\* An empty list of subrectangles ends the connection.
LEMMA StarvedStops ==
    ASSUME NEW c \in Client, ~c.stopped, Starved(c), NEW d
    PROVE  LET now == Terminate(Act(c, d))
           IN  now.stopped /\ now.count = 0 /\ Bit(now.mask, HexAnySubrects)
<1> DEFINE f == c.frame
           t == c.tile
           b == c.back
           g == c.fore
           m == c.mask
           n == c.count
           px == c.pixels
           r == c.reader
<1>1. c = C(f, t, b, g, m, n, r, px)
  BY ClientIs
<1>2. /\ r.action \in {"drawSubRects", "drawSubColorRects"}
      /\ n = 0 /\ Bit(m, HexAnySubrects)
  BY WaitIs DEF Starved
<1>3. Act(c, d) \in {DrawSubRects(c, d), DrawSubColorRects(c, d)}
  BY <1>2, ActIs
<1>4. \E subs : Act(c, d) = NextTile(FillSubs(c, t, subs))
  BY <1>3, Zenon DEF DrawSubRects, DrawSubColorRects
<1>5. PICK subs : Act(c, d) = NextTile(FillSubs(c, t, subs))
  BY <1>4
<1>6. FillSubs(c, t, subs) = C(f, t, b, g, m, n, r, FillAll(px, t, subs))
  <2> HIDE DEF f, t, b, g, m, n, r, px
  <2> QED BY <1>1, FillSubsIs
<1> HIDE DEF f, t, b, g, m, n, r, px
<1>7. PICK v, s : NextTile(C(f, t, b, g, m, n, r, FillAll(px, t, subs)))
                     = C(f, v, b, g, m, n, s, FillAll(px, t, subs))
  BY NextTileKeepsMask
<1>8. Act(c, d) = C(f, v, b, g, m, n, s, FillAll(px, t, subs))
  BY <1>5, <1>6, <1>7, Zenon
<1>9. LET now == Terminate(C(f, v, b, g, m, n, s, FillAll(px, t, subs)))
      IN  now.stopped /\ now.count = n /\ now.mask = m
  BY TerminateIs
<1> QED BY <1>2, <1>8, <1>9, Zenon

LEMMA ReadDataKeeps ==
    ASSUME ServerInv, IInv, ReadData
    PROVE  ServerInv' /\ IInv'
<1> DEFINE n == client.reader.size
           now == Act(client, SubSeq(wire, 1, n))
           rest == SubSeq(wire, n + 1, Len(wire))
<1>1. /\ ~client.stopped /\ wire # <<>>
      /\ client' = (IF n = 0 THEN Terminate(now) ELSE now) /\ wire' = rest
      /\ screen' = screen /\ sending' = sending
  BY Zenon DEF ReadData
<1>2. wire \in Numbers /\ Len(wire) \in Nat \ {0}
  BY <1>1, EmptySeq, LenProperties DEF ServerInv, Numbers
<1>3. CASE client \in Client /\ Starved(client)
  <2>1. n = 0
    BY <1>3, WaitIs DEF Starved
  <2>2. rest = wire
    BY <1>2, <2>1, SubSeqFull DEF Numbers
  <2> HIDE DEF n, rest
  <2>3. client' = Terminate(now)
    BY <1>1, <2>1, Zenon
  <2>4. client'.stopped /\ client'.count = 0 /\ Bit(client'.mask, HexAnySubrects)
    <3>1. ASSUME NEW d
          PROVE  LET after == Terminate(Act(client, d))
                 IN  after.stopped /\ after.count = 0 /\ Bit(after.mask, HexAnySubrects)
      BY <1>1, <1>3, StarvedStops
    <3> QED BY <2>3, <3>1, Zenon
  <2>5. wire' = wire
    BY <1>1, <2>2
  <2>6. Keeps(client', wire', screen', sending')
    BY <1>1, <2>4, <2>5, Zenon DEF Keeps
  <2> QED BY <1>1, <2>5, <2>6, Zenon DEF ServerInv, IInv
<1>4. CASE ~(client \in Client /\ Starved(client))
  <2>1. After4(client, wire, screen, sending)
    BY <1>1, <1>4, Zenon DEF IInv, Keeps
  <2>2. Reads(client, wire) /\ After3(Now(client, wire), Rest(client, wire), screen, sending)
    BY <1>1, <2>1, Zenon DEF After4, After0
  <2>3. n \in 1 .. Len(wire)
    BY <2>2, Zenon DEF Reads
  <2>4. n # 0
    BY <1>2, <2>3
  <2>5. client' = Now(client, wire) /\ wire' = Rest(client, wire)
    <3> HIDE DEF now, n
    <3>1. client' = now
      BY <1>1, <2>4, Zenon
    <3> QED BY <1>1, <3>1, Zenon DEF Now, Rest, now, n
  <2>6. After4(client', wire', screen', sending')
    BY <1>1, <2>2, <2>5, AfterFewer
  <2>7. rest \in Numbers
    <3>1. \A i \in n + 1 .. Len(wire) : wire[i] \in Nat
      <4>1. \A i \in n + 1 .. Len(wire) : i \in 1 .. Len(wire)
        BY <1>2, <2>3
      <4> QED BY <1>2, <4>1, ElementOfSeq DEF Numbers
    <3>2. n + 1 \in Int /\ Len(wire) \in Int
      BY <1>2, <2>3
    <3> HIDE DEF n
    <3> QED BY <3>1, <3>2, SubSeqProperties DEF Numbers
  <2> HIDE DEF rest
  <2> QED BY <1>1, <2>6, <2>7, Zenon DEF IInv, Keeps, ServerInv
<1> QED BY <1>3, <1>4

LEMMA InitKeeps ==
    ASSUME Init
    PROVE  ServerInv /\ IInv
<1> DEFINE none == [x |-> 0, y |-> 0, w |-> 0, h |-> 0]
           px == [i \in 0 .. Width * Height - 1 |-> screen[<<i % Width, i \div Width>>]]
<1>1. sending = Nothing /\ wire = <<>> /\ screen \in Screens
  BY Zenon DEF Init
<1>2. client = C(none, none, 0, 0, 0, 0, Wait("setRect", 5), px)
  BY Zenon DEF Init, C, Wait
<1>3. screen \in [Points -> Colors]
  BY <1>1, RectanglesAssumption
<1>4. Width \in Nat \ {0} /\ Height \in Nat \ {0} /\ Width * Height \in Nat
  BY FrameBufferAssumption
<1>5. \A i \in 0 .. Width * Height - 1 : <<i % Width, i \div Width>> \in Points
  <2>1. \A i \in 0 .. Width * Height - 1 :
           i % Width \in 0 .. Width - 1 /\ i \div Width \in 0 .. Height - 1
    BY <1>4, Division
  <2> QED BY <2>1 DEF Points
<1>6. px \in Memory
  <2> DEFINE N == Width * Height - 1
             V(i) == screen[<<i % Width, i \div Width>>]
  <2>1. \A i \in 0 .. N : V(i) \in Colors
    BY <1>3, <1>5, Zenon
  <2> HIDE DEF V, N
  <2>2. [i \in 0 .. N |-> V(i)] \in [0 .. N -> Colors]
    BY <2>1
  <2> QED BY <2>2, Zenon DEF Memory, N, V
<1>7. Seen(px) = screen
  <2>1. ASSUME NEW p \in Points
        PROVE  px[At(p[1], p[2])] = screen[p]
    <3> DEFINE x == p[1]
               y == p[2]
               i == At(x, y)
    <3>1. x \in 0 .. Width - 1 /\ y \in 0 .. Height - 1 /\ p = <<x, y>>
      BY DEF Points
    <3> HIDE DEF x, y
    <3>2. i \in 0 .. Width * Height - 1 /\ i % Width = x /\ i \div Width = y
      BY <1>4, <3>1, Division DEF At
    <3> HIDE DEF i
    <3>3. px[i] = screen[<<x, y>>]
      BY <3>2
    <3> HIDE DEF px
    <3> QED BY <3>1, <3>3 DEF i, x, y
  <2> HIDE DEF px
  <2>2. Seen(px) = [p \in Points |-> screen[p]]
    BY <2>1, Zenon DEF Seen
  <2> QED BY <1>3, <2>2
<1> HIDE DEF px
<1>8. none \in Rect /\ 0 \in Colors \cup {0} /\ 0 \in 0 .. 255 /\ 0 \in Nat
  BY DEF Rect
<1> HIDE DEF none
<1>9. Waits(C(none, none, 0, 0, 0, 0, Wait("setRect", 5), px), Seen(px), Nothing)
  BY <1>6, <1>8, IdleWaits
<1>10. After4(client, wire, screen, sending)
  BY <1>1, <1>2, <1>7, <1>9, Zenon DEF After4, After0
<1> QED BY <1>1, <1>10, NothingTyped, Zenon DEF ServerInv, IInv, Keeps

LEMMA KeptShowsScreen ==
    ASSUME IInv
    PROVE  ShowsScreen
<1> SUFFICES ASSUME BetweenRectangles, NEW p \in Points
             PROVE  client.pixels[At(p[1], p[2])] = screen[p]
  BY Zenon DEF ShowsScreen
<1>1. wire = <<>> /\ client.reader.action = "setRect"
  BY Zenon DEF BetweenRectangles
<1>2. Waits(client, screen, sending)
  BY <1>1, KeepsWaiting DEF IInv
<1>3. ~Starved(client)
  BY <1>1, WaitIs DEF Starved
<1>4. Seen(client.pixels) = screen
  BY <1>2, <1>3, Zenon DEF Waits
<1> QED BY <1>4 DEF Seen

LEMMA KeptInStep ==
    ASSUME ServerInv, IInv
    PROVE  InStep
<1>1. wire \in Numbers
  BY DEF ServerInv
<1>2. CASE client.stopped
  <2>1. Len(<<>>) = 0 /\ ~After0(client, wire, screen, sending) /\ ~Reads(client, wire)
    BY <1>2, EmptySeq DEF After0, Reads, Waits
  <2>2. ~After4(client, wire, screen, sending)
    BY <2>1, Zenon DEF After4
  <2>3. client.count = 0 /\ Bit(client.mask, HexAnySubrects)
    BY <1>2, <2>2, Zenon DEF IInv, Keeps
  <2> QED BY <1>2, <2>3, Zenon DEF InStep, EmptyList
<1>3. CASE ~client.stopped /\ Starved(client)
  <2>1. client.reader.size = 0
    BY <1>3, WaitIs DEF Starved
  <2> QED BY <1>3, <2>1, Zenon DEF InStep, EmptyList, Starved
<1>4. CASE ~client.stopped /\ ~Starved(client) /\ wire # <<>>
  <2>1. Reads(client, wire)
    BY <1>4, Zenon DEF IInv, Keeps, After4, After0
  <2>2. client.reader.size \in 1 .. Len(wire) /\ Len(wire) \in Nat
    BY <1>1, <2>1, LenProperties DEF Reads, Numbers
  <2>3. client.reader.size # 0 /\ client.reader.size <= Len(wire)
    BY <2>2
  <2> QED BY <1>4, <2>3, Zenon DEF InStep
<1>5. CASE ~client.stopped /\ ~Starved(client) /\ wire = <<>>
  <2>1. Waits(client, screen, sending)
    BY <1>5, KeepsWaiting DEF IInv
  <2>2. ForRectangle(client, sending) \/ ForTile(client, sending)
    BY <1>5, <2>1, Zenon DEF Waits
  <2>3. CASE ForRectangle(client, sending)
    <3>1. sending = Nothing /\ client.reader.action = "setRect" /\ client.reader.size = 5
      BY <2>3, WaitIs DEF ForRectangle
    <3>2. client.reader.size # 0
      BY <3>1
    <3> QED BY <1>5, <3>1, <3>2, Zenon DEF InStep
  <2>4. CASE ForTile(client, sending)
    <3>1. client.reader.action = "setSubEncoding" /\ client.reader.size = 1
      BY <2>4, WaitIs DEF ForTile
    <3>2. sending # Nothing
      <4>1. client \in Client
        BY <2>1, Zenon DEF Waits
      <4> QED BY <1>5, <2>4, <4>1, TilesAreLeft, NothingIsLeft
    <3>3. client.reader.size # 0
      BY <3>1
    <3> QED BY <1>5, <3>1, <3>2, <3>3, Zenon DEF InStep
  <2> QED BY <2>2, <2>3, <2>4
<1> QED BY <1>2, <1>3, <1>4, <1>5
-----------------------------------------------------------------------------
(* ZRLE.  The walks of the client's reader, and of the bytes of indices,   *)
(* step by step.                                                           *)

LEMMA ZRLESideIs == ZRLESide \in Nat \ {0}
BY RectanglesAssumption

\* The lines of tiles
LEMMA LinesLoop ==
    ASSUME NEW f \in Inside, NEW data, NEW z
    PROVE  \E h : /\ h[0] = z /\ TilesZRLE(z, f, data) = h[Down(f, ZRLESide)]
                  /\ \A k \in 1 .. Down(f, ZRLESide) : h[k] = LineZRLE(h[k - 1], f, k - 1, data)
<1> DEFINE n == Down(f, ZRLESide)
           x == z
           Step(a, k) == LineZRLE(a, f, k, data)
           Good(h, i) == h = [k \in 0 .. i |-> IF k = 0 THEN x ELSE Step(h[k - 1], k - 1)]
           h == CHOOSE after : Good(after, n)
           G == {i \in 0 .. n : \E after : Good(after, i)}
<1>1. TilesZRLE(z, f, data) = h[n]
  BY Zenon DEF TilesZRLE, Walk, Step, Good, h, n, x, Down
<1>2. n \in Nat
  BY ZRLESideIs, TilesOfIs
<1> HIDE DEF Step, n, x
<1>3. 0 \in G
  <2>1. Good([k \in 0 .. 0 |-> x], 0)
    OBVIOUS
  <2> HIDE DEF Good
  <2> QED BY <1>2, <2>1
<1>4. ASSUME NEW i \in 1 .. n, i - 1 \in G PROVE i \in G
  <2>1. PICK a : Good(a, i - 1)
    BY <1>4
  <2> DEFINE b == [k \in 0 .. i |-> IF k = i THEN Step(a[i - 1], i - 1) ELSE a[k]]
  <2>2. \A k \in 0 .. i - 1 : a[k] = IF k = 0 THEN x ELSE Step(a[k - 1], k - 1)
    BY <2>1
  <2>3. i \in Nat /\ i # 0
    BY <1>2
  <2>4. b[i] = Step(b[i - 1], i - 1)
    BY <2>3
  <2>5. ASSUME NEW k \in 0 .. i, k # i
        PROVE  b[k] = IF k = 0 THEN x ELSE Step(b[k - 1], k - 1)
    <3>1. k \in 0 .. i - 1 /\ (k = 0 \/ (k - 1 \in 0 .. i /\ k - 1 # i))
      BY <2>3, <2>5
    <3>2. b[k] = a[k] /\ (k = 0 \/ b[k - 1] = a[k - 1])
      BY <2>5, <3>1
    <3> HIDE DEF b
    <3> QED BY <2>2, <3>1, <3>2
  <2>6. b = [k \in 0 .. i |-> b[k]]
    OBVIOUS
  <2> HIDE DEF b
  <2>7. \A k \in 0 .. i : b[k] = IF k = 0 THEN x ELSE Step(b[k - 1], k - 1)
    BY <2>3, <2>4, <2>5
  <2>8. Good(b, i)
    BY <2>6, <2>7
  <2> HIDE DEF Good
  <2> QED BY <1>4, <2>8
<1>5. n \in G
  <2> HIDE DEF G
  <2>1. \A i \in 0 .. n : i \in G
    BY <1>2, <1>3, <1>4, InductionTo
  <2> QED BY <1>2, <2>1
<1>6. Good(h, n)
  <2>1. \E after : Good(after, n)
    <3> HIDE DEF Good
    <3> QED BY <1>5
  <2> HIDE DEF Good
  <2> QED BY <2>1
<1> HIDE DEF h, G
<1>7. h[0] = x /\ \A k \in 1 .. n : h[k] = Step(h[k - 1], k - 1)
  <2>1. \A k \in 0 .. n : h[k] = IF k = 0 THEN x ELSE Step(h[k - 1], k - 1)
    BY <1>6
  <2>2. 0 \in 0 .. n /\ \A k \in 1 .. n : k \in 0 .. n /\ k # 0
    BY <1>2
  <2> QED BY <2>1, <2>2
<1> QED BY <1>1, <1>7, Zenon DEF n, x, Step

\* The tiles of a line
LEMMA LineLoop ==
    ASSUME NEW f \in Inside, NEW j, NEW data, NEW z
    PROVE  \E h : /\ h[0] = z /\ LineZRLE(z, f, j, data) = h[Across(f, ZRLESide)]
                  /\ \A k \in 1 .. Across(f, ZRLESide) : h[k] = TileZRLE(h[k - 1], TileAt(f, k - 1, j), data)
<1> DEFINE n == Across(f, ZRLESide)
           x == z
           Step(a, k) == TileZRLE(a, TileAt(f, k, j), data)
           Good(h, i) == h = [k \in 0 .. i |-> IF k = 0 THEN x ELSE Step(h[k - 1], k - 1)]
           h == CHOOSE after : Good(after, n)
           G == {i \in 0 .. n : \E after : Good(after, i)}
<1>1. LineZRLE(z, f, j, data) = h[n]
  BY Zenon DEF LineZRLE, Walk, Step, Good, h, n, x, Across
<1>2. n \in Nat
  BY ZRLESideIs, TilesOfIs
<1> HIDE DEF Step, n, x
<1>3. 0 \in G
  <2>1. Good([k \in 0 .. 0 |-> x], 0)
    OBVIOUS
  <2> HIDE DEF Good
  <2> QED BY <1>2, <2>1
<1>4. ASSUME NEW i \in 1 .. n, i - 1 \in G PROVE i \in G
  <2>1. PICK a : Good(a, i - 1)
    BY <1>4
  <2> DEFINE b == [k \in 0 .. i |-> IF k = i THEN Step(a[i - 1], i - 1) ELSE a[k]]
  <2>2. \A k \in 0 .. i - 1 : a[k] = IF k = 0 THEN x ELSE Step(a[k - 1], k - 1)
    BY <2>1
  <2>3. i \in Nat /\ i # 0
    BY <1>2
  <2>4. b[i] = Step(b[i - 1], i - 1)
    BY <2>3
  <2>5. ASSUME NEW k \in 0 .. i, k # i
        PROVE  b[k] = IF k = 0 THEN x ELSE Step(b[k - 1], k - 1)
    <3>1. k \in 0 .. i - 1 /\ (k = 0 \/ (k - 1 \in 0 .. i /\ k - 1 # i))
      BY <2>3, <2>5
    <3>2. b[k] = a[k] /\ (k = 0 \/ b[k - 1] = a[k - 1])
      BY <2>5, <3>1
    <3> HIDE DEF b
    <3> QED BY <2>2, <3>1, <3>2
  <2>6. b = [k \in 0 .. i |-> b[k]]
    OBVIOUS
  <2> HIDE DEF b
  <2>7. \A k \in 0 .. i : b[k] = IF k = 0 THEN x ELSE Step(b[k - 1], k - 1)
    BY <2>3, <2>4, <2>5
  <2>8. Good(b, i)
    BY <2>6, <2>7
  <2> HIDE DEF Good
  <2> QED BY <1>4, <2>8
<1>5. n \in G
  <2> HIDE DEF G
  <2>1. \A i \in 0 .. n : i \in G
    BY <1>2, <1>3, <1>4, InductionTo
  <2> QED BY <1>2, <2>1
<1>6. Good(h, n)
  <2>1. \E after : Good(after, n)
    <3> HIDE DEF Good
    <3> QED BY <1>5
  <2> HIDE DEF Good
  <2> QED BY <2>1
<1> HIDE DEF h, G
<1>7. h[0] = x /\ \A k \in 1 .. n : h[k] = Step(h[k - 1], k - 1)
  <2>1. \A k \in 0 .. n : h[k] = IF k = 0 THEN x ELSE Step(h[k - 1], k - 1)
    BY <1>6
  <2>2. 0 \in 0 .. n /\ \A k \in 1 .. n : k \in 0 .. n /\ k # 0
    BY <1>2
  <2> QED BY <2>1, <2>2
<1> QED BY <1>1, <1>7, Zenon DEF n, x, Step

\* A run, if the tile is not full
PlainRun(z, t, data) ==
    IF z.bad \/ z.y >= Pixels(t) THEN z
    ELSE IF z.left < 1 THEN TooSmall(z)
    ELSE RunZRLE(Skip(z, 1), t, data, data[z.at])

PaletteRun(z, t, data, palette) ==
    LET b == data[z.at]
        next == [z EXCEPT !.at = @ + 1]
    IN  IF z.bad \/ z.y >= Pixels(t) THEN z
        ELSE IF b < 128
        THEN [next EXCEPT !.m = PutRun(@, data[palette + b], 1, t, z.y), !.y = @ + 1]
        ELSE RunZRLE(next, t, data, data[palette + (b % 128)])

\* Runs of a tile
LEMMA PlainRunsLoop ==
    ASSUME NEW t \in Inside, NEW data, NEW z
    PROVE  \E h : /\ h[0] = z /\ PlainRunsZRLE(z, t, data) = h[Pixels(t)]
                  /\ \A k \in 1 .. Pixels(t) : h[k] = PlainRun(h[k - 1], t, data)
<1> DEFINE n == Pixels(t)
           x == z
           Step(a, k) == PlainRun(a, t, data)
           Good(h, i) == h = [k \in 0 .. i |-> IF k = 0 THEN x ELSE Step(h[k - 1], k - 1)]
           h == CHOOSE after : Good(after, n)
           G == {i \in 0 .. n : \E after : Good(after, i)}
<1>1. PlainRunsZRLE(z, t, data) = h[n]
  BY Zenon DEF PlainRunsZRLE, UntilFull, PlainRun, Walk, Step, Good, h, n, x
<1>2. n \in Nat
  BY InsideIsRect
<1> HIDE DEF Step, n, x
<1>3. 0 \in G
  <2>1. Good([k \in 0 .. 0 |-> x], 0)
    OBVIOUS
  <2> HIDE DEF Good
  <2> QED BY <1>2, <2>1
<1>4. ASSUME NEW i \in 1 .. n, i - 1 \in G PROVE i \in G
  <2>1. PICK a : Good(a, i - 1)
    BY <1>4
  <2> DEFINE b == [k \in 0 .. i |-> IF k = i THEN Step(a[i - 1], i - 1) ELSE a[k]]
  <2>2. \A k \in 0 .. i - 1 : a[k] = IF k = 0 THEN x ELSE Step(a[k - 1], k - 1)
    BY <2>1
  <2>3. i \in Nat /\ i # 0
    BY <1>2
  <2>4. b[i] = Step(b[i - 1], i - 1)
    BY <2>3
  <2>5. ASSUME NEW k \in 0 .. i, k # i
        PROVE  b[k] = IF k = 0 THEN x ELSE Step(b[k - 1], k - 1)
    <3>1. k \in 0 .. i - 1 /\ (k = 0 \/ (k - 1 \in 0 .. i /\ k - 1 # i))
      BY <2>3, <2>5
    <3>2. b[k] = a[k] /\ (k = 0 \/ b[k - 1] = a[k - 1])
      BY <2>5, <3>1
    <3> HIDE DEF b
    <3> QED BY <2>2, <3>1, <3>2
  <2>6. b = [k \in 0 .. i |-> b[k]]
    OBVIOUS
  <2> HIDE DEF b
  <2>7. \A k \in 0 .. i : b[k] = IF k = 0 THEN x ELSE Step(b[k - 1], k - 1)
    BY <2>3, <2>4, <2>5
  <2>8. Good(b, i)
    BY <2>6, <2>7
  <2> HIDE DEF Good
  <2> QED BY <1>4, <2>8
<1>5. n \in G
  <2> HIDE DEF G
  <2>1. \A i \in 0 .. n : i \in G
    BY <1>2, <1>3, <1>4, InductionTo
  <2> QED BY <1>2, <2>1
<1>6. Good(h, n)
  <2>1. \E after : Good(after, n)
    <3> HIDE DEF Good
    <3> QED BY <1>5
  <2> HIDE DEF Good
  <2> QED BY <2>1
<1> HIDE DEF h, G
<1>7. h[0] = x /\ \A k \in 1 .. n : h[k] = Step(h[k - 1], k - 1)
  <2>1. \A k \in 0 .. n : h[k] = IF k = 0 THEN x ELSE Step(h[k - 1], k - 1)
    BY <1>6
  <2>2. 0 \in 0 .. n /\ \A k \in 1 .. n : k \in 0 .. n /\ k # 0
    BY <1>2
  <2> QED BY <2>1, <2>2
<1> QED BY <1>1, <1>7, Zenon DEF n, x, Step

\* Runs of the colours of a palette
LEMMA PaletteRunsLoop ==
    ASSUME NEW t \in Inside, NEW data, NEW palette, NEW z
    PROVE  \E h : /\ h[0] = z /\ PaletteRunsZRLE(z, t, data, palette) = h[Pixels(t)]
                  /\ \A k \in 1 .. Pixels(t) : h[k] = PaletteRun(h[k - 1], t, data, palette)
<1> DEFINE n == Pixels(t)
           x == z
           Step(a, k) == PaletteRun(a, t, data, palette)
           Good(h, i) == h = [k \in 0 .. i |-> IF k = 0 THEN x ELSE Step(h[k - 1], k - 1)]
           h == CHOOSE after : Good(after, n)
           G == {i \in 0 .. n : \E after : Good(after, i)}
<1>1. PaletteRunsZRLE(z, t, data, palette) = h[n]
  BY Zenon DEF PaletteRunsZRLE, UntilFull, PaletteRun, Walk, Step, Good, h, n, x
<1>2. n \in Nat
  BY InsideIsRect
<1> HIDE DEF Step, n, x
<1>3. 0 \in G
  <2>1. Good([k \in 0 .. 0 |-> x], 0)
    OBVIOUS
  <2> HIDE DEF Good
  <2> QED BY <1>2, <2>1
<1>4. ASSUME NEW i \in 1 .. n, i - 1 \in G PROVE i \in G
  <2>1. PICK a : Good(a, i - 1)
    BY <1>4
  <2> DEFINE b == [k \in 0 .. i |-> IF k = i THEN Step(a[i - 1], i - 1) ELSE a[k]]
  <2>2. \A k \in 0 .. i - 1 : a[k] = IF k = 0 THEN x ELSE Step(a[k - 1], k - 1)
    BY <2>1
  <2>3. i \in Nat /\ i # 0
    BY <1>2
  <2>4. b[i] = Step(b[i - 1], i - 1)
    BY <2>3
  <2>5. ASSUME NEW k \in 0 .. i, k # i
        PROVE  b[k] = IF k = 0 THEN x ELSE Step(b[k - 1], k - 1)
    <3>1. k \in 0 .. i - 1 /\ (k = 0 \/ (k - 1 \in 0 .. i /\ k - 1 # i))
      BY <2>3, <2>5
    <3>2. b[k] = a[k] /\ (k = 0 \/ b[k - 1] = a[k - 1])
      BY <2>5, <3>1
    <3> HIDE DEF b
    <3> QED BY <2>2, <3>1, <3>2
  <2>6. b = [k \in 0 .. i |-> b[k]]
    OBVIOUS
  <2> HIDE DEF b
  <2>7. \A k \in 0 .. i : b[k] = IF k = 0 THEN x ELSE Step(b[k - 1], k - 1)
    BY <2>3, <2>4, <2>5
  <2>8. Good(b, i)
    BY <2>6, <2>7
  <2> HIDE DEF Good
  <2> QED BY <1>4, <2>8
<1>5. n \in G
  <2> HIDE DEF G
  <2>1. \A i \in 0 .. n : i \in G
    BY <1>2, <1>3, <1>4, InductionTo
  <2> QED BY <1>2, <2>1
<1>6. Good(h, n)
  <2>1. \E after : Good(after, n)
    <3> HIDE DEF Good
    <3> QED BY <1>5
  <2> HIDE DEF Good
  <2> QED BY <2>1
<1> HIDE DEF h, G
<1>7. h[0] = x /\ \A k \in 1 .. n : h[k] = Step(h[k - 1], k - 1)
  <2>1. \A k \in 0 .. n : h[k] = IF k = 0 THEN x ELSE Step(h[k - 1], k - 1)
    BY <1>6
  <2>2. 0 \in 0 .. n /\ \A k \in 1 .. n : k \in 0 .. n /\ k # 0
    BY <1>2
  <2> QED BY <2>1, <2>2
<1> QED BY <1>1, <1>7, Zenon DEF n, x, Step

Sample(indices, i) == IF i > Len(indices) THEN 0 ELSE indices[i]

Packs(h, indices, per, l) ==
    /\ h[0] = 0 /\ PackedByte(indices, per, l) = h[per]
    /\ \A k \in 1 .. per :
          h[k] = h[k - 1] * 2 ^ (8 \div per) + Sample(indices, (l - 1) * per + (k - 1) + 1)

\* The indices in a byte
LEMMA PackedByteLoop ==
    ASSUME NEW indices, NEW per \in Nat, NEW l
    PROVE  \E h : Packs(h, indices, per, l)
<1> DEFINE n == per
           x == 0
           Step(a, k) == a * 2 ^ (8 \div per) + Sample(indices, (l - 1) * per + k + 1)
           Good(h, i) == h = [k \in 0 .. i |-> IF k = 0 THEN x ELSE Step(h[k - 1], k - 1)]
           h == CHOOSE after : Good(after, n)
           G == {i \in 0 .. n : \E after : Good(after, i)}
<1>1. PackedByte(indices, per, l) = h[n]
  BY Zenon DEF PackedByte, Sample, Walk, Step, Good, h, n, x
<1>2. n \in Nat
  OBVIOUS
<1> HIDE DEF Step, n, x
<1>3. 0 \in G
  <2>1. Good([k \in 0 .. 0 |-> x], 0)
    OBVIOUS
  <2> HIDE DEF Good
  <2> QED BY <1>2, <2>1
<1>4. ASSUME NEW i \in 1 .. n, i - 1 \in G PROVE i \in G
  <2>1. PICK a : Good(a, i - 1)
    BY <1>4
  <2> DEFINE b == [k \in 0 .. i |-> IF k = i THEN Step(a[i - 1], i - 1) ELSE a[k]]
  <2>2. \A k \in 0 .. i - 1 : a[k] = IF k = 0 THEN x ELSE Step(a[k - 1], k - 1)
    BY <2>1
  <2>3. i \in Nat /\ i # 0
    BY <1>2
  <2>4. b[i] = Step(b[i - 1], i - 1)
    BY <2>3
  <2>5. ASSUME NEW k \in 0 .. i, k # i
        PROVE  b[k] = IF k = 0 THEN x ELSE Step(b[k - 1], k - 1)
    <3>1. k \in 0 .. i - 1 /\ (k = 0 \/ (k - 1 \in 0 .. i /\ k - 1 # i))
      BY <2>3, <2>5
    <3>2. b[k] = a[k] /\ (k = 0 \/ b[k - 1] = a[k - 1])
      BY <2>5, <3>1
    <3> HIDE DEF b
    <3> QED BY <2>2, <3>1, <3>2
  <2>6. b = [k \in 0 .. i |-> b[k]]
    OBVIOUS
  <2> HIDE DEF b
  <2>7. \A k \in 0 .. i : b[k] = IF k = 0 THEN x ELSE Step(b[k - 1], k - 1)
    BY <2>3, <2>4, <2>5
  <2>8. Good(b, i)
    BY <2>6, <2>7
  <2> HIDE DEF Good
  <2> QED BY <1>4, <2>8
<1>5. n \in G
  <2> HIDE DEF G
  <2>1. \A i \in 0 .. n : i \in G
    BY <1>2, <1>3, <1>4, InductionTo
  <2> QED BY <1>2, <2>1
<1>6. Good(h, n)
  <2>1. \E after : Good(after, n)
    <3> HIDE DEF Good
    <3> QED BY <1>5
  <2> HIDE DEF Good
  <2> QED BY <2>1
<1> HIDE DEF h, G
<1>7. h[0] = x /\ \A k \in 1 .. n : h[k] = Step(h[k - 1], k - 1)
  <2>1. \A k \in 0 .. n : h[k] = IF k = 0 THEN x ELSE Step(h[k - 1], k - 1)
    BY <1>6
  <2>2. 0 \in 0 .. n /\ \A k \in 1 .. n : k \in 0 .. n /\ k # 0
    BY <1>2
  <2> QED BY <2>1, <2>2
<1> QED BY <1>1, <1>7, Zenon DEF n, x, Step, Packs

\* The j-th of the indices in byte v, from the left and from 0
Field(v, per, j) == (v \div 2 ^ ((8 \div per) * (per - 1 - j))) % (2 ^ (8 \div per))

LEMMA TwoInByte ==
    ASSUME NEW indices, NEW l \in Nat,
           \A j \in 0 .. 1 : Sample(indices, (l - 1) * 2 + j + 1) \in 0 .. 15
    PROVE  /\ PackedByte(indices, 2, l) \in Nat
           /\ \A j \in 0 .. 1 : Field(PackedByte(indices, 2, l), 2, j)
                                   = Sample(indices, (l - 1) * 2 + j + 1)
<1> DEFINE v == PackedByte(indices, 2, l)
           S(j) == Sample(indices, (l - 1) * 2 + j + 1)
<1>1. PICK h : /\ h[0] = 0 /\ v = h[2]
               /\ \A k \in 1 .. 2 :
                     h[k] = h[k - 1] * 2 ^ (8 \div 2)
                               + Sample(indices, (l - 1) * 2 + (k - 1) + 1)
  <2>1. \E h : Packs(h, indices, 2, l)
    <3>1. 2 \in Nat
      OBVIOUS
    <3> QED BY <3>1, PackedByteLoop, Zenon
  <2> QED BY <2>1, Zenon DEF Packs
<1>2. 2 ^ (8 \div 2) = 16
  OBVIOUS
<1> DEFINE
    s0 == S(0)
    s1 == S(1)
    h0 == h[0]
    h1 == h[1]
    h2 == h[2]
<1>3. s0 \in 0 .. 15 /\ s1 \in 0 .. 15
  OBVIOUS
<1>4. h0 = 0
  BY <1>1
<1>5. \A k \in 1 .. 2 : h[k] = h[k - 1] * 16 + S(k - 1)
  BY <1>1, <1>2, Zenon DEF S
<1>h0. h1 = h0 * 16 + s0
  <2>1. 1 \in 1 .. 2 /\ 1 - 1 = 0
    OBVIOUS
  <2> HIDE DEF S
  <2> QED BY <1>5, <2>1
<1>h1. h2 = h1 * 16 + s1
  <2>1. 2 \in 1 .. 2 /\ 2 - 1 = 1
    OBVIOUS
  <2> HIDE DEF S
  <2> QED BY <1>5, <2>1
<1>6. v = h2
  BY <1>1
<1> HIDE DEF S, v, s0, s1, h0, h1, h2
<1>7. h0 \in Nat /\ h1 \in Nat /\ h2 \in Nat
  <2>1. h1 \in Nat
    BY <1>3, <1>4, <1>h0
  <2>2. h2 \in Nat
    BY <1>3, <1>4, <2>1, <1>h1
  <2> QED BY <1>4, <2>1, <2>2
<1>f0. (v \div 16) % 16 = s0
  BY <1>3, <1>4, <1>6, <1>7, <1>h0, <1>h1
<1>g0. Field(v, 2, 0) = s0
  <2>1. 2 ^ ((8 \div 2) * (2 - 1 - 0)) = 16
    OBVIOUS
  <2> QED BY <1>2, <1>f0, <2>1, Zenon DEF Field
<1>f1. (v \div 1) % 16 = s1
  BY <1>3, <1>4, <1>6, <1>7, <1>h0, <1>h1
<1>g1. Field(v, 2, 1) = s1
  <2>1. 2 ^ ((8 \div 2) * (2 - 1 - 1)) = 1
    OBVIOUS
  <2> QED BY <1>2, <1>f1, <2>1, Zenon DEF Field
<1>8. \A j \in 0 .. 1 : Field(v, 2, j) = S(j)
  <2>1. \A j \in 0 .. 1 : j = 0 \/ j = 1
    OBVIOUS
  <2> QED BY <2>1, <1>g0, <1>g1, Zenon DEF s0, s1
<1> QED BY <1>6, <1>7, <1>8 DEF v, S

LEMMA FourInByte ==
    ASSUME NEW indices, NEW l \in Nat,
           \A j \in 0 .. 3 : Sample(indices, (l - 1) * 4 + j + 1) \in 0 .. 3
    PROVE  /\ PackedByte(indices, 4, l) \in Nat
           /\ \A j \in 0 .. 3 : Field(PackedByte(indices, 4, l), 4, j)
                                   = Sample(indices, (l - 1) * 4 + j + 1)
<1> DEFINE v == PackedByte(indices, 4, l)
           S(j) == Sample(indices, (l - 1) * 4 + j + 1)
<1>1. PICK h : /\ h[0] = 0 /\ v = h[4]
               /\ \A k \in 1 .. 4 :
                     h[k] = h[k - 1] * 2 ^ (8 \div 4)
                               + Sample(indices, (l - 1) * 4 + (k - 1) + 1)
  <2>1. \E h : Packs(h, indices, 4, l)
    <3>1. 4 \in Nat
      OBVIOUS
    <3> QED BY <3>1, PackedByteLoop, Zenon
  <2> QED BY <2>1, Zenon DEF Packs
<1>2. 2 ^ (8 \div 4) = 4
  OBVIOUS
<1> DEFINE
    s0 == S(0)
    s1 == S(1)
    s2 == S(2)
    s3 == S(3)
    h0 == h[0]
    h1 == h[1]
    h2 == h[2]
    h3 == h[3]
    h4 == h[4]
<1>3. s0 \in 0 .. 3 /\ s1 \in 0 .. 3 /\ s2 \in 0 .. 3 /\ s3 \in 0 .. 3
  OBVIOUS
<1>4. h0 = 0
  BY <1>1
<1>5. \A k \in 1 .. 4 : h[k] = h[k - 1] * 4 + S(k - 1)
  BY <1>1, <1>2, Zenon DEF S
<1>h0. h1 = h0 * 4 + s0
  <2>1. 1 \in 1 .. 4 /\ 1 - 1 = 0
    OBVIOUS
  <2> HIDE DEF S
  <2> QED BY <1>5, <2>1
<1>h1. h2 = h1 * 4 + s1
  <2>1. 2 \in 1 .. 4 /\ 2 - 1 = 1
    OBVIOUS
  <2> HIDE DEF S
  <2> QED BY <1>5, <2>1
<1>h2. h3 = h2 * 4 + s2
  <2>1. 3 \in 1 .. 4 /\ 3 - 1 = 2
    OBVIOUS
  <2> HIDE DEF S
  <2> QED BY <1>5, <2>1
<1>h3. h4 = h3 * 4 + s3
  <2>1. 4 \in 1 .. 4 /\ 4 - 1 = 3
    OBVIOUS
  <2> HIDE DEF S
  <2> QED BY <1>5, <2>1
<1>6. v = h4
  BY <1>1
<1> HIDE DEF S, v, s0, s1, s2, s3, h0, h1, h2, h3, h4
<1>7. h0 \in Nat /\ h1 \in Nat /\ h2 \in Nat /\ h3 \in Nat /\ h4 \in Nat
  <2>1. h1 \in Nat
    BY <1>3, <1>4, <1>h0
  <2>2. h2 \in Nat
    BY <1>3, <1>4, <2>1, <1>h1
  <2>3. h3 \in Nat
    BY <1>3, <1>4, <2>2, <1>h2
  <2>4. h4 \in Nat
    BY <1>3, <1>4, <2>3, <1>h3
  <2> QED BY <1>4, <2>1, <2>2, <2>3, <2>4
<1>f0. (v \div 64) % 4 = s0
  BY <1>3, <1>4, <1>6, <1>7, <1>h0, <1>h1, <1>h2, <1>h3
<1>g0. Field(v, 4, 0) = s0
  <2>1. 2 ^ ((8 \div 4) * (4 - 1 - 0)) = 64
    OBVIOUS
  <2> QED BY <1>2, <1>f0, <2>1, Zenon DEF Field
<1>f1. (v \div 16) % 4 = s1
  BY <1>3, <1>4, <1>6, <1>7, <1>h0, <1>h1, <1>h2, <1>h3
<1>g1. Field(v, 4, 1) = s1
  <2>1. 2 ^ ((8 \div 4) * (4 - 1 - 1)) = 16
    OBVIOUS
  <2> QED BY <1>2, <1>f1, <2>1, Zenon DEF Field
<1>f2. (v \div 4) % 4 = s2
  BY <1>3, <1>4, <1>6, <1>7, <1>h0, <1>h1, <1>h2, <1>h3
<1>g2. Field(v, 4, 2) = s2
  <2>1. 2 ^ ((8 \div 4) * (4 - 1 - 2)) = 4
    OBVIOUS
  <2> QED BY <1>2, <1>f2, <2>1, Zenon DEF Field
<1>f3. (v \div 1) % 4 = s3
  BY <1>3, <1>4, <1>6, <1>7, <1>h0, <1>h1, <1>h2, <1>h3
<1>g3. Field(v, 4, 3) = s3
  <2>1. 2 ^ ((8 \div 4) * (4 - 1 - 3)) = 1
    OBVIOUS
  <2> QED BY <1>2, <1>f3, <2>1, Zenon DEF Field
<1>8. \A j \in 0 .. 3 : Field(v, 4, j) = S(j)
  <2>1. \A j \in 0 .. 3 : j = 0 \/ j = 1 \/ j = 2 \/ j = 3
    OBVIOUS
  <2> QED BY <2>1, <1>g0, <1>g1, <1>g2, <1>g3, Zenon DEF s0, s1, s2, s3
<1> QED BY <1>6, <1>7, <1>8 DEF v, S

LEMMA EightInByte ==
    ASSUME NEW indices, NEW l \in Nat,
           \A j \in 0 .. 7 : Sample(indices, (l - 1) * 8 + j + 1) \in 0 .. 1
    PROVE  /\ PackedByte(indices, 8, l) \in Nat
           /\ \A j \in 0 .. 7 : Field(PackedByte(indices, 8, l), 8, j)
                                   = Sample(indices, (l - 1) * 8 + j + 1)
<1> DEFINE v == PackedByte(indices, 8, l)
           S(j) == Sample(indices, (l - 1) * 8 + j + 1)
<1>1. PICK h : /\ h[0] = 0 /\ v = h[8]
               /\ \A k \in 1 .. 8 :
                     h[k] = h[k - 1] * 2 ^ (8 \div 8)
                               + Sample(indices, (l - 1) * 8 + (k - 1) + 1)
  <2>1. \E h : Packs(h, indices, 8, l)
    <3>1. 8 \in Nat
      OBVIOUS
    <3> QED BY <3>1, PackedByteLoop, Zenon
  <2> QED BY <2>1, Zenon DEF Packs
<1>2. 2 ^ (8 \div 8) = 2
  OBVIOUS
<1> DEFINE
    s0 == S(0)
    s1 == S(1)
    s2 == S(2)
    s3 == S(3)
    s4 == S(4)
    s5 == S(5)
    s6 == S(6)
    s7 == S(7)
    h0 == h[0]
    h1 == h[1]
    h2 == h[2]
    h3 == h[3]
    h4 == h[4]
    h5 == h[5]
    h6 == h[6]
    h7 == h[7]
    h8 == h[8]
<1>3. s0 \in 0 .. 1 /\ s1 \in 0 .. 1 /\ s2 \in 0 .. 1 /\ s3 \in 0 .. 1 /\ s4 \in 0 .. 1 /\ s5 \in 0 .. 1 /\ s6 \in 0 .. 1 /\ s7 \in 0 .. 1
  OBVIOUS
<1>4. h0 = 0
  BY <1>1
<1>5. \A k \in 1 .. 8 : h[k] = h[k - 1] * 2 + S(k - 1)
  BY <1>1, <1>2, Zenon DEF S
<1>h0. h1 = h0 * 2 + s0
  <2>1. 1 \in 1 .. 8 /\ 1 - 1 = 0
    OBVIOUS
  <2> HIDE DEF S
  <2> QED BY <1>5, <2>1
<1>h1. h2 = h1 * 2 + s1
  <2>1. 2 \in 1 .. 8 /\ 2 - 1 = 1
    OBVIOUS
  <2> HIDE DEF S
  <2> QED BY <1>5, <2>1
<1>h2. h3 = h2 * 2 + s2
  <2>1. 3 \in 1 .. 8 /\ 3 - 1 = 2
    OBVIOUS
  <2> HIDE DEF S
  <2> QED BY <1>5, <2>1
<1>h3. h4 = h3 * 2 + s3
  <2>1. 4 \in 1 .. 8 /\ 4 - 1 = 3
    OBVIOUS
  <2> HIDE DEF S
  <2> QED BY <1>5, <2>1
<1>h4. h5 = h4 * 2 + s4
  <2>1. 5 \in 1 .. 8 /\ 5 - 1 = 4
    OBVIOUS
  <2> HIDE DEF S
  <2> QED BY <1>5, <2>1
<1>h5. h6 = h5 * 2 + s5
  <2>1. 6 \in 1 .. 8 /\ 6 - 1 = 5
    OBVIOUS
  <2> HIDE DEF S
  <2> QED BY <1>5, <2>1
<1>h6. h7 = h6 * 2 + s6
  <2>1. 7 \in 1 .. 8 /\ 7 - 1 = 6
    OBVIOUS
  <2> HIDE DEF S
  <2> QED BY <1>5, <2>1
<1>h7. h8 = h7 * 2 + s7
  <2>1. 8 \in 1 .. 8 /\ 8 - 1 = 7
    OBVIOUS
  <2> HIDE DEF S
  <2> QED BY <1>5, <2>1
<1>6. v = h8
  BY <1>1
<1> HIDE DEF S, v, s0, s1, s2, s3, s4, s5, s6, s7, h0, h1, h2, h3, h4, h5, h6, h7, h8
<1>7. h0 \in Nat /\ h1 \in Nat /\ h2 \in Nat /\ h3 \in Nat /\ h4 \in Nat /\ h5 \in Nat /\ h6 \in Nat /\ h7 \in Nat /\ h8 \in Nat
  <2>1. h1 \in Nat
    BY <1>3, <1>4, <1>h0
  <2>2. h2 \in Nat
    BY <1>3, <1>4, <2>1, <1>h1
  <2>3. h3 \in Nat
    BY <1>3, <1>4, <2>2, <1>h2
  <2>4. h4 \in Nat
    BY <1>3, <1>4, <2>3, <1>h3
  <2>5. h5 \in Nat
    BY <1>3, <1>4, <2>4, <1>h4
  <2>6. h6 \in Nat
    BY <1>3, <1>4, <2>5, <1>h5
  <2>7. h7 \in Nat
    BY <1>3, <1>4, <2>6, <1>h6
  <2>8. h8 \in Nat
    BY <1>3, <1>4, <2>7, <1>h7
  <2> QED BY <1>4, <2>1, <2>2, <2>3, <2>4, <2>5, <2>6, <2>7, <2>8
<1>f0. (v \div 128) % 2 = s0
  BY <1>3, <1>4, <1>6, <1>7, <1>h0, <1>h1, <1>h2, <1>h3, <1>h4, <1>h5, <1>h6, <1>h7
<1>g0. Field(v, 8, 0) = s0
  <2>1. 2 ^ ((8 \div 8) * (8 - 1 - 0)) = 128
    OBVIOUS
  <2> QED BY <1>2, <1>f0, <2>1, Zenon DEF Field
<1>f1. (v \div 64) % 2 = s1
  BY <1>3, <1>4, <1>6, <1>7, <1>h0, <1>h1, <1>h2, <1>h3, <1>h4, <1>h5, <1>h6, <1>h7
<1>g1. Field(v, 8, 1) = s1
  <2>1. 2 ^ ((8 \div 8) * (8 - 1 - 1)) = 64
    OBVIOUS
  <2> QED BY <1>2, <1>f1, <2>1, Zenon DEF Field
<1>f2. (v \div 32) % 2 = s2
  BY <1>3, <1>4, <1>6, <1>7, <1>h0, <1>h1, <1>h2, <1>h3, <1>h4, <1>h5, <1>h6, <1>h7
<1>g2. Field(v, 8, 2) = s2
  <2>1. 2 ^ ((8 \div 8) * (8 - 1 - 2)) = 32
    OBVIOUS
  <2> QED BY <1>2, <1>f2, <2>1, Zenon DEF Field
<1>f3. (v \div 16) % 2 = s3
  BY <1>3, <1>4, <1>6, <1>7, <1>h0, <1>h1, <1>h2, <1>h3, <1>h4, <1>h5, <1>h6, <1>h7
<1>g3. Field(v, 8, 3) = s3
  <2>1. 2 ^ ((8 \div 8) * (8 - 1 - 3)) = 16
    OBVIOUS
  <2> QED BY <1>2, <1>f3, <2>1, Zenon DEF Field
<1>f4. (v \div 8) % 2 = s4
  BY <1>3, <1>4, <1>6, <1>7, <1>h0, <1>h1, <1>h2, <1>h3, <1>h4, <1>h5, <1>h6, <1>h7
<1>g4. Field(v, 8, 4) = s4
  <2>1. 2 ^ ((8 \div 8) * (8 - 1 - 4)) = 8
    OBVIOUS
  <2> QED BY <1>2, <1>f4, <2>1, Zenon DEF Field
<1>f5. (v \div 4) % 2 = s5
  BY <1>3, <1>4, <1>6, <1>7, <1>h0, <1>h1, <1>h2, <1>h3, <1>h4, <1>h5, <1>h6, <1>h7
<1>g5. Field(v, 8, 5) = s5
  <2>1. 2 ^ ((8 \div 8) * (8 - 1 - 5)) = 4
    OBVIOUS
  <2> QED BY <1>2, <1>f5, <2>1, Zenon DEF Field
<1>f6. (v \div 2) % 2 = s6
  BY <1>3, <1>4, <1>6, <1>7, <1>h0, <1>h1, <1>h2, <1>h3, <1>h4, <1>h5, <1>h6, <1>h7
<1>g6. Field(v, 8, 6) = s6
  <2>1. 2 ^ ((8 \div 8) * (8 - 1 - 6)) = 2
    OBVIOUS
  <2> QED BY <1>2, <1>f6, <2>1, Zenon DEF Field
<1>f7. (v \div 1) % 2 = s7
  BY <1>3, <1>4, <1>6, <1>7, <1>h0, <1>h1, <1>h2, <1>h3, <1>h4, <1>h5, <1>h6, <1>h7
<1>g7. Field(v, 8, 7) = s7
  <2>1. 2 ^ ((8 \div 8) * (8 - 1 - 7)) = 1
    OBVIOUS
  <2> QED BY <1>2, <1>f7, <2>1, Zenon DEF Field
<1>8. \A j \in 0 .. 7 : Field(v, 8, j) = S(j)
  <2>1. \A j \in 0 .. 7 : j = 0 \/ j = 1 \/ j = 2 \/ j = 3 \/ j = 4 \/ j = 5 \/ j = 6 \/ j = 7
    OBVIOUS
  <2> QED
    BY <2>1, <1>g0, <1>g1, <1>g2, <1>g3, <1>g4, <1>g5, <1>g6, <1>g7, Zenon DEF s0, s1, s2, s3, s4, s5, s6, s7
<1> QED BY <1>6, <1>7, <1>8 DEF v, S

-----------------------------------------------------------------------------
(* Where the client is in a block.                                         *)

Z(m, at, left, y) == [m |-> m, at |-> at, left |-> left, y |-> y, bad |-> FALSE]

LEMMA ZDraws ==
    ASSUME NEW m, NEW at, NEW left, NEW y, NEW v
    PROVE  [Z(m, at, left, y) EXCEPT !.m = v] = Z(v, at, left, y)
<1> DEFINE T == [m : {m, v}, at : {at}, left : {left}, y : {y}, bad : {FALSE}]
           z == Z(m, at, left, y)
           e == [z EXCEPT !.m = v]
<1>1. z \in T
  BY DEF Z
<1>2. z.m = m /\ z.at = at /\ z.left = left /\ z.y = y /\ z.bad = FALSE
  BY DEF Z
<1> HIDE DEF z
<1>3. e \in T /\ e.m = v /\ e.at = at /\ e.left = left /\ e.y = y /\ e.bad = FALSE
  BY <1>1, <1>2
<1> HIDE DEF e
<1>4. e = [m |-> e.m, at |-> e.at, left |-> e.left, y |-> e.y, bad |-> e.bad]
  BY <1>3
<1> QED BY <1>3, <1>4 DEF e, z, Z

LEMMA ZBegins ==
    ASSUME NEW m, NEW at, NEW left, NEW y, NEW v
    PROVE  [Z(m, at, left, y) EXCEPT !.y = v] = Z(m, at, left, v)
<1> DEFINE T == [m : {m}, at : {at}, left : {left}, y : {y, v}, bad : {FALSE}]
           z == Z(m, at, left, y)
           e == [z EXCEPT !.y = v]
<1>1. z \in T
  BY DEF Z
<1>2. z.m = m /\ z.at = at /\ z.left = left /\ z.y = y /\ z.bad = FALSE
  BY DEF Z
<1> HIDE DEF z
<1>3. e \in T /\ e.m = m /\ e.at = at /\ e.left = left /\ e.y = v /\ e.bad = FALSE
  BY <1>1, <1>2
<1> HIDE DEF e
<1>4. e = [m |-> e.m, at |-> e.at, left |-> e.left, y |-> e.y, bad |-> e.bad]
  BY <1>3
<1> QED BY <1>3, <1>4 DEF e, z, Z

LEMMA ZMoves ==
    ASSUME NEW m, NEW at, NEW left, NEW y, NEW v
    PROVE  [Z(m, at, left, y) EXCEPT !.at = v] = Z(m, v, left, y)
<1> DEFINE T == [m : {m}, at : {at, v}, left : {left}, y : {y}, bad : {FALSE}]
           z == Z(m, at, left, y)
           e == [z EXCEPT !.at = v]
<1>1. z \in T
  BY DEF Z
<1>2. z.m = m /\ z.at = at /\ z.left = left /\ z.y = y /\ z.bad = FALSE
  BY DEF Z
<1> HIDE DEF z
<1>3. e \in T /\ e.m = m /\ e.at = v /\ e.left = left /\ e.y = y /\ e.bad = FALSE
  BY <1>1, <1>2
<1> HIDE DEF e
<1>4. e = [m |-> e.m, at |-> e.at, left |-> e.left, y |-> e.y, bad |-> e.bad]
  BY <1>3
<1> QED BY <1>3, <1>4 DEF e, z, Z

LEMMA ZGets ==
    ASSUME NEW m, NEW at, NEW left, NEW y, NEW v
    PROVE  [Z(m, at, left, y) EXCEPT !.left = v] = Z(m, at, v, y)
<1> DEFINE T == [m : {m}, at : {at}, left : {left, v}, y : {y}, bad : {FALSE}]
           z == Z(m, at, left, y)
           e == [z EXCEPT !.left = v]
<1>1. z \in T
  BY DEF Z
<1>2. z.m = m /\ z.at = at /\ z.left = left /\ z.y = y /\ z.bad = FALSE
  BY DEF Z
<1> HIDE DEF z
<1>3. e \in T /\ e.m = m /\ e.at = at /\ e.left = v /\ e.y = y /\ e.bad = FALSE
  BY <1>1, <1>2
<1> HIDE DEF e
<1>4. e = [m |-> e.m, at |-> e.at, left |-> e.left, y |-> e.y, bad |-> e.bad]
  BY <1>3
<1> QED BY <1>3, <1>4 DEF e, z, Z

LEMMA SkipIs ==
    ASSUME NEW m, NEW at, NEW left, NEW y, NEW n
    PROVE  Skip(Z(m, at, left, y), n) = Z(m, at + n, left - n, y)
<1> DEFINE a == at + n
           b == left - n
           T == [m : {m}, at : {at, a}, left : {left, b}, y : {y}, bad : {FALSE}]
           z == Z(m, at, left, y)
           e == [z EXCEPT !.at = a, !.left = b]
<1> HIDE DEF a, b
<1>1. z \in T
  BY DEF Z
<1>2. z.m = m /\ z.at = at /\ z.left = left /\ z.y = y /\ z.bad = FALSE
  BY DEF Z
<1> HIDE DEF z
<1>3. e \in T /\ e.m = m /\ e.at = a /\ e.left = b /\ e.y = y /\ e.bad = FALSE
  BY <1>1, <1>2
<1>5. Skip(z, n) = e
  BY <1>2, Zenon DEF Skip, a, b
<1> HIDE DEF e
<1>4. e = [m |-> e.m, at |-> e.at, left |-> e.left, y |-> e.y, bad |-> e.bad]
  BY <1>3
<1> QED BY <1>3, <1>4, <1>5 DEF z, Z, a, b

LEMMA BlockIs ==
    ASSUME NEW c, NEW n
    PROVE  [Block(c) EXCEPT !.left = n] = Z(c.pixels, 1, n, 0)
<1>1. Block(c) = Z(c.pixels, 1, 0, 0)
  BY DEF Block, Z
<1>2. [Z(c.pixels, 1, 0, 0) EXCEPT !.left = n] = Z(c.pixels, 1, n, 0)
  BY ZGets
<1> QED BY <1>1, <1>2, Zenon

\* Tile t at the front of what is left of a block: what the client has done then
Tiled(z, t, d, at, left, s) ==
    \E m \in Memory, rest \in Int : \E y :
       TileZRLE(z, t, d) = Z(m, at, rest, y) /\ rest >= left /\ Seen(m) = s

\* From at on, d has item.
Has(d, at, item) == \A j \in 1 .. Len(item) : d[at + j - 1] = item[j]

LEMMA HasFront ==
    ASSUME NEW a \in Numbers, NEW b \in Numbers, NEW at \in Nat, NEW d, Has(d, at, a \o b)
    PROVE  Has(d, at, a) /\ Has(d, at + Len(a), b)
<1> DEFINE n == Len(a)
           k == Len(b)
           ab == a \o b
<1>1. n \in Nat /\ k \in Nat /\ Len(ab) = n + k
      /\ \A i \in 1 .. n + k : ab[i] = IF i <= n THEN a[i] ELSE b[i - n]
  BY ConcatProperties, LenProperties DEF Numbers
<1>2. \A j \in 1 .. n + k : d[at + j - 1] = ab[j]
  BY <1>1, Zenon DEF Has
<1> HIDE DEF ab
<1>3. ASSUME NEW j \in 1 .. n PROVE d[at + j - 1] = a[j]
  <2>1. j \in 1 .. n + k /\ j <= n
    BY <1>1
  <2> QED BY <1>1, <1>2, <2>1
<1>4. ASSUME NEW j \in 1 .. k PROVE d[at + n + j - 1] = b[j]
  <2> DEFINE i == n + j
  <2>1. i \in 1 .. n + k /\ ~(i <= n) /\ i - n = j /\ at + i - 1 = at + n + j - 1
    BY <1>1
  <2> HIDE DEF i
  <2> QED BY <1>1, <1>2, <2>1
<1> QED BY <1>3, <1>4, Zenon DEF Has

LEMMA HasFirst ==
    ASSUME NEW e \in Nat, NEW b \in Numbers, NEW at \in Nat, NEW d, Has(d, at, <<e>> \o b)
    PROVE  d[at] = e /\ Has(d, at + 1, b)
<1>1. <<e>> \in Numbers /\ Len(<<e>>) = 1 /\ <<e>>[1] = e
  BY OneIs
<1>2. Has(d, at, <<e>>) /\ Has(d, at + 1, b)
  <2>1. Has(d, at, <<e>>) /\ Has(d, at + Len(<<e>>), b)
    BY <1>1, HasFront
  <2> QED BY <1>1, <2>1
<1>3. d[at + 1 - 1] = <<e>>[1]
  <2>1. 1 \in 1 .. 1
    OBVIOUS
  <2> QED BY <1>1, <1>2, <2>1, Zenon DEF Has
<1>4. at + 1 - 1 = at
  OBVIOUS
<1> QED BY <1>1, <1>2, <1>3, <1>4

\* The client begins with a tile.
Begins(m, at, left, y, t, d, sub) ==
    LET z == Z(m, at, left, y)
        next == Z(m, at + 1, left - 1, 0)
    IN  /\ sub = 0 => TileZRLE(z, t, d) = RawZRLE(next, t, d)
        /\ sub = 1 => TileZRLE(z, t, d) = SolidZRLE(next, t, d)
        /\ sub \in 2 .. 16 => TileZRLE(z, t, d) = PackedZRLE(next, t, d, sub)
        /\ sub = 128 => TileZRLE(z, t, d) = PlainRunsZRLE(next, t, d)
        /\ sub >= 130 /\ left - 1 >= sub - 128 =>
              TileZRLE(z, t, d)
                 = PaletteRunsZRLE(Z(m, at + 1 + (sub - 128), left - 1 - (sub - 128), 0),
                                   t, d, at + 1)

LEMMA TileBegins ==
    ASSUME NEW m, NEW at \in Nat, NEW left \in Int, left >= 2, NEW y, NEW t, NEW d, NEW sub \in Nat,
           d[at] = sub
    PROVE  Begins(m, at, left, y, t, d, sub)
<1> DEFINE z == Z(m, at, left, y)
           next == Z(m, at + 1, left - 1, 0)
           w == TileZRLE(z, t, d)
<1>1. z.at = at /\ z.left = left /\ z.bad = FALSE
  BY DEF Z
<1>2. [Skip(z, 1) EXCEPT !.y = 0] = next
  <2>1. [Z(m, at + 1, left - 1, y) EXCEPT !.y = 0] = Z(m, at + 1, left - 1, 0)
    BY ZBegins
  <2>2. Skip(z, 1) = Z(m, at + 1, left - 1, y)
    BY SkipIs
  <2> HIDE DEF z, next
  <2> QED BY <2>1, <2>2, Zenon DEF next
<1>3. next.at = at + 1 /\ next.left = left - 1
  BY DEF Z
<1>4. ~(z.bad \/ z.left - 1 <= 0)
  BY <1>1
<1> HIDE DEF z, next, w
<1> DEFINE next0 == [Skip(z, 1) EXCEPT !.y = 0]
           sub0 == d[z.at]
<1>5. w = IF z.bad \/ z.left - 1 <= 0 THEN TooSmall(z)
          ELSE CASE sub0 = 0   -> RawZRLE(next0, t, d)
                 [] sub0 = 1   -> SolidZRLE(next0, t, d)
                 [] sub0 \in 2 .. 16 -> PackedZRLE(next0, t, d, sub0)
                 [] sub0 = 128 -> PlainRunsZRLE(next0, t, d)
                 [] sub0 >= 130 ->
                       IF next0.left < sub0 - 128 THEN TooSmall(next0)
                       ELSE PaletteRunsZRLE(Skip(next0, sub0 - 128), t, d, next0.at)
                 [] OTHER -> TooSmall(next0)
  BY Zenon DEF TileZRLE, w
<1>11. sub0 = sub /\ next0 = next
  BY <1>1, <1>2
<1> HIDE DEF next0, sub0
<1>6. sub = 0 => w = RawZRLE(next, t, d)
  BY <1>4, <1>5, <1>11
<1>7. sub = 1 => w = SolidZRLE(next, t, d)
  BY <1>4, <1>5, <1>11
<1>8. sub \in 2 .. 16 => w = PackedZRLE(next, t, d, sub)
  BY <1>4, <1>5, <1>11
<1>9. sub = 128 => w = PlainRunsZRLE(next, t, d)
  BY <1>4, <1>5, <1>11
<1>10. ASSUME sub >= 130, left - 1 >= sub - 128
       PROVE  w = PaletteRunsZRLE(Z(m, at + 1 + (sub - 128), left - 1 - (sub - 128), 0),
                                  t, d, at + 1)
  <2>1. w = IF next.left < sub - 128 THEN TooSmall(next)
            ELSE PaletteRunsZRLE(Skip(next, sub - 128), t, d, next.at)
    BY <1>4, <1>5, <1>10, <1>11
  <2>2. ~(next.left < sub - 128)
    BY <1>3, <1>10
  <2>3. Skip(next, sub - 128) = Z(m, at + 1 + (sub - 128), left - 1 - (sub - 128), 0)
    BY SkipIs DEF next
  <2> QED BY <1>3, <2>1, <2>2, <2>3, Zenon
<1> QED BY <1>6, <1>7, <1>8, <1>9, <1>10, Zenon DEF z, next, w, Begins

LEMMA RawTileDecodes ==
    ASSUME NEW m \in Memory, NEW at \in Nat, NEW left \in Int, NEW y, NEW t \in Inside,
           NEW td \in Contents(t), NEW d \in Numbers, at + Pixels(t) <= Len(d),
           d[at] = 0, \A j \in 1 .. Pixels(t) : d[at + j] = td[j], left >= 1 + Pixels(t)
    PROVE  Tiled(Z(m, at, left, y), t, d, at + 1 + Pixels(t), left - (1 + Pixels(t)),
                 Put(Seen(m), t, td))
<1> DEFINE n == Pixels(t)
           next == Z(m, at + 1, left - 1, 0)
           sub == SubSeq(d, at + 1, at + 1 + n - 1)
<1>1. n \in Nat \ {0} /\ td \in [1 .. n -> Colors]
  BY InsideIsRect DEF Contents
<1>2. TileZRLE(Z(m, at, left, y), t, d) = RawZRLE(next, t, d)
  <2>1. left >= 2 /\ 0 \in Nat
    BY <1>1
  <2>2. Begins(m, at, left, y, t, d, 0)
    BY <2>1, TileBegins
  <2> QED BY <2>2, Zenon DEF Begins
<1>3. next.at = at + 1 /\ next.left = left - 1 /\ next.m = m
  BY DEF Z
<1>4. sub = td
  <2> DEFINE a == at + 1
             b == at + n
  <2>1. at + 1 + n - 1 = b /\ a \in Int /\ b \in Int /\ a <= b /\ b - a + 1 = n
    BY <1>1
  <2>2. /\ \A i \in a .. b : d[i] \in Nat
        /\ \A i \in 1 .. n : at + i = a + i - 1
    <3>1. Len(d) \in Nat /\ \A i \in a .. b : i \in 1 .. Len(d)
      BY <1>1, LenProperties DEF Numbers
    <3> QED BY <1>1, <3>1, ElementOfSeq DEF Numbers
  <2> HIDE DEF a, b, n
  <2>3. /\ SubSeq(d, a, b) \in Seq(Nat) /\ Len(SubSeq(d, a, b)) = IF a <= b THEN b - a + 1 ELSE 0
        /\ \A i \in 1 .. b - a + 1 : SubSeq(d, a, b)[i] = d[a + i - 1]
    BY <2>1, <2>2, SubSeqProperties
  <2> DEFINE sq == SubSeq(d, a, b)
  <2>4. sq = sub
    BY <2>1, Zenon DEF a
  <2>5. sq \in Seq(Nat) /\ Len(sq) = n /\ \A i \in 1 .. n : sq[i] = td[i]
    <3>1. Len(sq) = n /\ sq \in Seq(Nat)
      BY <2>1, <2>3
    <3>2. ASSUME NEW i \in 1 .. n PROVE sq[i] = td[i]
      <4>1. sq[i] = d[a + i - 1]
        BY <2>1, <2>3
      <4>2. d[at + i] = td[i]
        BY DEF n
      <4> HIDE DEF sq
      <4> QED BY <2>2, <4>1, <4>2
    <3> QED BY <3>1, <3>2
  <2> HIDE DEF sq, sub
  <2>6. td = [i \in 1 .. n |-> td[i]] /\ sq = [i \in 1 .. n |-> sq[i]]
    BY <1>1, <2>5
  <2> QED BY <2>4, <2>5, <2>6
<1> HIDE DEF n, next, sub
<1>5. ~(next.left < n)
  BY <1>1, <1>3 DEF n
<1>6. RawZRLE(next, t, d) = [Skip(next, n) EXCEPT !.m = PutRect(m, t, td)]
  <2>1. Skip(next, n).m = m
    <3>1. Skip(next, n) = Z(m, at + 1 + n, left - 1 - n, 0)
      BY SkipIs DEF next
    <3> QED BY <3>1 DEF Z
  <2>2. RawZRLE(next, t, d) = [Skip(next, n) EXCEPT !.m = PutRect(Skip(next, n).m, t, sub)]
    BY <1>3, <1>5, Zenon DEF RawZRLE, n, sub
  <2> QED BY <1>4, <2>1, <2>2, Zenon
<1>7. RawZRLE(next, t, d) = Z(PutRect(m, t, td), at + 1 + n, left - 1 - n, 0)
  <2>1. Skip(next, n) = Z(m, at + 1 + n, left - 1 - n, 0)
    BY SkipIs DEF next
  <2>2. [Z(m, at + 1 + n, left - 1 - n, 0) EXCEPT !.m = PutRect(m, t, td)]
           = Z(PutRect(m, t, td), at + 1 + n, left - 1 - n, 0)
    BY ZDraws
  <2> QED BY <1>6, <2>1, <2>2, Zenon
<1>8. PutRect(m, t, td) \in Memory /\ Seen(PutRect(m, t, td)) = Put(Seen(m), t, td)
  BY <1>1, PutRectIs DEF n
<1>9. left - 1 - n \in Int /\ left - 1 - n >= left - (1 + n)
  BY <1>1
<1> QED BY <1>2, <1>7, <1>8, <1>9, Zenon DEF Tiled, n

LEMMA SolidTileDecodes ==
    ASSUME NEW m \in Memory, NEW at \in Nat, NEW left \in Int, NEW y, NEW t \in Inside,
           NEW td \in Contents(t), NEW d,
           d[at] = 1, d[at + 1] = td[1], left >= 2,
           \A j \in 1 .. Pixels(t) : td[j] = td[1]
    PROVE  Tiled(Z(m, at, left, y), t, d, at + 2, left - 2, Put(Seen(m), t, td))
<1> DEFINE n == Pixels(t)
           next == Z(m, at + 1, left - 1, 0)
           color == td[1]
           filled == FillRect(m, t, color)
<1>1. n \in Nat \ {0} /\ td \in [1 .. n -> Colors] /\ color \in Colors
  BY InsideIsRect DEF Contents
<1>2. TileZRLE(Z(m, at, left, y), t, d) = SolidZRLE(next, t, d)
  <2>1. 1 \in Nat
    OBVIOUS
  <2>2. Begins(m, at, left, y, t, d, 1)
    BY <2>1, TileBegins
  <2> QED BY <2>2, Zenon DEF Begins
<1>3. next.at = at + 1 /\ next.left = left - 1 /\ ~(next.left < 1)
  BY DEF Z
<1>4. SolidZRLE(next, t, d) = Z(filled, at + 1 + 1, left - 1 - 1, 0)
  <2> HIDE DEF next, color
  <2>1. Skip(next, 1) = Z(m, at + 1 + 1, left - 1 - 1, 0)
    BY SkipIs DEF next
  <2>2. Skip(next, 1).m = m
    BY <2>1 DEF Z
  <2>3. SolidZRLE(next, t, d) = [Skip(next, 1) EXCEPT !.m = FillRect(Skip(next, 1).m, t, d[at + 1])]
    BY <1>3, Zenon DEF SolidZRLE
  <2>4. d[at + 1] = color
    BY Zenon DEF color
  <2>5. [Z(m, at + 1 + 1, left - 1 - 1, 0) EXCEPT !.m = filled]
           = Z(filled, at + 1 + 1, left - 1 - 1, 0)
    BY ZDraws
  <2> QED BY <2>1, <2>2, <2>3, <2>4, <2>5, Zenon
<1> HIDE DEF next, filled, color
<1>5. filled \in Memory /\ Seen(filled) = Painted(Seen(m), t, color)
  BY <1>1, FillRectIs DEF filled
<1>6. Painted(Seen(m), t, color) = Put(Seen(m), t, td)
  <2>1. ASSUME NEW p \in PointsOf(t)
        PROVE  td[(p[2] - t.y) * t.w + p[1] - t.x + 1] = color
    <3> DEFINE k == Place(t, p)
    <3>1. k \in 0 .. t.w * t.h - 1
      BY PlaceIs
    <3>2. k = (p[2] - t.y) * t.w + (p[1] - t.x)
      BY DEF Place
    <3> HIDE DEF k
    <3>6. k + 1 \in 1 .. n
      BY <1>1, <3>1 DEF Pixels
    <3>3. td[k + 1] = color
      BY <3>6 DEF color
    <3>4. (p[2] - t.y) * t.w + p[1] - t.x + 1 = k + 1
      <4>1. (p[2] - t.y) * t.w \in Int /\ p[1] \in Int /\ t.x \in Int
        <5>1. p \in Points /\ p[1] \in 0 .. Width - 1 /\ p[2] \in 0 .. Height - 1
          BY PlaceIs
        <5>2. t.x \in Nat /\ t.y \in Nat /\ t.w \in Nat
          BY InsideIsRect
        <5>3. p[2] \in Int /\ p[1] \in Int
          BY <5>1, FrameBufferAssumption
        <5>4. p[2] - t.y \in Int
          BY <5>2, <5>3
        <5> QED BY <5>2, <5>3, <5>4
      <4> QED BY <3>2, <4>1
    <3> QED BY <3>3, <3>4
  <2> QED BY <2>1, Zenon DEF Painted, Put
<1>7. at + 1 + 1 = at + 2 /\ left - 1 - 1 = left - 2 /\ left - 2 \in Int /\ left - 2 >= left - 2
  OBVIOUS
<1> QED BY <1>2, <1>4, <1>5, <1>6, <1>7, Zenon DEF Tiled

-----------------------------------------------------------------------------
(* Palettes and packed indices.                                            *)

LEMMA PaletteIs ==
    ASSUME NEW p \in Palettes
    PROVE  /\ p \in Seq(Colors) /\ p \in Numbers /\ Len(p) \in 2 .. 127
           /\ \A i \in 1 .. Len(p) : p[i] \in Colors
<1>1. p \in Seq(Colors) /\ Len(p) \in 2 .. 127
  BY RectanglesAssumption
<1>2. \A i \in 1 .. Len(p) : p[i] \in Colors
  BY <1>1, ElementOfSeq
<1>3. \A i \in 1 .. Len(p) : p[i] \in Nat
  BY <1>2, FrameBufferAssumption
<1>4. p \in Seq(Nat)
  BY <1>1, <1>3
<1> QED BY <1>1, <1>2, <1>4 DEF Numbers

LEMMA IndexInIs ==
    ASSUME NEW p \in Palettes, NEW c, \E i \in 1 .. Len(p) : p[i] = c
    PROVE  IndexIn(p, c) \in 0 .. Len(p) - 1 /\ p[IndexIn(p, c) + 1] = c
<1>1. Len(p) \in Nat
  BY PaletteIs
<1>2. PICK i \in 1 .. Len(p) : p[i] = c
  OBVIOUS
<1> DEFINE k == i - 1
<1>3. k \in 0 .. Len(p) - 1 /\ k + 1 = i
  BY <1>1
<1> HIDE DEF k
<1>4. p[k + 1] = c
  BY <1>2, <1>3
<1> QED BY <1>3, <1>4, Zenon DEF IndexIn

\* Every colour of a tile is in the palette.
LEMMA HoldsIs ==
    ASSUME NEW p \in Palettes, NEW t \in Inside, NEW td \in Contents(t), Holds(p, td)
    PROVE  \A k \in 1 .. Pixels(t) :
              /\ IndexIn(p, td[k]) \in 0 .. Len(p) - 1
              /\ p[IndexIn(p, td[k]) + 1] = td[k]
<1> TAKE k \in 1 .. Pixels(t)
<1>1. DOMAIN td = 1 .. Pixels(t)
  BY DEF Contents
<1>2. DOMAIN p = 1 .. Len(p)
  BY PaletteIs
<1>3. td[k] \in {td[i] : i \in DOMAIN td}
  BY <1>1
<1>4. td[k] \in {p[i] : i \in DOMAIN p}
  BY <1>3, Zenon DEF Holds
<1>5. \E i \in 1 .. Len(p) : p[i] = td[k]
  BY <1>2, <1>4
<1> QED BY <1>5, IndexInIs

\* So many indices less than B in a byte
Fits(per, B) == <<per, B>> \in {<<2, 16>>, <<4, 4>>, <<8, 2>>}

LEMMA FitsIs ==
    ASSUME NEW per, NEW B, Fits(per, B)
    PROVE  \/ per = 2 /\ B = 16
           \/ per = 4 /\ B = 4
           \/ per = 8 /\ B = 2
BY DEF Fits

LEMMA PerByteIs ==
    ASSUME NEW n \in 2 .. 16
    PROVE  /\ SamplesPerByte(n) = PerByte(n)
           /\ \E B : Fits(PerByte(n), B) /\ n <= B /\ B \in Nat \ {0}
<1>1. CASE n = 2
  <2>1. PerByte(n) = 8 /\ SamplesPerByte(n) = 8
    BY <1>1 DEF PerByte, SamplesPerByte
  <2>2. Fits(8, 2) /\ n <= 2
    BY <1>1 DEF Fits
  <2> QED BY <2>1, <2>2
<1>2. CASE n \in 3 .. 4
  <2>1. PerByte(n) = 4 /\ SamplesPerByte(n) = 4
    BY <1>2 DEF PerByte, SamplesPerByte
  <2>2. Fits(4, 4) /\ n <= 4
    BY <1>2 DEF Fits
  <2> QED BY <2>1, <2>2
<1>3. CASE n \in 5 .. 16
  <2>1. PerByte(n) = 2 /\ SamplesPerByte(n) = 2
    BY <1>3 DEF PerByte, SamplesPerByte
  <2>2. Fits(2, 16) /\ n <= 16
    BY <1>3 DEF Fits
  <2> QED BY <2>1, <2>2
<1> QED BY <1>1, <1>2, <1>3

\* What is in a byte, and what is found in it
InByte(indices, per, l) ==
    /\ PackedByte(indices, per, l) \in Nat
    /\ \A j \in 0 .. per - 1 :
          Field(PackedByte(indices, per, l), per, j) = Sample(indices, (l - 1) * per + j + 1)

LEMMA InByteIs ==
    ASSUME NEW per, NEW B, Fits(per, B), NEW indices, NEW l \in Nat,
           \A j \in 0 .. per - 1 : Sample(indices, (l - 1) * per + j + 1) \in 0 .. B - 1
    PROVE  InByte(indices, per, l)
<1>1. CASE per = 2 /\ B = 16
  <2>1. \A j \in 0 .. 1 : Sample(indices, (l - 1) * 2 + j + 1) \in 0 .. 15
    BY <1>1
  <2>2. /\ PackedByte(indices, 2, l) \in Nat
        /\ \A j \in 0 .. 1 : Field(PackedByte(indices, 2, l), 2, j)
                                = Sample(indices, (l - 1) * 2 + j + 1)
    BY <2>1, TwoInByte
  <2>3. 2 - 1 = 1
    OBVIOUS
  <2> QED BY <1>1, <2>2, <2>3, Zenon DEF InByte
<1>2. CASE per = 4 /\ B = 4
  <2>1. \A j \in 0 .. 3 : Sample(indices, (l - 1) * 4 + j + 1) \in 0 .. 3
    BY <1>2
  <2>2. /\ PackedByte(indices, 4, l) \in Nat
        /\ \A j \in 0 .. 3 : Field(PackedByte(indices, 4, l), 4, j)
                                = Sample(indices, (l - 1) * 4 + j + 1)
    BY <2>1, FourInByte
  <2>3. 4 - 1 = 3
    OBVIOUS
  <2> QED BY <1>2, <2>2, <2>3, Zenon DEF InByte
<1>3. CASE per = 8 /\ B = 2
  <2>1. \A j \in 0 .. 7 : Sample(indices, (l - 1) * 8 + j + 1) \in 0 .. 1
    BY <1>3
  <2>2. /\ PackedByte(indices, 8, l) \in Nat
        /\ \A j \in 0 .. 7 : Field(PackedByte(indices, 8, l), 8, j)
                                = Sample(indices, (l - 1) * 8 + j + 1)
    BY <2>1, EightInByte
  <2>3. 8 - 1 = 7
    OBVIOUS
  <2> QED BY <1>3, <2>2, <2>3, Zenon DEF InByte
<1> QED BY <1>1, <1>2, <1>3, FitsIs

\* The bytes of a line of w indices
IsPacked(indices, per, w) ==
    /\ Packed(indices, per) \in Numbers /\ Len(Packed(indices, per)) = CeilDiv(w, per)
    /\ CeilDiv(w, per) \in Nat \ {0}
    /\ \A i \in 0 .. w - 1 :
          /\ i \div per + 1 \in 1 .. CeilDiv(w, per)
          /\ Field(Packed(indices, per)[i \div per + 1], per, i % per) = indices[i + 1]

LEMMA PackedIs ==
    ASSUME NEW per, NEW B \in Nat \ {0}, Fits(per, B), NEW w \in Nat \ {0},
           NEW indices \in [1 .. w -> 0 .. B - 1]
    PROVE  IsPacked(indices, per, w)
<1> DEFINE n == CeilDiv(w, per)
           P == Packed(indices, per)
           Byte(b) == PackedByte(indices, per, b)
<1>1. per \in Nat \ {0}
  BY FitsIs
<1>2. n \in Nat \ {0} /\ \A i \in Nat : i < n <=> i * per < w
  BY <1>1, CeilDivIs
<1>3. Len(indices) = w
  BY DEF Numbers
<1>4. \A i \in Nat \ {0} : Sample(indices, i) \in 0 .. B - 1
  BY <1>3 DEF Sample
<1>5. ASSUME NEW l \in 1 .. n PROVE InByte(indices, per, l)
  <2>1. ASSUME NEW j \in 0 .. per - 1
        PROVE  Sample(indices, (l - 1) * per + j + 1) \in 0 .. B - 1
    <3>1. l - 1 \in Nat
      BY <1>2
    <3>2. (l - 1) * per \in Nat
      BY <1>1, <3>1
    <3> DEFINE u == (l - 1) * per
    <3> HIDE DEF u
    <3>3. u \in Nat /\ j \in Nat
      BY <1>1, <3>2 DEF u
    <3>4. u + j + 1 \in Nat \ {0}
      BY <3>3
    <3> QED BY <1>4, <3>4 DEF u
  <2>2. l \in Nat
    BY <1>2
  <2> QED BY <2>1, <2>2, InByteIs
<1>6. P = [b \in 1 .. n |-> Byte(b)]
  BY <1>3, Zenon DEF Packed
<1>7. \A b \in 1 .. n : Byte(b) \in Nat
  BY <1>5 DEF InByte
<1> HIDE DEF n, P, Byte
<1>8. P \in Seq(Nat) /\ Len(P) = n /\ \A b \in 1 .. n : P[b] = Byte(b)
  <2> DEFINE F == [b \in 1 .. n |-> Byte(b)]
  <2>1. F \in [1 .. n -> Nat] /\ \A b \in 1 .. n : F[b] = Byte(b)
    BY <1>7, Zenon
  <2> HIDE DEF F
  <2>2. F \in Seq(Nat) /\ Len(F) = n
    BY <1>2, <2>1
  <2> QED BY <1>6, <2>1, <2>2, Zenon DEF F
<1>9. ASSUME NEW i \in 0 .. w - 1
      PROVE  i \div per + 1 \in 1 .. n /\ Field(P[i \div per + 1], per, i % per) = indices[i + 1]
  <2> DEFINE q == i \div per
             r == i % per
             l == q + 1
  <2>1. q \in Nat /\ r \in 0 .. per - 1 /\ i = q * per + r
    <3>1. i \in Nat /\ i + 1 \in Nat /\ i \in 0 .. per * (i + 1) - 1
      <4>1. i \in Nat /\ per >= 1
        BY <1>1
      <4>2. per * (i + 1) >= i + 1
        BY <1>1, <4>1
      <4> QED BY <1>1, <4>1, <4>2
    <3>2. q \in 0 .. (i + 1) - 1 /\ r \in 0 .. per - 1 /\ i = q * per + r
      BY <1>1, <3>1, Division
    <3> QED BY <3>1, <3>2
  <2> HIDE DEF q, r
  <2>2. q < n
    <3>1. q * per \in Nat /\ q * per <= i
      BY <1>1, <2>1
    <3>2. q * per < w
      BY <3>1
    <3> QED BY <1>2, <2>1, <3>2
  <2>3. l \in 1 .. n /\ l - 1 = q
    BY <1>2, <2>1, <2>2
  <2>4. Field(P[l], per, r) = Sample(indices, (l - 1) * per + r + 1)
    <3> HIDE DEF l
    <3>1. P[l] = Byte(l)
      BY <1>8, <2>3
    <3>2. Field(Byte(l), per, r) = Sample(indices, (l - 1) * per + r + 1)
      BY <1>5, <2>1, <2>3, Zenon DEF InByte, Byte
    <3> QED BY <3>1, <3>2
  <2>5. (l - 1) * per + r + 1 = i + 1
    <3> HIDE DEF l
    <3>1. q * per \in Nat
      BY <1>1, <2>1
    <3> QED BY <2>1, <2>3, <3>1
  <2>6. Sample(indices, i + 1) = indices[i + 1]
    BY <1>3 DEF Sample
  <2> HIDE DEF l
  <2>7. Field(P[l], per, r) = indices[i + 1]
    BY <2>4, <2>5, <2>6
  <2> QED BY <2>3, <2>7 DEF l, q, r
<1>10. P \in Numbers
  BY <1>8 DEF Numbers
<1> QED BY <1>2, <1>8, <1>9, <1>10, Zenon DEF IsPacked, n, P

\* The indices of the pixels of t, line by line
LinesOf(t, td, p) ==
    FlattenSeq([line \in 1 .. t.h |->
                Packed([i \in 1 .. t.w |-> IndexIn(p, td[(line - 1) * t.w + i])],
                       PerByte(Len(p)))])

BytesPerRow(t, p) == CeilDiv(t.w, PerByte(Len(p)))

LEMMA LinesOfIs ==
    ASSUME NEW t \in Inside, NEW td \in Contents(t), NEW p \in Palettes, Len(p) <= 16,
           Holds(p, td)
    PROVE  /\ LinesOf(t, td, p) \in Numbers
           /\ BytesPerRow(t, p) \in Nat \ {0}
           /\ Len(LinesOf(t, td, p)) = BytesPerRow(t, p) * t.h
           /\ \A l \in 0 .. t.h - 1 : \A i \in 0 .. t.w - 1 :
                 /\ i \div PerByte(Len(p)) + 1 \in 1 .. BytesPerRow(t, p)
                 /\ Field(LinesOf(t, td, p)[BytesPerRow(t, p) * l + (i \div PerByte(Len(p)) + 1)],
                          PerByte(Len(p)), i % PerByte(Len(p)))
                       = IndexIn(p, td[l * t.w + i + 1])
<1> DEFINE per == PerByte(Len(p))
           n == BytesPerRow(t, p)
           Indices(line) == [i \in 1 .. t.w |-> IndexIn(p, td[(line - 1) * t.w + i])]
           items == [line \in 1 .. t.h |-> Packed(Indices(line), per)]
<1>1. t.w \in Nat \ {0} /\ t.h \in Nat \ {0} /\ Pixels(t) \in Nat
  BY InsideIsRect
<1>2. Len(p) \in 2 .. 16
  <2> DEFINE np == Len(p)
  <2>1. np \in 2 .. 127 /\ np <= 16
    BY PaletteIs
  <2> HIDE DEF np
  <2>2. np \in 2 .. 16
    BY <2>1
  <2> QED BY <2>2 DEF np
<1>3. PICK B : Fits(per, B) /\ Len(p) <= B /\ B \in Nat \ {0}
  BY <1>2, PerByteIs
<1>4. ASSUME NEW l \in 0 .. t.h - 1, NEW i \in 0 .. t.w - 1
      PROVE  IndexIn(p, td[l * t.w + i + 1]) \in 0 .. B - 1
  <2> DEFINE k == l * t.w + i
             N == t.w * t.h
  <2>1. k \in 0 .. N - 1 /\ N = Pixels(t)
    BY DivisionInside DEF Pixels
  <2> HIDE DEF k, N
  <2>2. k + 1 \in 1 .. Pixels(t)
    BY <1>1, <2>1
  <2>3. IndexIn(p, td[k + 1]) \in 0 .. Len(p) - 1
    BY <2>2, HoldsIs
  <2>4. IndexIn(p, td[k + 1]) \in 0 .. B - 1
    BY <1>2, <1>3, <2>3
  <2> QED BY <2>4 DEF k
<1>5. ASSUME NEW line \in 1 .. t.h
      PROVE  Indices(line) \in [1 .. t.w -> 0 .. B - 1]
  <2>1. ASSUME NEW i \in 1 .. t.w PROVE IndexIn(p, td[(line - 1) * t.w + i]) \in 0 .. B - 1
    <3>1. line - 1 \in 0 .. t.h - 1 /\ i - 1 \in 0 .. t.w - 1 /\ i \in Nat /\ line - 1 \in Nat
      <4> DEFINE w == t.w
                 h == t.h
      <4>1. w \in Nat /\ h \in Nat /\ i \in 1 .. w /\ line \in 1 .. h
        BY <1>1
      <4> HIDE DEF w, h
      <4>2. i - 1 \in 0 .. w - 1 /\ line - 1 \in 0 .. h - 1 /\ i \in Nat /\ line - 1 \in Nat
        BY <4>1
      <4> QED BY <4>2 DEF w, h
    <3>2. IndexIn(p, td[(line - 1) * t.w + (i - 1) + 1]) \in 0 .. B - 1
      BY <1>4, <3>1
    <3> DEFINE u == (line - 1) * t.w
    <3>3. u \in Nat
      <4> DEFINE v == line - 1
                 w == t.w
      <4>1. v \in Nat /\ w \in Nat
        BY <1>1, <3>1
      <4> HIDE DEF v, w
      <4>2. v * w \in Nat
        BY <4>1
      <4> QED BY <4>2 DEF v, w
    <3> HIDE DEF u
    <3>4. u + (i - 1) + 1 = u + i
      BY <3>3
    <3> QED BY <3>2, <3>4 DEF u
  <2> QED BY <2>1, Zenon
<1>6. ASSUME NEW line \in 1 .. t.h
      PROVE  /\ Packed(Indices(line), per) \in Numbers /\ Len(Packed(Indices(line), per)) = n
             /\ n \in Nat \ {0}
             /\ \A i \in 0 .. t.w - 1 :
                   /\ i \div per + 1 \in 1 .. n
                   /\ Field(Packed(Indices(line), per)[i \div per + 1], per, i % per)
                         = Indices(line)[i + 1]
  <2> DEFINE ix == Indices(line)
  <2>1. n = CeilDiv(t.w, per)
    BY Zenon DEF BytesPerRow
  <2>2. ix \in [1 .. t.w -> 0 .. B - 1]
    BY <1>5, Zenon
  <2> HIDE DEF per, ix, n
  <2>3. IsPacked(ix, per, t.w)
    BY <1>1, <1>3, <2>2, PackedIs
  <2> QED BY <2>1, <2>3, Zenon DEF IsPacked, ix
<1> HIDE DEF per, n
<1>7. items \in Seq(Numbers) /\ Len(items) = t.h
      /\ \A line \in 1 .. t.h : items[line] = Packed(Indices(line), per)
  <2> HIDE DEF Indices
  <2>1. items \in [1 .. t.h -> Numbers] /\ \A line \in 1 .. t.h : items[line] = Packed(Indices(line), per)
    BY <1>6, Zenon
  <2> HIDE DEF items
  <2> QED BY <1>1, <2>1
<1>8. n \in Nat \ {0}
  <2>1. 1 \in 1 .. t.h
    BY <1>1
  <2> QED BY <1>6, <2>1
<1>9. LinesOf(t, td, p) = FlattenSeq(items)
  BY Zenon DEF LinesOf, per
<1> HIDE DEF items, Indices
<1> DEFINE flat == FlattenSeq(items)
<1>10. /\ flat \in Numbers /\ Len(flat) = n * t.h
       /\ \A line \in 1 .. t.h : \A j \in 1 .. n : flat[n * (line - 1) + j] = items[line][j]
  <2>1. \A line \in 1 .. Len(items) : Len(items[line]) = n
    BY <1>6, <1>7, Zenon
  <2>2. items \in Seq(Numbers) /\ n \in Nat
    BY <1>7, <1>8
  <2>3. /\ flat \in Numbers /\ Len(flat) = n * Len(items)
        /\ \A line \in 1 .. Len(items) : \A j \in 1 .. n : flat[n * (line - 1) + j] = items[line][j]
    BY <2>1, <2>2, FlattenSeqOfEqual, Zenon
  <2> QED BY <1>7, <2>3, Zenon
<1> HIDE DEF flat
<1>11. ASSUME NEW l \in 0 .. t.h - 1, NEW i \in 0 .. t.w - 1
       PROVE  /\ i \div per + 1 \in 1 .. n
              /\ Field(flat[n * l + (i \div per + 1)], per, i % per)
                    = IndexIn(p, td[l * t.w + i + 1])
  <2> DEFINE line == l + 1
             j == i \div per + 1
             r == i % per
  <2>1. line \in 1 .. t.h /\ line - 1 = l
    BY <1>1
  <2> HIDE DEF line
  <2>2. /\ j \in 1 .. n
        /\ Field(Packed(Indices(line), per)[j], per, r) = Indices(line)[i + 1]
    BY <1>6, <2>1
  <2> HIDE DEF j, r
  <2>3. flat[n * l + j] = Packed(Indices(line), per)[j]
    BY <1>7, <1>10, <2>1, <2>2
  <2>4. Indices(line)[i + 1] = IndexIn(p, td[l * t.w + i + 1])
    <3>1. i + 1 \in 1 .. t.w
      BY <1>1
    <3>2. Indices(line)[i + 1] = IndexIn(p, td[(line - 1) * t.w + (i + 1)])
      BY <3>1, Zenon DEF Indices
    <3> DEFINE u == l * t.w
    <3>3. u \in Nat
      BY <1>1
    <3> HIDE DEF u
    <3>4. u + (i + 1) = u + i + 1
      BY <3>3
    <3> QED BY <2>1, <3>2, <3>4 DEF u
  <2> QED BY <2>2, <2>3, <2>4, Zenon DEF j, r
<1> QED BY <1>8, <1>9, <1>10, <1>11, Zenon DEF flat, n, per

LEMMA PackedTileTyped ==
    ASSUME NEW t \in Inside, NEW td \in Contents(t), NEW p \in Palettes, Len(p) <= 16,
           Holds(p, td)
    PROVE  PackedTile(t, td, p) \in Numbers /\ Len(PackedTile(t, td, p)) \in Nat
           /\ Len(PackedTile(t, td, p)) >= 2
<1> DEFINE n == Len(p)
           lines == LinesOf(t, td, p)
           item == PackedTile(t, td, p)
<1>1. n \in 2 .. 127 /\ p \in Numbers
  BY PaletteIs
<1>2. item = (<<n>> \o p) \o lines
  BY Zenon DEF PackedTile, LinesOf
<1>3. lines \in Numbers
  BY LinesOfIs
<1> HIDE DEF n, lines, item
<1>4. n \in Nat /\ n >= 2
  BY <1>1
<1>5. <<n>> \in Numbers /\ Len(<<n>>) = 1
  BY <1>4, OneIs
<1>6. <<n>> \o p \in Numbers /\ Len(<<n>> \o p) = 1 + n
  BY <1>1, <1>5, Split DEF n
<1>7. item \in Numbers /\ Len(item) = 1 + n + Len(lines)
  BY <1>2, <1>3, <1>6, Split
<1>8. Len(lines) \in Nat
  BY <1>3, LenProperties DEF Numbers
<1>9. Len(item) \in Nat /\ Len(item) >= 2
  BY <1>4, <1>7, <1>8
<1> QED BY <1>7, <1>9 DEF item

LEMMA PackedTileDecodes ==
    ASSUME NEW m \in Memory, NEW at \in Nat, NEW left \in Int, NEW y, NEW t \in Inside,
           NEW td \in Contents(t), NEW p \in Palettes, Len(p) <= 16, Holds(p, td),
           NEW d, Has(d, at, PackedTile(t, td, p)), left >= Len(PackedTile(t, td, p))
    PROVE  Tiled(Z(m, at, left, y), t, d, at + Len(PackedTile(t, td, p)),
                 left - Len(PackedTile(t, td, p)), Put(Seen(m), t, td))
<1> DEFINE n == Len(p)
           per == PerByte(n)
           bpr == BytesPerRow(t, p)
           lines == LinesOf(t, td, p)
           item == PackedTile(t, td, p)
           next == Z(m, at + 1, left - 1, 0)
           size == n + t.h * bpr
<1>1. t.w \in Nat \ {0} /\ t.h \in Nat \ {0} /\ Pixels(t) \in Nat
  BY InsideIsRect
<1>2. n \in 2 .. 16 /\ p \in Numbers /\ n \in Nat /\ <<n>> \in Numbers
      /\ Len(<<n>>) = 1
  <2>1. n \in 2 .. 127 /\ p \in Numbers /\ n <= 16
    BY PaletteIs
  <2> HIDE DEF n
  <2>2. n \in 2 .. 16 /\ n \in Nat
    BY <2>1
  <2> QED BY <2>1, <2>2, OneIs
<1>3. item = (<<n>> \o p) \o lines
  BY Zenon DEF PackedTile, LinesOf
<1>4. /\ lines \in Numbers /\ bpr \in Nat \ {0} /\ Len(lines) = bpr * t.h
      /\ \A l \in 0 .. t.h - 1 : \A i \in 0 .. t.w - 1 :
            /\ i \div per + 1 \in 1 .. bpr
            /\ Field(lines[bpr * l + (i \div per + 1)], per, i % per)
                  = IndexIn(p, td[l * t.w + i + 1])
  BY LinesOfIs, Zenon
<1> HIDE DEF n, per, bpr, lines, item
<1>5. <<n>> \o p \in Numbers /\ Len(<<n>> \o p) = 1 + n
  BY <1>2, Split DEF n
<1>6. item \in Numbers /\ Len(item) = 1 + n + bpr * t.h
  BY <1>3, <1>4, <1>5, Split
<1>7. Has(d, at, <<n>> \o p) /\ Has(d, at + (1 + n), lines)
  <2>1. Has(d, at, (<<n>> \o p) \o lines)
    BY <1>3, Zenon DEF item
  <2> QED BY <1>4, <1>5, <2>1, HasFront
<1>8. d[at] = n /\ Has(d, at + 1, p)
  BY <1>2, <1>7, HasFirst
<1> DEFINE H == bpr * t.h
<1>21. H \in Nat /\ t.h * bpr = H
  BY <1>1, <1>4
<1>22. Len(item) = 1 + n + H /\ Len(lines) = H
  BY <1>4, <1>6, Zenon
<1>23. \A l \in 0 .. t.h - 1 : bpr * l \in Nat /\ bpr * l + bpr <= H
  <2>1. ASSUME NEW l \in 0 .. t.h - 1 PROVE bpr * l \in Nat /\ bpr * l + bpr <= H
    <3> DEFINE h == t.h
    <3>1. h \in Nat /\ l \in 0 .. h - 1 /\ bpr \in Nat
      BY <1>1, <1>4
    <3> HIDE DEF h
    <3>4. l \in Nat /\ l + 1 <= h
      BY <3>1
    <3>2. bpr * (l + 1) <= bpr * h
      BY <3>1, <3>4
    <3>3. bpr * (l + 1) = bpr * l + bpr /\ bpr * l \in Nat
      BY <3>1, <3>4
    <3> QED BY <3>2, <3>3 DEF h
  <2> QED BY <2>1
<1> HIDE DEF H
<1>9. size \in Nat /\ Len(item) = 1 + size /\ size = n + H
  <2>1. size = n + H
    BY <1>21, Zenon
  <2> HIDE DEF size
  <2> QED BY <1>2, <1>21, <1>22, <2>1
<1>10. left >= 1 + size
  BY <1>9 DEF item
<1> HIDE DEF size
<1>11. TileZRLE(Z(m, at, left, y), t, d) = PackedZRLE(next, t, d, n)
  <2>1. left >= 2
    BY <1>2, <1>9, <1>10, <1>21
  <2>2. Begins(m, at, left, y, t, d, n)
    BY <1>2, <1>8, <2>1, TileBegins
  <2> QED BY <1>2, <2>2, Zenon DEF Begins
<1>12. next.at = at + 1 /\ next.left = left - 1 /\ next.m = m
  BY DEF Z
<1>13. ~(next.left < size)
  BY <1>9, <1>10, <1>12
<1> DEFINE Byte(k) == d[next.at + n + (k \div t.w) * bpr + ((k % t.w) \div per)]
           Index(k) == Field(Byte(k), per, (k % t.w) % per)
           data == [k \in 1 .. Pixels(t) |-> d[next.at + Index(k - 1)]]
<1>14. PackedZRLE(next, t, d, n) = [Skip(next, size) EXCEPT !.m = PutRect(Skip(next, size).m, t, data)]
  <2>1. SamplesPerByte(n) = per
    BY <1>2, PerByteIs DEF per
  <2>2. CeilDiv(t.w, per) = bpr
    BY Zenon DEF per, bpr, BytesPerRow, n
  <2> HIDE DEF next
  <2> QED BY <1>13, <2>1, <2>2, Zenon DEF PackedZRLE, size, Field
<1>15. ASSUME NEW k \in 1 .. Pixels(t) PROVE d[next.at + Index(k - 1)] = td[k]
  <2> DEFINE l == (k - 1) \div t.w
             i == (k - 1) % t.w
             q == i \div per
             idx == IndexIn(p, td[k])
  <2>1. l \in 0 .. t.h - 1 /\ i \in 0 .. t.w - 1 /\ k - 1 = l * t.w + i
    <3>1. k - 1 \in 0 .. t.w * t.h - 1
      <4> DEFINE N == t.w * t.h
      <4>1. k \in 1 .. N /\ N \in Nat
        BY <1>1 DEF Pixels
      <4> HIDE DEF N
      <4>2. k - 1 \in 0 .. N - 1
        BY <4>1
      <4> QED BY <4>2 DEF N
    <3> QED BY <1>1, <3>1, Division
  <2>2. idx \in 0 .. n - 1 /\ p[idx + 1] = td[k]
    BY HoldsIs DEF n
  <2> HIDE DEF l, i
  <2>3. q + 1 \in 1 .. bpr /\ Field(lines[bpr * l + (q + 1)], per, i % per) = IndexIn(p, td[l * t.w + i + 1])
    BY <1>4, <2>1
  <2>4. l * t.w + i + 1 = k
    BY <2>1
  <2> HIDE DEF q
  <2>5. Byte(k - 1) = lines[bpr * l + (q + 1)]
    <3> DEFINE u == bpr * l
               e == u + (q + 1)
    <3>1. u \in Nat /\ l * bpr = u
      BY <1>1, <1>4, <2>1
    <3>2. u + bpr <= H
      BY <1>23, <2>1
    <3>7. n \in Nat /\ q \in Int /\ bpr \in Nat
      <4>1. q \in Int
        <5>1. i \in Int /\ per \in Nat \ {0}
          <6>1. per \in {2, 4, 8}
            BY DEF per, PerByte
          <6> QED BY <2>1, <6>1
        <5> QED BY <5>1 DEF q
      <4> QED BY <1>2, <1>4, <4>1
    <3> HIDE DEF u
    <3>3. e \in 1 .. Len(lines)
      BY <1>21, <1>22, <2>3, <3>1, <3>2, <3>7
    <3>4. d[at + (1 + n) + e - 1] = lines[e]
      BY <1>7, <3>3, Zenon DEF Has
    <3>5. at + (1 + n) + e - 1 = at + 1 + n + u + q
      BY <3>1, <3>7
    <3>6. Byte(k - 1) = d[at + 1 + n + u + q]
      BY <1>12, <3>1, Zenon DEF l, i, q
    <3> QED BY <3>4, <3>5, <3>6 DEF u
  <2>6. Index(k - 1) = idx
    <3> HIDE DEF Byte
    <3> QED BY <2>3, <2>4, <2>5 DEF i
  <2>7. d[at + 1 + idx] = p[idx + 1]
    <3> HIDE DEF idx
    <3> DEFINE e == idx + 1
    <3>1. e \in 1 .. Len(p)
      BY <1>2, <2>2 DEF n
    <3>2. d[at + 1 + e - 1] = p[e]
      BY <1>8, <3>1, Zenon DEF Has
    <3>3. at + 1 + e - 1 = at + 1 + idx
      BY <2>2
    <3> QED BY <3>2, <3>3
  <2> HIDE DEF Index, idx
  <2> QED BY <1>12, <2>2, <2>6, <2>7
<1>16. data = td
  <2>1. td = [k \in 1 .. Pixels(t) |-> td[k]]
    BY DEF Contents
  <2> HIDE DEF Index
  <2> QED BY <1>15, <2>1
<1> HIDE DEF data, next
<1>17. Skip(next, size) = Z(m, at + 1 + size, left - 1 - size, 0)
  BY SkipIs DEF next
<1> DEFINE drawn == PutRect(m, t, td)
<1>18. PackedZRLE(next, t, d, n) = Z(drawn, at + 1 + size, left - 1 - size, 0)
  <2>1. Skip(next, size).m = m
    BY <1>17 DEF Z
  <2>2. [Z(m, at + 1 + size, left - 1 - size, 0) EXCEPT !.m = drawn]
           = Z(drawn, at + 1 + size, left - 1 - size, 0)
    BY ZDraws
  <2> QED BY <1>14, <1>16, <1>17, <2>1, <2>2, Zenon
<1>19. drawn \in Memory /\ Seen(drawn) = Put(Seen(m), t, td)
  BY PutRectIs DEF Contents
<1> HIDE DEF drawn
<1>20. /\ at + 1 + size = at + Len(item) /\ left - 1 - size \in Int
       /\ left - 1 - size >= left - Len(item) /\ Len(item) >= 2
  BY <1>2, <1>9, <1>21
<1> QED BY <1>11, <1>18, <1>19, <1>20, Zenon DEF Tiled, item, next

-----------------------------------------------------------------------------
(* Runs.                                                                   *)

\* After y pixels of data a run begins.
RunBegins(data, y) == y = 0 \/ RunEnds(data, y)

\* The run that begins there ends at the e-th pixel.
IsRun(data, y, e) ==
    /\ RunEnds(data, e)
    /\ \A i \in y + 1 .. e - 1 : ~RunEnds(data, i)
    /\ \A i \in y + 1 .. e : data[i] = data[e]
    /\ RunLength(data, e) = e - y

\* Each run ends, and the server counts its pixels.
LEMMA RunIs ==
    ASSUME NEW n \in Nat \ {0}, NEW data, Len(data) = n, NEW y \in 0 .. n - 1,
           RunBegins(data, y)
    PROVE  \E e \in y + 1 .. n : IsRun(data, y, e)
<1> DEFINE T == {i \in y + 1 .. n : RunEnds(data, i)}
<1>1. T \subseteq Nat /\ n \in T
  BY DEF RunEnds
<1>2. PICK e \in T : \A i \in T : ~(i < e)
  <2>1. T # {}
    BY <1>1
  <2> HIDE DEF T
  <2> QED BY <1>1, <2>1, LeastOf
<1>3. e \in y + 1 .. n /\ RunEnds(data, e)
  BY <1>2
<1>4. \A i \in y + 1 .. e - 1 : ~RunEnds(data, i)
  <2> SUFFICES ASSUME NEW i \in y + 1 .. e - 1, RunEnds(data, i) PROVE FALSE
    OBVIOUS
  <2>1. i \in y + 1 .. n /\ i < e
    BY <1>3
  <2>2. i \in T
    BY <2>1
  <2> HIDE DEF T
  <2> QED BY <1>2, <2>1, <2>2
<1> HIDE DEF T
<1>5. \A i \in y + 1 .. e : data[i] = data[y + 1]
  <2> DEFINE k == e - (y + 1)
             G == {i \in 0 .. k : data[y + 1 + i] = data[y + 1]}
  <2>1. k \in Nat
    BY <1>3
  <2>2. 0 \in G
    BY <2>1
  <2>3. ASSUME NEW i \in 1 .. k, i - 1 \in G PROVE i \in G
    <3>1. y + i \in y + 1 .. e - 1 /\ y + i # n /\ y + 1 + (i - 1) = y + i
          /\ y + 1 + i = y + i + 1 /\ i \in 0 .. k
      BY <1>3
    <3>2. data[y + i + 1] = data[y + i]
      BY <1>4, <3>1 DEF RunEnds
    <3>3. data[y + 1 + (i - 1)] = data[y + 1]
      BY <2>3
    <3> QED BY <3>1, <3>2, <3>3
  <2>4. \A i \in 0 .. k : i \in G
    <3> HIDE DEF G, k
    <3> QED BY <2>1, <2>2, <2>3, InductionTo
  <2> TAKE i \in y + 1 .. e
  <2>5. i - (y + 1) \in 0 .. k /\ y + 1 + (i - (y + 1)) = i
    BY <1>3
  <2>6. data[y + 1 + (i - (y + 1))] = data[y + 1]
    <3> HIDE DEF k
    <3> QED BY <2>4, <2>5
  <2> QED BY <2>5, <2>6
<1>6. \A i \in y + 1 .. e : data[i] = data[e]
  <2>1. e \in y + 1 .. e
    BY <1>3
  <2> QED BY <1>5, <2>1
<1>7. y > 0 => data[y] # data[e]
  <2> HAVE y > 0
  <2>1. RunEnds(data, y) /\ y # n
    BY DEF RunBegins
  <2>2. data[y + 1] # data[y]
    BY <2>1 DEF RunEnds
  <2>3. y + 1 \in y + 1 .. e
    BY <1>3
  <2> QED BY <1>6, <2>2, <2>3
<1> DEFINE P(u) == /\ \A j \in e - u + 1 .. e : data[j] = data[e]
                   /\ u < e => data[e - u] # data[e]
           l == e - y
<1>8. l \in 1 .. e /\ P(l)
  <2>1. l \in 1 .. e /\ e - l = y /\ (l < e => y > 0)
    BY <1>3
  <2> HIDE DEF l
  <2>2. \A j \in e - l + 1 .. e : data[j] = data[e]
    BY <1>6, <2>1
  <2>3. l < e => data[e - l] # data[e]
    BY <1>7, <2>1
  <2> QED BY <2>1, <2>2, <2>3
<1>9. ASSUME NEW u \in 1 .. e, NEW v \in 1 .. e, P(u), P(v) PROVE ~(u < v)
  <2> SUFFICES ASSUME u < v PROVE FALSE
    OBVIOUS
  <2>1. u < e /\ e - u \in e - v + 1 .. e
    BY <1>3
  <2> QED BY <1>9, <2>1
<1>10. RunLength(data, e) = l
  <2> DEFINE c == CHOOSE u \in 1 .. e : P(u)
  <2>1. RunLength(data, e) = c
    BY Zenon DEF RunLength
  <2>2. c \in 1 .. e /\ P(c)
    <3> HIDE DEF P
    <3> QED BY <1>8
  <2> HIDE DEF c, P, l
  <2>3. ~(c < l) /\ ~(l < c)
    BY <1>8, <1>9, <2>2
  <2>4. c \in Int /\ l \in Int
    BY <1>3, <1>8, <2>2
  <2> QED BY <2>1, <2>3, <2>4
<1> QED BY <1>3, <1>4, <1>6, <1>10, Zenon DEF IsRun, l

\* The items of the runs, one after the other
RunItems(data, it) == [i \in 1 .. Len(data) |-> IF RunEnds(data, i) THEN it[i] ELSE <<>>]

\* Where they are in what is on the wire
RunsAre(data, it, off, w) ==
    /\ off \in [0 .. Len(data) -> Nat] /\ off[0] = 0 /\ Len(w) = off[Len(data)]
    /\ \A y \in 0 .. Len(data) - 1 : RunBegins(data, y) =>
          \E e \in y + 1 .. Len(data) :
             /\ IsRun(data, y, e) /\ off[e] = off[y] + Len(it[e])
             /\ off[e] <= Len(w)
             /\ \A j \in 1 .. Len(it[e]) : w[off[y] + j] = it[e][j]

LEMMA OffsetsGrow ==
    ASSUME NEW n \in Nat, NEW off \in [0 .. n -> Nat], \A k \in 1 .. n : off[k] >= off[k - 1],
           NEW e \in 0 .. n
    PROVE  off[e] <= off[n]
<1> DEFINE k == n - e
           G == {i \in 0 .. k : off[e] <= off[e + i]}
<1>1. k \in Nat /\ e + k = n
  OBVIOUS
<1>2. 0 \in G
  BY <1>1
<1>3. ASSUME NEW i \in 1 .. k, i - 1 \in G PROVE i \in G
  <2>1. e + i \in 1 .. n /\ e + i - 1 \in 0 .. n /\ e + (i - 1) = e + i - 1 /\ i \in 0 .. k
        /\ e + i \in 0 .. n
    OBVIOUS
  <2>2. off[e + i] >= off[e + i - 1] /\ off[e] <= off[e + i - 1]
    BY <1>3, <2>1
  <2>3. off[e + i] \in Nat /\ off[e + i - 1] \in Nat /\ off[e] \in Nat
    BY <2>1
  <2> QED BY <2>1, <2>2, <2>3
<1>4. \A i \in 0 .. k : i \in G
  <2> HIDE DEF G, k
  <2> QED BY <1>1, <1>2, <1>3, InductionTo
<1>5. k \in G
  <2> HIDE DEF G, k
  <2> QED BY <1>1, <1>4
<1> QED BY <1>1, <1>5

LEMMA RunsAreFlat ==
    ASSUME NEW n \in Nat \ {0}, NEW data, Len(data) = n, NEW it \in [1 .. n -> Numbers]
    PROVE  LET w == FlattenSeq(RunItems(data, it))
           IN  w \in Numbers /\ \E off : RunsAre(data, it, off, w)
<1> DEFINE items == RunItems(data, it)
           w == FlattenSeq(items)
<1>1. <<>> \in Numbers /\ Len(<<>>) = 0
  BY EmptySeq DEF Numbers
<1>2. /\ items \in Seq(Numbers) /\ Len(items) = n
      /\ \A i \in 1 .. n : items[i] = IF RunEnds(data, i) THEN it[i] ELSE <<>>
  <2>1. /\ items \in [1 .. n -> Numbers]
        /\ \A i \in 1 .. n : items[i] = IF RunEnds(data, i) THEN it[i] ELSE <<>>
    BY <1>1 DEF RunItems
  <2> HIDE DEF items
  <2> QED BY <2>1
<1> HIDE DEF items
<1>3. PICK off : Flat(items, off, w)
  BY <1>2, FlattenSeqIs
<1> HIDE DEF w
<1>4. /\ off \in [0 .. n -> Nat] /\ off[0] = 0
      /\ \A k \in 1 .. n : off[k] = off[k - 1] + Len(items[k])
  BY <1>2, <1>3 DEF Flat, Offsets
<1>5. w \in Numbers /\ Len(w) = off[n]
      /\ \A k \in 1 .. n : \A j \in 1 .. Len(items[k]) : w[off[k - 1] + j] = items[k][j]
  BY <1>2, <1>3 DEF Flat
<1>6. ASSUME NEW e \in 0 .. n PROVE off[e] <= off[n]
  <2>1. \A k \in 1 .. n : off[k] >= off[k - 1]
    <3>1. ASSUME NEW k \in 1 .. n PROVE off[k] >= off[k - 1]
      <4>1. items[k] \in Numbers
        BY <1>1, <1>2
      <4>2. Len(items[k]) \in Nat /\ off[k - 1] \in Nat
        BY <1>4, <4>1, LenProperties DEF Numbers
      <4> QED BY <1>4, <4>2
    <3> QED BY <3>1
  <2> QED BY <1>4, <2>1, OffsetsGrow
<1>7. ASSUME NEW y \in 0 .. n - 1, RunBegins(data, y)
      PROVE  \E e \in y + 1 .. n :
                /\ IsRun(data, y, e) /\ off[e] = off[y] + Len(it[e])
                /\ off[e] <= Len(w)
                /\ \A j \in 1 .. Len(it[e]) : w[off[y] + j] = it[e][j]
  <2>1. PICK e \in y + 1 .. n : IsRun(data, y, e)
    BY <1>7, RunIs
  <2>2. RunEnds(data, e) /\ \A i \in y + 1 .. e - 1 : ~RunEnds(data, i)
    BY <2>1 DEF IsRun
  <2>3. off[e - 1] = off[y]
    <3> DEFINE k == e - 1 - y
               G == {i \in 0 .. k : off[y + i] = off[y]}
    <3>1. k \in Nat /\ y + k = e - 1
      OBVIOUS
    <3>2. 0 \in G
      BY <3>1
    <3>3. ASSUME NEW i \in 1 .. k, i - 1 \in G PROVE i \in G
      <4>1. /\ y + i \in y + 1 .. e - 1 /\ y + i \in 1 .. n /\ y + i - 1 \in 0 .. n
            /\ y + (i - 1) = y + i - 1 /\ i \in 0 .. k
        OBVIOUS
      <4>2. items[y + i] = <<>>
        BY <1>2, <2>2, <4>1
      <4>3. off[y + i] = off[y + i - 1] + 0
        BY <1>1, <1>4, <4>1, <4>2
      <4>4. off[y + i - 1] = off[y] /\ off[y] \in Nat
        BY <1>4, <3>3, <4>1
      <4> QED BY <4>1, <4>3, <4>4
    <3>4. \A i \in 0 .. k : i \in G
      <4> HIDE DEF G, k
      <4> QED BY <3>1, <3>2, <3>3, InductionTo
    <3> QED BY <3>1, <3>4
  <2>4. e \in 1 .. n /\ items[e] = it[e]
    BY <1>2, <2>2
  <2>5. off[e] = off[y] + Len(it[e])
    BY <1>4, <2>3, <2>4
  <2>6. \A j \in 1 .. Len(it[e]) : w[off[y] + j] = it[e][j]
    BY <1>5, <2>3, <2>4
  <2>7. off[e] <= Len(w)
    BY <1>5, <1>6, <2>4
  <2> QED BY <2>1, <2>5, <2>6, <2>7
<1>8. RunsAre(data, it, off, w)
  BY <1>4, <1>5, <1>7 DEF RunsAre
<1> QED BY <1>5, <1>8, Zenon DEF w, items

LEMMA LengthBytesIs ==
    ASSUME NEW n \in Nat
    PROVE  \E q \in Nat, r \in Nat :
              /\ n = q * Full + r /\ r # Full
              /\ LengthBytes(n) \in Numbers /\ Len(LengthBytes(n)) = q + 1
              /\ \A i \in 1 .. q : LengthBytes(n)[i] = Full
              /\ LengthBytes(n)[q + 1] = r
<1> DEFINE q == n \div Full
           r == n % Full
<1>1. Full \in Nat \ {0}
  BY RectanglesAssumption
<1>2. q \in Nat /\ r \in 0 .. Full - 1 /\ n = q * Full + r
  <2>1. n \in 0 .. Full * (n + 1) - 1
    <3>1. n + 1 \in Nat /\ Full >= 1
      BY <1>1
    <3>2. Full * (n + 1) >= n + 1
      BY <1>1, <3>1
    <3> QED BY <1>1, <3>1, <3>2
  <2>2. n + 1 \in Nat
    OBVIOUS
  <2>3. q \in 0 .. (n + 1) - 1 /\ r \in 0 .. Full - 1 /\ n = q * Full + r
    BY <1>1, <2>1, <2>2, Division
  <2> QED BY <2>3
<1>3. LengthBytes(n) = [i \in 1 .. q + 1 |-> IF i <= q THEN Full ELSE r]
  BY Zenon DEF LengthBytes
<1> HIDE DEF q, r
<1>4. r \in Nat /\ r # Full
  BY <1>1, <1>2
<1> DEFINE l == LengthBytes(n)
<1>5. l \in [1 .. q + 1 -> Nat] /\ (\A i \in 1 .. q : l[i] = Full) /\ l[q + 1] = r
  BY <1>1, <1>2, <1>3, <1>4
<1> HIDE DEF l
<1>6. l \in Numbers /\ Len(l) = q + 1
  BY <1>2, <1>5 DEF Numbers
<1> QED BY <1>2, <1>4, <1>5, <1>6, Zenon DEF l

RunDecoded(m, at, left, y, t, d, color, length) ==
    RunZRLE(Z(m, at, left, y), t, d, color)
       = Z(PutRun(m, color, length, t, y), at + Len(LengthBytes(length - 1)),
           left - Len(LengthBytes(length - 1)), y + length)

\* The client takes the bytes of the length, and draws as many pixels.
LEMMA RunDecodes ==
    ASSUME NEW m, NEW at \in Nat, NEW left \in Int, NEW y \in Nat, NEW t, NEW d, NEW color,
           NEW length \in Nat \ {0}, Has(d, at, LengthBytes(length - 1)),
           left >= Len(LengthBytes(length - 1))
    PROVE  RunDecoded(m, at, left, y, t, d, color, length)
<1> DEFINE bytes == LengthBytes(length - 1)
           z == Z(m, at, left, y)
<1>1. length - 1 \in Nat
  OBVIOUS
<1>2. PICK q \in Nat, r \in Nat :
         /\ length - 1 = q * Full + r /\ r # Full
         /\ bytes \in Numbers /\ Len(bytes) = q + 1
         /\ \A i \in 1 .. q : bytes[i] = Full
         /\ bytes[q + 1] = r
  BY <1>1, LengthBytesIs, Zenon
<1>3. \A j \in 1 .. q + 1 : d[at + j - 1] = bytes[j]
  BY <1>2, Zenon DEF Has
<1>4. z.m = m /\ z.at = at /\ z.left = left /\ z.y = y
  BY DEF Z
<1>5. left >= q + 1
  BY <1>2
<1> HIDE DEF bytes, z
<1> DEFINE Byte(k) == d[z.at + k - 1]
           P(k) == Byte(k) # Full /\ \A j \in 1 .. k - 1 : Byte(j) = Full
           n == CHOOSE k \in 1 .. z.left : P(k)
           long == 1 + (n - 1) * Full + Byte(n)
<1>6. (\A j \in 1 .. q : Byte(j) = Full) /\ Byte(q + 1) = r
  <2>1. ASSUME NEW j \in 1 .. q PROVE Byte(j) = Full
    <3>1. j \in 1 .. q + 1
      OBVIOUS
    <3>2. d[at + j - 1] = bytes[j]
      BY <1>3, <3>1
    <3> QED BY <1>2, <1>4, <3>2
  <2>2. q + 1 \in 1 .. q + 1
    OBVIOUS
  <2>3. d[at + (q + 1) - 1] = bytes[q + 1]
    BY <1>3, <2>2
  <2> QED BY <1>2, <1>4, <2>1, <2>3
<1> HIDE DEF Byte
<1>7. q + 1 \in 1 .. z.left /\ P(q + 1)
  <2>1. q + 1 \in 1 .. z.left
    BY <1>4, <1>5
  <2>2. (q + 1) - 1 = q
    OBVIOUS
  <2>3. \A j \in 1 .. (q + 1) - 1 : Byte(j) = Full
    BY <1>6, <2>2
  <2> QED BY <1>2, <1>6, <2>1, <2>3
<1>8. ~ \A k \in 1 .. z.left : Byte(k) = Full
  <2>1. Byte(q + 1) # Full
    BY <1>2, <1>6
  <2> QED BY <1>7, <2>1
<1>9. n = q + 1
  <2>1. n \in 1 .. z.left /\ P(n)
    <3> HIDE DEF P
    <3> QED BY <1>7
  <2> HIDE DEF n
  <2>2. n \in Nat
    BY <2>1
  <2>3. ~(n < q + 1)
    <3> SUFFICES ASSUME n < q + 1 PROVE FALSE
      OBVIOUS
    <3>1. n \in 1 .. q
      BY <2>1, <2>2
    <3> QED BY <1>6, <2>1, <3>1
  <2>4. ~(q + 1 < n)
    <3> SUFFICES ASSUME q + 1 < n PROVE FALSE
      OBVIOUS
    <3>1. q + 1 \in 1 .. n - 1
      BY <2>2
    <3> QED BY <1>2, <1>6, <2>1, <3>1
  <2> QED BY <2>2, <2>3, <2>4
<1>10. RunZRLE(z, t, d, color)
          = IF \A k \in 1 .. z.left : Byte(k) = Full THEN TooSmall(z)
            ELSE [Skip(z, n) EXCEPT !.m = PutRun(Skip(z, n).m, color, long, t, z.y),
                                    !.y = Skip(z, n).y + long]
  BY Zenon DEF RunZRLE, Byte
<1>11. long = length
  <2> DEFINE u == q * Full
  <2>1. u \in Nat
    BY RectanglesAssumption
  <2> HIDE DEF n
  <2>2. n - 1 = q
    BY <1>9
  <2>3. long = 1 + u + r
    BY <1>6, <1>9, <2>2
  <2>4. length - 1 = u + r
    BY <1>2
  <2> HIDE DEF u, long
  <2> QED BY <2>1, <2>3, <2>4
<1> HIDE DEF n, long
<1>12. Skip(z, n) = Z(m, at + n, left - n, y)
  BY SkipIs DEF z
<1> DEFINE v == PutRun(m, color, length, t, y)
           u == y + length
<1>13. Skip(z, n).m = m /\ Skip(z, n).y = y
  BY <1>12 DEF Z
<1>14. RunZRLE(z, t, d, color) = [Skip(z, n) EXCEPT !.m = v, !.y = u]
  BY <1>4, <1>8, <1>10, <1>11, <1>13, Zenon
<1> HIDE DEF v, u
<1>15. [Z(m, at + n, left - n, y) EXCEPT !.m = v, !.y = u] = Z(v, at + n, left - n, u)
  <2> DEFINE a == at + n
             b == left - n
  <2> HIDE DEF a, b
  <2>1. [Z(m, a, b, y) EXCEPT !.m = v] = Z(v, a, b, y)
    BY ZDraws
  <2>2. [Z(v, a, b, y) EXCEPT !.y = u] = Z(v, a, b, u)
    BY ZBegins
  <2>3. [Z(m, a, b, y) EXCEPT !.m = v, !.y = u] = Z(v, a, b, u)
    BY <2>1, <2>2, Zenon
  <2> QED BY <2>3 DEF a, b
<1>16. n = Len(bytes)
  BY <1>2, <1>9
<1> QED BY <1>12, <1>14, <1>15, <1>16, Zenon DEF v, u, z, bytes, RunDecoded

\* Put takes the colour of a point from its place.
LEMMA PlaceIndex ==
    ASSUME NEW t \in Inside, NEW p \in PointsOf(t)
    PROVE  (p[2] - t.y) * t.w + p[1] - t.x + 1 = Place(t, p) + 1
<1>1. p[1] \in 0 .. Width - 1 /\ p[2] \in 0 .. Height - 1
  BY PlaceIs
<1>2. t.x \in Nat /\ t.y \in Nat /\ t.w \in Nat
  BY InsideIsRect
<1>3. p[1] \in Int /\ p[2] \in Int
  BY <1>1, FrameBufferAssumption
<1> DEFINE u == (p[2] - t.y) * t.w
<1>4. u \in Int
  BY <1>2, <1>3
<1>5. Place(t, p) = u + (p[1] - t.x)
  BY DEF Place
<1> HIDE DEF u
<1>6. u + p[1] - t.x + 1 = Place(t, p) + 1
  BY <1>2, <1>3, <1>4, <1>5
<1> QED BY <1>6 DEF u

\* s with the first y pixels of tile t
Part(s, t, td, y) ==
    [p \in Points |-> IF p \in PointsOf(t) /\ Place(t, p) < y THEN td[Place(t, p) + 1] ELSE s[p]]

LEMMA PartIs ==
    ASSUME NEW s \in Colorings, NEW t \in Inside, NEW td \in Contents(t)
    PROVE  Part(s, t, td, 0) = s /\ Part(s, t, td, Pixels(t)) = Put(s, t, td)
<1> DEFINE n == Pixels(t)
<1>1. \A p \in PointsOf(t) : Place(t, p) \in 0 .. n - 1
  BY PlaceIs DEF Pixels
<1>2. n \in Nat
  BY InsideIsRect
<1>3. \A p \in PointsOf(t) : (p[2] - t.y) * t.w + p[1] - t.x + 1 = Place(t, p) + 1
  BY PlaceIndex
<1> HIDE DEF n
<1>4. Part(s, t, td, 0) = s
  <2>1. \A p \in Points : ~(p \in PointsOf(t) /\ Place(t, p) < 0)
    BY <1>1, <1>2
  <2>2. Part(s, t, td, 0) = [p \in Points |-> s[p]]
    BY <2>1 DEF Part
  <2> QED BY <2>2 DEF Colorings
<1>5. Part(s, t, td, n) = Put(s, t, td)
  <2>1. \A p \in PointsOf(t) : Place(t, p) < n
    BY <1>1, <1>2
  <2>2. ASSUME NEW p \in Points
        PROVE  (IF p \in PointsOf(t) /\ Place(t, p) < n THEN td[Place(t, p) + 1] ELSE s[p])
                 = (IF p \in PointsOf(t) THEN td[(p[2] - t.y) * t.w + p[1] - t.x + 1] ELSE s[p])
    BY <1>3, <2>1, Zenon
  <2> QED BY <2>2, Zenon DEF Part, Put
<1> QED BY <1>4, <1>5 DEF n

LEMMA PartAndRun ==
    ASSUME NEW s, NEW t \in Inside, NEW td, NEW y \in Nat, NEW e \in Nat, y < e,
           \A j \in y + 1 .. e : td[j] = td[e]
    PROVE  Run(Part(s, t, td, y), t, y, e, td[e]) = Part(s, t, td, e)
<1> DEFINE P == Part(s, t, td, y)
<1>1. \A p \in PointsOf(t) : Place(t, p) \in Int
  <2> TAKE p \in PointsOf(t)
  <2> DEFINE n == t.w * t.h
  <2>1. Place(t, p) \in 0 .. n - 1
    BY PlaceIs
  <2> HIDE DEF n
  <2> QED BY <2>1
<1>2. ASSUME NEW p \in Points
      PROVE  (IF p \in PointsOf(t) /\ Place(t, p) \in y .. e - 1 THEN td[e] ELSE P[p])
               = (IF p \in PointsOf(t) /\ Place(t, p) < e THEN td[Place(t, p) + 1] ELSE s[p])
  <2> DEFINE k == Place(t, p)
             in == p \in PointsOf(t)
  <2>1. P[p] = IF p \in PointsOf(t) /\ k < y THEN td[k + 1] ELSE s[p]
    BY DEF Part
  <2>2. CASE p \notin PointsOf(t)
    BY <2>1, <2>2
  <2>3. CASE p \in PointsOf(t)
    <3>1. k \in Int
      BY <1>1, <2>3
    <3> HIDE DEF k, P
    <3>2. k \in y .. e - 1 => td[k + 1] = td[e]
      BY <3>1
    <3>3. k \in y .. e - 1 <=> ~(k < y) /\ k < e
      BY <3>1
    <3>4. k < y => k < e
      BY <3>1
    <3> QED BY <2>1, <2>3, <3>2, <3>3, <3>4, Zenon DEF k
  <2> QED BY <2>2, <2>3
<1> HIDE DEF P
<1> QED BY <1>2, Zenon DEF Run, Part, P

\* Between two steps of a loop over runs, the client takes one.
TakesRun(a, b, t, td, d, it) ==
    \A m \in Memory, at \in Nat, rest \in Int : \A y \in 0 .. Pixels(t) - 1 :
       \A e \in y + 1 .. Pixels(t) :
          a = Z(m, at, rest, y) /\ IsRun(td, y, e) /\ Has(d, at, it[e]) /\ rest >= Len(it[e])
          => \E r \in Int : /\ r >= rest - Len(it[e])
                            /\ b = Z(PutRun(m, td[e], e - y, t, y), at + Len(it[e]), r, e)

\* A tile that is full stays as it is.
StaysFull(a, b, t) == \A m, at, rest : a = Z(m, at, rest, Pixels(t)) => b = a

\* After some steps of it, with the place where it is
InRuns(z, k, t, td, base, off, left, s) ==
    \E y \in 0 .. Pixels(t) : \E m \in Memory, rest \in Int :
       /\ z = Z(m, base + off[y], rest, y) /\ rest >= left - off[y]
       /\ RunBegins(td, y) /\ (y >= k \/ y = Pixels(t))
       /\ Seen(m) = Part(s, t, td, y)

LEMMA RunTaken ==
    ASSUME NEW t \in Inside, NEW td \in Contents(t), NEW d, NEW it \in [1 .. Pixels(t) -> Numbers],
           NEW base \in Nat, NEW off, NEW w, RunsAre(td, it, off, w), Has(d, base, w),
           NEW left \in Int, left >= Len(w), NEW s, NEW k \in 1 .. Pixels(t), NEW a, NEW b,
           TakesRun(a, b, t, td, d, it), StaysFull(a, b, t),
           InRuns(a, k - 1, t, td, base, off, left, s)
    PROVE  InRuns(b, k, t, td, base, off, left, s)
<1> DEFINE n == Pixels(t)
<1>1. n \in Nat \ {0} /\ Len(td) = n /\ td \in [1 .. n -> Colors]
  <2>1. n \in Nat \ {0} /\ td \in [1 .. n -> Colors]
    BY InsideIsRect DEF Contents
  <2> HIDE DEF n
  <2> QED BY <2>1
<1>2. PICK y \in 0 .. n : \E m \in Memory, rest \in Int :
         /\ a = Z(m, base + off[y], rest, y) /\ rest >= left - off[y]
         /\ RunBegins(td, y) /\ (y >= k - 1 \/ y = n)
         /\ Seen(m) = Part(s, t, td, y)
  BY Zenon DEF InRuns
<1>3. PICK m \in Memory, rest \in Int :
         /\ a = Z(m, base + off[y], rest, y) /\ rest >= left - off[y]
         /\ RunBegins(td, y) /\ (y >= k - 1 \/ y = n)
         /\ Seen(m) = Part(s, t, td, y)
  BY <1>2
<1>4. CASE y = n
  <2>1. b = a
    BY <1>3, <1>4, Zenon DEF StaysFull
  <2> QED BY <1>3, <1>4, <2>1, Zenon DEF InRuns
<1>5. CASE y # n
  <2> HIDE DEF n
  <2>1. y \in 0 .. n - 1
    BY <1>1, <1>5
  <2>2. PICK e \in y + 1 .. n :
           /\ IsRun(td, y, e) /\ off[e] = off[y] + Len(it[e])
           /\ off[e] <= Len(w)
           /\ \A j \in 1 .. Len(it[e]) : w[off[y] + j] = it[e][j]
    BY <1>1, <1>3, <2>1 DEF RunsAre
  <2>3. off \in [0 .. n -> Nat] /\ Len(w) = off[n]
    BY <1>1 DEF RunsAre
  <2>4. e \in 1 .. n /\ e \in 0 .. n /\ e \in Nat /\ y \in Nat /\ y < e /\ e >= k
    BY <1>1, <1>3, <1>5, <2>1
  <2>5. it[e] \in Numbers /\ Len(it[e]) \in Nat
    BY <2>4, LenProperties DEF Numbers, n
  <2>6. off[y] \in Nat /\ off[e] \in Nat /\ Len(w) \in Nat
    BY <1>1, <2>1, <2>3, <2>4
  <2> DEFINE at == base + off[y]
             l == Len(it[e])
             oy == off[y]
             oe == off[e]
             lw == Len(w)
  <2>14. /\ oy \in Nat /\ oe \in Nat /\ lw \in Nat /\ l \in Nat /\ oe = oy + l /\ oe <= lw
         /\ at = base + oy /\ rest >= left - oy /\ left >= lw
    BY <1>3, <2>2, <2>5, <2>6, Zenon
  <2>7. Has(d, at, it[e])
    <3>1. ASSUME NEW j \in 1 .. l PROVE d[at + j - 1] = it[e][j]
      <4> DEFINE u == off[y] + j
      <4>1. u \in 1 .. Len(w) /\ base + u - 1 = at + j - 1
        <5> DEFINE v == oy + j
        <5> HIDE DEF oy, oe, lw, l, at
        <5>1. v \in 1 .. lw /\ base + v - 1 = at + j - 1
          BY <2>14
        <5> QED BY <5>1, Zenon DEF oy, lw
      <4> HIDE DEF u, at
      <4>2. d[base + u - 1] = w[u]
        BY <4>1, Zenon DEF Has
      <4>3. w[u] = it[e][j]
        BY <2>2, Zenon DEF u
      <4> QED BY <4>1, <4>2, <4>3
    <3> QED BY <3>1, Zenon DEF Has
  <2>8. at \in Nat /\ rest >= l
    <3> HIDE DEF oy, oe, lw, l, at
    <3>1. at \in Nat /\ rest >= l
      BY <2>14
    <3> QED BY <3>1, Zenon DEF at, l
  <2> HIDE DEF at, l
  <2>9. PICK r \in Int : r >= rest - l /\ b = Z(PutRun(m, td[e], e - y, t, y), at + l, r, e)
    BY <1>3, <2>1, <2>2, <2>7, <2>8, Zenon DEF TakesRun, n, at, l
  <2> DEFINE drawn == PutRun(m, td[e], e - y, t, y)
  <2>10. drawn \in Memory /\ Seen(drawn) = Run(Seen(m), t, y, y + (e - y), td[e])
    <3>1. td[e] \in Colors
      BY <1>1, <2>4
    <3> DEFINE len == e - y
               N == t.w * t.h
    <3>2. N = n
      BY DEF n, Pixels
    <3> HIDE DEF N
    <3>3. y \in 0 .. N - 1 /\ len \in Nat \ {0} /\ y + len <= N
      BY <2>1, <2>2, <2>4, <3>2
    <3> HIDE DEF len
    <3>4. /\ PutRun(m, td[e], len, t, y) \in Memory
          /\ Seen(PutRun(m, td[e], len, t, y)) = Run(Seen(m), t, y, y + len, td[e])
      BY <3>1, <3>3, PutRunIs DEF N
    <3> QED BY <3>4 DEF len
  <2> HIDE DEF drawn
  <2>11. Seen(drawn) = Part(s, t, td, e)
    <3>1. y + (e - y) = e
      BY <2>4
    <3>2. \A j \in y + 1 .. e : td[j] = td[e]
      BY <2>2, Zenon DEF IsRun
    <3>3. Run(Part(s, t, td, y), t, y, e, td[e]) = Part(s, t, td, e)
      BY <2>4, <3>2, PartAndRun
    <3> QED BY <1>3, <2>10, <3>1, <3>3
  <2>12. at + l = base + off[e] /\ r >= left - off[e]
    <3> HIDE DEF oy, oe, lw
    <3>1. at + l = base + oe /\ r >= left - oe
      BY <2>9, <2>14
    <3> QED BY <3>1 DEF oe
  <2>13. RunBegins(td, e)
    BY <2>2, Zenon DEF IsRun, RunBegins
  <2> QED BY <2>4, <2>9, <2>10, <2>11, <2>12, <2>13, Zenon DEF InRuns, n, drawn
<1> QED BY <1>4, <1>5

\* When the loop ends the tile is full, and drawn.
LEMMA RunsDecode ==
    ASSUME NEW t \in Inside, NEW td \in Contents(t), NEW d, NEW it \in [1 .. Pixels(t) -> Numbers],
           NEW base \in Nat, NEW w, \E off : RunsAre(td, it, off, w), Has(d, base, w),
           NEW left \in Int, left >= Len(w), NEW m \in Memory, NEW h,
           h[0] = Z(m, base, left, 0),
           \A k \in 1 .. Pixels(t) : /\ TakesRun(h[k - 1], h[k], t, td, d, it)
                                     /\ StaysFull(h[k - 1], h[k], t)
    PROVE  \E now \in Memory, rest \in Int :
              /\ h[Pixels(t)] = Z(now, base + Len(w), rest, Pixels(t))
              /\ rest >= left - Len(w) /\ Seen(now) = Put(Seen(m), t, td)
<1> DEFINE n == Pixels(t)
           s == Seen(m)
<1>1. n \in Nat \ {0} /\ Len(td) = n
  <2>1. n \in Nat \ {0} /\ td \in [1 .. n -> Colors]
    BY InsideIsRect DEF Contents
  <2> HIDE DEF n
  <2> QED BY <2>1
<1>2. s \in Colorings
  BY SeenIs DEF Colorings
<1>3. Part(s, t, td, 0) = s /\ Part(s, t, td, n) = Put(s, t, td)
  BY <1>2, PartIs
<1>4. PICK off : RunsAre(td, it, off, w)
  OBVIOUS
<1>5. off[0] = 0 /\ off \in [0 .. n -> Nat] /\ Len(w) = off[n]
  BY <1>1, <1>4 DEF RunsAre
<1> DEFINE G == {k \in 0 .. n : InRuns(h[k], k, t, td, base, off, left, s)}
<1> HIDE DEF s
<1>6. 0 \in G
  <2>1. 0 \in 0 .. n /\ base = base + off[0] /\ left >= left - off[0] /\ 0 >= 0
    BY <1>1, <1>5
  <2>2. RunBegins(td, 0)
    BY DEF RunBegins
  <2>3. InRuns(h[0], 0, t, td, base, off, left, s)
    BY <1>3, <2>1, <2>2, Zenon DEF InRuns, s, n
  <2> QED BY <2>1, <2>3
<1>7. ASSUME NEW k \in 1 .. n, k - 1 \in G PROVE k \in G
  <2>1. InRuns(h[k - 1], k - 1, t, td, base, off, left, s)
    BY <1>7
  <2>2. TakesRun(h[k - 1], h[k], t, td, d, it) /\ StaysFull(h[k - 1], h[k], t)
    BY DEF n
  <2>3. InRuns(h[k], k, t, td, base, off, left, s)
    BY <1>4, <2>1, <2>2, RunTaken DEF n
  <2> QED BY <1>1, <2>3
<1>8. \A k \in 0 .. n : k \in G
  <2> HIDE DEF G, n
  <2> QED BY <1>1, <1>6, <1>7, InductionTo
<1>9. InRuns(h[n], n, t, td, base, off, left, s)
  <2>1. n \in G
    <3> HIDE DEF G, n
    <3> QED BY <1>1, <1>8
  <2> QED BY <2>1, Zenon
<1>10. PICK y \in 0 .. n : \E now \in Memory, rest \in Int :
         /\ h[n] = Z(now, base + off[y], rest, y) /\ rest >= left - off[y]
         /\ RunBegins(td, y) /\ (y >= n \/ y = n)
         /\ Seen(now) = Part(s, t, td, y)
  BY <1>9, Zenon DEF InRuns
<1>11. y = n
  <2> HIDE DEF n
  <2> QED BY <1>1, <1>10
<1> QED BY <1>3, <1>5, <1>10, <1>11, Zenon DEF s

LEMMA RunLengthIs ==
    ASSUME NEW data, NEW i \in Nat \ {0}
    PROVE  RunLength(data, i) \in 1 .. i
<1> DEFINE T == {y \in 0 .. i - 1 : \A j \in y + 1 .. i : data[j] = data[i]}
           P(n) == /\ \A j \in i - n + 1 .. i : data[j] = data[i]
                   /\ n < i => data[i - n] # data[i]
<1>1. T \subseteq Nat /\ i - 1 \in T
  OBVIOUS
<1>2. PICK y \in T : \A x \in T : ~(x < y)
  <2>1. T # {}
    BY <1>1
  <2> HIDE DEF T
  <2> QED BY <1>1, <2>1, LeastOf
<1>3. y \in 0 .. i - 1 /\ \A j \in y + 1 .. i : data[j] = data[i]
  OBVIOUS
<1>4. y > 0 => data[y] # data[i]
  <2> SUFFICES ASSUME y > 0, data[y] = data[i] PROVE FALSE
    OBVIOUS
  <2>1. y - 1 \in 0 .. i - 1 /\ y - 1 < y
    BY <1>3
  <2>2. \A j \in y - 1 + 1 .. i : data[j] = data[i]
    <3> TAKE j \in y - 1 + 1 .. i
    <3>1. j = y \/ j \in y + 1 .. i
      BY <1>3
    <3> QED BY <1>3, <3>1
  <2>3. y - 1 \in T
    BY <2>1, <2>2
  <2> HIDE DEF T
  <2> QED BY <1>2, <2>1, <2>3
<1> HIDE DEF T
<1> DEFINE l == i - y
<1>5. l \in 1 .. i /\ P(l)
  <2>1. l \in 1 .. i /\ i - l = y /\ (l < i => y > 0)
    BY <1>3
  <2> HIDE DEF l
  <2>2. \A j \in i - l + 1 .. i : data[j] = data[i]
    BY <1>3, <2>1
  <2>3. l < i => data[i - l] # data[i]
    BY <1>4, <2>1
  <2> QED BY <2>1, <2>2, <2>3
<1> DEFINE c == CHOOSE n \in 1 .. i : P(n)
<1>6. RunLength(data, i) = c
  BY Zenon DEF RunLength
<1>7. c \in 1 .. i
  <2> HIDE DEF P, l
  <2> QED BY <1>5
<1> QED BY <1>6, <1>7

PlainItems(data) ==
    [i \in 1 .. Len(data) |-> <<data[i]>> \o LengthBytes(RunLength(data, i) - 1)]

PaletteItems(data, p) ==
    [i \in 1 .. Len(data) |->
        LET k == IndexIn(p, data[i])
            n == RunLength(data, i)
        IN  IF n = 1 THEN <<k>> ELSE <<128 + k>> \o LengthBytes(n - 1)]

LEMMA PixelsOfTile ==
    ASSUME NEW t \in Inside, NEW td \in Contents(t)
    PROVE  /\ Pixels(t) \in Nat \ {0} /\ Len(td) = Pixels(t)
           /\ \A i \in 1 .. Pixels(t) : td[i] \in Colors /\ td[i] \in Nat
<1> DEFINE n == Pixels(t)
<1>1. n \in Nat \ {0} /\ td \in [1 .. n -> Colors]
  BY InsideIsRect DEF Contents
<1> HIDE DEF n
<1>2. Len(td) = n
  BY <1>1
<1>3. \A i \in 1 .. n : td[i] \in Colors /\ td[i] \in Nat
  <2>1. \A i \in 1 .. n : td[i] \in Colors
    BY <1>1
  <2>2. Colors \subseteq Nat
    BY FrameBufferAssumption
  <2> QED BY <2>1, <2>2
<1> QED BY <1>1, <1>2, <1>3 DEF n

LEMMA LengthBytesTyped ==
    ASSUME NEW n \in Nat
    PROVE  LengthBytes(n) \in Numbers /\ Len(LengthBytes(n)) \in Nat /\ Len(LengthBytes(n)) >= 1
<1>1. PICK q \in Nat, r \in Nat :
              /\ n = q * Full + r /\ r # Full
              /\ LengthBytes(n) \in Numbers /\ Len(LengthBytes(n)) = q + 1
              /\ \A i \in 1 .. q : LengthBytes(n)[i] = Full
              /\ LengthBytes(n)[q + 1] = r
  BY LengthBytesIs, Zenon
<1>2. q + 1 \in Nat /\ q + 1 >= 1
  OBVIOUS
<1> QED BY <1>1, <1>2

LEMMA PlainItemsAre ==
    ASSUME NEW t \in Inside, NEW td \in Contents(t)
    PROVE  /\ PlainItems(td) \in [1 .. Pixels(t) -> Numbers]
           /\ \A i \in 1 .. Pixels(t) :
                 PlainItems(td)[i] = <<td[i]>> \o LengthBytes(RunLength(td, i) - 1)
<1> DEFINE It(i) == <<td[i]>> \o LengthBytes(RunLength(td, i) - 1)
           n == Pixels(t)
<1>1. n \in Nat \ {0} /\ Len(td) = n /\ \A i \in 1 .. n : td[i] \in Nat
  BY PixelsOfTile
<1> HIDE DEF n
<1>2. ASSUME NEW i \in 1 .. n PROVE It(i) \in Numbers
  <2>1. i \in Nat \ {0}
    BY <1>1
  <2>2. RunLength(td, i) \in 1 .. i
    BY <2>1, RunLengthIs
  <2>3. RunLength(td, i) - 1 \in Nat
    BY <2>1, <2>2
  <2>4. LengthBytes(RunLength(td, i) - 1) \in Numbers
    BY <2>3, LengthBytesTyped
  <2>5. <<td[i]>> \in Numbers
    BY <1>1, OneIs
  <2> QED BY <2>4, <2>5, ConcatNumbers
<1>3. PlainItems(td) = [i \in 1 .. n |-> It(i)]
  BY <1>1, Zenon DEF PlainItems
<1> HIDE DEF It
<1>4. PlainItems(td) \in [1 .. n -> Numbers] /\ \A i \in 1 .. n : PlainItems(td)[i] = It(i)
  BY <1>2, <1>3, Zenon
<1> QED BY <1>4, Zenon DEF It, n

LEMMA PlainRunTakes ==
    ASSUME NEW t \in Inside, NEW td \in Contents(t), NEW d, NEW a
    PROVE  /\ TakesRun(a, PlainRun(a, t, d), t, td, d, PlainItems(td))
           /\ StaysFull(a, PlainRun(a, t, d), t)
<1> DEFINE n == Pixels(t)
           it == PlainItems(td)
<1>1. n \in Nat \ {0} /\ Len(td) = n /\ \A i \in 1 .. n : td[i] \in Nat
  BY PixelsOfTile
<1>2. \A i \in 1 .. n : it[i] = <<td[i]>> \o LengthBytes(RunLength(td, i) - 1)
  BY PlainItemsAre
<1> HIDE DEF n, it
<1>3. ASSUME NEW m \in Memory, NEW at \in Nat, NEW rest \in Int, NEW y \in 0 .. n - 1,
             NEW e \in y + 1 .. n, a = Z(m, at, rest, y), IsRun(td, y, e), Has(d, at, it[e]),
             rest >= Len(it[e])
      PROVE  \E r \in Int : /\ r >= rest - Len(it[e])
                            /\ PlainRun(a, t, d) = Z(PutRun(m, td[e], e - y, t, y), at + Len(it[e]), r, e)
  <2> DEFINE length == e - y
             bytes == LengthBytes(length - 1)
             l == Len(bytes)
  <2>1. length \in Nat \ {0} /\ length - 1 \in Nat /\ y \in Nat /\ y + length = e /\ e \in 1 .. n
    BY <1>1
  <2>2. it[e] = <<td[e]>> \o bytes
    BY <1>2, <1>3, <2>1, Zenon DEF IsRun
  <2> HIDE DEF length
  <2>3. bytes \in Numbers /\ l \in Nat /\ l >= 1
    BY <2>1, LengthBytesTyped
  <2> HIDE DEF l
  <2>4. <<td[e]>> \in Numbers /\ Len(<<td[e]>>) = 1 /\ td[e] \in Nat
    BY <1>1, <2>1, OneIs
  <2>5. Len(it[e]) = 1 + l
    BY <2>2, <2>3, <2>4, Split DEF l
  <2>6. d[at] = td[e] /\ Has(d, at + 1, bytes)
    <3>1. Has(d, at, <<td[e]>> \o bytes)
      BY <1>3, <2>2, Zenon
    <3> HIDE DEF bytes
    <3> QED BY <2>3, <2>4, <3>1, HasFirst
  <2>7. a.at = at /\ a.left = rest /\ a.y = y /\ a.bad = FALSE
    BY <1>3 DEF Z
  <2>8. ~(a.y >= n) /\ ~(a.left < 1) /\ rest - 1 >= l /\ rest - 1 \in Int /\ at + 1 \in Nat
    <3>1. ~(y >= n) /\ rest >= 1 + l
      BY <1>1, <1>3, <2>5
    <3> QED BY <2>3, <2>7, <3>1
  <2>9. PlainRun(a, t, d) = RunZRLE(Skip(a, 1), t, d, td[e])
    BY <2>6, <2>7, <2>8, Zenon DEF PlainRun, n
  <2>10. Skip(a, 1) = Z(m, at + 1, rest - 1, y)
    BY <1>3, SkipIs
  <2> DEFINE u == at + 1
             v == rest - 1
  <2>11. u \in Nat /\ v \in Int /\ v >= l /\ Has(d, u, bytes)
    BY <2>6, <2>8
  <2> HIDE DEF u, v
  <2>14. Has(d, u, LengthBytes(length - 1)) /\ v >= Len(LengthBytes(length - 1))
    BY <2>11, Zenon DEF l
  <2> DEFINE color == td[e]
  <2> HIDE DEF color
  <2>15. RunDecoded(m, u, v, y, t, d, color, length)
    BY <2>1, <2>11, <2>14, RunDecodes
  <2>12. RunZRLE(Z(m, u, v, y), t, d, td[e])
            = Z(PutRun(m, td[e], length, t, y), u + l, v - l, y + length)
    BY <2>15, Zenon DEF l, color, RunDecoded
  <2>13. u + l = at + Len(it[e]) /\ v - l \in Int /\ v - l >= rest - Len(it[e])
    BY <2>3, <2>5 DEF u, v
  <2> QED BY <2>1, <2>9, <2>10, <2>12, <2>13, Zenon DEF u, v, length
<1>4. ASSUME NEW m, NEW at, NEW rest, a = Z(m, at, rest, n) PROVE PlainRun(a, t, d) = a
  <2>1. a.y = n /\ n >= n
    BY <1>1, <1>4 DEF Z
  <2> QED BY <2>1, Zenon DEF PlainRun, n
<1> QED BY <1>3, <1>4, Zenon DEF TakesRun, StaysFull, it, n

LEMMA OneRunAtLeast ==
    ASSUME NEW n \in Nat \ {0}, NEW data, Len(data) = n, NEW it \in [1 .. n -> Numbers],
           \A i \in 1 .. n : Len(it[i]) >= 1, NEW off, NEW w \in Numbers, RunsAre(data, it, off, w)
    PROVE  Len(w) \in Nat /\ Len(w) >= 1
<1>1. 0 \in 0 .. n - 1 /\ RunBegins(data, 0)
  BY DEF RunBegins
<1>2. PICK e \in 0 + 1 .. n : off[e] = off[0] + Len(it[e]) /\ off[e] <= Len(w)
  BY <1>1 DEF RunsAre
<1>3. off[0] = 0
  BY DEF RunsAre
<1>4. Len(w) \in Nat /\ Len(it[e]) \in Nat /\ Len(it[e]) >= 1
  <2>1. e \in 1 .. n
    OBVIOUS
  <2>2. it[e] \in Numbers
    BY <2>1
  <2> QED BY <2>1, <2>2, LenProperties DEF Numbers
<1> DEFINE l == Len(it[e])
           lw == Len(w)
<1>5. l \in Nat /\ l >= 1 /\ lw \in Nat /\ 0 + l <= lw
  BY <1>2, <1>3, <1>4
<1> HIDE DEF l, lw
<1>6. lw >= 1
  BY <1>5
<1> QED BY <1>5, <1>6 DEF lw

\* One item after the other, for the runs of the pixels of a tile
LEMMA RunTileIs ==
    ASSUME NEW t \in Inside, NEW td \in Contents(t)
    PROVE  \E w \in Numbers :
              /\ RunTile(td) = <<128>> \o w /\ Len(w) \in Nat /\ Len(w) >= 1
              /\ \E off : RunsAre(td, PlainItems(td), off, w)
<1> DEFINE n == Pixels(t)
           it == PlainItems(td)
           w == FlattenSeq(RunItems(td, it))
           item == RunTile(td)
<1>1. n \in Nat \ {0} /\ Len(td) = n /\ \A i \in 1 .. n : td[i] \in Nat
  BY PixelsOfTile
<1>2. it \in [1 .. n -> Numbers]
      /\ \A i \in 1 .. n : it[i] = <<td[i]>> \o LengthBytes(RunLength(td, i) - 1)
  BY PlainItemsAre
<1>3. item = <<128>> \o w
  <2> DEFINE It(i) == <<td[i]>> \o LengthBytes(RunLength(td, i) - 1)
             items == [i \in 1 .. Len(td) |-> IF RunEnds(td, i) THEN It(i) ELSE <<>>]
  <2>1. item = <<128>> \o FlattenSeq(items)
    BY Zenon DEF RunTile, EachRun
  <2>2. items = RunItems(td, it)
    <3> HIDE DEF It, n
    <3>1. \A i \in 1 .. n : It(i) = it[i]
      BY <1>2, Zenon DEF It
    <3> HIDE DEF it
    <3> QED BY <1>1, <3>1, Zenon DEF RunItems
  <2> QED BY <2>1, <2>2, Zenon
<1> HIDE DEF n, it, item
<1>4. w \in Numbers /\ \E off : RunsAre(td, it, off, w)
  BY <1>1, <1>2, RunsAreFlat
<1> HIDE DEF w
<1>5. \A i \in 1 .. n : Len(it[i]) >= 1
  <2> TAKE i \in 1 .. n
  <2>1. i \in Nat \ {0}
    BY <1>1
  <2>2. RunLength(td, i) \in 1 .. i
    BY <2>1, RunLengthIs
  <2> DEFINE k == RunLength(td, i) - 1
             b == LengthBytes(k)
  <2>3. k \in Nat
    BY <2>1, <2>2
  <2> HIDE DEF k
  <2>4. b \in Numbers /\ Len(b) \in Nat
    BY <2>3, LengthBytesTyped
  <2>5. it[i] = <<td[i]>> \o b
    BY <1>2, Zenon DEF k
  <2> HIDE DEF b
  <2>6. <<td[i]>> \in Numbers /\ Len(<<td[i]>>) = 1
    BY <1>1, OneIs
  <2>7. Len(it[i]) = 1 + Len(b)
    BY <2>4, <2>5, <2>6, Split
  <2> QED BY <2>4, <2>7
<1>6. Len(w) \in Nat /\ Len(w) >= 1
  <2>1. PICK off : RunsAre(td, it, off, w)
    BY <1>4
  <2> QED BY <1>1, <1>2, <1>4, <1>5, <2>1, OneRunAtLeast
<1> QED BY <1>3, <1>4, <1>6, Zenon DEF it, item

LEMMA RunTileTyped ==
    ASSUME NEW t \in Inside, NEW td \in Contents(t)
    PROVE  RunTile(td) \in Numbers /\ Len(RunTile(td)) \in Nat /\ Len(RunTile(td)) >= 2
<1>1. PICK w \in Numbers :
         /\ RunTile(td) = <<128>> \o w /\ Len(w) \in Nat /\ Len(w) >= 1
         /\ \E off : RunsAre(td, PlainItems(td), off, w)
  BY RunTileIs
<1>2. <<128>> \in Numbers /\ Len(<<128>>) = 1
  BY OneIs
<1>3. RunTile(td) \in Numbers /\ Len(RunTile(td)) = 1 + Len(w)
  BY <1>1, <1>2, Split
<1> QED BY <1>1, <1>3

LEMMA RunTileDecodes ==
    ASSUME NEW m \in Memory, NEW at \in Nat, NEW left \in Int, NEW y, NEW t \in Inside,
           NEW td \in Contents(t), NEW d, Has(d, at, RunTile(td)), left >= Len(RunTile(td))
    PROVE  Tiled(Z(m, at, left, y), t, d, at + Len(RunTile(td)),
                 left - Len(RunTile(td)), Put(Seen(m), t, td))
<1> DEFINE n == Pixels(t)
           it == PlainItems(td)
           item == RunTile(td)
           base == at + 1
           rest == left - 1
<1>1. n \in Nat \ {0}
  BY PixelsOfTile
<1>2. it \in [1 .. n -> Numbers]
  BY PlainItemsAre
<1> HIDE DEF n, it, item
<1>3. PICK w \in Numbers :
         /\ item = <<128>> \o w /\ Len(w) \in Nat /\ Len(w) >= 1
         /\ \E off : RunsAre(td, it, off, w)
  BY RunTileIs DEF it, item
<1> DEFINE lw == Len(w)
<1>4. w \in Numbers /\ \E off : RunsAre(td, it, off, w)
  BY <1>3
<1>6. lw \in Nat /\ lw >= 1
  BY <1>3
<1>7. <<128>> \in Numbers /\ Len(<<128>>) = 1
  BY OneIs
<1>8. item \in Numbers /\ Len(item) = 1 + lw
  BY <1>3, <1>4, <1>7, Split
<1>9. d[at] = 128 /\ Has(d, base, w)
  <2>1. Has(d, at, <<128>> \o w) /\ 128 \in Nat
    BY <1>3, Zenon DEF item
  <2> QED BY <1>4, <2>1, HasFirst
<1>10. left >= 1 + lw
  <2>1. left >= Len(item)
    BY DEF item
  <2> QED BY <1>8, <2>1
<1> HIDE DEF lw
<1>11. /\ base \in Nat /\ rest \in Int /\ rest >= lw /\ left >= 2
       /\ base + lw = at + Len(item) /\ rest - lw = left - Len(item) /\ Len(item) >= 2
  BY <1>6, <1>8, <1>10
<1>12. TileZRLE(Z(m, at, left, y), t, d) = PlainRunsZRLE(Z(m, base, rest, 0), t, d)
  <2>1. 128 \in Nat
    OBVIOUS
  <2>2. Begins(m, at, left, y, t, d, 128)
    BY <1>9, <1>11, <2>1, TileBegins
  <2> QED BY <2>2, Zenon DEF Begins
<1> HIDE DEF base, rest
<1>13. PICK h : /\ h[0] = Z(m, base, rest, 0) /\ PlainRunsZRLE(Z(m, base, rest, 0), t, d) = h[n]
                /\ \A k \in 1 .. n : h[k] = PlainRun(h[k - 1], t, d)
  BY PlainRunsLoop DEF n
<1>14. \A k \in 1 .. n : TakesRun(h[k - 1], h[k], t, td, d, it) /\ StaysFull(h[k - 1], h[k], t)
  <2> TAKE k \in 1 .. n
  <2> DEFINE a == h[k - 1]
             b == PlainRun(a, t, d)
  <2>1. h[k] = b
    BY <1>13
  <2> HIDE DEF a
  <2>2. TakesRun(a, b, t, td, d, it) /\ StaysFull(a, b, t)
    BY PlainRunTakes DEF it
  <2> HIDE DEF b
  <2> QED BY <2>1, <2>2 DEF a
<1>15. \E now \in Memory, left2 \in Int :
         /\ h[n] = Z(now, base + lw, left2, n)
         /\ left2 >= rest - lw /\ Seen(now) = Put(Seen(m), t, td)
  <2>1. rest >= Len(w)
    BY <1>11 DEF lw
  <2> QED BY <1>2, <1>4, <1>9, <1>11, <1>13, <1>14, <2>1, RunsDecode DEF n, lw
<1>16. PICK now \in Memory, left2 \in Int :
         /\ h[n] = Z(now, base + lw, left2, n)
         /\ left2 >= rest - lw /\ Seen(now) = Put(Seen(m), t, td)
  BY <1>15
<1>17. Tiled(Z(m, at, left, y), t, d, at + Len(item), left - Len(item), Put(Seen(m), t, td))
  <2>1. TileZRLE(Z(m, at, left, y), t, d) = Z(now, at + Len(item), left2, n)
    BY <1>11, <1>12, <1>13, <1>16, Zenon
  <2>2. left2 >= left - Len(item)
    BY <1>11, <1>16, Zenon
  <2> QED BY <1>16, <2>1, <2>2, Zenon DEF Tiled
<1> QED BY <1>17, Zenon DEF item

\* The item of a run of the k-th colour of a palette, of so many pixels
PaletteItem(k, n) == IF n = 1 THEN <<k>> ELSE <<128 + k>> \o LengthBytes(n - 1)

LEMMA PaletteItemIs ==
    ASSUME NEW k \in 0 .. 126, NEW n \in Nat \ {0}
    PROVE  PaletteItem(k, n) \in Numbers /\ Len(PaletteItem(k, n)) \in Nat
           /\ Len(PaletteItem(k, n)) >= 1
<1>1. CASE n = 1
  <2>1. k \in Nat
    OBVIOUS
  <2>2. <<k>> \in Numbers /\ Len(<<k>>) = 1
    BY <2>1, OneIs
  <2> QED BY <1>1, <2>2 DEF PaletteItem
<1>2. CASE n # 1
  <2> DEFINE b == LengthBytes(n - 1)
             c == 128 + k
  <2>1. n - 1 \in Nat /\ c \in Nat
    OBVIOUS
  <2>2. b \in Numbers /\ Len(b) \in Nat
    BY <2>1, LengthBytesTyped
  <2> HIDE DEF b
  <2>3. <<c>> \in Numbers /\ Len(<<c>>) = 1
    BY <2>1, OneIs
  <2> HIDE DEF c
  <2>4. <<c>> \o b \in Numbers /\ Len(<<c>> \o b) = 1 + Len(b)
    BY <2>2, <2>3, Split
  <2>5. PaletteItem(k, n) = <<c>> \o b
    BY <1>2, Zenon DEF PaletteItem, b, c
  <2> QED BY <2>2, <2>4, <2>5
<1> QED BY <1>1, <1>2

LEMMA PaletteItemsAre ==
    ASSUME NEW t \in Inside, NEW td \in Contents(t), NEW p \in Palettes, Holds(p, td)
    PROVE  /\ PaletteItems(td, p) \in [1 .. Pixels(t) -> Numbers]
           /\ \A i \in 1 .. Pixels(t) :
                 /\ PaletteItems(td, p)[i] = PaletteItem(IndexIn(p, td[i]), RunLength(td, i))
                 /\ IndexIn(p, td[i]) \in 0 .. Len(p) - 1 /\ IndexIn(p, td[i]) \in 0 .. 126
                 /\ p[IndexIn(p, td[i]) + 1] = td[i]
                 /\ Len(PaletteItems(td, p)[i]) >= 1
<1> DEFINE It(i) == PaletteItem(IndexIn(p, td[i]), RunLength(td, i))
           n == Pixels(t)
<1>1. n \in Nat \ {0} /\ Len(td) = n
  BY PixelsOfTile
<1>2. \A i \in 1 .. n : IndexIn(p, td[i]) \in 0 .. Len(p) - 1 /\ p[IndexIn(p, td[i]) + 1] = td[i]
  BY HoldsIs
<1> HIDE DEF n
<1>3. \A i \in 1 .. n : IndexIn(p, td[i]) \in 0 .. 126
  <2> TAKE i \in 1 .. n
  <2> DEFINE k == IndexIn(p, td[i])
             np == Len(p)
  <2>1. np \in 2 .. 127
    BY PaletteIs
  <2>2. k \in 0 .. np - 1
    BY <1>2
  <2> HIDE DEF k, np
  <2>3. k \in 0 .. 126
    BY <2>1, <2>2
  <2> QED BY <2>3 DEF k
<1>4. ASSUME NEW i \in 1 .. n PROVE It(i) \in Numbers /\ Len(It(i)) >= 1
  <2> DEFINE k == IndexIn(p, td[i])
             r == RunLength(td, i)
  <2>1. i \in Nat \ {0}
    BY <1>1
  <2>2. r \in 1 .. i
    BY <2>1, RunLengthIs
  <2> HIDE DEF r
  <2>3. r \in Nat \ {0}
    BY <2>1, <2>2
  <2>4. k \in 0 .. 126
    BY <1>3
  <2> HIDE DEF k
  <2>5. PaletteItem(k, r) \in Numbers /\ Len(PaletteItem(k, r)) >= 1
    BY <2>3, <2>4, PaletteItemIs
  <2> QED BY <2>5 DEF k, r
<1>5. PaletteItems(td, p) = [i \in 1 .. n |-> It(i)]
  BY <1>1, Zenon DEF PaletteItems, PaletteItem
<1> HIDE DEF It
<1>6. PaletteItems(td, p) \in [1 .. n -> Numbers] /\ \A i \in 1 .. n : PaletteItems(td, p)[i] = It(i)
  BY <1>4, <1>5, Zenon
<1>7. \A i \in 1 .. n : Len(PaletteItems(td, p)[i]) >= 1
  BY <1>4, <1>6
<1> QED BY <1>2, <1>3, <1>6, <1>7, Zenon DEF It, n

\* The palette is in the block from palette on.
LEMMA PaletteRunTakes ==
    ASSUME NEW t \in Inside, NEW td \in Contents(t), NEW d, NEW a,
           NEW p \in Palettes, Holds(p, td), NEW palette \in Nat, Has(d, palette, p)
    PROVE  /\ TakesRun(a, PaletteRun(a, t, d, palette), t, td, d, PaletteItems(td, p))
           /\ StaysFull(a, PaletteRun(a, t, d, palette), t)
<1> DEFINE n == Pixels(t)
           it == PaletteItems(td, p)
           b == PaletteRun(a, t, d, palette)
<1>1. n \in Nat \ {0} /\ Len(td) = n /\ \A i \in 1 .. n : td[i] \in Nat
  BY PixelsOfTile
<1>2. \A i \in 1 .. n :
         /\ it[i] = PaletteItem(IndexIn(p, td[i]), RunLength(td, i))
         /\ IndexIn(p, td[i]) \in 0 .. Len(p) - 1 /\ IndexIn(p, td[i]) \in 0 .. 126
         /\ p[IndexIn(p, td[i]) + 1] = td[i]
  BY PaletteItemsAre
<1> HIDE DEF n, it, b
<1>3. ASSUME NEW m \in Memory, NEW at \in Nat, NEW rest \in Int, NEW y \in 0 .. n - 1,
             NEW e \in y + 1 .. n, a = Z(m, at, rest, y), IsRun(td, y, e), Has(d, at, it[e]),
             rest >= Len(it[e])
      PROVE  \E r \in Int : /\ r >= rest - Len(it[e])
                            /\ b = Z(PutRun(m, td[e], e - y, t, y), at + Len(it[e]), r, e)
  <2> DEFINE length == e - y
             k == IndexIn(p, td[e])
             color == td[e]
             next == Z(m, at + 1, rest, y)
  <2>1. length \in Nat \ {0} /\ length - 1 \in Nat /\ y \in Nat /\ y + length = e /\ e \in 1 .. n
        /\ ~(y >= n)
    BY <1>1
  <2>2. it[e] = PaletteItem(k, length)
    BY <1>2, <1>3, <2>1, Zenon DEF IsRun
  <2>3. k \in 0 .. Len(p) - 1 /\ k \in 0 .. 126 /\ p[k + 1] = color
    BY <1>2, <2>1
  <2> HIDE DEF length, k, color, next
  <2>4. d[palette + k] = color
    <3> DEFINE j == k + 1
               np == Len(p)
    <3>1. np \in 2 .. 127 /\ k \in 0 .. np - 1
      BY <2>3, PaletteIs
    <3> HIDE DEF np
    <3>2. j \in 1 .. np /\ palette + j - 1 = palette + k
      BY <3>1
    <3> HIDE DEF j
    <3>3. d[palette + j - 1] = p[j]
      BY <3>2, Zenon DEF Has, np
    <3> QED BY <2>3, <3>2, <3>3 DEF j
  <2>5. a.at = at /\ a.left = rest /\ a.y = y /\ a.bad = FALSE
    BY <1>3 DEF Z
  <2>6. [a EXCEPT !.at = a.at + 1] = next
    <3> DEFINE u == at + 1
    <3> HIDE DEF u
    <3>1. [Z(m, at, rest, y) EXCEPT !.at = u] = Z(m, u, rest, y)
      BY ZMoves
    <3> QED BY <1>3, <2>5, <3>1, Zenon DEF u, next
  <2>7. ~(a.bad \/ a.y >= n)
    BY <2>1, <2>5
  <2>8. next.m = m /\ next.y = y
    BY DEF next, Z
  <2> DEFINE byte == d[at]
  <2>9. b = IF byte < 128
            THEN [next EXCEPT !.m = PutRun(m, d[palette + byte], 1, t, y), !.y = y + 1]
            ELSE RunZRLE(next, t, d, d[palette + (byte % 128)])
    BY <2>5, <2>6, <2>7, <2>8, Zenon DEF PaletteRun, b, n
  <2> HIDE DEF byte
  <2>10. CASE length = 1
    <3>1. it[e] = <<k>>
      BY <2>2, <2>10, Zenon DEF PaletteItem
    <3>2. <<k>> \in Numbers /\ Len(<<k>>) = 1 /\ <<k>>[1] = k /\ k \in Nat
      BY <2>3, OneIs
    <3>3. byte = k
      <4>1. 1 \in 1 .. 1 /\ at + 1 - 1 = at
        OBVIOUS
      <4>2. d[at + 1 - 1] = <<k>>[1]
        BY <1>3, <3>1, <3>2, <4>1, Zenon DEF Has
      <4> QED BY <3>2, <4>1, <4>2 DEF byte
    <3>4. byte < 128
      BY <2>3, <3>3
    <3> DEFINE v == PutRun(m, color, 1, t, y)
               u == y + 1
    <3>5. b = [next EXCEPT !.m = v, !.y = u]
      BY <2>4, <2>9, <3>3, <3>4, Zenon
    <3> HIDE DEF v, u
    <3>6. b = Z(v, at + 1, rest, u)
      <4> DEFINE q == at + 1
      <4> HIDE DEF q
      <4>1. [Z(m, q, rest, y) EXCEPT !.m = v] = Z(v, q, rest, y)
        BY ZDraws
      <4>2. [Z(v, q, rest, y) EXCEPT !.y = u] = Z(v, q, rest, u)
        BY ZBegins
      <4> QED BY <3>5, <4>1, <4>2, Zenon DEF q, next
    <3>7. Len(it[e]) = 1 /\ rest >= rest - 1 /\ u = e
      BY <2>1, <2>10, <3>1, <3>2 DEF u
    <3> QED BY <2>10, <3>6, <3>7, Zenon DEF v, color, length
  <2>11. CASE length # 1
    <3> DEFINE bytes == LengthBytes(length - 1)
               l == Len(bytes)
               c == 128 + k
    <3>1. bytes \in Numbers /\ l \in Nat /\ l >= 1
      BY <2>1, LengthBytesTyped
    <3>2. it[e] = <<c>> \o bytes
      BY <2>2, <2>11, Zenon DEF PaletteItem
    <3>3. c \in Nat /\ ~(c < 128) /\ c % 128 = k
      <4>1. k \in 0 .. 126
        BY <2>3
      <4>2. k \in 0 .. 126 => 128 + k \in Nat /\ ~(128 + k < 128) /\ (128 + k) % 128 = k
        OBVIOUS
      <4> QED BY <4>1, <4>2
    <3> HIDE DEF bytes, l, c
    <3>4. <<c>> \in Numbers /\ Len(<<c>>) = 1
      BY <3>3, OneIs
    <3>5. Len(it[e]) = 1 + l
      BY <3>1, <3>2, <3>4, Split DEF l
    <3>6. byte = c /\ Has(d, at + 1, bytes)
      <4>1. Has(d, at, <<c>> \o bytes)
        BY <1>3, <3>2, Zenon
      <4> QED BY <3>1, <3>3, <4>1, HasFirst DEF byte
    <3>7. b = RunZRLE(next, t, d, color)
      BY <2>4, <2>9, <3>3, <3>6, Zenon
    <3> DEFINE u == at + 1
    <3>8. u \in Nat /\ rest >= l /\ rest >= Len(bytes) /\ Has(d, u, bytes)
      <4>1. rest >= 1 + l
        BY <1>3, <3>5
      <4>2. rest >= l
        BY <3>1, <4>1
      <4> QED BY <3>6, <4>2 DEF l
    <3> HIDE DEF u
    <3>9. RunDecoded(m, u, rest, y, t, d, color, length)
      <4>1. Has(d, u, LengthBytes(length - 1)) /\ rest >= Len(LengthBytes(length - 1))
        BY <3>8, Zenon DEF bytes
      <4> QED BY <2>1, <3>8, <4>1, RunDecodes
    <3>10. b = Z(PutRun(m, color, length, t, y), u + l, rest - l, y + length)
      BY <3>7, <3>9, Zenon DEF RunDecoded, l, bytes, u, next
    <3>11. u + l = at + Len(it[e]) /\ rest - l \in Int /\ rest - l >= rest - Len(it[e])
      BY <3>1, <3>5 DEF u
    <3> QED BY <2>1, <3>10, <3>11, Zenon DEF length, color
  <2> QED BY <2>10, <2>11
<1>4. ASSUME NEW m, NEW at, NEW rest, a = Z(m, at, rest, n) PROVE b = a
  <2>1. a.y = n /\ n >= n
    BY <1>1, <1>4 DEF Z
  <2> QED BY <2>1, Zenon DEF PaletteRun, n, b
<1> QED BY <1>3, <1>4, Zenon DEF TakesRun, StaysFull, it, n, b

LEMMA PaletteRunTileIs ==
    ASSUME NEW t \in Inside, NEW td \in Contents(t), NEW p \in Palettes, Holds(p, td)
    PROVE  \E w \in Numbers :
              /\ PaletteRunTile(td, p) = (<<128 + Len(p)>> \o p) \o w
              /\ Len(w) \in Nat /\ Len(w) >= 1
              /\ \E off : RunsAre(td, PaletteItems(td, p), off, w)
<1> DEFINE n == Pixels(t)
           np == Len(p)
           it == PaletteItems(td, p)
           w == FlattenSeq(RunItems(td, it))
           sub == 128 + np
           item == PaletteRunTile(td, p)
<1>1. n \in Nat \ {0} /\ Len(td) = n
  BY PixelsOfTile
<1>2. it \in [1 .. n -> Numbers] /\ \A i \in 1 .. n : Len(it[i]) >= 1
  BY PaletteItemsAre
<1>3. item = (<<sub>> \o p) \o w
  <2> DEFINE It(i) == PaletteItem(IndexIn(p, td[i]), RunLength(td, i))
             items == [i \in 1 .. Len(td) |-> IF RunEnds(td, i) THEN It(i) ELSE <<>>]
  <2>1. item = (<<sub>> \o p) \o FlattenSeq(items)
    BY Zenon DEF PaletteRunTile, EachRun, PaletteItem
  <2>2. items = RunItems(td, it)
    <3>1. \A i \in 1 .. n : It(i) = it[i]
      BY PaletteItemsAre
    <3> HIDE DEF It, n, it
    <3> QED BY <1>1, <3>1, Zenon DEF RunItems
  <2> QED BY <2>1, <2>2, Zenon
<1> HIDE DEF n, it, item
<1>4. w \in Numbers /\ \E off : RunsAre(td, it, off, w)
  BY <1>1, <1>2, RunsAreFlat
<1> HIDE DEF w
<1>5. Len(w) \in Nat /\ Len(w) >= 1
  <2>1. PICK off : RunsAre(td, it, off, w)
    BY <1>4
  <2> QED BY <1>1, <1>2, <1>4, <2>1, OneRunAtLeast
<1> QED BY <1>3, <1>4, <1>5, Zenon DEF it, item

LEMMA PaletteRunTileTyped ==
    ASSUME NEW t \in Inside, NEW td \in Contents(t), NEW p \in Palettes, Holds(p, td)
    PROVE  PaletteRunTile(td, p) \in Numbers /\ Len(PaletteRunTile(td, p)) \in Nat
           /\ Len(PaletteRunTile(td, p)) >= 2
<1> DEFINE np == Len(p)
           sub == 128 + np
           item == PaletteRunTile(td, p)
<1>1. PICK w \in Numbers :
         /\ item = (<<sub>> \o p) \o w /\ Len(w) \in Nat /\ Len(w) >= 1
         /\ \E off : RunsAre(td, PaletteItems(td, p), off, w)
  BY PaletteRunTileIs, Zenon
<1>2. np \in 2 .. 127 /\ p \in Numbers
  BY PaletteIs
<1> HIDE DEF np, item
<1>3. np \in Nat /\ np >= 2 /\ sub \in Nat
  BY <1>2
<1> HIDE DEF sub
<1>4. <<sub>> \in Numbers /\ Len(<<sub>>) = 1
  BY <1>3, OneIs
<1>5. <<sub>> \o p \in Numbers /\ Len(<<sub>> \o p) = 1 + np
  BY <1>2, <1>4, Split DEF np
<1>6. item \in Numbers /\ Len(item) = 1 + np + Len(w)
  BY <1>1, <1>5, Split
<1>7. Len(item) \in Nat /\ Len(item) >= 2
  BY <1>1, <1>3, <1>6
<1> QED BY <1>6, <1>7 DEF item

LEMMA PaletteRunTileDecodes ==
    ASSUME NEW m \in Memory, NEW at \in Nat, NEW left \in Int, NEW y, NEW t \in Inside,
           NEW td \in Contents(t), NEW p \in Palettes, Holds(p, td),
           NEW d, Has(d, at, PaletteRunTile(td, p)), left >= Len(PaletteRunTile(td, p))
    PROVE  Tiled(Z(m, at, left, y), t, d, at + Len(PaletteRunTile(td, p)),
                 left - Len(PaletteRunTile(td, p)), Put(Seen(m), t, td))
<1> DEFINE n == Pixels(t)
           np == Len(p)
           it == PaletteItems(td, p)
           sub == 128 + np
           item == PaletteRunTile(td, p)
           base == at + 1 + (sub - 128)
           rest == left - 1 - (sub - 128)
<1>1. n \in Nat \ {0}
  BY PixelsOfTile
<1>2. it \in [1 .. n -> Numbers]
  BY PaletteItemsAre
<1> HIDE DEF n, it, item
<1>3. PICK w \in Numbers :
         /\ item = (<<sub>> \o p) \o w /\ Len(w) \in Nat /\ Len(w) >= 1
         /\ \E off : RunsAre(td, it, off, w)
  BY PaletteRunTileIs, Zenon DEF it, item
<1> DEFINE lw == Len(w)
<1>4. w \in Numbers /\ \E off : RunsAre(td, it, off, w)
  BY <1>3
<1>5. lw \in Nat /\ lw >= 1
  BY <1>3
<1>6. np \in 2 .. 127 /\ p \in Numbers
  BY PaletteIs
<1> HIDE DEF np, lw
<1>7. np \in Nat /\ np >= 2 /\ sub \in Nat /\ sub >= 130 /\ sub - 128 = np
  BY <1>6
<1> HIDE DEF sub
<1>8. <<sub>> \in Numbers /\ Len(<<sub>>) = 1
  BY <1>7, OneIs
<1>9. <<sub>> \o p \in Numbers /\ Len(<<sub>> \o p) = 1 + np
  BY <1>6, <1>8, Split DEF np
<1>10. item \in Numbers /\ Len(item) = 1 + np + lw
  BY <1>3, <1>4, <1>9, Split DEF lw
<1>11. Has(d, at, <<sub>> \o p) /\ Has(d, at + (1 + np), w)
  <2>1. Has(d, at, (<<sub>> \o p) \o w)
    BY <1>3, Zenon DEF item
  <2> QED BY <1>4, <1>9, <2>1, HasFront
<1>12. d[at] = sub /\ Has(d, at + 1, p)
  BY <1>6, <1>7, <1>11, HasFirst
<1>13. left >= 1 + np + lw
  <2>1. left >= Len(item)
    BY DEF item
  <2> QED BY <1>10, <2>1
<1>14. /\ base \in Nat /\ rest \in Int /\ rest >= lw /\ left >= 2 /\ left - 1 >= sub - 128
       /\ base = at + (1 + np) /\ at + 1 \in Nat
       /\ base + lw = at + Len(item) /\ rest - lw = left - Len(item) /\ Len(item) >= 2
  BY <1>5, <1>7, <1>10, <1>13
<1>15. TileZRLE(Z(m, at, left, y), t, d)
          = PaletteRunsZRLE(Z(m, base, rest, 0), t, d, at + 1)
  <2>1. Begins(m, at, left, y, t, d, sub)
    BY <1>7, <1>12, <1>14, TileBegins
  <2> QED BY <1>7, <1>14, <2>1, Zenon DEF Begins
<1> DEFINE palette == at + 1
<1>16. palette \in Nat /\ Has(d, palette, p) /\ Has(d, base, w)
  BY <1>11, <1>12, <1>14
<1> HIDE DEF base, rest, palette
<1>17. PICK h : /\ h[0] = Z(m, base, rest, 0)
                /\ PaletteRunsZRLE(Z(m, base, rest, 0), t, d, palette) = h[n]
                /\ \A k \in 1 .. n : h[k] = PaletteRun(h[k - 1], t, d, palette)
  BY PaletteRunsLoop DEF n
<1>18. \A k \in 1 .. n : TakesRun(h[k - 1], h[k], t, td, d, it) /\ StaysFull(h[k - 1], h[k], t)
  <2> TAKE k \in 1 .. n
  <2> DEFINE a == h[k - 1]
             b == PaletteRun(a, t, d, palette)
  <2>1. h[k] = b
    BY <1>17
  <2> HIDE DEF a
  <2>2. TakesRun(a, b, t, td, d, it) /\ StaysFull(a, b, t)
    BY <1>16, PaletteRunTakes DEF it
  <2> HIDE DEF b
  <2> QED BY <2>1, <2>2 DEF a
<1>19. \E now \in Memory, left2 \in Int :
         /\ h[n] = Z(now, base + lw, left2, n)
         /\ left2 >= rest - lw /\ Seen(now) = Put(Seen(m), t, td)
  <2>1. rest >= Len(w) /\ base \in Nat /\ rest \in Int
    BY <1>14 DEF lw
  <2>2. it \in [1 .. Pixels(t) -> Numbers]
    BY <1>2 DEF n
  <2>3. \A k \in 1 .. Pixels(t) : TakesRun(h[k - 1], h[k], t, td, d, it) /\ StaysFull(h[k - 1], h[k], t)
    BY <1>18 DEF n
  <2>4. Has(d, base, w) /\ h[0] = Z(m, base, rest, 0)
    BY <1>16, <1>17
  <2>5. \E now \in Memory, left2 \in Int :
         /\ h[Pixels(t)] = Z(now, base + Len(w), left2, Pixels(t))
         /\ left2 >= rest - Len(w) /\ Seen(now) = Put(Seen(m), t, td)
    BY <1>4, <2>1, <2>2, <2>3, <2>4, RunsDecode
  <2> QED BY <2>5 DEF n, lw
<1>20. PICK now \in Memory, left2 \in Int :
         /\ h[n] = Z(now, base + lw, left2, n)
         /\ left2 >= rest - lw /\ Seen(now) = Put(Seen(m), t, td)
  BY <1>19
<1>21. Tiled(Z(m, at, left, y), t, d, at + Len(item), left - Len(item), Put(Seen(m), t, td))
  <2>1. TileZRLE(Z(m, at, left, y), t, d) = Z(now, at + Len(item), left2, n)
    BY <1>14, <1>15, <1>17, <1>20, Zenon DEF palette
  <2>2. left2 >= left - Len(item)
    BY <1>14, <1>20, Zenon
  <2> QED BY <1>20, <2>1, <2>2, Zenon DEF Tiled
<1> QED BY <1>21, Zenon DEF item

-----------------------------------------------------------------------------
(* The tiles of a block.                                                   *)

\* The forms of a tile
FormOf(item, t, td, p) ==
    \/ item = RunTile(td)
    \/ Len(p) <= 16 /\ Holds(p, td) /\ item = PackedTile(t, td, p)
    \/ Holds(p, td) /\ item = PaletteRunTile(td, p)
    \/ Holds(<<td[1]>>, td) /\ item = <<1, td[1]>>
    \/ item = <<0>> \o td

LEMMA ZRLETileIs ==
    ASSUME NEW way, NEW t, NEW td, NEW p
    PROVE  FormOf(ZRLETile(way, t, td, p), t, td, p)
<1> DEFINE a == RunTile(td)
           b == PackedTile(t, td, p)
           c == PaletteRunTile(td, p)
           e == <<1, td[1]>>
           f == <<0>> \o td
           item == ZRLETile(way, t, td, p)
           small == Len(p) <= 16
           holds == Holds(p, td)
           one == Holds(<<td[1]>>, td)
<1>1. item = CASE way = "runs" -> a
               [] way = "packed" /\ small /\ holds -> b
               [] way = "paletteRuns" /\ holds -> c
               [] way = "solid" /\ one -> e
               [] OTHER -> f
  BY Zenon DEF ZRLETile
<1> HIDE DEF a, b, c, e, f, item, small, holds, one
<1>2. \/ item = a
      \/ small /\ holds /\ item = b
      \/ holds /\ item = c
      \/ one /\ item = e
      \/ item = f
  BY <1>1
<1> QED BY <1>2, Zenon DEF FormOf, a, b, c, e, f, item, small, holds, one

LEMMA TwoNumbers ==
    ASSUME NEW a \in Nat, NEW b \in Nat
    PROVE  <<a, b>> \in Numbers /\ Len(<<a, b>>) = 2 /\ <<a, b>>[1] = a /\ <<a, b>>[2] = b
BY DEF Numbers

\* What a tile is on the wire, and what the client has drawn when it has read it
ItemDecodes(item, t, td) ==
    \A m \in Memory, at \in Nat, left \in Int : \A y : \A d \in Numbers :
       Has(d, at, item) /\ at + Len(item) - 1 <= Len(d) /\ left >= Len(item)
       => Tiled(Z(m, at, left, y), t, d, at + Len(item), left - Len(item), Put(Seen(m), t, td))

LEMMA RawItem ==
    ASSUME NEW t \in Inside, NEW td \in Contents(t)
    PROVE  LET item == <<0>> \o td
           IN  item \in Numbers /\ Len(item) \in Nat /\ Len(item) >= 2 /\ ItemDecodes(item, t, td)
<1> DEFINE n == Pixels(t)
           item == <<0>> \o td
           size == 1 + n
<1>1. n \in Nat \ {0} /\ Len(td) = n
  BY PixelsOfTile
<1>2. td \in Numbers
  BY PixelsTyped
<1>3. <<0>> \in Numbers /\ Len(<<0>>) = 1
  BY OneIs
<1>4. item \in Numbers /\ Len(item) = size
  BY <1>1, <1>2, <1>3, Split
<1> HIDE DEF n
<1>5. size \in Nat /\ size >= 2
  BY <1>1
<1>6. ASSUME NEW m \in Memory, NEW at \in Nat, NEW left \in Int, NEW y, NEW d \in Numbers,
             Has(d, at, item), at + size - 1 <= Len(d), left >= size
      PROVE  Tiled(Z(m, at, left, y), t, d, at + size, left - size, Put(Seen(m), t, td))
  <2>1. d[at] = 0 /\ Has(d, at + 1, td)
    <3>1. 0 \in Nat
      OBVIOUS
    <3> QED BY <1>2, <1>6, <3>1, HasFirst
  <2>2. \A j \in 1 .. n : d[at + j] = td[j]
    <3> TAKE j \in 1 .. n
    <3>1. d[at + 1 + j - 1] = td[j]
      BY <1>1, <2>1, Zenon DEF Has
    <3>2. at + 1 + j - 1 = at + j
      BY <1>1
    <3> QED BY <3>1, <3>2
  <2>3. at + n <= Len(d) /\ left >= 1 + n
    <3> DEFINE ld == Len(d)
    <3>1. ld \in Nat
      BY LenProperties DEF Numbers
    <3>2. at + size - 1 <= ld
      BY <1>6
    <3> HIDE DEF ld
    <3>3. at + n <= ld
      BY <1>1, <3>1, <3>2
    <3> QED BY <1>6, <3>3 DEF ld
  <2>4. Tiled(Z(m, at, left, y), t, d, at + 1 + n, left - (1 + n), Put(Seen(m), t, td))
    BY <2>1, <2>2, <2>3, RawTileDecodes DEF n
  <2>5. at + 1 + n = at + size
    BY <1>1
  <2> QED BY <2>4, <2>5, Zenon
<1> HIDE DEF item, size
<1>7. ItemDecodes(item, t, td)
  BY <1>4, <1>6, Zenon DEF ItemDecodes
<1> QED BY <1>4, <1>5, <1>7 DEF item

LEMMA SolidItem ==
    ASSUME NEW t \in Inside, NEW td \in Contents(t), Holds(<<td[1]>>, td)
    PROVE  LET item == <<1, td[1]>>
           IN  item \in Numbers /\ Len(item) \in Nat /\ Len(item) >= 2 /\ ItemDecodes(item, t, td)
<1> DEFINE n == Pixels(t)
           color == td[1]
           item == <<1, color>>
<1>1. n \in Nat \ {0} /\ Len(td) = n /\ \A i \in 1 .. n : td[i] \in Nat
  BY PixelsOfTile
<1>2. color \in Nat /\ DOMAIN td = 1 .. n
  <2>1. 1 \in 1 .. n
    BY <1>1
  <2> QED BY <1>1, <2>1 DEF Contents
<1> HIDE DEF n
<1>3. \A j \in 1 .. n : td[j] = td[1]
  <2>1. {td[i] : i \in DOMAIN td} \subseteq {<<color>>[i] : i \in DOMAIN <<color>>}
    BY Zenon DEF Holds
  <2> HIDE DEF color
  <2>2. {<<color>>[i] : i \in DOMAIN <<color>>} = {color}
    OBVIOUS
  <2>3. \A j \in 1 .. n : td[j] \in {color}
    BY <1>2, <2>1, <2>2, Zenon
  <2> QED BY <2>3 DEF color
<1> HIDE DEF color
<1>4. item \in Numbers /\ Len(item) = 2 /\ item[1] = 1 /\ item[2] = color
  <2>1. 1 \in Nat
    OBVIOUS
  <2> QED BY <1>2, <2>1, TwoNumbers
<1> HIDE DEF item
<1>5. ASSUME NEW m \in Memory, NEW at \in Nat, NEW left \in Int, NEW y, NEW d \in Numbers,
             Has(d, at, item), left >= 2
      PROVE  Tiled(Z(m, at, left, y), t, d, at + 2, left - 2, Put(Seen(m), t, td))
  <2>1. d[at] = 1 /\ d[at + 1] = td[1]
    <3>1. \A j \in 1 .. 2 : d[at + j - 1] = item[j]
      BY <1>4, <1>5, Zenon DEF Has
    <3>2. d[at + 1 - 1] = item[1] /\ d[at + 2 - 1] = item[2]
      BY <3>1
    <3>3. at + 1 - 1 = at /\ at + 2 - 1 = at + 1
      OBVIOUS
    <3> QED BY <1>4, <3>2, <3>3 DEF color
  <2> QED BY <1>3, <1>5, <2>1, SolidTileDecodes DEF n
<1>6. ItemDecodes(item, t, td)
  BY <1>4, <1>5, Zenon DEF ItemDecodes
<1>7. Len(item) \in Nat /\ Len(item) >= 2
  BY <1>4
<1> QED BY <1>4, <1>6, <1>7 DEF item, color

LEMMA ItemIs ==
    ASSUME NEW way, NEW t \in Inside, NEW td \in Contents(t), NEW p \in Palettes
    PROVE  LET item == ZRLETile(way, t, td, p)
           IN  item \in Numbers /\ Len(item) \in Nat /\ Len(item) >= 2 /\ ItemDecodes(item, t, td)
<1> DEFINE item == ZRLETile(way, t, td, p)
           OK(i) == i \in Numbers /\ Len(i) \in Nat /\ Len(i) >= 2 /\ ItemDecodes(i, t, td)
<1>1. FormOf(item, t, td, p)
  BY ZRLETileIs
<1>2. OK(RunTile(td))
  <2>1. ItemDecodes(RunTile(td), t, td)
    BY RunTileDecodes DEF ItemDecodes
  <2> QED BY <2>1, RunTileTyped
<1>3. ASSUME Len(p) <= 16, Holds(p, td) PROVE OK(PackedTile(t, td, p))
  <2>1. ItemDecodes(PackedTile(t, td, p), t, td)
    BY <1>3, PackedTileDecodes DEF ItemDecodes
  <2> QED BY <1>3, <2>1, PackedTileTyped
<1>4. ASSUME Holds(p, td) PROVE OK(PaletteRunTile(td, p))
  <2>1. ItemDecodes(PaletteRunTile(td, p), t, td)
    BY <1>4, PaletteRunTileDecodes DEF ItemDecodes
  <2> QED BY <1>4, <2>1, PaletteRunTileTyped
<1>5. ASSUME Holds(<<td[1]>>, td) PROVE OK(<<1, td[1]>>)
  BY <1>5, SolidItem
<1>6. OK(<<0>> \o td)
  BY RawItem
<1> HIDE DEF item, OK
<1>7. OK(item)
  BY <1>1, <1>2, <1>3, <1>4, <1>5, <1>6, Zenon DEF FormOf
<1> QED BY <1>7 DEF OK, item

\* t is a part of f.
InRect(t, f) == f.x <= t.x /\ f.y <= t.y /\ MaxX(t) <= MaxX(f) /\ MaxY(t) <= MaxY(f)

LEMMA TilePlaceInRect ==
    ASSUME NEW f \in Inside, NEW side \in Nat \ {0},
           NEW i \in 0 .. CeilDiv(f.w, side) - 1, NEW j \in 0 .. CeilDiv(f.h, side) - 1
    PROVE  InRect(TilePlace(f, side, i, j), f)
<1> DEFINE u == i * side
           v == j * side
           t == TilePlace(f, side, i, j)
           fx == f.x
           fy == f.y
           fw == f.w
           fh == f.h
<1>1. fx \in Nat /\ fy \in Nat /\ fw \in Nat \ {0} /\ fh \in Nat \ {0}
  BY InsideIsRect
<1>2. u < fw /\ v < fh
  BY TilePlaceIs
<1>3. u \in Nat /\ v \in Nat
  <2>1. CeilDiv(fw, side) \in Nat /\ CeilDiv(fh, side) \in Nat
    BY <1>1, CeilDivIs
  <2>2. i \in Nat /\ j \in Nat
    BY <2>1
  <2> QED BY <2>2
<1>4. t = [x |-> fx + u, y |-> fy + v, w |-> Least(side, fw - u), h |-> Least(side, fh - v)]
  BY Zenon DEF TilePlace
<1> HIDE DEF u, v, fx, fy, fw, fh, t
<1> DEFINE w == Least(side, fw - u)
           h == Least(side, fh - v)
<1>5. w \in Int /\ w <= fw - u /\ h \in Int /\ h <= fh - v
  BY <1>1, <1>2, <1>3 DEF Least
<1>6. t = [x |-> fx + u, y |-> fy + v, w |-> w, h |-> h]
  BY <1>4
<1> HIDE DEF w, h
<1>7. t.x = fx + u /\ t.y = fy + v /\ t.w = w /\ t.h = h
  BY <1>6
<1>8. fx <= fx + u /\ fy <= fy + v /\ fx + u + w <= fx + fw /\ fy + v + h <= fy + fh
  BY <1>1, <1>2, <1>3, <1>5
<1>9. InRect(t, f) <=> fx <= t.x /\ fy <= t.y /\ t.x + t.w <= fx + fw /\ t.y + t.h <= fy + fh
  BY Zenon DEF InRect, MaxX, MaxY, fx, fy, fw, fh
<1> QED BY <1>7, <1>8, <1>9 DEF t

\* The place in f of what is at column a and line b of t
LEMMA PlaceInRect ==
    ASSUME NEW f \in Inside, NEW t \in Inside, InRect(t, f),
           NEW a \in 0 .. t.w - 1, NEW b \in 0 .. t.h - 1
    PROVE  (t.y - f.y + b) * f.w + t.x - f.x + a \in 0 .. f.w * f.h - 1
<1> DEFINE fx == f.x
           fy == f.y
           fw == f.w
           fh == f.h
           tx == t.x
           ty == t.y
           tw == t.w
           th == t.h
           u == tx - fx + a
           v == ty - fy + b
           n == fw * fh
<1>1. fx \in Nat /\ fy \in Nat /\ fw \in Nat \ {0} /\ fh \in Nat \ {0}
  BY InsideIsRect
<1>2. tx \in Nat /\ ty \in Nat /\ tw \in Nat \ {0} /\ th \in Nat \ {0}
  BY InsideIsRect
<1>3. fx <= tx /\ fy <= ty /\ tx + tw <= fx + fw /\ ty + th <= fy + fh
  BY Zenon DEF InRect, MaxX, MaxY
<1>4. \A c \in 0 .. fw - 1, d \in 0 .. fh - 1 : d * fw + c \in 0 .. n - 1
  BY DivisionInside
<1>9. a \in 0 .. tw - 1 /\ b \in 0 .. th - 1
  OBVIOUS
<1> HIDE DEF fx, fy, fw, fh, tx, ty, tw, th, n
<1>5. u \in 0 .. fw - 1 /\ v \in 0 .. fh - 1
  BY <1>1, <1>2, <1>3, <1>9
<1>6. v * fw + u \in 0 .. n - 1
  BY <1>4, <1>5
<1>7. v * fw + tx - fx + a = v * fw + u
  <2>1. v \in Int /\ a \in Int
    BY <1>5, <1>9, <1>1, <1>2
  <2> DEFINE q == v * fw
  <2>2. q \in Int
    BY <1>1, <2>1
  <2> HIDE DEF q
  <2>3. q + tx - fx + a = q + (tx - fx + a)
    BY <1>1, <1>2, <2>1, <2>2
  <2> QED BY <2>3 DEF q
<1> QED BY <1>6, <1>7 DEF fx, fy, fw, fh, tx, ty, n

LEMMA PartOfIs ==
    ASSUME NEW f \in Inside, NEW t \in Inside, InRect(t, f), NEW data \in Contents(f)
    PROVE  PartOf(f, t, data) \in Contents(t)
<1> DEFINE n == Pixels(t)
           Index(k) == (t.y - f.y + (k - 1) \div t.w) * f.w + t.x - f.x + ((k - 1) % t.w) + 1
<1>1. PartOf(f, t, data) = [k \in 1 .. n |-> data[Index(k)]]
  BY Zenon DEF PartOf
<1>2. ASSUME NEW k \in 1 .. n PROVE data[Index(k)] \in Colors
  <2> DEFINE a == (k - 1) % t.w
             b == (k - 1) \div t.w
             q == (t.y - f.y + b) * f.w + t.x - f.x + a
             tw == t.w
             th == t.h
             N == tw * th
             M == f.w * f.h
  <2>1. tw \in Nat \ {0} /\ th \in Nat \ {0} /\ n = N /\ n \in Nat
    BY InsideIsRect DEF Pixels
  <2>2. a \in 0 .. tw - 1 /\ b \in 0 .. th - 1
    <3> HIDE DEF tw, th
    <3>1. k - 1 \in 0 .. tw * th - 1
      <4> HIDE DEF n, N
      <4>1. k - 1 \in 0 .. N - 1
        BY <2>1
      <4> QED BY <4>1 DEF N
    <3>2. (k - 1) % tw \in 0 .. tw - 1 /\ (k - 1) \div tw \in 0 .. th - 1
      BY <2>1, <3>1, Division
    <3> QED BY <3>2 DEF tw
  <2> HIDE DEF a, b
  <2>3. q \in 0 .. M - 1
    BY <2>2, PlaceInRect
  <2>4. data \in [1 .. M -> Colors] /\ M \in Nat
    BY InsideIsRect DEF Contents, Pixels
  <2>5. Index(k) = q + 1
    BY DEF a, b
  <2> HIDE DEF q, M, Index
  <2>6. q + 1 \in 1 .. M
    BY <2>3, <2>4
  <2> QED BY <2>4, <2>5, <2>6
<1> HIDE DEF Index
<1> QED BY <1>1, <1>2, Zenon DEF Contents

LEMMA PointOffset ==
    ASSUME NEW r \in Inside, NEW p \in PointsOf(r)
    PROVE  /\ p[1] - r.x \in 0 .. r.w - 1 /\ p[2] - r.y \in 0 .. r.h - 1
           /\ p[1] \in Nat /\ p[2] \in Nat
<1> USE FrameBufferAssumption
<1>1. r.x \in Nat /\ r.y \in Nat /\ r.w \in Nat \ {0} /\ r.h \in Nat
  BY DEF Inside
<1> QED BY <1>1 DEF PointsOf, Points, MaxX, MaxY

LEMMA PartOfAt ==
    ASSUME NEW f \in Inside, NEW t \in Inside, InRect(t, f), NEW data, NEW p \in PointsOf(t)
    PROVE  PartOf(f, t, data)[Place(t, p) + 1] = data[Place(f, p) + 1]
<1> DEFINE fx == f.x
           fy == f.y
           fw == f.w
           tx == t.x
           ty == t.y
           tw == t.w
           th == t.h
           px == p[1]
           py == p[2]
           N == tw * th
           k == Place(t, p)
<1>1. fx \in Nat /\ fy \in Nat /\ fw \in Nat \ {0}
  BY InsideIsRect
<1>2. tx \in Nat /\ ty \in Nat /\ tw \in Nat \ {0} /\ th \in Nat \ {0} /\ Pixels(t) = N
  BY InsideIsRect DEF Pixels
<1>3. k \in 0 .. N - 1
  BY PlaceIs
<1>4. px - tx \in 0 .. tw - 1 /\ py - ty \in 0 .. th - 1 /\ px \in Int /\ py \in Int
  BY PointOffset
<1> DEFINE a == px - tx
           b == py - ty
<1>5. k % tw = a /\ k \div tw = b /\ a \in 0 .. tw - 1
  <2>1. k = b * tw + a
    BY Zenon DEF Place
  <2>2. \A c \in 0 .. tw - 1, e \in 0 .. th - 1 :
           (e * tw + c) \div tw = e /\ (e * tw + c) % tw = c
    BY DivisionInside
  <2> HIDE DEF a, b, tw, th, k
  <2> QED BY <1>4, <2>1, <2>2 DEF a, b
<1> DEFINE Index(l) == (ty - fy + (l - 1) \div tw) * fw + tx - fx + ((l - 1) % tw) + 1
<1>6. PartOf(f, t, data) = [l \in 1 .. Pixels(t) |-> data[Index(l)]]
  BY Zenon DEF PartOf
<1>7. PartOf(f, t, data)[k + 1] = data[Index(k + 1)]
  <2> HIDE DEF Index, k, N
  <2>1. k + 1 \in 1 .. Pixels(t)
    BY <1>2, <1>3 DEF N
  <2> QED BY <1>6, <2>1
<1>8. Index(k + 1) = Place(f, p) + 1
  <2>1. k \in Int
    <3> HIDE DEF k, N
    <3> QED BY <1>3
  <2> HIDE DEF k
  <2>2. (k + 1) - 1 = k
    BY <2>1
  <2>3. Index(k + 1) = (ty - fy + b) * fw + tx - fx + a + 1
    <3> HIDE DEF a, b
    <3> QED BY <1>5, <2>2
  <2>4. Place(f, p) = (py - fy) * fw + (px - fx)
    BY Zenon DEF Place
  <2> HIDE DEF px, py, tx, ty, tw, th, fx, fy, fw, Index
  <2>5. ty - fy + b = py - fy
    BY <1>1, <1>2, <1>4
  <2> DEFINE q == (py - fy) * fw
  <2>6. q \in Int
    BY <1>1, <1>4
  <2> HIDE DEF q
  <2>7. q + tx - fx + a + 1 = q + (px - fx) + 1
    BY <1>1, <1>2, <1>4, <2>6
  <2> QED BY <2>3, <2>4, <2>5, <2>7, Zenon DEF q
<1> QED BY <1>7, <1>8

\* The tiles that the client goes through are those that the server has sent.
LEMMA TileAtIs ==
    ASSUME NEW f \in Inside, NEW i \in Nat, NEW j \in Nat
    PROVE  TileAt(f, i, j) = TilePlace(f, ZRLESide, i, j)
<1> DEFINE S == ZRLESide
           u == i * S
           v == j * S
           fx == f.x
           fy == f.y
           fw == f.w
           fh == f.h
<1>1. fx \in Nat /\ fy \in Nat /\ fw \in Nat /\ fh \in Nat
  BY InsideIsRect
<1>2. u \in Nat /\ v \in Nat
  BY ZRLESideIs
<1>3. TileAt(f, i, j) = [x |-> fx + u, y |-> fy + v, w |-> Least(S, (fx + fw) - (fx + u)),
                         h |-> Least(S, (fy + fh) - (fy + v))]
  BY Zenon DEF TileAt, MaxX, MaxY
<1>4. TilePlace(f, S, i, j) = [x |-> fx + u, y |-> fy + v, w |-> Least(S, fw - u),
                               h |-> Least(S, fh - v)]
  BY Zenon DEF TilePlace
<1> HIDE DEF u, v, fx, fy, fw, fh
<1>5. (fx + fw) - (fx + u) = fw - u /\ (fy + fh) - (fy + v) = fh - v
  BY <1>1, <1>2
<1> QED BY <1>3, <1>4, <1>5, Zenon

\* Where a point is among steps of side
LEMMA StepOf ==
    ASSUME NEW n \in Nat \ {0}, NEW side \in Nat \ {0}, NEW a \in 0 .. n - 1
    PROVE  LET i == a \div side
           IN  /\ i \in 0 .. CeilDiv(n, side) - 1 /\ i * side \in Nat
               /\ i * side <= a /\ a <= i * side + Least(side, n - i * side) - 1
<1> DEFINE i == a \div side
           u == i * side
           c == CeilDiv(n, side)
<1>1. i \in Nat /\ a % side \in 0 .. side - 1 /\ a = side * i + (a % side)
  <2>1. a \in Nat
    OBVIOUS
  <2> HIDE DEF i
  <2> QED BY <2>1 DEF i
<1>2. u = side * i /\ u \in Nat
  BY <1>1
<1>3. c \in Nat /\ (i < c <=> u < n)
  BY <1>1, CeilDivIs
<1> HIDE DEF i, u, c
<1>4. u <= a /\ a <= u + side - 1
  BY <1>1, <1>2
<1>5. i \in 0 .. c - 1
  BY <1>1, <1>2, <1>3, <1>4
<1>6. a <= u + Least(side, n - u) - 1
  BY <1>2, <1>4 DEF Least
<1> QED BY <1>2, <1>4, <1>5, <1>6 DEF i, u, c

\* The k-th tile of f
ZTile(f, k) == TilesOf(f, ZRLESide)[k]

LEMMA ZTileIs ==
    ASSUME NEW f \in Inside, NEW i \in 0 .. Across(f, ZRLESide) - 1, NEW j \in 0 .. Down(f, ZRLESide) - 1
    PROVE  LET k == j * Across(f, ZRLESide) + (i + 1)
           IN  /\ k \in 1 .. Across(f, ZRLESide) * Down(f, ZRLESide)
               /\ ZTile(f, k) = TilePlace(f, ZRLESide, i, j)
               /\ ZTile(f, k) \in Inside /\ InRect(ZTile(f, k), f)
<1> DEFINE a == Across(f, ZRLESide)
           d == Down(f, ZRLESide)
           n == a * d
           k == j * a + (i + 1)
<1>1. a \in Nat \ {0} /\ d \in Nat \ {0} /\ n \in Nat \ {0}
  BY ZRLESideIs, TilesOfIs
<1>2. i \in 0 .. a - 1 /\ j \in 0 .. d - 1
  OBVIOUS
<1>3. \A e \in 1 .. n : ZTile(f, e) = TilePlace(f, ZRLESide, (e - 1) % a, (e - 1) \div a)
  BY ZRLESideIs, TilesOfIs DEF ZTile
<1>4. TilePlace(f, ZRLESide, i, j) \in Inside /\ InRect(TilePlace(f, ZRLESide, i, j), f)
  BY ZRLESideIs, TilePlaceIs, TilePlaceInRect DEF Across, Down
<1> HIDE DEF a, d
<1> DEFINE u == j * a
           b == u + i
<1>5. b \in 0 .. n - 1 /\ b \div a = j /\ b % a = i
  BY <1>1, <1>2, Division
<1>6. u \in Int
  BY <1>1, <1>2
<1> HIDE DEF n, u
<1>7. k = b + 1 /\ k - 1 = b /\ k \in 1 .. n
  BY <1>1, <1>2, <1>5, <1>6 DEF u
<1> HIDE DEF k, b
<1>8. ZTile(f, k) = TilePlace(f, ZRLESide, i, j)
  BY <1>3, <1>5, <1>7
<1> QED BY <1>4, <1>7, <1>8 DEF a, d, n, k

LEMMA ZTileTyped ==
    ASSUME NEW f \in Inside, NEW k \in 1 .. Across(f, ZRLESide) * Down(f, ZRLESide)
    PROVE  ZTile(f, k) \in Inside /\ InRect(ZTile(f, k), f)
<1> DEFINE a == Across(f, ZRLESide)
           d == Down(f, ZRLESide)
           i == (k - 1) % a
           j == (k - 1) \div a
<1>1. i \in 0 .. a - 1 /\ j \in 0 .. d - 1 /\ ZTile(f, k) = TilePlace(f, ZRLESide, i, j)
  BY ZRLESideIs, TilesOfIs DEF ZTile
<1> HIDE DEF i, j
<1> QED BY <1>1, ZRLESideIs, TilePlaceIs, TilePlaceInRect DEF a, d, Across, Down

LEMMA InTile ==
    ASSUME NEW f \in Inside, NEW t \in Inside, InRect(t, f)
    PROVE  PointsOf(t) \subseteq PointsOf(f)
<1> SUFFICES ASSUME NEW p \in PointsOf(t) PROVE p \in PointsOf(f)
  OBVIOUS
<1> DEFINE px == p[1]
           py == p[2]
           fx == f.x
           fy == f.y
           fw == f.w
           fh == f.h
           tx == t.x
           ty == t.y
           tw == t.w
           th == t.h
<1>1. px - tx \in 0 .. tw - 1 /\ py - ty \in 0 .. th - 1 /\ px \in Nat /\ py \in Nat
  BY PointOffset
<1>2. fx \in Nat /\ fy \in Nat /\ fw \in Nat /\ fh \in Nat
  BY InsideIsRect
<1>3. tx \in Nat /\ ty \in Nat /\ tw \in Nat /\ th \in Nat
  BY InsideIsRect
<1>4. fx <= tx /\ fy <= ty /\ tx + tw <= fx + fw /\ ty + th <= fy + fh
  BY Zenon DEF InRect, MaxX, MaxY
<1>5. p \in Points
  BY PlaceIs
<1>6. p \in PointsOf(f) <=> px \in fx .. (fx + fw) - 1 /\ py \in fy .. (fy + fh) - 1
  BY <1>5, Zenon DEF PointsOf, MaxX, MaxY
<1> HIDE DEF px, py, fx, fy, fw, fh, tx, ty, tw, th
<1>7. px \in fx .. (fx + fw) - 1 /\ py \in fy .. (fy + fh) - 1
  BY <1>1, <1>2, <1>3, <1>4
<1> QED BY <1>6, <1>7

\* Every point is in a tile.
LEMMA PointInTile ==
    ASSUME NEW f \in Inside, NEW p \in PointsOf(f)
    PROVE  \E k \in 1 .. Across(f, ZRLESide) * Down(f, ZRLESide) : p \in PointsOf(ZTile(f, k))
<1> DEFINE S == ZRLESide
           px == p[1]
           py == p[2]
           fx == f.x
           fy == f.y
           fw == f.w
           fh == f.h
           a == px - fx
           b == py - fy
           i == a \div S
           j == b \div S
           u == i * S
           v == j * S
           t == TilePlace(f, S, i, j)
<1>1. a \in 0 .. fw - 1 /\ b \in 0 .. fh - 1 /\ px \in Nat /\ py \in Nat
  BY PointOffset
<1>2. fx \in Nat /\ fy \in Nat /\ fw \in Nat \ {0} /\ fh \in Nat \ {0}
  BY InsideIsRect
<1>3. /\ i \in 0 .. Across(f, S) - 1 /\ u \in Nat
      /\ u <= a /\ a <= u + Least(S, fw - u) - 1
  <2> HIDE DEF a
  <2> QED BY <1>1, <1>2, ZRLESideIs, StepOf DEF Across
<1>4. /\ j \in 0 .. Down(f, S) - 1 /\ v \in Nat
      /\ v <= b /\ b <= v + Least(S, fh - v) - 1
  <2> HIDE DEF b
  <2> QED BY <1>1, <1>2, ZRLESideIs, StepOf DEF Down
<1>5. t = [x |-> fx + u, y |-> fy + v, w |-> Least(S, fw - u), h |-> Least(S, fh - v)]
  BY Zenon DEF TilePlace
<1> HIDE DEF i, j, u, v
<1>6. Least(S, fw - u) \in Int /\ Least(S, fh - v) \in Int
  BY <1>2, <1>3, <1>4, ZRLESideIs DEF Least
<1> DEFINE w == Least(S, fw - u)
           h == Least(S, fh - v)
<1>7. t.x = fx + u /\ t.y = fy + v /\ t.w = w /\ t.h = h
  <2> HIDE DEF w, h, t
  <2>1. t = [x |-> fx + u, y |-> fy + v, w |-> w, h |-> h]
    BY <1>5 DEF w, h
  <2> QED BY <2>1
<1>8. px \in fx + u .. (fx + u + w) - 1 /\ py \in fy + v .. (fy + v + h) - 1
  <2>1. w \in Int /\ h \in Int /\ a <= u + w - 1 /\ b <= v + h - 1
    BY <1>3, <1>4, <1>6
  <2>2. fx \in Int /\ fy \in Int /\ px \in Int /\ py \in Int
    BY <1>1, <1>2
  <2> HIDE DEF w, h, fx, fy, fw, fh, px, py
  <2> QED BY <1>3, <1>4, <2>1, <2>2
<1>9. p \in PointsOf(t)
  <2> HIDE DEF w, h, t, fx, fy, px, py
  <2>1. p \in Points
    BY PlaceIs
  <2>2. px \in t.x .. (t.x + t.w) - 1 /\ py \in t.y .. (t.y + t.h) - 1
    BY <1>7, <1>8, Zenon
  <2> QED BY <2>1, <2>2, Zenon DEF PointsOf, MaxX, MaxY, px, py
<1> HIDE DEF t
<1>10. /\ j * Across(f, S) + (i + 1) \in 1 .. Across(f, S) * Down(f, S)
       /\ ZTile(f, j * Across(f, S) + (i + 1)) = t
  BY <1>3, <1>4, ZTileIs DEF t
<1> QED BY <1>9, <1>10

\* s with the first k tiles of f
Mosaic(s, f, data, k) ==
    [p \in Points |-> IF \E c \in 1 .. k : p \in PointsOf(ZTile(f, c))
                      THEN data[Place(f, p) + 1] ELSE s[p]]

LEMMA MosaicIs ==
    ASSUME NEW s \in Colorings, NEW f \in Inside, NEW data
    PROVE  /\ Mosaic(s, f, data, 0) = s
           /\ Mosaic(s, f, data, Across(f, ZRLESide) * Down(f, ZRLESide)) = Put(s, f, data)
<1> DEFINE n == Across(f, ZRLESide) * Down(f, ZRLESide)
<1>1. Mosaic(s, f, data, 0) = s
  <2>1. \A p \in Points : ~\E c \in 1 .. 0 : p \in PointsOf(ZTile(f, c))
    OBVIOUS
  <2>2. Mosaic(s, f, data, 0) = [p \in Points |-> s[p]]
    BY <2>1, Zenon DEF Mosaic
  <2> QED BY <2>2 DEF Colorings
<1>2. ASSUME NEW p \in Points
      PROVE  (IF \E c \in 1 .. n : p \in PointsOf(ZTile(f, c)) THEN data[Place(f, p) + 1] ELSE s[p])
               = (IF p \in PointsOf(f) THEN data[(p[2] - f.y) * f.w + p[1] - f.x + 1] ELSE s[p])
  <2>1. (\E c \in 1 .. n : p \in PointsOf(ZTile(f, c))) <=> p \in PointsOf(f)
    <3>1. ASSUME NEW c \in 1 .. n PROVE PointsOf(ZTile(f, c)) \subseteq PointsOf(f)
      BY ZTileTyped, InTile
    <3> HIDE DEF n
    <3>2. p \in PointsOf(f) => \E c \in 1 .. n : p \in PointsOf(ZTile(f, c))
      BY PointInTile DEF n
    <3> QED BY <3>1, <3>2, Zenon
  <2>2. p \in PointsOf(f) => (p[2] - f.y) * f.w + p[1] - f.x + 1 = Place(f, p) + 1
    BY PlaceIndex
  <2> QED BY <2>1, <2>2, Zenon
<1> QED BY <1>1, <1>2, Zenon DEF Mosaic, Put, n

LEMMA MosaicGrows ==
    ASSUME NEW s, NEW f \in Inside, NEW data,
           NEW k \in 1 .. Across(f, ZRLESide) * Down(f, ZRLESide)
    PROVE  Put(Mosaic(s, f, data, k - 1), ZTile(f, k), PartOf(f, ZTile(f, k), data))
             = Mosaic(s, f, data, k)
<1> DEFINE t == ZTile(f, k)
           part == PartOf(f, t, data)
           M == Mosaic(s, f, data, k - 1)
           In(p, i) == \E c \in 1 .. i : p \in PointsOf(ZTile(f, c))
<1>1. t \in Inside /\ InRect(t, f)
  BY ZTileTyped
<1>2. k \in Nat \ {0}
  BY ZRLESideIs, TilesOfIs
<1>3. \A p : In(p, k) <=> In(p, k - 1) \/ p \in PointsOf(t)
  <2> TAKE p
  <2> DEFINE I(c) == p \in PointsOf(ZTile(f, c))
  <2> HIDE DEF I
  <2>1. (\E c \in 1 .. k : I(c)) <=> (\E c \in 1 .. k - 1 : I(c)) \/ I(k)
    BY <1>2
  <2> QED BY <2>1 DEF I
<1> HIDE DEF In
<1>4. M = [p \in Points |-> IF In(p, k - 1) THEN data[Place(f, p) + 1] ELSE s[p]]
  BY Zenon DEF Mosaic, In
<1>5. \A p \in PointsOf(t) : part[(p[2] - t.y) * t.w + p[1] - t.x + 1] = data[Place(f, p) + 1]
  <2> TAKE p \in PointsOf(t)
  <2>1. (p[2] - t.y) * t.w + p[1] - t.x + 1 = Place(t, p) + 1
    BY <1>1, PlaceIndex
  <2>2. part[Place(t, p) + 1] = data[Place(f, p) + 1]
    BY <1>1, PartOfAt
  <2> QED BY <2>1, <2>2, Zenon
<1> HIDE DEF t, part, M
<1>6. ASSUME NEW p \in Points
      PROVE  (IF p \in PointsOf(t) THEN part[(p[2] - t.y) * t.w + p[1] - t.x + 1] ELSE M[p])
               = (IF In(p, k) THEN data[Place(f, p) + 1] ELSE s[p])
  <2>1. M[p] = IF In(p, k - 1) THEN data[Place(f, p) + 1] ELSE s[p]
    BY <1>4, Zenon
  <2> QED BY <1>3, <1>5, <2>1, Zenon
<1>7. Mosaic(s, f, data, k) = [p \in Points |-> IF In(p, k) THEN data[Place(f, p) + 1] ELSE s[p]]
  BY Zenon DEF Mosaic, In
<1>8. Put(M, t, part)
        = [p \in Points |-> IF p \in PointsOf(t) THEN part[(p[2] - t.y) * t.w + p[1] - t.x + 1] ELSE M[p]]
  BY Zenon DEF Put
<1>9. Put(M, t, part) = Mosaic(s, f, data, k)
  BY <1>6, <1>7, <1>8, Zenon
<1> QED BY <1>9, Zenon DEF M, t, part

Count(f) == Across(f, ZRLESide) * Down(f, ZRLESide)

\* block has the tiles of f, with the colours of data, one after the other.
BlockHas(f, data, items, off, block) ==
    /\ items \in Seq(Numbers) /\ Len(items) = Count(f) /\ Flat(items, off, block)
    /\ \A k \in 1 .. Count(f) :
          /\ Len(items[k]) \in Nat /\ Len(items[k]) >= 2
          /\ ItemDecodes(items[k], ZTile(f, k), PartOf(f, ZTile(f, k), data))

\* The client has read k of them.
AtItem(z, k, s, f, data, off, block) ==
    \E m \in Memory, rest \in Int : \E y :
       /\ z = Z(m, off[k] + 1, rest, y) /\ rest >= Len(block) - off[k]
       /\ Seen(m) = Mosaic(s, f, data, k)

LEMMA CountIs ==
    ASSUME NEW f \in Inside
    PROVE  Count(f) \in Nat \ {0} /\ Across(f, ZRLESide) \in Nat \ {0} /\ Down(f, ZRLESide) \in Nat \ {0}
BY ZRLESideIs, TilesOfIs DEF Count

LEMMA ItemTaken ==
    ASSUME NEW f \in Inside, NEW data, NEW items, NEW off, NEW block,
           BlockHas(f, data, items, off, block), NEW s, NEW k \in 1 .. Count(f), NEW z,
           AtItem(z, k - 1, s, f, data, off, block)
    PROVE  AtItem(TileZRLE(z, ZTile(f, k), block), k, s, f, data, off, block)
<1> DEFINE n == Count(f)
           item == items[k]
           l == Len(item)
           L == Len(block)
           before == off[k - 1]
           after == off[k]
           t == ZTile(f, k)
           part == PartOf(f, t, data)
<1>1. n \in Nat \ {0} /\ k \in 1 .. n /\ k - 1 \in 0 .. n /\ k \in 0 .. n
  <2>1. n \in Nat \ {0}
    BY CountIs
  <2> HIDE DEF n
  <2> QED BY <2>1 DEF n
<1>2. /\ block \in Numbers /\ off \in [0 .. n -> Nat] /\ L = off[n]
      /\ \A i \in 1 .. n : off[i] = off[i - 1] + Len(items[i])
      /\ \A j \in 1 .. l : block[before + j] = item[j]
      /\ l \in Nat /\ ItemDecodes(item, t, part)
  BY Zenon DEF BlockHas, Flat, Offsets
<1> HIDE DEF n
<1>3. before \in Nat /\ after \in Nat /\ after = before + l
  BY <1>1, <1>2
<1>4. after <= off[n]
  <2>1. ASSUME NEW i \in 1 .. n PROVE off[i] >= off[i - 1]
    <3>1. i \in 0 .. n /\ i - 1 \in 0 .. n
      BY <1>1
    <3>2. off[i] \in Nat /\ off[i - 1] \in Nat
      BY <1>2, <3>1
    <3>3. Len(items[i]) \in Nat
      BY Zenon DEF BlockHas, n
    <3>4. off[i] = off[i - 1] + Len(items[i])
      BY <1>2
    <3> QED BY <3>2, <3>3, <3>4
  <2> QED BY <1>1, <1>2, <2>1, OffsetsGrow
<1>5. L \in Nat /\ after <= L
  <2>1. L \in Nat
    BY <1>2, LenProperties DEF Numbers
  <2> QED BY <1>2, <1>4, <2>1
<1>6. PICK m \in Memory, rest \in Int : \E y :
         /\ z = Z(m, before + 1, rest, y) /\ rest >= L - before
         /\ Seen(m) = Mosaic(s, f, data, k - 1)
  BY Zenon DEF AtItem
<1>7. PICK y : /\ z = Z(m, before + 1, rest, y) /\ rest >= L - before
               /\ Seen(m) = Mosaic(s, f, data, k - 1)
  BY <1>6
<1> DEFINE at == before + 1
<1>8. at \in Nat /\ at + l - 1 <= L /\ rest >= l /\ at + l = after + 1 /\ rest - l >= L - after
  <2> HIDE DEF before, after, l, L
  <2> QED BY <1>3, <1>5, <1>7, <1>2
<1>9. Has(block, at, item)
  <2>1. ASSUME NEW j \in 1 .. l PROVE block[at + j - 1] = item[j]
    <3>1. at + j - 1 = before + j
      <4> HIDE DEF before
      <4> QED BY <1>3, <1>2
    <3> QED BY <1>2, <3>1
  <2> QED BY <2>1, Zenon DEF Has
<1>10. Tiled(Z(m, at, rest, y), t, block, at + l, rest - l, Put(Seen(m), t, part))
  <2> HIDE DEF at, l, L, item, t, part
  <2>1. ItemDecodes(item, t, part) /\ Has(block, at, item) /\ at \in Nat /\ block \in Numbers
        /\ at + Len(item) - 1 <= Len(block) /\ rest >= Len(item)
    BY <1>2, <1>8, <1>9 DEF l, L
  <2>2. Tiled(Z(m, at, rest, y), t, block, at + Len(item), rest - Len(item), Put(Seen(m), t, part))
    BY <2>1, Zenon DEF ItemDecodes
  <2> QED BY <2>2, Zenon DEF l
<1>11. Put(Seen(m), t, part) = Mosaic(s, f, data, k)
  <2>1. Put(Mosaic(s, f, data, k - 1), t, part) = Mosaic(s, f, data, k)
    BY MosaicGrows DEF Count
  <2> QED BY <1>7, <2>1, Zenon
<1>12. PICK now \in Memory, r \in Int : \E x :
         /\ TileZRLE(Z(m, at, rest, y), t, block) = Z(now, at + l, r, x) /\ r >= rest - l
         /\ Seen(now) = Put(Seen(m), t, part)
  BY <1>10, Zenon DEF Tiled
<1>13. PICK x : /\ TileZRLE(Z(m, at, rest, y), t, block) = Z(now, at + l, r, x) /\ r >= rest - l
                /\ Seen(now) = Put(Seen(m), t, part)
  BY <1>12
<1>14. r >= L - after
  <2> HIDE DEF before, after, l, L, at
  <2> QED BY <1>2, <1>3, <1>5, <1>8, <1>13
<1>15. TileZRLE(z, t, block) = Z(now, after + 1, r, x)
  <2> HIDE DEF at
  <2>1. TileZRLE(z, t, block) = Z(now, at + l, r, x)
    BY <1>7, <1>13, Zenon DEF at
  <2> QED BY <1>8, <2>1, Zenon
<1>16. Seen(now) = Mosaic(s, f, data, k)
  BY <1>11, <1>13, Zenon
<1> QED BY <1>14, <1>15, <1>16, Zenon DEF AtItem

LEMMA LineTaken ==
    ASSUME NEW f \in Inside, NEW data, NEW items, NEW off, NEW block,
           BlockHas(f, data, items, off, block), NEW s, NEW j \in 1 .. Down(f, ZRLESide), NEW z,
           AtItem(z, (j - 1) * Across(f, ZRLESide), s, f, data, off, block)
    PROVE  AtItem(LineZRLE(z, f, j - 1, block), j * Across(f, ZRLESide), s, f, data, off, block)
<1> DEFINE a == Across(f, ZRLESide)
           d == Down(f, ZRLESide)
           u == (j - 1) * a
           Read(w, k) == AtItem(w, k, s, f, data, off, block)
<1>1. a \in Nat \ {0} /\ d \in Nat \ {0} /\ j \in 1 .. d
  BY CountIs
<1>2. PICK h : /\ h[0] = z /\ LineZRLE(z, f, j - 1, block) = h[a]
               /\ \A k \in 1 .. a : h[k] = TileZRLE(h[k - 1], TileAt(f, k - 1, j - 1), block)
  BY LineLoop
<1> HIDE DEF a, d
<1>3. u \in Nat
  BY <1>1
<1> HIDE DEF u, Read
<1> DEFINE G == {i \in 0 .. a : Read(h[i], u + i)}
<1>4. 0 \in G
  <2>1. u + 0 = u
    BY <1>3
  <2>2. Read(z, u)
    BY Zenon DEF Read, u, a
  <2> QED BY <1>1, <1>2, <2>1, <2>2
<1>5. ASSUME NEW i \in 1 .. a, i - 1 \in G PROVE i \in G
  <2>1. i - 1 \in 0 .. a - 1 /\ j - 1 \in 0 .. d - 1 /\ i - 1 + 1 = i /\ i - 1 \in Nat /\ j - 1 \in Nat
        /\ (u + i) - 1 = u + (i - 1) /\ i \in 0 .. a
    BY <1>1, <1>3
  <2> DEFINE k == u + i
  <2>2. k \in 1 .. Count(f) /\ ZTile(f, k) = TilePlace(f, ZRLESide, i - 1, j - 1)
    <3>1. (j - 1) * Across(f, ZRLESide) + (i - 1 + 1) \in 1 .. Across(f, ZRLESide) * Down(f, ZRLESide)
          /\ ZTile(f, (j - 1) * Across(f, ZRLESide) + (i - 1 + 1)) = TilePlace(f, ZRLESide, i - 1, j - 1)
      <4>1. i - 1 \in 0 .. Across(f, ZRLESide) - 1 /\ j - 1 \in 0 .. Down(f, ZRLESide) - 1
        BY <2>1 DEF a, d
      <4> QED BY <4>1, ZTileIs
    <3> QED BY <2>1, <3>1, Zenon DEF Count, u, a
  <2>3. TileAt(f, i - 1, j - 1) = ZTile(f, k)
    <3>1. TileAt(f, i - 1, j - 1) = TilePlace(f, ZRLESide, i - 1, j - 1)
      BY <2>1, TileAtIs
    <3> QED BY <2>2, <3>1, Zenon
  <2>4. h[i] = TileZRLE(h[i - 1], ZTile(f, k), block)
    BY <1>2, <2>3, Zenon
  <2>5. Read(h[i - 1], k - 1)
    <3>1. Read(h[i - 1], u + (i - 1))
      BY <1>5
    <3> QED BY <2>1, <3>1, Zenon
  <2> HIDE DEF k
  <2>6. Read(TileZRLE(h[i - 1], ZTile(f, k), block), k)
    BY <2>2, <2>5, ItemTaken DEF Read
  <2>7. Read(h[i], k)
    BY <2>4, <2>6, Zenon
  <2> QED BY <2>1, <2>7 DEF k
<1>6. Read(h[a], u + a)
  <2>1. \A i \in 0 .. a : i \in G
    <3> HIDE DEF G
    <3> QED BY <1>1, <1>4, <1>5, InductionTo
  <2>2. a \in G
    <3> HIDE DEF G
    <3> QED BY <1>1, <2>1
  <2> QED BY <2>2
<1>7. u + a = j * a
  BY <1>1 DEF u
<1> QED BY <1>2, <1>6, <1>7, Zenon DEF Read, a

\* A block, from its first tile to its last one
LEMMA TilesDecode ==
    ASSUME NEW f \in Inside, NEW data, NEW items, NEW off, NEW block,
           BlockHas(f, data, items, off, block), NEW m \in Memory
    PROVE  \E now \in Memory : \E at, rest, y :
              /\ TilesZRLE(Z(m, 1, Len(block), 0), f, block) = Z(now, at, rest, y)
              /\ Seen(now) = Put(Seen(m), f, data)
<1> DEFINE a == Across(f, ZRLESide)
           d == Down(f, ZRLESide)
           s == Seen(m)
           z == Z(m, 1, Len(block), 0)
           Read(w, k) == AtItem(w, k, s, f, data, off, block)
<1>1. a \in Nat \ {0} /\ d \in Nat \ {0}
  BY CountIs
<1>2. PICK h : /\ h[0] = z /\ TilesZRLE(z, f, block) = h[d]
               /\ \A k \in 1 .. d : h[k] = LineZRLE(h[k - 1], f, k - 1, block)
  BY LinesLoop
<1>3. s \in Colorings
  BY SeenIs DEF Colorings
<1>4. Read(z, 0)
  <2>1. off[0] = 0 /\ block \in Numbers
    BY Zenon DEF BlockHas, Flat, Offsets
  <2>2. Len(block) \in Int
    BY <2>1, LenProperties DEF Numbers
  <2>3. Mosaic(s, f, data, 0) = s
    BY <1>3, MosaicIs
  <2>4. off[0] + 1 = 1 /\ Len(block) >= Len(block) - off[0]
    BY <2>1, <2>2
  <2> QED BY <2>2, <2>3, <2>4, Zenon DEF AtItem
<1> HIDE DEF a, d, z, s, Read
<1> DEFINE G == {i \in 0 .. d : Read(h[i], i * a)}
<1>5. 0 \in G
  <2>1. 0 * a = 0
    BY <1>1
  <2> QED BY <1>1, <1>2, <1>4, <2>1
<1>6. ASSUME NEW j \in 1 .. d, j - 1 \in G PROVE j \in G
  <2>1. Read(h[j - 1], (j - 1) * a)
    BY <1>6
  <2>2. Read(LineZRLE(h[j - 1], f, j - 1, block), j * a)
    BY <2>1, LineTaken DEF Read, a, d
  <2>3. Read(h[j], j * a)
    BY <1>2, <2>2, Zenon
  <2> QED BY <1>1, <2>3
<1>7. Read(h[d], d * a)
  <2>1. \A i \in 0 .. d : i \in G
    <3> HIDE DEF G
    <3> QED BY <1>1, <1>5, <1>6, InductionTo
  <2>2. d \in G
    <3> HIDE DEF G
    <3> QED BY <1>1, <2>1
  <2> QED BY <2>2
<1>8. Mosaic(s, f, data, d * a) = Put(s, f, data)
  <2>1. Mosaic(s, f, data, a * d) = Put(s, f, data)
    BY <1>3, MosaicIs DEF a, d
  <2>2. d * a = a * d
    BY <1>1
  <2> QED BY <2>1, <2>2
<1>9. PICK now \in Memory, rest \in Int : \E y :
         /\ h[d] = Z(now, off[d * a] + 1, rest, y)
         /\ Seen(now) = Mosaic(s, f, data, d * a)
  BY <1>7, Zenon DEF Read, AtItem
<1> QED BY <1>2, <1>8, <1>9, Zenon DEF z, s

\* The block that the server sends
ZItems(f, data, ways, p) ==
    [i \in DOMAIN TilesOf(f, ZRLESide) |->
        ZRLETile(ways[i], TilesOf(f, ZRLESide)[i], PartOf(f, TilesOf(f, ZRLESide)[i], data), p)]

ZBlock(f, data, ways, p) == FlattenSeq(ZItems(f, data, ways, p))

LEMMA ZItemsAre ==
    ASSUME NEW f \in Inside, NEW data \in Contents(f), NEW ways, NEW p \in Palettes
    PROVE  LET items == ZItems(f, data, ways, p)
           IN  /\ items \in Seq(Numbers) /\ Len(items) = Count(f)
               /\ \A k \in 1 .. Count(f) :
                     /\ items[k] \in Numbers /\ Len(items[k]) \in Nat /\ Len(items[k]) >= 2
                     /\ ItemDecodes(items[k], ZTile(f, k), PartOf(f, ZTile(f, k), data))
<1> DEFINE n == Count(f)
           items == ZItems(f, data, ways, p)
           Item(k) == ZRLETile(ways[k], ZTile(f, k), PartOf(f, ZTile(f, k), data), p)
           Good(k) == /\ Item(k) \in Numbers /\ Len(Item(k)) \in Nat /\ Len(Item(k)) >= 2
                      /\ ItemDecodes(Item(k), ZTile(f, k), PartOf(f, ZTile(f, k), data))
<1>1. n \in Nat \ {0} /\ DOMAIN TilesOf(f, ZRLESide) = 1 .. n
  <2> DEFINE T == TilesOf(f, ZRLESide)
  <2>1. n \in Nat \ {0} /\ Len(T) = n /\ T \in Seq(Inside)
    BY CountIs, ZRLESideIs, TilesOfIs DEF Count
  <2> HIDE DEF n, T
  <2>2. DOMAIN T = 1 .. n
    BY <2>1
  <2> QED BY <2>1, <2>2 DEF T
<1>2. items = [k \in 1 .. n |-> Item(k)]
  BY <1>1, Zenon DEF ZItems, ZTile
<1>3. ASSUME NEW k \in 1 .. n PROVE Good(k)
  <2> DEFINE t == ZTile(f, k)
             part == PartOf(f, t, data)
  <2>1. t \in Inside /\ InRect(t, f)
    BY ZTileTyped DEF Count
  <2>2. part \in Contents(t)
    BY <2>1, PartOfIs
  <2> HIDE DEF t, part
  <2> DEFINE item == ZRLETile(ways[k], t, part, p)
  <2>3. item \in Numbers /\ Len(item) \in Nat /\ Len(item) >= 2 /\ ItemDecodes(item, t, part)
    BY <2>1, <2>2, ItemIs
  <2>4. Item(k) = item
    BY Zenon DEF t, part
  <2> HIDE DEF item, Item
  <2> QED BY <2>3, <2>4, Zenon DEF t, part
<1> HIDE DEF n, items
<1>4. \A k \in 1 .. n : Item(k) \in Numbers
  <2> HIDE DEF Item
  <2> QED BY <1>3, Zenon DEF Good
<1>5. items \in Seq(Numbers) /\ Len(items) = n
  <2> HIDE DEF Item, Good
  <2> QED BY <1>1, <1>2, <1>4
<1>6. \A k \in 1 .. n : items[k] = Item(k)
  <2> HIDE DEF Item, Good
  <2> QED BY <1>2
<1> HIDE DEF Item
<1>7. ASSUME NEW k \in 1 .. n
      PROVE  /\ items[k] \in Numbers /\ Len(items[k]) \in Nat /\ Len(items[k]) >= 2
             /\ ItemDecodes(items[k], ZTile(f, k), PartOf(f, ZTile(f, k), data))
  BY <1>3, <1>6, Zenon DEF Good
<1> QED BY <1>5, <1>7, Zenon DEF n, items

LEMMA ZBlockIs ==
    ASSUME NEW f \in Inside, NEW data \in Contents(f), NEW ways, NEW p \in Palettes
    PROVE  LET block == ZBlock(f, data, ways, p)
           IN  /\ block \in Numbers /\ block # <<>> /\ Len(block) \in Nat
               /\ \E off : BlockHas(f, data, ZItems(f, data, ways, p), off, block)
<1> DEFINE n == Count(f)
           items == ZItems(f, data, ways, p)
           block == ZBlock(f, data, ways, p)
<1>1. /\ items \in Seq(Numbers) /\ Len(items) = n
      /\ \A k \in 1 .. n :
            /\ items[k] \in Numbers /\ Len(items[k]) \in Nat /\ Len(items[k]) >= 2
            /\ ItemDecodes(items[k], ZTile(f, k), PartOf(f, ZTile(f, k), data))
  BY ZItemsAre
<1>2. n \in Nat \ {0}
  BY CountIs
<1> HIDE DEF n, items
<1>3. PICK off : Flat(items, off, FlattenSeq(items))
  BY <1>1, FlattenSeqIs
<1>4. Flat(items, off, block)
  BY <1>3, Zenon DEF ZBlock, items
<1> HIDE DEF block
<1>5. /\ off \in [0 .. n -> Nat] /\ off[0] = 0 /\ block \in Numbers /\ Len(block) = off[n]
      /\ \A k \in 1 .. n : off[k] = off[k - 1] + Len(items[k])
  BY <1>1, <1>4, Zenon DEF Flat, Offsets
<1>6. BlockHas(f, data, items, off, block)
  BY <1>1, <1>4, Zenon DEF BlockHas, n
<1>7. Len(block) # 0
  <2>1. ASSUME NEW k \in 1 .. n PROVE off[k] >= off[k - 1] /\ off[k] >= off[k - 1] + 2
    <3>1. k \in 0 .. n /\ k - 1 \in 0 .. n
      BY <1>2
    <3>2. off[k] \in Nat /\ off[k - 1] \in Nat
      BY <1>5, <3>1
    <3>3. Len(items[k]) \in Nat /\ Len(items[k]) >= 2 /\ off[k] = off[k - 1] + Len(items[k])
      BY <1>1, <1>5
    <3> QED BY <3>2, <3>3
  <2>2. 1 \in 1 .. n /\ 1 \in 0 .. n /\ n \in 0 .. n /\ 1 - 1 = 0
    BY <1>2
  <2>3. off[1] <= off[n]
    BY <1>2, <1>5, <2>1, <2>2, OffsetsGrow
  <2>4. off[1] >= 2
    BY <1>5, <2>1, <2>2
  <2>5. off[1] \in Nat /\ off[n] \in Nat
    BY <1>5, <2>2
  <2> QED BY <1>5, <2>3, <2>4, <2>5
<1>8. block # <<>> /\ Len(block) \in Nat
  BY <1>5, <1>7, EmptySeq, LenProperties DEF Numbers
<1> QED BY <1>5, <1>6, <1>8, Zenon DEF items, block

LEMMA ZRLEIs ==
    ASSUME NEW c, Idle(c), NEW f \in ZRLEFrames, NEW data \in Contents(f), NEW ways, NEW p \in Palettes
    PROVE  LET block == ZBlock(f, data, ways, p)
           IN  After4(c, Header(f, EncZRLE) \o <<Len(block)>> \o block,
                      Put(Seen(c.pixels), f, data), Nothing)
<1>1. f \in Inside
  BY RectanglesAssumption DEF Frames
<1>2. f \in Rect
  BY <1>1, InsideIsRect
<1> DEFINE block == ZBlock(f, data, ways, p)
           k == Len(block)
           t == c.tile
           b == c.back
           g == c.fore
           m == c.mask
           n == c.count
           px == c.pixels
           c1 == C(f, t, b, g, m, n, Wait("setLength", 1), px)
           c2 == C(f, t, b, g, m, n, Wait("setUncompressedData", k), px)
           s == Put(Seen(px), f, data)
<1>3. /\ block \in Numbers /\ block # <<>> /\ k \in Nat
      /\ \E off : BlockHas(f, data, ZItems(f, data, ways, p), off, block)
  BY <1>1, ZBlockIs
<1>4. /\ c = C(c.frame, t, b, g, m, n, Wait("setRect", 5), px)
      /\ t \in Rect /\ b \in Colors \cup {0} /\ g \in Colors \cup {0}
      /\ m \in 0 .. 255 /\ n \in Nat /\ px \in Memory
  BY IdleIs
<1> HIDE DEF t, b, g, m, n, px, block
<1>5. SetRect(c, Header(f, EncZRLE)) = c1
  BY <1>1, <1>4, SetRectIs
<1>6. PICK new \in Memory : \E at, rest, y :
         /\ TilesZRLE(Z(px, 1, k, 0), f, block) = Z(new, at, rest, y) /\ Seen(new) = s
  <2>1. PICK off : BlockHas(f, data, ZItems(f, data, ways, p), off, block)
    BY <1>3
  <2> QED BY <1>1, <1>4, <2>1, TilesDecode
<1>7. PICK at, rest, y :
         TilesZRLE(Z(px, 1, k, 0), f, block) = Z(new, at, rest, y) /\ Seen(new) = s
  BY <1>6
<1> DEFINE done == C(f, t, b, g, m, n, Wait("setRect", 5), new)
<1> HIDE DEF k
<1>8. Act(c1, <<k>>) = c2 /\ ~c1.stopped /\ c1.reader.size = 1
  <2>1. ~c1.stopped /\ c1.reader.size = 1 /\ c1.reader.action = "setLength"
    BY FieldsOf, WaitIs
  <2>2. Act(c1, <<k>>) = SetReader(c1, "setUncompressedData", <<k>>[1])
    BY <2>1, ActIs
  <2>3. <<k>>[1] = k
    BY <1>3, OneIs
  <2>4. SetReader(c1, "setUncompressedData", k) = c2
    BY SetReaderTo
  <2> HIDE DEF c1, c2
  <2> QED BY <2>1, <2>2, <2>3, <2>4
<1>9. Act(c2, block) = done /\ ~c2.stopped /\ c2.reader.size = k
  <2>1. ~c2.stopped /\ c2.reader.size = k /\ c2.reader.action = "setUncompressedData"
        /\ c2.frame = f /\ c2.pixels = px
    BY FieldsOf, WaitIs
  <2>2. Act(c2, block) = SetUncompressedData(c2, block)
    BY <2>1, ActIs
  <2>3. [c2 EXCEPT !.pixels = new] = C(f, t, b, g, m, n, Wait("setUncompressedData", k), new)
    BY SetPixelsIs
  <2>4. [Block(c2) EXCEPT !.left = k] = Z(px, 1, k, 0)
    <3>1. [Block(c2) EXCEPT !.left = k] = Z(c2.pixels, 1, k, 0)
      BY BlockIs
    <3> HIDE DEF c2
    <3> QED BY <2>1, <3>1, Zenon
  <2>5. Z(new, at, rest, y).m = new /\ ~Z(new, at, rest, y).bad
    BY DEF Z
  <2> HIDE DEF c2
  <2>6. TilesZRLE([Block(c2) EXCEPT !.left = Len(block)], c2.frame, block) = Z(new, at, rest, y)
    BY <1>7, <2>1, <2>4, Zenon DEF k
  <2>7. SetUncompressedData(c2, block) = DidRect([c2 EXCEPT !.pixels = new])
    <3> DEFINE z == TilesZRLE([Block(c2) EXCEPT !.left = Len(block)], c2.frame, block)
    <3>1. z.m = new /\ ~z.bad
      BY <2>5, <2>6, Zenon
    <3>2. SetUncompressedData(c2, block) = IF z.bad THEN Terminate([c2 EXCEPT !.pixels = z.m])
                                           ELSE DidRect([c2 EXCEPT !.pixels = z.m])
      BY Zenon DEF SetUncompressedData
    <3> HIDE DEF z
    <3> QED BY <3>1, <3>2, Zenon
  <2> QED BY <2>1, <2>2, <2>3, <2>7, SetReaderTo
<1>10. Waits(done, s, Nothing)
  <2>1. Waits(done, Seen(new), Nothing)
    BY <1>2, <1>4, IdleWaits
  <2> HIDE DEF done, s
  <2> QED BY <1>7, <2>1
<1> HIDE DEF s, done, c1, c2
<1>11. After1(c2, block, s, Nothing)
  BY <1>3, <1>9, <1>10, TakesLast DEF k
<1>12. <<k>> \in Numbers /\ Len(<<k>>) = 1 /\ <<k>> # <<>>
  BY <1>3, OneIs
<1>13. After2(c1, <<k>> \o block, s, Nothing)
  BY <1>3, <1>8, <1>11, <1>12, Takes
<1>14. EncZRLE \in Nat
  BY DEF EncZRLE
<1>15. <<k>> \o block \in Numbers
  BY <1>3, <1>12, Split
<1>16. After3(c1, <<k>> \o block, s, Nothing)
  BY <1>13, AfterFewer
<1>17. After4(c, Header(f, EncZRLE) \o (<<k>> \o block), s, Nothing)
  BY <1>1, <1>5, <1>14, <1>15, <1>16, TakesHeader
<1>18. Header(f, EncZRLE) \o <<k>> \o block = Header(f, EncZRLE) \o (<<k>> \o block)
  <2> DEFINE h == Header(f, EncZRLE)
  <2>1. h \in Numbers
    BY <1>1, <1>14, HeaderIs
  <2> DEFINE one == <<k>>
  <2>2. one \in Numbers
    BY <1>12
  <2> HIDE DEF h, one
  <2>3. (h \o one) \o block = h \o (one \o block)
    BY <1>3, <2>1, <2>2, Assoc
  <2> QED BY <2>3, Zenon DEF h, one
<1> QED BY <1>17, <1>18, Zenon DEF s, k, px, block

LEMMA SendZRLEKeeps ==
    ASSUME IInv, SendZRLE
    PROVE  IInv'
<1>1. /\ sending = Nothing /\ wire = <<>> /\ sending' = sending /\ client' = client
  BY DEF SendZRLE, SendsRectangle
<1>2. PICK f \in ZRLEFrames : \E data \in Contents(f) :
         \E ways \in [DOMAIN TilesOf(f, ZRLESide) -> Ways], p \in Palettes :
            /\ wire' = Header(f, EncZRLE) \o <<Len(ZBlock(f, data, ways, p))>> \o ZBlock(f, data, ways, p)
            /\ screen' = Put(screen, f, data)
  BY Zenon DEF SendZRLE, ZBlock, ZItems
<1>3. PICK data \in Contents(f) :
         \E ways \in [DOMAIN TilesOf(f, ZRLESide) -> Ways], p \in Palettes :
            /\ wire' = Header(f, EncZRLE) \o <<Len(ZBlock(f, data, ways, p))>> \o ZBlock(f, data, ways, p)
            /\ screen' = Put(screen, f, data)
  BY <1>2
<1>4. PICK ways \in [DOMAIN TilesOf(f, ZRLESide) -> Ways], p \in Palettes :
            /\ wire' = Header(f, EncZRLE) \o <<Len(ZBlock(f, data, ways, p))>> \o ZBlock(f, data, ways, p)
            /\ screen' = Put(screen, f, data)
  BY <1>3
<1>5. client \in Client /\ ~client.stopped
      /\ (Starved(client) \/ (Idle(client) /\ Seen(client.pixels) = screen))
  BY <1>1, BetweenRectanglesIdle DEF IInv
<1>6. Keeps(client, wire', screen', Nothing)
  <2>1. CASE Starved(client)
    BY <1>5, <2>1, StarvedKeeps
  <2>2. CASE Idle(client) /\ Seen(client.pixels) = screen
    <3>1. After4(client, Header(f, EncZRLE) \o <<Len(ZBlock(f, data, ways, p))>> \o ZBlock(f, data, ways, p),
                 Put(Seen(client.pixels), f, data), Nothing)
      BY <2>2, ZRLEIs
    <3> QED BY <1>4, <2>2, <3>1, Zenon DEF Keeps
  <2> QED BY <1>5, <2>1, <2>2
<1> QED BY <1>1, <1>6, Zenon DEF IInv

LEMMA SendZRLETyped ==
    ASSUME ServerInv, SendZRLE
    PROVE  ServerInv'
<1>1. ZRLEFrames \subseteq Frames /\ Frames \subseteq Inside
  BY RectanglesAssumption DEF Frames
<1>2. PICK f \in ZRLEFrames : \E data \in Contents(f) :
         \E ways \in [DOMAIN TilesOf(f, ZRLESide) -> Ways], p \in Palettes :
            wire' = Header(f, EncZRLE) \o <<Len(ZBlock(f, data, ways, p))>> \o ZBlock(f, data, ways, p)
  BY Zenon DEF SendZRLE, ZBlock, ZItems
<1>3. PICK data \in Contents(f) :
         \E ways \in [DOMAIN TilesOf(f, ZRLESide) -> Ways], p \in Palettes :
            wire' = Header(f, EncZRLE) \o <<Len(ZBlock(f, data, ways, p))>> \o ZBlock(f, data, ways, p)
  BY <1>2
<1>4. PICK ways \in [DOMAIN TilesOf(f, ZRLESide) -> Ways], p \in Palettes :
         wire' = Header(f, EncZRLE) \o <<Len(ZBlock(f, data, ways, p))>> \o ZBlock(f, data, ways, p)
  BY <1>3
<1> DEFINE block == ZBlock(f, data, ways, p)
<1>5. block \in Numbers /\ Len(block) \in Nat
  BY <1>1, ZBlockIs
<1>6. <<Len(block)>> \in Numbers
  BY <1>5, OneIs
<1> HIDE DEF block
<1>7. Header(f, EncZRLE) \o <<Len(block)>> \in Numbers
  BY <1>1, <1>6, HeaderTyped, FlagsTyped
<1>8. Header(f, EncZRLE) \o <<Len(block)>> \o block \in Numbers
  BY <1>5, <1>7, ConcatNumbers
<1>9. wire' \in Numbers
  BY <1>4, <1>8, Zenon DEF block
<1>10. sending' = sending
  BY DEF SendZRLE
<1> QED BY <1>9, <1>10 DEF ServerInv

-----------------------------------------------------------------------------
(* The theorems.                                                           *)

\* Whatever is sent, in whatever encoding, and however far the client has read.
LEMMA KeptByNext ==
    ASSUME ServerInv, IInv, [Next]_vars
    PROVE  ServerInv' /\ IInv'
<1>1. CASE SendRaw
  BY <1>1, SendRawKeeps, RectanglesTyped
<1>2. CASE SendCopy
  BY <1>2, SendCopyKeeps, RectanglesTyped
<1>3. CASE SendRRE
  BY <1>3, SendRREKeeps, RectanglesTyped
<1>4. CASE SendZRLE
  BY <1>4, SendZRLEKeeps, SendZRLETyped
<1>5. CASE BeginHextile
  BY <1>5, BeginHextileKeeps, RectanglesTyped
<1>6. CASE SendRawTile
  BY <1>6, SendRawTileKeeps, TilesTyped DEF ServerInv
<1>7. CASE SendPlainTile
  BY <1>7, SendPlainTileKeeps, TilesTyped DEF ServerInv
<1>8. CASE SendTile
  BY <1>8, SendTileKeeps, TilesTyped DEF ServerInv
<1>9. CASE SendColouredTile
  BY <1>9, SendColouredTileKeeps, TilesTyped DEF ServerInv
<1>10. CASE ReadData
  BY <1>10, ReadDataKeeps
<1>11. CASE UNCHANGED vars
  BY <1>11, Zenon DEF vars, ServerInv, IInv
<1> QED
  BY <1>1, <1>2, <1>3, <1>4, <1>5, <1>6, <1>7, <1>8, <1>9, <1>10, <1>11, Zenon DEF Next

LEMMA Kept == Spec => [](ServerInv /\ IInv)
<1>1. Init => ServerInv /\ IInv
  BY InitKeeps
<1>2. (ServerInv /\ IInv) /\ [Next]_vars => (ServerInv /\ IInv)'
  BY KeptByNext
<1> QED BY <1>1, <1>2, PTL DEF Spec

\* Whatever rectangles of whatever encodings the server sends, of any size and at
\* any place of a screen of any size: when the client has read the last of them,
\* its frame buffer is the server's screen.
THEOREM ClientShowsScreen == Spec => []ShowsScreen
<1>1. IInv => ShowsScreen
  BY KeptShowsScreen
<1> QED BY <1>1, Kept, PTL

\* And its readers take exactly the numbers that were sent, neither waiting for
\* more of them nor leaving any, until a tile with an empty list of subrectangles.
THEOREM ClientInStep == Spec => []InStep
<1>1. ServerInv /\ IInv => InStep
  BY KeptInStep
<1> QED BY <1>1, Kept, PTL

=============================================================================
