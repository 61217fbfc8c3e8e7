---------------------------- MODULE FrameBuffer ----------------------------
(***************************************************************************)
(* How a FrameBuffer draws into its pixels (FrameBufferDrawing.h): they    *)
(* are one block of memory, and every operation is a walk of a pointer     *)
(* through it, line by line, that skips a stride at the end of each.       *)
(*                                                                         *)
(* A colour is a pixel value: what the tables of a pixel format make of it *)
(* is left out, and with it the four classes that differ in it.            *)
(***************************************************************************)
EXTENDS Integers, Sequences

CONSTANTS
    Width, Height,  \* size
    Colors          \* values of a pixel

ASSUME FrameBufferAssumption ==
    Width \in Nat \ {0} /\ Height \in Nat \ {0} /\ Colors \subseteq Nat

Memory == [0 .. Width * Height - 1 -> Colors]

Rect == [x : Nat, y : Nat, w : Nat, h : Nat]

At(x, y) == y * Width + x

MaxX(r) == r.x + r.w
MaxY(r) == r.y + r.h

TooLarge(r) == MaxX(r) > Width \/ MaxY(r) > Height

\* m after n steps of a loop
Walk(m, n, Step(_, _)) ==
    LET after[k \in 0 .. n] == IF k = 0 THEN m ELSE Step(after[k - 1], k - 1)
    IN  after[n]

\* Where a pointer that starts at start is after k pixels of lines of w, each
\* followed by a stride.
Pointer(start, k, w, step, stride) == start + step * k + stride * (k \div w)

Least(a, b) == IF a < b THEN a ELSE b

\* A rectangle whose origin is in the frame buffer, as far as it is in it.
Clip(r) ==
    [r EXCEPT !.w = Least(@, Width - r.x), !.h = Least(@, Height - r.y)]

\* The k-th pixel of r, from left to right and top to bottom.
PixelOf(r, k) == Pointer(At(r.x, r.y), k, r.w, 1, Width - r.w)

\* fillRect:withColor:, of a rectangle that has been clipped
Filled(m, r, color) ==
    LET Step(now, k) == [now EXCEPT ![PixelOf(r, k)] = color]
    IN  Walk(m, r.w * r.h, Step)

FillRect(m, r, color) == Filled(m, Clip(r), color)

\* putRect:fromData:, and with the other sources of pixels
PutRect(m, r, data) ==
    LET Step(now, k) == [now EXCEPT ![PixelOf(r, k)] = data[k + 1]]
    IN  IF TooLarge(r) THEN m ELSE Walk(m, r.w * r.h, Step)

\* putRun:ofLength:at:pixelOffset:, whose first line may be a part of one
PutRun(m, color, length, r, offset) ==
    LET n == Least(length, r.w * r.h - offset)
        offLines == offset \div r.w
        offPixels == offset - offLines * r.w
        start == At(r.x + offPixels, r.y + offLines)
        Step(now, k) ==
            [now EXCEPT ![start + k + (Width - r.w) * ((k + offPixels) \div r.w)]
                            = color]
    IN  IF TooLarge(r) THEN m ELSE Walk(m, n, Step)

\* A mutant: the copy always begins at the top left.
CopyRect_Wrong(m, r, x, y) ==
    LET Step(now, k) ==
            [now EXCEPT ![Pointer(At(x, y), k, r.w, 1, Width - r.w)]
                            = now[PixelOf(r, k)]]
    IN  IF TooLarge(r) \/ TooLarge([r EXCEPT !.x = x, !.y = y]) THEN m
        ELSE Walk(m, r.w * r.h, Step)

\* copyRect:to:, one pixel after the other, from the side that is overwritten
\* last if the rectangles overlap
CopyRect(m, r, x, y) ==
    LET left == x < r.x
        up == y < r.y
        step == IF left THEN 1 ELSE -1
        stride == IF up THEN (IF left THEN Width - r.w ELSE Width + r.w)
                        ELSE (IF left THEN -Width - r.w ELSE -Width + r.w)
        dx == IF left THEN 0 ELSE r.w - 1
        dy == IF up THEN 0 ELSE r.h - 1
        Step(now, k) ==
            [now EXCEPT ![Pointer(At(x + dx, y + dy), k, r.w, step, stride)]
                 = now[Pointer(At(r.x + dx, r.y + dy), k, r.w, step, stride)]]
    IN  IF TooLarge(r) \/ TooLarge([r EXCEPT !.x = x, !.y = y]) THEN m
        ELSE Walk(m, r.w * r.h, Step)
=============================================================================
