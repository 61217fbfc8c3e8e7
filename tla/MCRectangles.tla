---------------------------- MODULE MCRectangles ----------------------------
(* Rectangles of two colours on a screen of 3 by 3 points.                 *)
EXTENDS Rectangles

R(x, y, w, h) == [x |-> x, y |-> y, w |-> w, h |-> h]

MCColors == {0, 1}
AllFrames == {r \in [x : 0 .. 2, y : 0 .. 2, w : 1 .. 3, h : 1 .. 3] :
                MaxX(r) <= 3 /\ MaxY(r) <= 3}
MCRawFrames == {R(1, 1, 2, 2), R(0, 0, 3, 2)}
MCCopyFrames == AllFrames
MCRREFrames == {R(1, 1, 2, 2), R(0, 1, 3, 2)}
MCHextileFrames == {R(0, 0, 3, 3)}
MCZRLEFrames == {R(0, 0, 3, 2), R(0, 0, 1, 3), R(1, 1, 2, 2)}
MCScreens == {[p \in Points |-> IF p[1] = 0 \/ p[2] = 1 THEN 1 ELSE 0],
              [p \in Points |-> IF p[1] < p[2] \/ p = <<1, 1>> THEN 1 ELSE 0]}
MCPalettes == {<<1, 0>>, <<0, 0, 1>>, <<1, 0, 1, 0, 1>>}
\* At most two subrectangles, of which the first is all of r.
MCSubLists(r) ==
    LET subs == [r : SubRects(r), color : Colors]
        whole == [r EXCEPT !.x = 0, !.y = 0]
    IN  {<<>>} \cup {<<s>> : s \in subs}
        \cup {<<[r |-> whole, color |-> c], s>> : c \in Colors, s \in subs}
=============================================================================
