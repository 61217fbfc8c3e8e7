----------------------------- MODULE Rectangles -----------------------------
(***************************************************************************)
(* The rectangles of framebuffer updates, from the server's screen over    *)
(* the wire into the client's frame buffer: raw pixels, copies, RRE,       *)
(* Hextile and ZRLE.                                                       *)
(*                                                                         *)
(* The wire is a sequence of numbers; a pixel, a coordinate, a count and a *)
(* mask is one each, but the bytes of packed indices and of the lengths of *)
(* runs are bytes.  A client whose readers take one number too many or too *)
(* few takes everything after it for something else.  The server does what *)
(* the comments of rfbproto.h say.  CoRRE is RRE with smaller numbers.     *)
(***************************************************************************)
EXTENDS FrameBuffer, SequencesExt

CONSTANTS
    HextileSide, ZRLESide,  \* of tiles: 16 and 64
    Full,       \* the largest byte of the length of a run, after which another
                \* one follows: 255
    RawFrames, CopyFrames, RREFrames, HextileFrames, ZRLEFrames,
                \* what the server sends: the places of its rectangles,
    SubLists(_),    \* the subrectangles of one, or of a tile, and their colours,
    Palettes,       \* the palettes it uses,
    Screens,        \* what it has on its screen at first,
    MaxRectangles   \* and how many rectangles it sends

Points == (0 .. Width - 1) \X (0 .. Height - 1)

\* The places of subrectangles of r
SubRects(r) ==
    {q \in [x : 0 .. r.w - 1, y : 0 .. r.h - 1, w : 1 .. r.w, h : 1 .. r.h] :
        MaxX(q) <= r.w /\ MaxY(q) <= r.h}

\* What has pixels, all of them on the screen
Inside ==
    {r \in [x : 0 .. Width - 1, y : 0 .. Height - 1, w : 1 .. Width, h : 1 .. Height] :
        ~TooLarge(r)}

Frames == RawFrames \cup CopyFrames \cup RREFrames \cup HextileFrames \cup ZRLEFrames

ASSUME RectanglesAssumption ==
    /\ HextileSide \in 1 .. 16 /\ ZRLESide \in Nat \ {0}
    /\ Full \in Nat \ {0} /\ MaxRectangles \in Nat
    /\ Frames \subseteq Inside
    /\ \A r \in Inside : SubLists(r) \subseteq Seq([r : SubRects(r), color : Colors])
    /\ \A p \in Palettes : p \in Seq(Colors) /\ Len(p) \in 2 .. 127
    /\ Screens \subseteq [Points -> Colors]

VARIABLES
    screen,     \* of the server: the colour of each point
    sending,    \* what is left of the rectangle the server sends
    sent,       \* rectangles it has begun to send
    wire,       \* from the server to the client
    client      \* see Client

vars == <<screen, sending, sent, wire, client>>

(* The encodings and the bits of a Hextile tile.                           *)
EncRaw == 0
EncCopy == 1
EncRRE == 2
EncHextile == 5
EncZRLE == 16

HexRaw == 1
HexBackground == 2
HexForeground == 4
HexAnySubrects == 8
HexColoured == 16

Bit(mask, b) == (mask \div b) % 2 = 1

Pixels(r) == r.w * r.h

-----------------------------------------------------------------------------
(* The server.                                                             *)

PointsOf(r) == {p \in Points : /\ p[1] \in r.x .. MaxX(r) - 1
                               /\ p[2] \in r.y .. MaxY(r) - 1}

Painted(s, r, color) ==
    [p \in Points |-> IF p \in PointsOf(r) THEN color ELSE s[p]]

\* data is the colours of r from left to right and top to bottom.
Put(s, r, data) ==
    [p \in Points |-> IF p \in PointsOf(r)
                      THEN data[(p[2] - r.y) * r.w + p[1] - r.x + 1]
                      ELSE s[p]]

Copied(s, r, x, y) ==
    [p \in Points |->
        IF p \in PointsOf([r EXCEPT !.x = x, !.y = y])
        THEN s[<<p[1] - x + r.x, p[2] - y + r.y>>]
        ELSE s[p]]

\* r, whose place is relative to the origin of the other
Within(r, other) == [x |-> r.x + other.x, y |-> r.y + other.y, w |-> r.w, h |-> r.h]

\* Subrectangles of r, each on top of those before.
PaintedAll(s, r, subs) ==
    LET Paint(now, k) == Painted(now, Within(subs[k + 1].r, r), subs[k + 1].color)
    IN  Walk(s, Len(subs), Paint)

CeilDiv(a, b) == (a + b - 1) \div b

\* The tiles of a rectangle, starting at the top left going in left-to-right,
\* top-to-bottom order.
TilesOf(f, side) ==
    LET across == CeilDiv(f.w, side)
    IN  [k \in 1 .. across * CeilDiv(f.h, side) |->
            LET x == ((k - 1) % across) * side
                y == ((k - 1) \div across) * side
            IN  [x |-> f.x + x, y |-> f.y + y,
                 w |-> Least(side, f.w - x), h |-> Least(side, f.h - y)]]

Header(f, encoding) == <<f.x, f.y, f.w, f.h, encoding>>

\* A colour that has not been specified in this rectangle
Unspecified == -1

\* The tiles to come, and the colours a Hextile tile need not specify.
Nothing == [tiles |-> <<>>, back |-> Unspecified, fore |-> Unspecified]

\* One rectangle after the other, and no longer ahead than needed.
SendsRectangle ==
    /\ sending = Nothing /\ wire = <<>>
    /\ sent < MaxRectangles
    /\ sent' = sent + 1

Contents(r) == [1 .. Pixels(r) -> Colors]

SendRaw ==
    /\ SendsRectangle
    /\ \E f \in RawFrames : \E data \in Contents(f) :
          /\ wire' = Header(f, EncRaw) \o data
          /\ screen' = Put(screen, f, data)
    /\ UNCHANGED <<sending, client>>

SendCopy ==
    /\ SendsRectangle
    /\ \E f, to \in CopyFrames :
          /\ f.w = to.w /\ f.h = to.h
          /\ wire' = Header(to, EncCopy) \o <<f.x, f.y>>
          /\ screen' = Copied(screen, f, to.x, to.y)
    /\ UNCHANGED <<sending, client>>

SendRRE ==
    /\ SendsRectangle
    /\ \E f \in RREFrames, back \in Colors : \E subs \in SubLists(f) :
          LET Bytes(s) == <<s.color, s.r.x, s.r.y, s.r.w, s.r.h>>
          IN  /\ wire' = Header(f, EncRRE) \o <<Len(subs), back>>
                            \o FlattenSeq([i \in DOMAIN subs |-> Bytes(subs[i])])
              /\ screen' = PaintedAll(Painted(screen, f, back), f, subs)
    /\ UNCHANGED <<sending, client>>

BeginHextile ==
    /\ SendsRectangle
    /\ \E f \in HextileFrames :
          /\ wire' = Header(f, EncHextile)
          /\ sending' = [Nothing EXCEPT !.tiles = TilesOf(f, HextileSide)]
    /\ UNCHANGED <<screen, client>>

SendsTile ==
    /\ sending.tiles # <<>> /\ wire = <<>>
    /\ UNCHANGED sent

\* The tile has been sent, and these colours go for the next one.
TileSent(back, fore) ==
    sending' = IF Len(sending.tiles) = 1 THEN Nothing
               ELSE [sending EXCEPT !.tiles = Tail(@), !.back = back, !.fore = fore]

SendRawTile ==
    /\ SendsTile
    /\ LET t == Head(sending.tiles)
       IN  \E data \in Contents(t) :
              /\ wire' = <<HexRaw>> \o data
              /\ screen' = Put(screen, t, data)
    /\ TileSent(sending.back, sending.fore)
    /\ UNCHANGED client

\* "The first non-raw tile in a rectangle must have this bit set."
Specifies(old) == {<<c, TRUE>> : c \in Colors}
                  \cup (IF old = Unspecified THEN {} ELSE {<<old, FALSE>>})

Flag(set, bit) == IF set THEN bit ELSE 0
Given(s) == IF s[2] THEN <<s[1]>> ELSE <<>>

\* "The position and size of each subrectangle is specified in two bytes."
XY(r) == r.x * 16 + r.y
WH(r) == (r.w - 1) * 16 + r.h - 1

SendPlainTile ==
    /\ SendsTile
    /\ \E back \in Specifies(sending.back), fore \in Specifies(sending.fore) :
          /\ wire' = <<Flag(back[2], HexBackground) + Flag(fore[2], HexForeground)>>
                        \o Given(back) \o Given(fore)
          /\ screen' = Painted(screen, Head(sending.tiles), back[1])
          /\ TileSent(back[1], fore[1])
    /\ UNCHANGED client

\* Subrectangles of the colour of the foreground
SendTile ==
    /\ SendsTile
    /\ LET t == Head(sending.tiles) IN
       \E back \in Specifies(sending.back), fore \in Specifies(sending.fore),
          subs \in SubLists(t) :
          /\ \A i \in DOMAIN subs : subs[i].color = fore[1]
          /\ wire' = <<Flag(back[2], HexBackground)
                        + Flag(fore[2], HexForeground) + HexAnySubrects>>
                     \o Given(back) \o Given(fore) \o <<Len(subs)>>
                     \o FlattenSeq([i \in DOMAIN subs |->
                                    <<XY(subs[i].r), WH(subs[i].r)>>])
          /\ screen' = PaintedAll(Painted(screen, t, back[1]), t, subs)
          /\ TileSent(back[1], fore[1])
    /\ UNCHANGED client

SendColouredTile ==
    /\ SendsTile
    /\ LET t == Head(sending.tiles) IN
       \E back \in Specifies(sending.back), subs \in SubLists(t) :
          /\ wire' = <<Flag(back[2], HexBackground) + HexAnySubrects + HexColoured>>
                     \o Given(back) \o <<Len(subs)>>
                     \o FlattenSeq([i \in DOMAIN subs |->
                            <<subs[i].color, XY(subs[i].r), WH(subs[i].r)>>])
          /\ screen' = PaintedAll(Painted(screen, t, back[1]), t, subs)
          /\ TileSent(back[1], sending.fore)
    /\ UNCHANGED client

(* ZRLE.  data is the colours of a tile, p a palette that has them.        *)

IndexIn(p, c) == CHOOSE i \in 0 .. Len(p) - 1 : p[i + 1] = c

\* The colours of tile t in data, which are those of f.
PartOf(f, t, data) ==
    [k \in 1 .. Pixels(t) |->
        data[(t.y - f.y + (k - 1) \div t.w) * f.w + t.x - f.x + ((k - 1) % t.w) + 1]]

\* A line of indices, as many in a byte as the palette is small, the first in
\* its highest bits.
PerByte(n) == IF n <= 2 THEN 8 ELSE IF n <= 4 THEN 4 ELSE 2

\* The b-th byte of them
PackedByte(indices, per, b) ==
    LET Sample(i) == IF i > Len(indices) THEN 0 ELSE indices[i]
        Add(byte, j) == byte * 2 ^ (8 \div per) + Sample((b - 1) * per + j + 1)
    IN  Walk(0, per, Add)

Packed(indices, per) ==
    [b \in 1 .. CeilDiv(Len(indices), per) |-> PackedByte(indices, per, b)]

PackedTile(t, data, p) ==
    <<Len(p)>> \o p \o
    FlattenSeq([line \in 1 .. t.h |->
                Packed([i \in 1 .. t.w |-> IndexIn(p, data[(line - 1) * t.w + i])],
                       PerByte(Len(p)))])

\* n as the bytes of the length of a run: they add up to it, and only the last
\* is less than Full.
LengthBytes(n) ==
    [i \in 1 .. n \div Full + 1 |-> IF i <= n \div Full THEN Full ELSE n % Full]

\* A run of equal pixels of data ends at the i-th pixel; it has that many.
RunEnds(data, i) == i = Len(data) \/ data[i + 1] # data[i]

RunLength(data, i) ==
    CHOOSE n \in 1 .. i : /\ \A j \in i - n + 1 .. i : data[j] = data[i]
                          /\ n < i => data[i - n] # data[i]

\* Item(i) for each run of data, which ends at i
EachRun(data, Item(_)) ==
    FlattenSeq([i \in 1 .. Len(data) |-> IF RunEnds(data, i) THEN Item(i) ELSE <<>>])

RunTile(data) ==
    LET Item(i) == <<data[i]>> \o LengthBytes(RunLength(data, i) - 1)
    IN  <<128>> \o EachRun(data, Item)

PaletteRunTile(data, p) ==
    LET Item(i) == LET k == IndexIn(p, data[i])
                       n == RunLength(data, i)
                   IN  IF n = 1 THEN <<k>> ELSE <<128 + k>> \o LengthBytes(n - 1)
    IN  <<128 + Len(p)>> \o p \o EachRun(data, Item)

Holds(p, data) == {data[i] : i \in DOMAIN data} \subseteq {p[i] : i \in DOMAIN p}

Ways == {"raw", "solid", "packed", "runs", "paletteRuns"}

\* Tile t the way that is wanted, if its colours allow it.
ZRLETile(way, t, data, p) ==
    CASE way = "runs" -> RunTile(data)
      [] way = "packed" /\ Len(p) <= 16 /\ Holds(p, data) -> PackedTile(t, data, p)
      [] way = "paletteRuns" /\ Holds(p, data) -> PaletteRunTile(data, p)
      [] way = "solid" /\ Holds(<<data[1]>>, data) -> <<1, data[1]>>
      [] OTHER -> <<0>> \o data

\* What the client has room for once it is uncompressed, where a colour is one
\* byte: each tile in runs of one pixel.  The server keeps to it.
MaximumUncompressedSize(f) == Len(TilesOf(f, ZRLESide)) + 2 * Pixels(f)

SendZRLE ==
    /\ SendsRectangle
    /\ \E f \in ZRLEFrames : \E data \in Contents(f) :
       \E ways \in [DOMAIN TilesOf(f, ZRLESide) -> Ways], p \in Palettes :
          LET tiles == TilesOf(f, ZRLESide)
              Encoded(i) == ZRLETile(ways[i], tiles[i], PartOf(f, tiles[i], data), p)
              block == FlattenSeq([i \in DOMAIN tiles |-> Encoded(i)])
          IN  /\ Len(block) <= MaximumUncompressedSize(f)
              /\ wire' = Header(f, EncZRLE) \o <<Len(block)>> \o block
              /\ screen' = Put(screen, f, data)
    /\ UNCHANGED <<sending, client>>

-----------------------------------------------------------------------------
(* The client: what FrameBufferUpdateReader and the readers of encodings   *)
(* do with what they have read.                                            *)

\* What is done when what the reader is for has arrived
Actions == {"setRect", "setPixels", "setPosition", "setNumOfRects", "setBackground",
            "drawRectangles", "setSubEncoding", "drawRawTile", "setTileHeader",
            "drawSubColorRects", "drawSubRects", "setLength", "setUncompressedData"}

Client ==
    [frame : Rect, tile : Rect,     \* frame and currentTile
     back : Colors \cup {0}, fore : Colors \cup {0},
                                    \* background and foreground, kept from
                                    \* one rectangle to the next
     mask : 0 .. 255,               \* subEncodingMask
     count : Nat,                   \* numOfSubRects
     reader : [action : Actions, size : Nat],
     pixels : Memory,
     stopped : BOOLEAN]             \* terminateConnection has been called

SetReader(c, action, size) ==
    [c EXCEPT !.reader = [action |-> action, size |-> size]]

DidRect(c) == SetReader(c, "setRect", 5)

Fill(c, r, color) == [c EXCEPT !.pixels = FillRect(@, r, color)]

Terminate(c) == [c EXCEPT !.stopped = TRUE]

\* readEncoding of the Hextile reader
FirstTile(c) ==
    SetReader([c EXCEPT !.tile = [c.frame EXCEPT !.w = Least(@, HextileSide),
                                                 !.h = Least(@, HextileSide)]],
              "setSubEncoding", 1)

SetRect(c, d) ==
    LET f == [x |-> d[1], y |-> d[2], w |-> d[3], h |-> d[4]]
        now == [c EXCEPT !.frame = f]
    IN  CASE d[5] = EncRaw     -> SetReader(now, "setPixels", Pixels(f))
          [] d[5] = EncCopy    -> SetReader(now, "setPosition", 2)
          [] d[5] = EncRRE     -> SetReader(now, "setNumOfRects", 1)
          [] d[5] = EncHextile -> FirstTile(now)
          [] d[5] = EncZRLE    -> SetReader(now, "setLength", 1)
          [] OTHER             -> Terminate(now)

SetPixels(c, d) == DidRect([c EXCEPT !.pixels = PutRect(@, c.frame, d)])

SetPosition(c, d) ==
    DidRect([c EXCEPT !.pixels = CopyRect(@, [c.frame EXCEPT !.x = d[1], !.y = d[2]],
                                          c.frame.x, c.frame.y)])

SetNumOfRects(c, d) == SetReader([c EXCEPT !.count = d[1]], "setBackground", 1)

SetBackground(c, d) ==
    LET now == Fill(c, c.frame, d[1])
    IN  IF c.count = 0 THEN DidRect(now)
        ELSE SetReader(now, "drawRectangles", 5 * c.count)

\* Fills subrectangles of r.
FillAll(m, r, subs) ==
    LET Step(now, k) == FillRect(now, Within(subs[k + 1].r, r), subs[k + 1].color)
    IN  Walk(m, Len(subs), Step)

FillSubs(c, r, subs) == [c EXCEPT !.pixels = FillAll(@, r, subs)]

DrawRectangles(c, d) ==
    LET Sub(i) == [r |-> [x |-> d[5 * i - 3], y |-> d[5 * i - 2],
                          w |-> d[5 * i - 1], h |-> d[5 * i]],
                   color |-> d[5 * i - 4]]
    IN  DidRect(FillSubs(c, c.frame, [i \in 1 .. c.count |-> Sub(i)]))

\* A mutant: the size of the tile is that of the one before.
NextTile_Wrong(c) ==
    LET f == c.frame
        x == c.tile.x + HextileSide
        row == x >= MaxX(f)
        t == [c.tile EXCEPT !.x = IF row THEN f.x ELSE x,
                            !.y = IF row THEN @ + HextileSide ELSE @]
    IN  IF t.y >= MaxY(f) THEN DidRect(c)
        ELSE SetReader([c EXCEPT !.tile = t], "setSubEncoding", 1)

NextTile(c) ==
    LET f == c.frame
        row == c.tile.x + HextileSide >= MaxX(f)
        x == IF row THEN f.x ELSE c.tile.x + HextileSide
        y == IF row THEN c.tile.y + HextileSide ELSE c.tile.y
    IN  IF y >= MaxY(f) THEN DidRect(c)
        ELSE SetReader([c EXCEPT !.tile =
                           [x |-> x, y |-> y, w |-> Least(HextileSide, MaxX(f) - x),
                            h |-> Least(HextileSide, MaxY(f) - y)]],
                       "setSubEncoding", 1)

SetSubEncoding(c, d) ==
    LET specified == Bit(d[1], HexForeground)
        mask == IF specified /\ Bit(d[1], HexColoured) THEN d[1] - HexColoured ELSE d[1]
        size == Flag(Bit(mask, HexBackground), 1) + Flag(specified, 1)
                    + Flag(Bit(mask, HexAnySubrects), 1)
        now == LET s == [c EXCEPT !.mask = mask]
               IN  IF Bit(mask, HexBackground) THEN s ELSE Fill(s, c.tile, c.back)
    IN  IF Bit(d[1], HexRaw)
        THEN SetReader([c EXCEPT !.mask = 0], "drawRawTile", Pixels(c.tile))
        ELSE IF size = 0 THEN NextTile(now) ELSE SetReader(now, "setTileHeader", size)

DrawRawTile(c, d) == NextTile([c EXCEPT !.pixels = PutRect(@, c.tile, d)])

SetTileHeader(c, d) ==
    LET b == Flag(Bit(c.mask, HexBackground), 1)
        f == Flag(Bit(c.mask, HexForeground), 1)
        back == IF b = 1 THEN Fill([c EXCEPT !.back = d[1]], c.tile, d[1]) ELSE c
        now == IF f = 1 THEN [back EXCEPT !.fore = d[b + 1]] ELSE back
        count == d[b + f + 1]
        coloured == Bit(c.mask, HexColoured)
    IN  IF ~Bit(c.mask, HexAnySubrects) THEN NextTile(now)
        ELSE SetReader([now EXCEPT !.count = count],
                       IF coloured THEN "drawSubColorRects" ELSE "drawSubRects",
                       IF coloured THEN 3 * count ELSE 2 * count)

\* The rectangle of two bytes of Hextile
Extract(xy, wh) == [x |-> xy \div 16, y |-> xy % 16,
                    w |-> (wh \div 16) + 1, h |-> (wh % 16) + 1]

DrawSubColorRects(c, d) ==
    LET Sub(i) == [r |-> Extract(d[3 * i - 1], d[3 * i]), color |-> d[3 * i - 2]]
    IN  NextTile(FillSubs(c, c.tile, [i \in 1 .. c.count |-> Sub(i)]))

DrawSubRects(c, d) ==
    LET Sub(i) == [r |-> Extract(d[2 * i - 1], d[2 * i]), color |-> c.fore]
    IN  NextTile(FillSubs(c, c.tile, [i \in 1 .. c.count |-> Sub(i)]))

(* ZRLE: setUncompressedData goes through a block of data that zlib has    *)
(* decompressed.  z is where it is.                                        *)

Block(c) == [m |-> c.pixels, at |-> 1, left |-> 0, y |-> 0, bad |-> FALSE]

TooSmall(z) == [z EXCEPT !.bad = TRUE]

Skip(z, n) == [z EXCEPT !.at = @ + n, !.left = @ - n]

RawZRLE(z, t, data) ==
    IF z.left < Pixels(t) THEN TooSmall(z)
    ELSE [Skip(z, Pixels(t)) EXCEPT
            !.m = PutRect(@, t, SubSeq(data, z.at, z.at + Pixels(t) - 1))]

SolidZRLE(z, t, data) ==
    IF z.left < 1 THEN TooSmall(z)
    ELSE [Skip(z, 1) EXCEPT !.m = FillRect(@, t, data[z.at])]

SamplesPerByte(n) == CASE n - 2 = 0 -> 8 [] n - 2 \in 1 .. 2 -> 4 [] OTHER -> 2

\* The index of the k-th pixel, of a line that begins with a byte of its own.
PackedZRLE(z, t, data, n) ==
    LET per == SamplesPerByte(n)
        shift == 8 \div per
        bytesPerRow == CeilDiv(t.w, per)
        size == n + t.h * bytesPerRow
        Byte(k) == data[z.at + n + (k \div t.w) * bytesPerRow + ((k % t.w) \div per)]
        Index(k) == (Byte(k) \div 2 ^ (shift * (per - 1 - ((k % t.w) % per)))) % (2 ^ shift)
    IN  IF z.left < size THEN TooSmall(z)
        ELSE [Skip(z, size) EXCEPT
                !.m = PutRect(@, t, [k \in 1 .. Pixels(t) |-> data[z.at + Index(k - 1)]])]

\* A run of a colour: its bytes go on while they are Full, and add up to what
\* its length is more than one.
RunZRLE(z, t, data, color) ==
    LET Byte(k) == data[z.at + k - 1]
        n == CHOOSE k \in 1 .. z.left :
                Byte(k) # Full /\ \A j \in 1 .. k - 1 : Byte(j) = Full
        length == 1 + (n - 1) * Full + Byte(n)
    IN  IF \A k \in 1 .. z.left : Byte(k) = Full THEN TooSmall(z)
        ELSE [Skip(z, n) EXCEPT !.m = PutRun(@, color, length, t, z.y),
                                !.y = @ + length]

\* One run after the other until the tile is full.  Each has a pixel at least,
\* so that as many of them as pixels are enough.
UntilFull(z, t, Run(_)) ==
    LET Step(now, k) == IF now.bad \/ now.y >= Pixels(t) THEN now ELSE Run(now)
    IN  Walk(z, Pixels(t), Step)

PlainRunsZRLE(z, t, data) ==
    LET Run(now) == IF now.left < 1 THEN TooSmall(now)
                    ELSE RunZRLE(Skip(now, 1), t, data, data[now.at])
    IN  UntilFull(z, t, Run)

\* palette is where the palette begins.  The indices are not counted.
PaletteRunsZRLE(z, t, data, palette) ==
    LET Run(now) ==
            LET b == data[now.at]
                next == [now EXCEPT !.at = @ + 1]
            IN  IF b < 128
                THEN [next EXCEPT !.m = PutRun(@, data[palette + b], 1, t, now.y),
                                  !.y = @ + 1]
                ELSE RunZRLE(next, t, data, data[palette + (b % 128)])
    IN  UntilFull(z, t, Run)

TileZRLE(z, t, data) ==
    LET sub == data[z.at]
        next == [Skip(z, 1) EXCEPT !.y = 0]
    IN  IF z.bad \/ z.left - 1 <= 0 THEN TooSmall(z)
        ELSE CASE sub = 0   -> RawZRLE(next, t, data)
               [] sub = 1   -> SolidZRLE(next, t, data)
               [] sub \in 2 .. 16 -> PackedZRLE(next, t, data, sub)
               [] sub = 128 -> PlainRunsZRLE(next, t, data)
               [] sub >= 130 -> IF next.left < sub - 128 THEN TooSmall(next)
                                ELSE PaletteRunsZRLE(Skip(next, sub - 128), t, data, next.at)
               [] OTHER -> TooSmall(next)

\* The i-th tile of the j-th line of tiles, both from 0
TileAt(f, i, j) ==
    LET x == f.x + i * ZRLESide
        y == f.y + j * ZRLESide
    IN  [x |-> x, y |-> y, w |-> Least(ZRLESide, MaxX(f) - x),
         h |-> Least(ZRLESide, MaxY(f) - y)]

LineZRLE(z, f, j, data) ==
    LET OfLine(now, i) == TileZRLE(now, TileAt(f, i, j), data)
    IN  Walk(z, CeilDiv(f.w, ZRLESide), OfLine)

TilesZRLE(z, f, data) ==
    LET Line(now, j) == LineZRLE(now, f, j, data)
    IN  Walk(z, CeilDiv(f.h, ZRLESide), Line)

SetUncompressedData(c, data) ==
    LET done == TilesZRLE([Block(c) EXCEPT !.left = Len(data)], c.frame, data)
        now == [c EXCEPT !.pixels = done.m]
    IN  IF done.bad THEN Terminate(now) ELSE DidRect(now)

-----------------------------------------------------------------------------
(* The client reads.                                                       *)

Act(c, d) ==
    CASE c.reader.action = "setRect"           -> SetRect(c, d)
      [] c.reader.action = "setPixels"         -> SetPixels(c, d)
      [] c.reader.action = "setPosition"       -> SetPosition(c, d)
      [] c.reader.action = "setNumOfRects"     -> SetNumOfRects(c, d)
      [] c.reader.action = "setBackground"     -> SetBackground(c, d)
      [] c.reader.action = "drawRectangles"    -> DrawRectangles(c, d)
      [] c.reader.action = "setSubEncoding"    -> SetSubEncoding(c, d)
      [] c.reader.action = "drawRawTile"       -> DrawRawTile(c, d)
      [] c.reader.action = "setTileHeader"     -> SetTileHeader(c, d)
      [] c.reader.action = "drawSubColorRects" -> DrawSubColorRects(c, d)
      [] c.reader.action = "drawSubRects"      -> DrawSubRects(c, d)
      [] c.reader.action = "setLength"         ->
            SetReader(c, "setUncompressedData", d[1])
      [] c.reader.action = "setUncompressedData" -> SetUncompressedData(c, d)

\* readData: gives what has arrived to the reader, which acts when it has all
\* it is for.  One that needs nothing acts, but consumes nothing, which counts
\* as an error of the protocol.
ReadData ==
    /\ ~client.stopped /\ wire # <<>>
    /\ Len(wire) >= client.reader.size
    /\ LET n == client.reader.size
           now == Act(client, SubSeq(wire, 1, n))
       IN  /\ client' = IF n = 0 THEN Terminate(now) ELSE now
           /\ wire' = SubSeq(wire, n + 1, Len(wire))
    /\ UNCHANGED <<screen, sending, sent>>

Init ==
    /\ screen \in Screens
    /\ sending = Nothing /\ sent = 0
    /\ wire = <<>>
    /\ LET none == [x |-> 0, y |-> 0, w |-> 0, h |-> 0]
       IN  client = [frame |-> none, tile |-> none, back |-> 0, fore |-> 0,
                     mask |-> 0, count |-> 0,
                     reader |-> [action |-> "setRect", size |-> 5],
                     pixels |-> [i \in 0 .. Width * Height - 1 |->
                                    screen[<<i % Width, i \div Width>>]],
                     stopped |-> FALSE]

Next ==
    \/ SendRaw \/ SendCopy \/ SendRRE \/ SendZRLE
    \/ BeginHextile \/ SendRawTile \/ SendPlainTile \/ SendTile \/ SendColouredTile
    \/ ReadData

Spec == Init /\ [][Next]_vars

-----------------------------------------------------------------------------
(* Properties.                                                             *)

BetweenRectangles ==
    sending = Nothing /\ wire = <<>> /\ client.reader.action = "setRect"

\* Whatever the encodings of the rectangles, in whatever order, tiles, runs,
\* palettes and overlapping copies among them: when the last of them has been
\* read, the client's pixels are the server's screen.
ShowsScreen ==
    BetweenRectangles =>
        \A p \in Points : client.pixels[At(p[1], p[2])] = screen[p]

\* The tile read last says that subrectangles follow, and then that none do.
EmptyList == client.count = 0 /\ Bit(client.mask, HexAnySubrects)

\* The client takes exactly what the server sends: it has what it waits for as
\* soon as anything has arrived, and waits for the next tile or rectangle when
\* nothing more comes.  It needs nothing at all, and ends the connection, only
\* for a tile with an empty list of subrectangles.
InStep ==
    IF client.stopped \/ client.reader.size = 0 THEN EmptyList
    ELSE /\ wire # <<>> => client.reader.size <= Len(wire)
         /\ wire = <<>> => client.reader.action =
                              IF sending = Nothing THEN "setRect"
                                                   ELSE "setSubEncoding"
=============================================================================
