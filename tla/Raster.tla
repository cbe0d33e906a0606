-------------------------------- MODULE Raster --------------------------------
(***************************************************************************)
(* The drawing functions of libs/libk/graphic.c.  A coordinate is an       *)
(* unsigned int, a color an index in the palette; offbuffer is passed and  *)
(* returned.  An image is a record of its width, height and rows of data.  *)
(***************************************************************************)
EXTENDS Integers, Sequences, SequencesExt

CONSTANTS
    GRAPHIC_WIDTH, GRAPHIC_HEIGHT,
    Word,       \* 2^32, the range of an unsigned int
    font        \* font[c][i] is row i of the glyph of c, a byte

ASSUME RasterAssumption ==
    /\ GRAPHIC_WIDTH \in Nat \ {0} /\ GRAPHIC_HEIGHT \in Nat \ {0}
    /\ Word \in Nat /\ GRAPHIC_WIDTH * GRAPHIC_HEIGHT < Word

Transparent == Word - 1                         \* (unsigned int)-1
White == 255                                    \* (char)255 is -1 as well
FB_SIZE == GRAPHIC_WIDTH * GRAPHIC_HEIGHT
Screen == (0 .. GRAPHIC_WIDTH - 1) \X (0 .. GRAPHIC_HEIGHT - 1)
Abs(n) == IF n < 0 THEN -n ELSE n
Pixel(p) == <<p % GRAPHIC_WIDTH, p \div GRAPHIC_WIDTH>>

\* draw_pixel of each of the pixels: what is off the screen is dropped.
Paint(buffer, pixels, color) ==
    [p \in DOMAIN buffer |-> IF Pixel(p) \in pixels THEN color ELSE buffer[p]]

draw_clear(color) == [p \in 0 .. FB_SIZE - 1 |-> color]

-----------------------------------------------------------------------------
(* draw_line.  The walk goes along the longer axis, from the end with the  *)
(* smaller coordinate; the end x2 is not painted.                          *)
Oriented(x1, y1, x2, y2) ==
    LET steep == Abs(y2 - y1) > Abs(x2 - x1)
        a == IF steep THEN <<y1, x1>> ELSE <<x1, y1>>
        b == IF steep THEN <<y2, x2>> ELSE <<x2, y2>>
    IN  [steep |-> steep, from |-> IF a[1] > b[1] THEN b ELSE a, to |-> IF a[1] > b[1] THEN a ELSE b]

AdvanceUnpaid(walk, deltax, deltay, ystep) ==       \* mutant
    LET error == walk.error + deltay
    IN  [y |-> IF error > 0 THEN walk.y + ystep ELSE walk.y, error |-> error]

Advance(walk, deltax, deltay, ystep) ==
    LET error == walk.error + deltay
    IN  [y |-> IF error > 0 THEN walk.y + ystep ELSE walk.y,
         error |-> IF error > 0 THEN error - deltax ELSE error]

BresenhamPixels(o) ==
    LET deltax == o.to[1] - o.from[1]
        deltay == Abs(o.to[2] - o.from[2])
        ystep  == IF o.from[2] < o.to[2] THEN 1 ELSE -1
        walk[x \in o.from[1] .. o.to[1] - 1] ==
            IF x = o.from[1] THEN [y |-> o.from[2], error |-> -(deltax \div 2)]
            ELSE Advance(walk[x - 1], deltax, deltay, ystep)
    IN  {IF o.steep THEN <<walk[x].y, x>> ELSE <<x, walk[x].y>> : x \in DOMAIN walk}

LinePixels(x1, y1, x2, y2) ==
    IF x1 = x2 THEN {x1} \X (y1 .. y2 - 1)
    ELSE IF y1 = y2 THEN (x1 .. x2 - 1) \X {y1}
    ELSE BresenhamPixels(Oriented(x1, y1, x2, y2))

draw_line(buffer, x1, y1, x2, y2, color) ==
    IF <<x1, y1>> \in Screen /\ <<x2, y2>> \in Screen
      THEN Paint(buffer, LinePixels(x1, y1, x2, y2), color)
      ELSE buffer

-----------------------------------------------------------------------------
(* draw_rect and draw_fillrect.  The corner (x2, y2) belongs to the border *)
(* of draw_fillrect only; x1 + 1 wraps.                                    *)
Next1(n) == (n + 1) % Word

draw_rect(buffer, x1, y1, x2, y2, color) ==
    Paint(buffer, ((x1 .. x2 - 1) \X {y1, y2}) \cup ({x1, x2} \X (y1 .. y2 - 1)), color)

draw_fillrect(buffer, x1, y1, x2, y2, color, interior) ==
    Paint(Paint(buffer, ((x1 .. x2 - 1) \X {y1, y2}) \cup ({x1, x2} \X (y1 .. y2)), color),
          (Next1(x1) .. x2 - 1) \X (Next1(y1) .. y2 - 1), interior)

-----------------------------------------------------------------------------
(* draw_image_alpha: row i of the data, the lowest first in a bitmap, goes *)
(* to y + height - i.                                                      *)
ImageColors(image, x, y, alpha) ==
    [p \in {<<(x + j) % Word, (y + image.height - i) % Word>> :
               i \in 0 .. image.height - 1, j \in 0 .. image.width - 1} |->
        LET i == (y + image.height - p[2]) % Word
            j == (p[1] - x) % Word
        IN  image.data[i][j]]

draw_image_alpha(buffer, image, x, y, alpha) ==
    LET colors == ImageColors(image, x, y, alpha)
    IN  [p \in DOMAIN buffer |->
            IF Pixel(p) \in DOMAIN colors /\ (alpha = Transparent \/ alpha # colors[Pixel(p)])
              THEN colors[Pixel(p)] ELSE buffer[p]]

draw_image(buffer, image, x, y) == draw_image_alpha(buffer, image, x, y, Transparent)

-----------------------------------------------------------------------------
(* draw_text: it computes a position instead of calling draw_pixel, and    *)
(* tests no border: a glyph that crosses the right one goes on at the left *)
(* of the next row, one that crosses the lower one behind offbuffer.       *)
bit_on(c, n) == (c \div 2 ^ (7 - n)) % 2 = 1

TextColor(glyph, i, j, fg, bg) == IF bit_on(glyph[i], j) THEN fg ELSE bg

Skipped(color, bg) == bg = Transparent /\ color \in {Transparent, White}

\* The position of the pixel (j, i) of the glyph of the char number strp of the text.
TextPosition(x, y, strp, i, j) == ((y + i) * GRAPHIC_WIDTH + strp * 8 + x + j) % Word

draw_char(memory, strp, c, x, y, fg, bg) ==
    LET shown == {k \in (0 .. 7) \X (0 .. 7) : ~Skipped(TextColor(font[c], k[1], k[2], fg, bg), bg)}
        Hits(p) == {k \in shown : TextPosition(x, y, strp, k[1], k[2]) = p}
        Lowest(hits) == CHOOSE k \in hits : \A l \in hits : l[1] <= k[1]
    IN  [p \in DOMAIN memory \cup {TextPosition(x, y, strp, k[1], k[2]) : k \in shown} |->
            IF Hits(p) = {} THEN memory[p]
            ELSE TextColor(font[c], Lowest(Hits(p))[1], Lowest(Hits(p))[2], fg, bg) % 256]

draw_text(buffer, s, x, y, fg, bg) ==
    LET after[n \in 0 .. Len(s)] ==
            IF n = 0 THEN buffer ELSE draw_char(after[n - 1], n - 1, s[n], x, y, fg, bg)
    IN  after[Len(s)]
=============================================================================
