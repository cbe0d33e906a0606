------------------------------- MODULE LibCalls -------------------------------
(***************************************************************************)
(* A program that calls the pure functions of libc and libk one at a time: *)
(* call is the call it made, result what came back.  The properties        *)
(* compare each result with what the function promises, defined without    *)
(* its loops.                                                              *)
(***************************************************************************)
EXTENDS CString, Printf, Raster

CONSTANTS
    Corners,            \* coordinates of rectangles and images, on the screen and off it
    Texts,              \* what is written on the screen
    Numbers, Bases, Widths, Precisions, Types,      \* arguments of number
    Pieces,             \* pairs of a format and its arguments, no % at the end
    Longest,            \* the chars of the longest string
    Memories            \* memories a string function is called on

\* Two strings, one behind the other, and room for both of them behind these.
Second == Longest + 1
Third == 2 * (Longest + 1)

\* A screen is far from half the range of its coordinates; strings have an end.
ASSUME CallsAssumption ==
    /\ Corners \subseteq 0 .. Word - 1
    /\ Texts \subseteq Seq(DOMAIN font)
    /\ 2 * (GRAPHIC_WIDTH + 3) <= Word /\ 2 * (GRAPHIC_HEIGHT + 3) <= Word
    /\ Longest \in Nat
    /\ Memories \subseteq [0 .. Third + 2 * Longest -> Int]
    /\ \A m \in Memories : m[Longest] = 0 /\ m[Second + Longest] = 0

VARIABLES call, result
vars == <<call, result>>

NoCall == [fn |-> "none"]
Init == call = NoCall /\ result = <<>>

Ink == 1                \* the color drawn with, the buffer is 0 everywhere else
Fill == 2
Clean == draw_clear(0)

Calls(c, r) == call' = c /\ result' = r

DrawLine ==
    \E a, b \in Screen \cup (Corners \X Corners) :
        Calls([fn |-> "line", a |-> a, b |-> b], draw_line(Clean, a[1], a[2], b[1], b[2], Ink))

DrawRect ==
    \E x1, y1, x2, y2 \in Corners :
        \/ Calls([fn |-> "rect", a |-> <<x1, y1>>, b |-> <<x2, y2>>],
                 draw_rect(Clean, x1, y1, x2, y2, Ink))
        \/ Calls([fn |-> "fillrect", a |-> <<x1, y1>>, b |-> <<x2, y2>>],
                 draw_fillrect(Clean, x1, y1, x2, y2, Ink, Fill))

\* An image of two rows of three pixels, all different, one of them of color 0.
Bitmap == [width |-> 3, height |-> 2,
           data |-> [i \in 0 .. 1 |-> [j \in 0 .. 2 |-> 3 * i + j]]]

DrawImage ==
    \E x, y \in Corners, alpha \in {0, Transparent} :
        Calls([fn |-> "image", a |-> <<x, y>>, alpha |-> alpha],
              IF alpha = Transparent THEN draw_image(draw_clear(9), Bitmap, x, y)
              ELSE draw_image_alpha(draw_clear(9), Bitmap, x, y, alpha))

DrawText ==
    \E s \in Texts, x \in 0 .. GRAPHIC_WIDTH, y \in 0 .. 1, fg \in {Ink, White},
       bg \in {Fill, Transparent} :
        Calls([fn |-> "text", s |-> s, x |-> x, y |-> y, fg |-> fg, bg |-> bg],
              draw_text(Clean, s, x, y, fg, bg))

FormatNumber ==
    \E n \in Numbers, base \in Bases, size \in Widths, precision \in Precisions, type \in Types :
        Calls([fn |-> "number", num |-> n, base |-> base, size |-> size,
               precision |-> precision, type |-> type],
              number(n, base, size, precision, type))

FormatText ==
    \E p, q \in Pieces :
        Calls([fn |-> "vsprintf", first |-> p, second |-> q],
              vsprintf(p[1] \o q[1], p[2] \o q[2]))

Move ==
    \E m \in Memories : \E d, s, n \in 0 .. Cardinality(DOMAIN m) \div 2 :
        \/ Calls([fn |-> "memmove", m |-> m, d |-> d, s |-> s, n |-> n], memmove(m, d, s, n))
        \/ Calls([fn |-> "memset", m |-> m, d |-> d, s |-> 1, n |-> n], memset(m, d, 1, n))
        \/ Calls([fn |-> "memchr", m |-> m, d |-> d, s |-> s, n |-> n], memchr(m, d, s, n))

\* The string at d ends before s, where the other one starts.
Strings(m, d, s) == \E i \in d .. s - 1 : m[i] = 0

StringCall ==
    \E m \in Memories : \E d, s \in {0, Second} :
        /\ d < s => Strings(m, d, s)
        /\ s < d => Strings(m, s, d)
        /\ \/ Calls([fn |-> "strcmp", m |-> m, d |-> d, s |-> s, n |-> Cardinality(DOMAIN m)],
                    <<strcmp(m, d, s), strcmp(m, s, d), strcasecmp(m, d, s)>>)
           \/ \E n \in 0 .. Longest + 1 :
                \/ Calls([fn |-> "strncmp", m |-> m, d |-> d, s |-> s, n |-> n],
                         <<strncmp(m, d, s, n), strncmp(m, s, d, n), strncasecmp(m, d, s, n)>>)
                \/ Calls([fn |-> "memcmp", m |-> m, d |-> d, s |-> s, n |-> n],
                         <<memcmp(m, d, s, n), memcmp(m, s, d, n)>>)
                \/ Calls([fn |-> "strncpy", m |-> m, d |-> Third, s |-> s, n |-> n],
                         strncpy(m, Third, s, n))
           \/ Calls([fn |-> "strcat", m |-> m, d |-> d, s |-> s, n |-> 0],
                    strcat(strcpy(m, Third, d), Third, s))

Return == call # NoCall /\ call' = NoCall /\ result' = <<>>

Call == Move \/ StringCall \/ FormatText \/ FormatNumber \/ DrawImage \/ DrawRect \/ DrawLine
        \/ DrawText

Next == (call = NoCall /\ Call) \/ Return

Spec == Init /\ [][Next]_vars

-----------------------------------------------------------------------------
Painted(color) == {Pixel(p) : p \in {q \in DOMAIN result : result[q] = color}}

Span(k) == LET a == call.a[k] b == call.b[k]
           IN  IF a < b THEN a .. b ELSE b .. a
Length(k) == Cardinality(Span(k)) - 1

\* Twice the distance of a pixel from the segment, along the shorter axis, times the longer.
Deviation(p, long, short) ==
    LET a == call.a b == call.b
    IN  2 * Abs((p[short] - a[short]) * (b[long] - a[long])
                - (p[long] - a[long]) * (b[short] - a[short]))

\* One pixel for each coordinate along the longer axis, the larger end left out.
IsLine(long) ==
    LET ends == Span(long) \ {IF call.a[long] < call.b[long] THEN call.b[long] ELSE call.a[long]}
    IN  {p[long] : p \in Painted(Ink)} = ends /\ Cardinality(Painted(Ink)) = Cardinality(ends)

\* Whatever draw_line (graphic.c:321-385) paints lies between the two ends and within half a pixel
\* of the segment: the error term carries over the whole walk, and both swaps keep the segment.
\* A line between two pixels of the screen is whole but for its larger end, when it is slanted or
\* runs down or to the right; an upright or a level one the other way round is not meant here.
LineDrawn ==
    call.fn = "line" =>
        LET long  == IF Length(2) > Length(1) THEN 2 ELSE 1
            short == 3 - long
        IN  /\ \A p \in Painted(Ink) : /\ p[long] \in Span(long) /\ p[short] \in Span(short)
                                       /\ Deviation(p, long, short) <= Length(long)
            /\ /\ {call.a, call.b} \subseteq Screen
               /\ call.a[short] = call.b[short] => call.a[long] <= call.b[long]
               => IsLine(long)

Rectangle == {p \in Screen : p[1] \in call.a[1] .. call.b[1] /\ p[2] \in call.a[2] .. call.b[2]}
Border == {p \in Rectangle : p[1] \in {call.a[1], call.b[1]} \/ p[2] \in {call.a[2], call.b[2]}}
Proper == call.a[1] < call.b[1] /\ call.a[2] < call.b[2]

AsSigned(n) == IF n >= Word \div 2 THEN n - Word ELSE n

\* A proper rectangle may reach past the right and the lower border of the screen: draw_fillrect
\* (graphic.c:403-421) paints its part on the screen, border and interior each in its color and
\* nothing else; draw_rect (387-401) nothing off the border, and all of it but for the corner
\* (x2, y2).  An image (517-529) may reach past any border, the left and the upper one by a
\* wrapped coordinate: the rows y + 1 to y + height show its part on the screen, the last row of
\* its data on top, and nothing else changes.
ShapesDrawn ==
    /\ call.fn = "fillrect" /\ Proper =>
           Painted(Ink) = Border /\ Painted(Fill) = Rectangle \ Border
    /\ call.fn = "rect" /\ Proper =>
           Border \ {call.b} \subseteq Painted(Ink) /\ Painted(Ink) \subseteq Border
    /\ call.fn = "image" =>
           \A p \in Screen :
               LET j == p[1] - AsSigned(call.a[1])
                   i == AsSigned(call.a[2]) + Bitmap.height - p[2]
                   shown == /\ i \in 0 .. Bitmap.height - 1 /\ j \in 0 .. Bitmap.width - 1
                            /\ (call.alpha = 0 => 3 * i + j # 0)
               IN  result[p[2] * GRAPHIC_WIDTH + p[1]] = IF shown THEN 3 * i + j ELSE 9

\* A text that fits on the screen is written in offbuffer only, each glyph in its own box, though
\* draw_text (graphic.c:543-565) tests no position it writes to.
TextDrawn ==
    call.fn = "text" /\ call.x + 8 * Len(call.s) <= GRAPHIC_WIDTH /\ call.y + 8 <= GRAPHIC_HEIGHT =>
        /\ DOMAIN result = 0 .. FB_SIZE - 1
        /\ \A p \in Screen :
               LET j == p[1] - call.x
                   i == p[2] - call.y
                   color == TextColor(font[call.s[(j \div 8) + 1]], i, j % 8, call.fg, call.bg)
                   shown == /\ i \in 0 .. 7 /\ j \in 0 .. 8 * Len(call.s) - 1
                            /\ ~Skipped(color, call.bg)
               IN  result[p[2] * GRAPHIC_WIDTH + p[1]] = IF shown THEN color % 256 ELSE 0

\* Each drawing function of graphic.c paints in its place: along the segment, on the border, in the
\* rows of the image, in the boxes of the glyphs, and nowhere else.
DrawingInPlace == LineDrawn /\ ShapesDrawn /\ TextDrawn

\* graphic.h:124 "draw a line." and graphic.h:130 "draw an empty rectangle.", taken at their word:
\* a line between two pixels shows, whichever is named first, and a rectangle is closed.  The
\* loops of graphic.c:335-340 and 393-400 do neither.
DrawnAsDeclared ==
    /\ call.fn = "line" /\ {call.a, call.b} \subseteq Screen /\ call.a # call.b => Painted(Ink) # {}
    /\ call.fn = "rect" /\ Proper => Painted(Ink) = Border

\* What a reader of a number makes of it: the digits behind spaces, sign and prefix.
ReadBack(str, base, prefix) ==
    LET body == SelectSeq(str, LAMBDA c : c \notin {" ", "+", "-"})
        read == FoldLeft(LAMBDA n, c : n * base + Value(c), 0, SubSeq(body, prefix + 1, Len(body)))
    IN  IF Contains(str, "-") THEN -read ELSE read

Shown(num, type) == IF "SIGN" \in type THEN num ELSE Unsigned(num, Bits)

\* number (printf.c:51-121) and vsprintf (123-292): the text of a number is as wide as asked or as
\* long as it must be, whatever flags meet, and reads back as the number; and a format is the
\* concatenation of its parts, each conversion taking its own arguments and no other.
FormatFaithful ==
    /\ call.fn = "number" =>
         LET sign   == Len(Sign(call.num, call.type))
             prefix == Len(Prefix(call.base, call.type))
             digit  == CHOOSE k \in 1 .. Bits + 1 :
                          /\ Magnitude(call.num, call.type) < call.base ^ k
                          /\ k = 1 \/ Magnitude(call.num, call.type) >= call.base ^ (k - 1)
         IN  /\ Len(result) = Larger(call.size, sign + prefix + Larger(call.precision, digit))
             /\ ReadBack(result, call.base, prefix) = Shown(call.num, call.type)
    /\ call.fn = "vsprintf" =>
         LET p == vsprintf(call.first[1], call.first[2])
             q == vsprintf(call.second[1], call.second[2])
         IN  /\ result.str = p.str \o q.str
             /\ result.wrote = p.wrote \o [k \in DOMAIN q.wrote |-> q.wrote[k] + Len(p.str)]

Sgn(n) == IF n > 0 THEN 1 ELSE IF n < 0 THEN -1 ELSE 0
Within(s, n) == IF n < Len(s) THEN SubSeq(s, 1, n) ELSE s
Lower(s) == [i \in DOMAIN s |-> tolower(s[i])]

\* The first difference decides; the end of a string is a char like another, and above one < 0.
Ended(s) == Append(s, 0)
Before(a, b) ==
    \E i \in DOMAIN a \cap DOMAIN b : SubSeq(a, 1, i - 1) = SubSeq(b, 1, i - 1) /\ a[i] < b[i]
Order(a, b) == IF a = b THEN 0 ELSE IF Before(a, b) THEN -1 ELSE 1

\* libc's memory and string functions: memmove (memmove.c:4-16) copies overlapping regions as if
\* through a buffer; the comparisons order strings by their first difference, chars signed, and
\* change sign when their arguments change places, within n chars when they take n; strncpy and
\* strcat build what they promise and touch nothing else.
MemoryFaithful ==
    call # NoCall /\ "m" \in DOMAIN call =>
    LET m == call.m d == call.d s == call.s n == call.n
    IN  /\ call.fn = "memmove" =>
              result = [a \in DOMAIN m |-> IF a \in d .. d + n - 1 THEN m[a - d + s] ELSE m[a]]
        /\ call.fn = "memchr" =>
              IF result = NULL THEN \A a \in d .. d + n - 1 : m[a] # s
              ELSE result \in d .. d + n - 1 /\ m[result] = s /\ \A a \in d .. result - 1 : m[a] # s
        /\ call.fn = "memset" =>
              \A a \in DOMAIN m : result[a] = IF a \in d .. d + n - 1 THEN 1 ELSE m[a]
        /\ call.fn \in {"strcmp", "strncmp"} =>
              LET a == Within(Ended(String(m, d)), n) b == Within(Ended(String(m, s)), n)
              IN  /\ Sgn(result[1]) = Order(a, b) /\ result[2] = -result[1]
                  /\ Sgn(result[3]) = Order(Lower(a), Lower(b))
        /\ call.fn = "memcmp" =>
              /\ Sgn(result[1]) = Order([i \in 1 .. n |-> m[d + i - 1]],
                                        [i \in 1 .. n |-> m[s + i - 1]])
              /\ result[2] = -result[1]
        /\ call.fn = "strncpy" =>
              LET a == Within(String(m, s), n)
              IN  result = [k \in DOMAIN m |-> IF k \notin d .. d + n - 1 THEN m[k]
                                               ELSE IF k < d + Len(a) THEN a[k - d + 1] ELSE 0]
        /\ call.fn = "strcat" =>
              LET end == Third + Len(String(m, d)) + Len(String(m, s))
              IN  /\ String(result, Third) = String(m, d) \o String(m, s)
                  /\ \A a \in DOMAIN m \ (Third .. end) : result[a] = m[a]
=============================================================================
