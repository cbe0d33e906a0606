------------------------------- MODULE MCMedia -------------------------------
EXTENDS Media

Bitmap(w, h, size, length) ==
    [bmp |-> TRUE, width |-> w, height |-> h, size |-> size, offset |-> 4, length |-> length]

\* Two lines with padding and a rest; a header without a size; no line; a file cut short; a file of another kind.
MCBitmaps == {Bitmap(3, 2, 9, 16), Bitmap(2, 1, 0, 6), Bitmap(1, 0, 0, 4), Bitmap(3, 2, 8, 9),
              [Bitmap(1, 1, 4, 8) EXCEPT !.bmp = FALSE]}
MCTunes == {[tones |-> <<"a", "b">>, newline |-> FALSE], [tones |-> <<"a">>, newline |-> TRUE]}
=============================================================================
