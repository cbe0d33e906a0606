------------------------------ MODULE MCLibCalls ------------------------------
EXTENDS LibCalls

\* Two glyphs: a blank and a frame with a diagonal.
MCFont == [c \in {32, 78} |-> [i \in 0 .. 7 |->
              IF c = 32 THEN 0 ELSE IF i \in {0, 7} THEN 255 ELSE 129 + 2 ^ (7 - i)]]
MCCorners == {0, 1, 5, 8, 16, 19, 254, 255}
MCTexts == {<<78>>, <<32, 78>>, <<78, 78>>}
MCNumbers == {-32768, -32767, -10, 0, 8, 16, 99, 32767}
MCTypes == SUBSET {"SIGN", "PLUS", "SPACE", "LEFT", "SMALL", "SPECIAL", "ZEROPAD"}
MCPieces == {
    <<<<"a", "b">>, <<>>>>, <<<<"%", "%">>, <<>>>>,
    <<<<"%", "d">>, <<-42>>>>, <<<<"%", "5", "d">>, <<42>>>>, <<<<"%", "-", "+", "5", "i">>, <<42>>>>,
    <<<<"%", "*", ".", "*", "d">>, <<-6, 3, 7>>>>, <<<<"%", ".", "u">>, <<9>>>>,
    <<<<"%", "h", "d">>, <<200>>>>, <<<<"%", "h", "u">>, <<-1>>>>, <<<<"%", "l", "x">>, <<255>>>>,
    <<<<"%", "#", "X">>, <<171>>>>, <<<<"%", "0", "4", "o">>, <<8>>>>, <<<<"%", "p">>, <<16>>>>,
    <<<<"%", "9", "p">>, <<16>>>>, <<<<"%", "c">>, <<"z">>>>, <<<<"%", "3", "c">>, <<"z">>>>,
    <<<<"%", "s">>, <<<<"o", "k">>>>>>, <<<<"%", "-", "4", ".", "1", "s", "|">>, <<<<"o", "k">>>>>>,
    <<<<"%", "n">>, <<"at">>>>, <<<<"%", " ", "d">>, <<3>>>>, <<<<"%", "q">>, <<>>>> }
\* Eleven cells, for three strings of at most two chars.
MCMemories ==
    {[a \in 0 .. 10 |-> IF a \in DOMAIN f THEN f[a] ELSE IF a = 4 THEN 65 ELSE IF a < 6 THEN 0 ELSE 97] :
        f \in [{0, 1, 3} -> {-5, 0, 65, 97}]}
MCWidths == {-1, 4, 9}
MCPrecisions == {-1, 3, 5}
=============================================================================
