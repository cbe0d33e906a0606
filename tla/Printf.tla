-------------------------------- MODULE Printf --------------------------------
(***************************************************************************)
(* libs/libc/printf.c.  A char is a string of length one, the end of a     *)
(* format is NUL; arguments are integers or sequences of chars.            *)
(***************************************************************************)
EXTENDS Integers, Sequences, FiniteSets, SequencesExt

CONSTANTS Bits, ShortBits   \* the widths of int and long, and of short

ASSUME WidthAssumption == Bits \in Nat /\ ShortBits \in Nat /\ ShortBits < Bits

NUL == "NUL"
digits == <<"0", "1", "2", "3", "4", "5", "6", "7", "8", "9", "A", "B", "C", "D", "E", "F">>
small == <<"0", "1", "2", "3", "4", "5", "6", "7", "8", "9", "a", "b", "c", "d", "e", "f">>

isdigit(c) == c \in {digits[i] : i \in 1 .. 10}
Value(c) == (CHOOSE i \in 1 .. 16 : c \in {digits[i], small[i]}) - 1
Repeat(c, n) == [i \in 1 .. n |-> c]
Larger(a, b) == IF a > b THEN a ELSE b

Unsigned(n, bits) == n % 2 ^ bits
Signed(n, bits) ==
    LET u == Unsigned(n, bits) IN IF u >= 2 ^ (bits - 1) THEN u - 2 ^ bits ELSE u

DigitsOf(n, base, set) ==
    LET of[k \in Nat] ==
            (IF k < base THEN <<>> ELSE of[k \div base]) \o <<set[(k % base) + 1]>>
    IN  of[n]

-----------------------------------------------------------------------------
(* number.                                                                 *)
Sign(num, type) ==
    IF "SIGN" \notin type THEN <<>>
    ELSE IF num < 0 THEN <<"-">>
    ELSE IF "PLUS" \in type THEN <<"+">>
    ELSE IF "SPACE" \in type THEN <<" ">>
    ELSE <<>>

Prefix(base, type) ==
    IF "SPECIAL" \notin type THEN <<>>
    ELSE IF base = 8 THEN <<"0">>
    ELSE IF base = 16 THEN <<"0", IF "SMALL" \in type THEN "x" ELSE "X">>
    ELSE <<>>

\* -num of the least long is num again, but the division is unsigned.
Magnitude(num, type) ==
    Unsigned(IF "SIGN" \in type /\ num < 0 THEN -num ELSE num, Bits)

\* What is left of size: sign and prefix take their room as well.
RoomOfDigits(size, sign, prefix, digit) == size - digit        \* mutant
Room(size, sign, prefix, digit) == size - Len(sign) - Len(prefix) - digit

number(num, base, size, precision, type) ==
    LET sign   == Sign(num, type)
        prefix == Prefix(base, type)
        body   == DigitsOf(Magnitude(num, type), base, IF "SMALL" \in type THEN small ELSE digits)
        zeros  == Repeat("0", precision - Len(body))
        room   == Room(size, sign, prefix, Larger(precision, Len(body)))
    IN  IF "LEFT" \in type THEN sign \o prefix \o zeros \o body \o Repeat(" ", room)
        ELSE IF "ZEROPAD" \in type THEN sign \o prefix \o Repeat("0", room) \o zeros \o body
        ELSE Repeat(" ", room) \o sign \o prefix \o zeros \o body

-----------------------------------------------------------------------------
(* vsprintf.  At is the char a pointer into the format reads.              *)
At(fmt, i) == IF i <= Len(fmt) THEN fmt[i] ELSE NUL

FlagOf == ("-" :> "LEFT") @@ ("+" :> "PLUS") @@ (" " :> "SPACE") @@ ("#" :> "SPECIAL")
             @@ ("0" :> "ZEROPAD")

\* The first position from i on whose char is not in the set.
SkipTo(fmt, i, set) == Min({j \in i .. Len(fmt) + 1 : At(fmt, j) \notin set})

skip_atoi(fmt, i, j) == FoldLeft(LAMBDA n, c : n * 10 + Value(c), 0, SubSeq(fmt, i, j - 1))

\* A width or a precision: digits, the next argument, or nothing.
Field(fmt, i, args) ==
    LET j == SkipTo(fmt, i, {digits[k] : k \in 1 .. 10})
    IN  IF j > i THEN [value |-> skip_atoi(fmt, i, j), at |-> j, args |-> args]
        ELSE IF At(fmt, i) = "*" THEN [value |-> Head(args), at |-> i + 1, args |-> Tail(args)]
        ELSE [value |-> -1, at |-> i, args |-> args]

Precision(fmt, i, args) ==
    IF At(fmt, i) # "." THEN [value |-> -1, at |-> i, args |-> args]
    ELSE LET f == Field(fmt, i + 1, args) IN [f EXCEPT !.value = Larger(@, 0)]

\* A conversion from the char behind its % on: everything up to the letter.
Specification(fmt, i, args) ==
    LET j     == SkipTo(fmt, i, DOMAIN FlagOf)
        width == Field(fmt, j, args)
        prec  == Precision(fmt, width.at, width.args)
        long  == At(fmt, prec.at) \in {"h", "l", "L"}
        left  == width.at > j /\ width.value < 0
    IN  [flags |-> {FlagOf[fmt[k]] : k \in i .. j - 1} \cup IF left THEN {"LEFT"} ELSE {},
         width |-> IF left THEN -width.value ELSE width.value,
         precision |-> prec.value,
         qualifier |-> IF long THEN At(fmt, prec.at) ELSE NUL,
         at |-> IF long THEN prec.at + 1 ELSE prec.at,
         args |-> prec.args]

Padded(text, s) ==
    LET pad == Repeat(" ", s.width - Len(text))
    IN  IF "LEFT" \in s.flags THEN text \o pad ELSE pad \o text

BaseOf == ("o" :> 8) @@ ("x" :> 16) @@ ("X" :> 16) @@ ("d" :> 10) @@ ("i" :> 10) @@ ("u" :> 10)

Integer(s, letter, arg) ==
    LET type == s.flags \cup (IF letter = "x" THEN {"SMALL"} ELSE {})
                        \cup (IF letter \in {"d", "i"} THEN {"SIGN"} ELSE {})
        num  == IF s.qualifier # "h" THEN arg
                ELSE IF "SIGN" \in type THEN Signed(arg, ShortBits)
                ELSE Unsigned(arg, ShortBits)
    IN  number(num, BaseOf[letter], s.width, s.precision, type)

Pointer(s, arg) ==
    IF s.width = -1
      THEN number(arg, 16, 2 * (Bits \div 8), s.precision, s.flags \cup {"ZEROPAD"})
      ELSE number(arg, 16, s.width, s.precision, s.flags)

\* str is what the conversion appends; wrote what %n stores.
Convert(s, letter, out) ==
    LET arg  == Head(s.args)
        Takes(str) == [str |-> out \o str, args |-> Tail(s.args), wrote |-> <<>>]
    IN  CASE letter \in DOMAIN BaseOf -> Takes(Integer(s, letter, arg))
          [] letter = "c" -> Takes(Padded(<<arg>>, s))
          [] letter = "s" -> Takes(Padded(IF s.precision = -1 THEN arg
                                          ELSE SubSeq(arg, 1, IF s.precision < Len(arg)
                                                              THEN s.precision ELSE Len(arg)), s))
          [] letter = "p" -> Takes(Pointer(s, arg))
          [] letter = "n" -> [Takes(<<>>) EXCEPT !.wrote = <<Len(out)>>]
          [] letter = "%" -> [str |-> out \o <<"%">>, args |-> s.args, wrote |-> <<>>]
          [] OTHER -> [str |-> out \o <<"%">> \o (IF letter = NUL THEN <<>> ELSE <<letter>>),
                       args |-> s.args, wrote |-> <<>>]

\* The loop goes on behind the letter of a conversion.
Resumed(f, at, c) == [i |-> at + 1, args |-> c.args, str |-> c.str, wrote |-> f.wrote \o c.wrote]
Converted(fmt, f, s) == Resumed(f, s.at, Convert(s, At(fmt, s.at), f.str))

\* One round of its loop: a char, or a conversion, of the format from i on.
Format(fmt, f) ==
    IF f.i > Len(fmt) THEN f
    ELSE IF fmt[f.i] # "%" THEN [f EXCEPT !.i = @ + 1, !.str = Append(@, fmt[f.i])]
    ELSE Converted(fmt, f, Specification(fmt, f.i + 1, f.args))

vsprintf(fmt, args) ==
    LET after[n \in 0 .. Len(fmt)] ==
            IF n = 0 THEN [i |-> 1, args |-> args, str |-> <<>>, wrote |-> <<>>]
            ELSE Format(fmt, after[n - 1])
    IN  after[Len(fmt)]
=============================================================================
