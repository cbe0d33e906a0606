------------------------------- MODULE CString -------------------------------
(***************************************************************************)
(* libs/libc: the functions on memory and strings, as the loops they are,  *)
(* on a memory that maps an address to a char (signed, as on x86).         *)
(***************************************************************************)
EXTENDS Integers, Sequences, FiniteSets, SequencesExt

NULL == -1

Upto(n) == [i \in 1 .. n |-> i - 1]
Downto(n) == [i \in 1 .. n |-> n - i]

\* d[i] = s[i], in the order of the loop: a cell may be read after it was written.
CopyCell(m, d, s, i) == [m EXCEPT ![d + i] = m[s + i]]

Copy(m, d, s, indices) ==
    LET after[n \in 0 .. Len(indices)] ==
            IF n = 0 THEN m ELSE CopyCell(after[n - 1], d, s, indices[n])
    IN  after[Len(indices)]

memcpy(m, dest, src, n) == Copy(m, dest, src, Upto(n))

MustGoBackTouching(d, s, n) == s < d /\ s + n = d   \* mutant
MustGoBack(d, s, n) == s < d /\ s + n > d

memmove(m, dest, src, n) ==
    IF MustGoBack(dest, src, n) THEN Copy(m, dest, src, Downto(n)) ELSE memcpy(m, dest, src, n)

memset(m, s, c, n) == [a \in DOMAIN m |-> IF a \in s .. s + n - 1 THEN c ELSE m[a]]

\* The first of the n addresses at which P holds, or none.
First(s, n, P(_)) ==
    LET hits == {i \in 0 .. n - 1 : P(i)} IN IF hits = {} THEN n ELSE Min(hits)

memchr(m, s, c, n) ==
    LET i == First(s, n, LAMBDA k : m[s + k] = c) IN IF i = n THEN NULL ELSE s + i

memcmp(m, s1, s2, n) ==
    LET i == First(s1, n, LAMBDA k : m[s1 + k] # m[s2 + k])
    IN  IF i = n THEN 0 ELSE m[s1 + i] - m[s2 + i]

strlen(m, s) == Min({i \in 0 .. Cardinality(DOMAIN m) : s + i \in DOMAIN m /\ m[s + i] = 0})
strnlen(m, s, maxlen) == First(s, maxlen, LAMBDA k : m[s + k] = 0)

strcpy(m, dest, src) ==
    LET n == strlen(m, src) IN [Copy(m, dest, src, Upto(n)) EXCEPT ![dest + n] = 0]

strcat(m, dest, src) == strcpy(m, dest + strlen(m, dest), src)

\* What is left of the n chars is cleared; nothing is, and no end is set, if none is left.
strncpy(m, dest, src, n) ==
    LET i == strnlen(m, src, n) IN memset(Copy(m, dest, src, Upto(i)), dest + i, 0, n - i)

\* Where a comparison stops: at a difference or at the end of the first string.
Stop(m, s1, s2, Eq(_, _)) ==
    Min({i \in 0 .. strlen(m, s1) : m[s1 + i] = 0 \/ ~Eq(m[s1 + i], m[s2 + i])})

strcmp(m, s1, s2) ==
    LET i == Stop(m, s1, s2, LAMBDA a, b : a = b) IN m[s1 + i] - m[s2 + i]

strncmp(m, s1, s2, n) ==
    LET i == Stop(m, s1, s2, LAMBDA a, b : a = b) IN IF i >= n THEN 0 ELSE m[s1 + i] - m[s2 + i]

tolower(c) == IF c \in 65 .. 90 THEN c + 32 ELSE c

strcasecmp(m, s1, s2) ==
    LET i == Stop(m, s1, s2, LAMBDA a, b : tolower(a) = tolower(b))
    IN  tolower(m[s1 + i]) - tolower(m[s2 + i])

strncasecmp(m, s1, s2, n) ==
    LET i == Stop(m, s1, s2, LAMBDA a, b : tolower(a) = tolower(b))
    IN  IF i >= n THEN 0 ELSE tolower(m[s1 + i]) - tolower(m[s2 + i])

\* The string at address s, for the properties.
String(m, s) == [i \in 1 .. strlen(m, s) |-> m[s + i - 1]]
=============================================================================
