---------------------------- MODULE LibCalls_proof ----------------------------
(***************************************************************************)
(* Where the library draws and what it copies: on any screen, at any place *)
(* and for any text, and for memories of any length and any contents.      *)
(***************************************************************************)
EXTENDS LibCalls, FiniteSetTheorems, WellFoundedInduction, TLAPS

-----------------------------------------------------------------------------
(* What the recursive definitions compute                                  *)

(* A non-empty set of numbers has a least member.                          *)
LEMMA LeastExists ==
    ASSUME NEW S \in SUBSET Nat, S # {}
    PROVE  \E k \in S : \A j \in S : k <= j
<1> DEFINE T == {0 .. x : x \in S}
<1>1. IsWellFoundedOn(StrictSubsetOrdering(Nat), FiniteSubsetsOf(Nat))
  BY FS_StrictSubsetOrderingWellFounded
<1>2. T \subseteq FiniteSubsetsOf(Nat)
  <2>1. ASSUME NEW x \in S  PROVE IsFiniteSet(0 .. x) /\ 0 .. x \subseteq Nat
    BY FS_Interval
  <2> QED
    BY <2>1 DEF FiniteSubsetsOf
<1>3. PICK I \in T : \A J \in T : ~(<<J, I>> \in StrictSubsetOrdering(Nat))
  <2>1. T # {}
    OBVIOUS
  <2> QED
    BY <1>1, <1>2, <2>1, WFMin
<1>4. PICK i \in S : I = 0 .. i
  OBVIOUS
<1>5. ASSUME NEW j \in S, j < i  PROVE FALSE
  <2>1. 0 .. j \in T /\ 0 .. j \subseteq I /\ 0 .. j # I /\ 0 .. j \subseteq Nat
    BY <1>4, <1>5
  <2>2. <<0 .. j, I>> \in StrictSubsetOrdering(Nat)
    BY <1>4, <2>1 DEF StrictSubsetOrdering
  <2> QED
    BY <1>3, <2>1, <2>2
<1> QED
  BY <1>5

(* A loop of N rounds, each of which takes what is good before it to what  *)
(* is good after it.                                                       *)
LEMMA Induct ==
    ASSUME NEW N \in Nat, NEW S, 0 \in S, \A i \in 1 .. N : i - 1 \in S => i \in S
    PROVE  0 .. N \subseteq S
  <1> DEFINE Bad == {i \in 0 .. N : i \notin S}
  <1>1. ASSUME Bad # {}  PROVE FALSE
    <2>1. Bad \in SUBSET Nat
      OBVIOUS
    <2> HIDE DEF Bad
    <2>2. PICK k \in Bad : \A j \in Bad : k <= j
      BY <1>1, <2>1, LeastExists
    <2>3. k \in 0 .. N /\ k \notin S
      BY DEF Bad
    <2>4. k \in 1 .. N /\ k - 1 \in 0 .. N /\ ~(k <= k - 1)
      BY <2>3
    <2>5. k - 1 \in S
      BY <2>2, <2>4 DEF Bad
    <2> QED
      BY <2>3, <2>4, <2>5
  <1> QED
    BY <1>1

Steps(N, V, v, St, Good) ==
    /\ v \in V /\ <<0, v>> \in Good
    /\ \A i \in 1 .. N : \A x \in V :
          <<i - 1, x>> \in Good => St[<<i, x>>] \in V /\ <<i, St[<<i, x>>]>> \in Good

Goes(g, N, V, v, St, Good) ==
    /\ g \in [0 .. N -> V] /\ g[0] = v
    /\ \A i \in 1 .. N : g[i] = St[<<i, g[i - 1]>>]
    /\ \A i \in 0 .. N : <<i, g[i]>> \in Good

LEMMA LoopRuns ==
    ASSUME NEW N \in Nat, NEW V, NEW v, NEW St, NEW Good, Steps(N, V, v, St, Good)
    PROVE  \E g : Goes(g, N, V, v, St, Good)
  <1> DEFINE Runs(g, n) == /\ g[0] = v /\ \A i \in 1 .. n : g[i] = St[<<i, g[i - 1]>>]
                           /\ \A i \in 0 .. n : <<i, g[i]>> \in Good
             S == {n \in 0 .. N : \E g \in [0 .. n -> V] : Runs(g, n)}
  <1>4. v \in V /\ <<0, v>> \in Good
    BY DEF Steps
  <1>1. 0 \in S
    <2> DEFINE h == [i \in 0 .. 0 |-> v]
    <2>1. h \in [0 .. 0 -> V] /\ h[0] = v /\ 0 \in 0 .. N
      BY <1>4
    <2>2. 1 .. 0 = {} /\ 0 .. 0 = {0}
      OBVIOUS
    <2> HIDE DEF h
    <2>3. Runs(h, 0)
      BY <1>4, <2>1, <2>2
    <2> QED
      BY <2>1, <2>3
  <1>2. ASSUME NEW n \in 1 .. N, n - 1 \in S  PROVE n \in S
    <2>1. PICK g \in [0 .. n - 1 -> V] : Runs(g, n - 1)
      BY <1>2
    <2>2. n - 1 \in 0 .. n - 1 /\ n \in 0 .. N
      BY <1>2
    <2> DEFINE y == St[<<n, g[n - 1]>>]
               h == [i \in 0 .. n |-> IF i < n THEN g[i] ELSE y]
    <2>3. y \in V /\ <<n, y>> \in Good
      BY <1>2, <2>1, <2>2 DEF Steps
    <2> HIDE DEF y
    <2>4. h \in [0 .. n -> V] /\ h[n] = y /\ \A i \in 0 .. n - 1 : h[i] = g[i]
      BY <2>2, <2>3
    <2> HIDE DEF h
    <2>5. \A i \in 1 .. n : i = n \/ (i \in 1 .. n - 1 /\ i \in 0 .. n - 1)
      OBVIOUS
    <2>6. \A i \in 1 .. n : i - 1 \in 0 .. n - 1
      OBVIOUS
    <2>7. \A i \in 1 .. n : h[i] = St[<<i, h[i - 1]>>]
      <3>1. h[n] = St[<<n, h[n - 1]>>]
        BY <2>2, <2>4 DEF y
      <3>2. \A i \in 1 .. n - 1 : g[i] = St[<<i, g[i - 1]>>]
        BY <2>1
      <3> QED
        BY <2>4, <2>5, <2>6, <3>1, <3>2
    <2>8. \A i \in 0 .. n : <<i, h[i]>> \in Good
      <3>1. \A i \in 0 .. n : i = n \/ i \in 0 .. n - 1
        OBVIOUS
      <3> QED
        BY <2>1, <2>3, <2>4, <3>1
    <2>9. h[0] = v
      BY <2>1, <2>4
    <2> QED
      BY <2>2, <2>4, <2>7, <2>8, <2>9
  <1> HIDE DEF S
  <1>3. N \in S
    <2>1. 0 .. N \subseteq S
      BY <1>1, <1>2, Induct
    <2> QED
      BY <2>1
  <1> QED
    BY <1>3 DEF S, Goes

LEMMA SameFunction ==
    ASSUME NEW A, NEW S, NEW f \in [A -> S], NEW g \in [A -> S], \A i \in A : f[i] = g[i]
    PROVE  f = g
  OBVIOUS

-----------------------------------------------------------------------------
(* Arithmetic                                                              *)

LEMMA DivLaw == ASSUME NEW a \in Int, NEW b \in Nat \ {0}
                PROVE  /\ a \div b \in Int /\ a % b \in 0 .. b - 1
                       /\ a = b * (a \div b) + (a % b)
                       /\ a \in Nat => a \div b \in Nat
  OBVIOUS

LEMMA MulMono == ASSUME NEW a \in Int, NEW b \in Int, a <= b, NEW c \in Nat
                 PROVE  a * c <= b * c
  OBVIOUS

LEMMA Distribute == ASSUME NEW a \in Int, NEW b \in Int, NEW c \in Int
                    PROVE  (a + b) * c = a * c + b * c /\ (a - b) * c = a * c - b * c
  OBVIOUS

(* Quotient and remainder are unique.                                      *)
LEMMA DivIs == ASSUME NEW b \in Nat \ {0}, NEW q \in Int, NEW r \in 0 .. b - 1
               PROVE  (q * b + r) \div b = q /\ (q * b + r) % b = r
  <1>1. PICK a \in Int : a = q * b + r
    OBVIOUS
  <1>2. PICK p \in Int : p = a \div b
    BY DivLaw
  <1>3. PICK s \in 0 .. b - 1 : s = a % b
    BY DivLaw
  <1>4. a = b * p + s
    BY <1>2, <1>3, DivLaw
  <1>5. b * p = p * b
    OBVIOUS
  <1>6. p = q
    <2>1. CASE p < q
      <3>1. (p + 1) * b <= q * b
        <4>1. p + 1 <= q /\ p + 1 \in Int
          BY <2>1
        <4> QED
          BY <4>1, MulMono
      <3>2. (p + 1) * b = p * b + b
        OBVIOUS
      <3>3. PICK m \in Int : m = p * b
        OBVIOUS
      <3>4. PICK n \in Int : n = q * b
        OBVIOUS
      <3> QED
        BY <1>1, <1>4, <1>5, <3>1, <3>2, <3>3, <3>4
    <2>2. CASE q < p
      <3>1. (q + 1) * b <= p * b
        <4>1. q + 1 <= p /\ q + 1 \in Int
          BY <2>2
        <4> QED
          BY <4>1, MulMono
      <3>2. (q + 1) * b = q * b + b
        OBVIOUS
      <3>3. PICK m \in Int : m = p * b
        OBVIOUS
      <3>4. PICK n \in Int : n = q * b
        OBVIOUS
      <3> QED
        BY <1>1, <1>4, <1>5, <3>1, <3>2, <3>3, <3>4
    <2> QED
      BY <2>1, <2>2
  <1>7. s = r
    <2>1. PICK m \in Int : m = q * b
      OBVIOUS
    <2> QED
      BY <1>1, <1>4, <1>5, <1>6, <2>1
  <1> QED
    BY <1>1, <1>2, <1>3, <1>6, <1>7

-----------------------------------------------------------------------------
(* The screen                                                              *)

W == GRAPHIC_WIDTH
H == GRAPHIC_HEIGHT
Positions == 0 .. FB_SIZE - 1
Buffer == [Positions -> Int]
At2(q) == q[2] * W + q[1]

LEMMA ScreenTyped ==
    /\ W \in Nat \ {0} /\ H \in Nat \ {0} /\ Word \in Nat /\ FB_SIZE \in Nat
    /\ 2 * (W + 3) <= Word /\ 2 * (H + 3) <= Word
    /\ Corners \subseteq 0 .. Word - 1
    /\ Screen = (0 .. W - 1) \X (0 .. H - 1)
  BY RasterAssumption, CallsAssumption DEF FB_SIZE, W, H, Screen

(* Every position of the buffer is a pixel of the screen.                  *)
LEMMA PixelOnScreen == ASSUME NEW p \in Positions PROVE Pixel(p) \in Screen
  <1>1. /\ W \in Nat \ {0} /\ H \in Nat \ {0} /\ p \in Nat
    BY ScreenTyped DEF Positions
  <1>0. p \in Int
    BY <1>1
  <1>2. PICK q \in Nat : q = p \div W
    BY <1>1, <1>0, DivLaw
  <1>3. PICK r \in 0 .. W - 1 : r = p % W
    BY <1>1, <1>0, DivLaw
  <1>4. p = W * q + r
    BY <1>1, <1>0, <1>2, <1>3, DivLaw
  <1>5. p < W * H
    <2>1. PICK n \in Int : n = W * H
      BY <1>1
    <2> QED
      BY <2>1 DEF Positions, FB_SIZE, W, H
  <1>6. q < H
    <2> SUFFICES ASSUME H <= q  PROVE FALSE
      BY <1>1
    <2>1. H * W <= q * W
      BY <1>1, MulMono
    <2>2. H * W = W * H /\ q * W = W * q
      BY <1>1
    <2>3. PICK m \in Int : m = W * H
      BY <1>1
    <2>4. PICK n \in Int : n = W * q
      BY <1>1
    <2> QED
      BY <1>4, <1>5, <2>1, <2>2, <2>3, <2>4
  <1>7. Pixel(p) = <<r, q>>
    BY <1>2, <1>3 DEF Pixel, W
  <1>8. r \in 0 .. W - 1 /\ q \in 0 .. H - 1
    BY <1>1, <1>6
  <1> QED
    BY <1>7, <1>8, ScreenTyped

(* And every pixel is at one.                                              *)
LEMMA PixelAt == ASSUME NEW q \in Screen
                 PROVE  At2(q) \in Positions /\ Pixel(At2(q)) = q
  <1>1. PICK x \in 0 .. W - 1, y \in 0 .. H - 1 : q = <<x, y>>
    BY ScreenTyped
  <1>2. /\ W \in Nat \ {0} /\ H \in Nat \ {0} /\ x \in Nat /\ y \in Nat
    BY ScreenTyped
  <1>3. (y * W + x) \div W = y /\ (y * W + x) % W = x
    BY <1>2, DivIs
  <1>4. (y + 1) * W <= H * W
    <2>1. y + 1 <= H /\ y + 1 \in Int
      BY <1>2
    <2> QED
      BY <1>2, <2>1, MulMono
  <1>5. (y + 1) * W = y * W + W /\ H * W = W * H /\ W * H = FB_SIZE
    BY <1>2 DEF FB_SIZE, W, H
  <1>6. PICK m \in Nat : m = y * W
    BY <1>2
  <1>7. At2(q) = m + x /\ m + x \in Positions
    BY <1>1, <1>2, <1>4, <1>5, <1>6, ScreenTyped DEF At2, Positions
  <1> QED
    BY <1>1, <1>3, <1>6, <1>7 DEF Pixel, W

Shows(r, color) == {Pixel(p) : p \in {q \in DOMAIN r : r[q] = color}}

(* A buffer that has the color at some pixels and nowhere else shows them. *)
LEMMA ShowsIs == ASSUME NEW r \in Buffer, NEW color, NEW S,
                        \A p \in Positions : r[p] = color <=> Pixel(p) \in S
                 PROVE  Shows(r, color) = S \cap Screen
  <1>1. DOMAIN r = Positions
    BY DEF Buffer
  <1>2. ASSUME NEW q \in Shows(r, color)  PROVE q \in S /\ q \in Screen
    BY <1>1, PixelOnScreen DEF Shows
  <1>3. ASSUME NEW q \in S, q \in Screen  PROVE q \in Shows(r, color)
    <2>1. At2(q) \in Positions /\ Pixel(At2(q)) = q
      BY <1>3, PixelAt
    <2>2. r[At2(q)] = color
      BY <2>1
    <2> QED
      BY <1>1, <2>1, <2>2 DEF Shows
  <1> QED
    BY <1>2, <1>3

LEMMA Painting == ASSUME NEW b \in Buffer, NEW pixels, NEW color \in Int
                  PROVE  /\ Paint(b, pixels, color) \in Buffer
                         /\ \A p \in Positions : Paint(b, pixels, color)[p]
                                = IF Pixel(p) \in pixels THEN color ELSE b[p]
  BY DEF Paint, Buffer

LEMMA Cleared == ASSUME NEW color \in Int
                 PROVE  /\ draw_clear(color) \in Buffer
                        /\ \A p \in Positions : draw_clear(color)[p] = color
  BY DEF draw_clear, Buffer, Positions

-----------------------------------------------------------------------------
(* Rectangles                                                              *)

Within2(a, b) == {p \in Screen : p[1] \in a[1] .. b[1] /\ p[2] \in a[2] .. b[2]}
Around(a, b) == {p \in Within2(a, b) : p[1] \in {a[1], b[1]} \/ p[2] \in {a[2], b[2]}}

LEMMA NextIs == ASSUME NEW m \in Corners, NEW n \in Corners, m < n
                PROVE  m \in Nat /\ n \in Nat /\ Next1(m) = m + 1
  <1>1. m \in 0 .. Word - 1 /\ n \in 0 .. Word - 1 /\ Word \in Nat
    BY ScreenTyped
  <1>2. m + 1 \in 0 .. Word - 1
    BY <1>1
  <1>3. (m + 1) % Word = m + 1
    BY <1>1, <1>2
  <1> QED
    BY <1>1, <1>3 DEF Next1

LEMMA RectExact ==
    ASSUME NEW x1 \in Corners, NEW y1 \in Corners, NEW x2 \in Corners, NEW y2 \in Corners,
           x1 < x2, y1 < y2
    PROVE  Shows(draw_rect(Clean, x1, y1, x2, y2, Ink), Ink)
               = Around(<<x1, y1>>, <<x2, y2>>) \ {<<x2, y2>>}
  <1> DEFINE S == ((x1 .. x2 - 1) \X {y1, y2}) \cup ({x1, x2} \X (y1 .. y2 - 1))
             r == draw_rect(Clean, x1, y1, x2, y2, Ink)
  <1>1. x1 \in Nat /\ x2 \in Nat /\ y1 \in Nat /\ y2 \in Nat
    BY NextIs
  <1>2. Clean \in Buffer /\ \A p \in Positions : Clean[p] = 0
    BY Cleared DEF Clean
  <1>3. r \in Buffer /\ \A p \in Positions : r[p] = IF Pixel(p) \in S THEN 1 ELSE Clean[p]
    <2>1. r = Paint(Clean, S, 1)
      BY DEF draw_rect, Ink
    <2> HIDE DEF r, S
    <2> QED
      BY <1>2, <2>1, Painting
  <1> HIDE DEF r, S
  <1>4. Shows(r, Ink) = S \cap Screen
    <2>1. \A p \in Positions : r[p] = Ink <=> Pixel(p) \in S
      BY <1>2, <1>3 DEF Ink
    <2> QED
      BY <1>3, <2>1, ShowsIs
  <1>5. ASSUME NEW p \in Screen
        PROVE  p \in S <=> p \in Around(<<x1, y1>>, <<x2, y2>>) /\ p # <<x2, y2>>
    <2>1. PICK x \in Int, y \in Int : p = <<x, y>>
      BY ScreenTyped
    <2>2. p \in S <=> (x \in x1 .. x2 - 1 /\ y \in {y1, y2})
            \/ (x \in {x1, x2} /\ y \in y1 .. y2 - 1)
      BY <2>1 DEF S
    <2>3. p \in Around(<<x1, y1>>, <<x2, y2>>) <=>
              x \in x1 .. x2 /\ y \in y1 .. y2 /\ (x \in {x1, x2} \/ y \in {y1, y2})
      BY <2>1 DEF Around, Within2
    <2>4. p # <<x2, y2>> <=> x # x2 \/ y # y2
      BY <2>1
    <2> QED
      BY <1>1, <2>2, <2>3, <2>4
  <1>6. Around(<<x1, y1>>, <<x2, y2>>) \subseteq Screen
    BY DEF Around, Within2
  <1> QED
    BY <1>4, <1>5, <1>6 DEF r

LEMMA FillRectExact ==
    ASSUME NEW x1 \in Corners, NEW y1 \in Corners, NEW x2 \in Corners, NEW y2 \in Corners,
           x1 < x2, y1 < y2
    PROVE  LET r == draw_fillrect(Clean, x1, y1, x2, y2, Ink, Fill)
               border == Around(<<x1, y1>>, <<x2, y2>>)
           IN  Shows(r, Ink) = border /\ Shows(r, Fill) = Within2(<<x1, y1>>, <<x2, y2>>) \ border
  <1> DEFINE S == ((x1 .. x2 - 1) \X {y1, y2}) \cup ({x1, x2} \X (y1 .. y2))
             I == (x1 + 1 .. x2 - 1) \X (y1 + 1 .. y2 - 1)
             b == Paint(Clean, S, 1)
             r == draw_fillrect(Clean, x1, y1, x2, y2, Ink, Fill)
             border == Around(<<x1, y1>>, <<x2, y2>>)
             all == Within2(<<x1, y1>>, <<x2, y2>>)
  <1>1. /\ x1 \in Nat /\ x2 \in Nat /\ y1 \in Nat /\ y2 \in Nat
        /\ Next1(x1) = x1 + 1 /\ Next1(y1) = y1 + 1
    BY NextIs
  <1>2. Clean \in Buffer /\ \A p \in Positions : Clean[p] = 0
    BY Cleared DEF Clean
  <1>3. r = Paint(b, I, 2)
    BY <1>1 DEF draw_fillrect, Ink, Fill
  <1> HIDE DEF S, I, r
  <1>4. b \in Buffer /\ \A p \in Positions : b[p] = IF Pixel(p) \in S THEN 1 ELSE Clean[p]
    BY <1>2, Painting
  <1> HIDE DEF b
  <1>5. r \in Buffer /\ \A p \in Positions : r[p] = IF Pixel(p) \in I THEN 2 ELSE b[p]
    BY <1>3, <1>4, Painting
  <1>6. Shows(r, Ink) = (S \ I) \cap Screen
    <2> DEFINE E == S \ I
    <2>1. \A p \in Positions : r[p] = Ink <=> Pixel(p) \in E
      BY <1>2, <1>4, <1>5 DEF Ink
    <2> HIDE DEF E
    <2>2. Shows(r, Ink) = E \cap Screen
      BY <1>5, <2>1, ShowsIs
    <2> QED
      BY <2>2 DEF E
  <1>7. Shows(r, Fill) = I \cap Screen
    <2>1. \A p \in Positions : r[p] = Fill <=> Pixel(p) \in I
      BY <1>2, <1>4, <1>5 DEF Fill
    <2> QED
      BY <1>5, <2>1, ShowsIs
  <1>8. ASSUME NEW p \in Screen
        PROVE  (p \in S \ I <=> p \in border) /\ (p \in I <=> p \in all \ border)
    <2>1. PICK x \in Int, y \in Int : p = <<x, y>>
      BY ScreenTyped
    <2>2. p \in S <=> (x \in x1 .. x2 - 1 /\ y \in {y1, y2}) \/ (x \in {x1, x2} /\ y \in y1 .. y2)
      BY <2>1 DEF S
    <2>3. p \in I <=> x \in x1 + 1 .. x2 - 1 /\ y \in y1 + 1 .. y2 - 1
      BY <2>1 DEF I
    <2>4. p \in all <=> x \in x1 .. x2 /\ y \in y1 .. y2
      BY <2>1 DEF Within2
    <2>5. p \in border <=> p \in all /\ (x \in {x1, x2} \/ y \in {y1, y2})
      BY <2>1 DEF Around
    <2> HIDE DEF border, all
    <2> QED
      BY <1>1, <2>2, <2>3, <2>4, <2>5
  <1>9. border \subseteq Screen /\ all \subseteq Screen
    BY DEF Around, Within2
  <1> HIDE DEF border, all
  <1>10. Shows(r, Ink) = border /\ Shows(r, Fill) = all \ border
    BY <1>6, <1>7, <1>8, <1>9
  <1> QED
    BY <1>10 DEF r, border, all

-----------------------------------------------------------------------------
(* Images                                                                  *)

LEMMA ModIs == ASSUME NEW a \in Int, -Word <= a, a < 2 * Word
               PROVE  a % Word = IF a < 0 THEN a + Word ELSE IF a < Word THEN a ELSE a - Word
  <1>1. Word \in Nat \ {0}
    BY ScreenTyped
  <1>2. CASE a < 0
    <2>1. PICK r \in 0 .. Word - 1 : r = a + Word
      BY <1>1, <1>2
    <2>2. -1 \in Int /\ (-1) * Word + r = a
      BY <1>1, <2>1
    <2> QED
      BY <1>1, <1>2, <2>1, <2>2, DivIs
  <1>3. CASE 0 <= a /\ a < Word
    <2>1. a \in 0 .. Word - 1 /\ 0 * Word + a = a
      BY <1>1, <1>3
    <2> QED
      BY <1>1, <1>3, <2>1, DivIs
  <1>4. CASE Word <= a
    <2>1. PICK r \in 0 .. Word - 1 : r = a - Word
      BY <1>1, <1>4
    <2>2. 1 * Word + r = a
      BY <1>1, <2>1
    <2> QED
      BY <1>1, <1>4, <2>1, <2>2, DivIs
  <1> QED
    BY <1>1, <1>2, <1>3, <1>4

(* A coordinate beside the screen is reached from a wrapped one.           *)
LEMMA Wrapped ==
    ASSUME NEW x \in Corners, NEW u \in Nat, 2 * (u + 4) <= Word
    PROVE  /\ \A j \in 0 .. 2 : (x + j) % Word = u <=> u - AsSigned(x) = j
           /\ u - AsSigned(x) \in 0 .. 2 => (u - x) % Word = u - AsSigned(x)
           /\ AsSigned(x) + 2 - u \in 0 .. 2 => (x + 2 - u) % Word = AsSigned(x) + 2 - u
  <1>1. Word \in Nat /\ x \in 0 .. Word - 1
    BY ScreenTyped
  <1>2. PICK h \in Int : h = Word \div 2 /\ 2 * h <= Word /\ Word <= 2 * h + 1
    BY <1>1
  <1>3. PICK s \in Int : s = AsSigned(x) /\ s = IF x >= h THEN x - Word ELSE x
    <2>1. AsSigned(x) = IF x >= h THEN x - Word ELSE x
      BY <1>2 DEF AsSigned
    <2>2. AsSigned(x) \in Int
      BY <1>1, <2>1
    <2> QED
      BY <2>1, <2>2
  <1>4. ASSUME NEW j \in 0 .. 2  PROVE (x + j) % Word = u <=> u - s = j
    <2>1. (x + j) % Word = IF x + j < Word THEN x + j ELSE x + j - Word
      <3>1. PICK a \in Int : a = x + j
        BY <1>1
      <3>2. -Word <= a /\ a < 2 * Word /\ a >= 0
        BY <1>1, <3>1
      <3>3. a % Word = IF a < Word THEN a ELSE a - Word
        BY <1>1, <3>1, <3>2, ModIs
      <3> QED
        BY <1>1, <3>1, <3>3
    <2> QED
      BY <1>1, <1>2, <1>3, <2>1
  <1>5. ASSUME u - s \in 0 .. 2  PROVE (u - x) % Word = u - s
    <2>1. PICK a \in Int : a = u - x
      BY <1>1
    <2>2. -Word <= a /\ a < Word
      BY <1>1, <2>1
    <2>3. a % Word = IF a < 0 THEN a + Word ELSE a
      BY <1>1, <2>2, ModIs
    <2> QED
      BY <1>1, <1>2, <1>3, <1>5, <2>1, <2>3
  <1>6. ASSUME s + 2 - u \in 0 .. 2  PROVE (x + 2 - u) % Word = s + 2 - u
    <2>1. PICK a \in Int : a = x + 2 - u
      BY <1>1
    <2>2. -Word <= a /\ a < 2 * Word
      BY <1>1, <2>1
    <2>3. a % Word = IF a < 0 THEN a + Word ELSE IF a < Word THEN a ELSE a - Word
      BY <1>1, <2>2, ModIs
    <2> QED
      BY <1>1, <1>2, <1>3, <1>6, <2>1, <2>3
  <1> QED
    BY <1>3, <1>4, <1>5, <1>6

LEMMA SignedTyped == ASSUME NEW x \in Corners PROVE AsSigned(x) \in Int
  <1>1. Word \in Nat /\ x \in Int
    BY ScreenTyped
  <1>2. AsSigned(x) = x \/ AsSigned(x) = x - Word
    BY DEF AsSigned
  <1> QED
    BY <1>1, <1>2

(* The pixels an image covers, and the color it has at each.               *)
LEMMA ImageIs ==
    ASSUME NEW image, NEW x, NEW y, NEW alpha
    PROVE  LET colors == ImageColors(image, x, y, alpha)
           IN  /\ \A q : q \in DOMAIN colors <=>
                      \E i \in 0 .. image.height - 1, j \in 0 .. image.width - 1 :
                          q = <<(x + j) % Word, (y + image.height - i) % Word>>
               /\ \A q \in DOMAIN colors :
                      colors[q] = image.data[(y + image.height - q[2]) % Word][(q[1] - x) % Word]
  BY DEF ImageColors

LEMMA ImageExact ==
    ASSUME NEW x \in Corners, NEW y \in Corners, NEW alpha \in {0, Transparent}, NEW p \in Screen
    PROVE  LET j == p[1] - AsSigned(x)
               i == AsSigned(y) + 2 - p[2]
               shown == i \in 0 .. 1 /\ j \in 0 .. 2 /\ (alpha = 0 => 3 * i + j # 0)
           IN  draw_image_alpha(draw_clear(9), Bitmap, x, y, alpha)[At2(p)]
                   = IF shown THEN 3 * i + j ELSE 9
  <1>1. PICK u \in 0 .. W - 1, v \in 0 .. H - 1 : p = <<u, v>>
    BY ScreenTyped
  <1>2. PICK sx \in Int : sx = AsSigned(x)
    BY SignedTyped
  <1>3. PICK sy \in Int : sy = AsSigned(y)
    BY SignedTyped
  <1> DEFINE j == u - sx
             i == sy + 2 - v
             shown == i \in 0 .. 1 /\ j \in 0 .. 2 /\ (alpha = 0 => 3 * i + j # 0)
             colors == ImageColors(Bitmap, x, y, alpha)
             D == DOMAIN colors
             r == draw_image_alpha(draw_clear(9), Bitmap, x, y, alpha)
  <1>4. u \in Nat /\ v \in Nat /\ 2 * (u + 4) <= Word /\ 2 * (v + 4) <= Word /\ j \in Int
          /\ i \in Int
    BY ScreenTyped
  <1>5. /\ \A l \in 0 .. 2 : (x + l) % Word = u <=> j = l
        /\ j \in 0 .. 2 => (u - x) % Word = j
    BY <1>2, <1>4, Wrapped
  <1>6. /\ \A k \in 0 .. 1 : (y + 2 - k) % Word = v <=> i = k
        /\ i \in 0 .. 1 => (y + 2 - v) % Word = i
    <2>1. /\ \A l \in 0 .. 2 : (y + l) % Word = v <=> v - sy = l
          /\ i \in 0 .. 2 => (y + 2 - v) % Word = i
      BY <1>3, <1>4, Wrapped
    <2>2. ASSUME NEW k \in 0 .. 1  PROVE (y + 2 - k) % Word = v <=> i = k
      <3>1. PICK l \in 0 .. 2 : l = 2 - k
        OBVIOUS
      <3>2. y \in Int
        BY ScreenTyped
      <3>3. y + 2 - k = y + l
        BY <3>1, <3>2
      <3>4. (y + 2 - k) % Word = (y + l) % Word
        BY <3>3
      <3>5. v - sy = l <=> i = k
        BY <1>4, <3>1
      <3> QED
        BY <2>1, <3>4, <3>5
    <2>3. i \in 0 .. 1 => i \in 0 .. 2
      BY <1>4
    <2> HIDE DEF i
    <2> QED
      BY <2>1, <2>2, <2>3
  <1> HIDE DEF i, j
  <1>7. /\ \A q : q \in D <=> \E k \in 0 .. 1, l \in 0 .. 2 :
                                  q = <<(x + l) % Word, (y + 2 - k) % Word>>
        /\ \A q \in D : colors[q] = Bitmap.data[(y + 2 - q[2]) % Word][(q[1] - x) % Word]
    <2>1. Bitmap.height = 2 /\ Bitmap.width = 3
      BY DEF Bitmap
    <2>2. Bitmap.height - 1 = 1 /\ Bitmap.width - 1 = 2
      BY <2>1
    <2> HIDE DEF colors
    <2>3. /\ \A q : q \in D <=> \E k \in 0 .. Bitmap.height - 1, l \in 0 .. Bitmap.width - 1 :
                                    q = <<(x + l) % Word, (y + Bitmap.height - k) % Word>>
          /\ \A q \in D : colors[q]
                             = Bitmap.data[(y + Bitmap.height - q[2]) % Word][(q[1] - x) % Word]
      BY ImageIs DEF colors
    <2> HIDE DEF D
    <2> QED
      BY <2>1, <2>2, <2>3
  <1> HIDE DEF D, colors
  <1>8. p \in D <=> i \in 0 .. 1 /\ j \in 0 .. 2
    <2>1. p \in D <=> \E k \in 0 .. 1, l \in 0 .. 2 : (x + l) % Word = u /\ (y + 2 - k) % Word = v
      BY <1>1, <1>7
    <2>2. ASSUME p \in D  PROVE i \in 0 .. 1 /\ j \in 0 .. 2
      <3>1. PICK k \in 0 .. 1, l \in 0 .. 2 : (x + l) % Word = u /\ (y + 2 - k) % Word = v
        BY <2>1, <2>2
      <3> QED
        BY <1>5, <1>6, <3>1
    <2>3. ASSUME i \in 0 .. 1, j \in 0 .. 2  PROVE p \in D
      <3>1. (x + j) % Word = u /\ (y + 2 - i) % Word = v
        BY <1>5, <1>6, <2>3
      <3> QED
        BY <2>1, <2>3, <3>1
    <2> QED
      BY <2>2, <2>3
  <1>9. p \in D => colors[p] = 3 * i + j
    <2> SUFFICES ASSUME p \in D  PROVE colors[p] = 3 * i + j
      OBVIOUS
    <2>1. (u - x) % Word = j /\ (y + 2 - v) % Word = i
      BY <1>5, <1>6, <1>8
    <2>2. colors[p] = Bitmap.data[i][j]
      BY <1>1, <1>7, <2>1
    <2> QED
      BY <1>8, <2>2 DEF Bitmap
  <1>10. At2(p) \in Positions /\ Pixel(At2(p)) = p
    BY PixelAt
  <1>11. r[At2(p)] = IF p \in D /\ (alpha = Transparent \/ alpha # colors[p]) THEN colors[p] ELSE 9
    <2>1. r = [q \in Positions |-> IF Pixel(q) \in D /\ (alpha = Transparent
            \/ alpha # colors[Pixel(q)])
                                     THEN colors[Pixel(q)] ELSE draw_clear(9)[q]]
      BY Cleared DEF draw_image_alpha, Buffer, D, colors
    <2> HIDE DEF r, colors
    <2> QED
      BY <1>10, <2>1, Cleared
  <1>12. alpha = Transparent <=> alpha # 0
    BY ScreenTyped DEF Transparent
  <1> HIDE DEF r, colors
  <1>13. r[At2(p)] = IF shown THEN 3 * i + j ELSE 9
    BY <1>8, <1>9, <1>11, <1>12
  <1> QED
    BY <1>1, <1>2, <1>3, <1>13 DEF r, i, j

-----------------------------------------------------------------------------
(* Lines                                                                   *)

LEMMA Half == ASSUME NEW n \in Nat
              PROVE  n \div 2 \in Nat /\ 2 * (n \div 2) <= n /\ n <= 2 * (n \div 2) + 1
  OBVIOUS

(* After t columns of dx the line has climbed k rows of dy, and owes e.    *)
Climbed(dx, dy, t, k, e) ==
    /\ k \in Nat /\ e \in Int /\ -dx < e /\ e <= 0
    /\ e + (dx \div 2) = t * dy - k * dx

LEMMA Climbs ==
    ASSUME NEW dx \in Nat \ {0}, NEW dy \in 0 .. dx, NEW t \in Nat, NEW k, NEW e,
           Climbed(dx, dy, t, k, e)
    PROVE  IF e + dy > 0 THEN Climbed(dx, dy, t + 1, k + 1, e + dy - dx)
           ELSE Climbed(dx, dy, t + 1, k, e + dy)
  <1>1. k \in Nat /\ e \in Int /\ -dx < e /\ e <= 0 /\ e + (dx \div 2) = t * dy - k * dx
    BY DEF Climbed
  <1>2. dx \in Nat /\ dx > 0 /\ dy \in Nat /\ dy <= dx
    OBVIOUS
  <1>3. (t + 1) * dy = t * dy + dy /\ (k + 1) * dx = k * dx + dx
    BY <1>1, <1>2
  <1>4. PICK a \in Int : a = t * dy
    BY <1>2
  <1>5. PICK b \in Int : b = k * dx
    BY <1>1, <1>2
  <1>6. PICK h \in Nat : h = dx \div 2
    BY <1>2, Half
  <1>7. CASE e + dy > 0
    <2>1. e + dy - dx + h = (a + dy) - (b + dx)
      BY <1>1, <1>2, <1>4, <1>5, <1>6
    <2>2. e + dy - dx + (dx \div 2) = (t + 1) * dy - (k + 1) * dx
      BY <1>3, <1>4, <1>5, <1>6, <2>1
    <2>3. e + dy - dx \in Int /\ -dx < e + dy - dx /\ e + dy - dx <= 0 /\ k + 1 \in Nat
      BY <1>1, <1>2, <1>7
    <2> QED
      BY <1>7, <2>2, <2>3 DEF Climbed
  <1>8. CASE ~(e + dy > 0)
    <2>1. e + dy + h = (a + dy) - b
      BY <1>1, <1>2, <1>4, <1>5, <1>6
    <2>2. e + dy + (dx \div 2) = (t + 1) * dy - k * dx
      BY <1>3, <1>4, <1>5, <1>6, <2>1
    <2>3. e + dy \in Int /\ -dx < e + dy /\ e + dy <= 0
      BY <1>1, <1>2, <1>8
    <2> QED
      BY <1>1, <1>8, <2>2, <2>3 DEF Climbed
  <1> QED
    BY <1>7, <1>8

(* The line never climbs past its end, and is off it by half a row at most. *)
LEMMA Rounding ==
    ASSUME NEW dx \in Nat \ {0}, NEW dy \in 0 .. dx, NEW t \in 0 .. dx - 1, NEW k, NEW e,
           Climbed(dx, dy, t, k, e)
    PROVE  k \in 0 .. dy /\ 2 * Abs(k * dx - t * dy) <= dx
  <1>1. k \in Nat /\ e \in Int /\ -dx < e /\ e <= 0 /\ e + (dx \div 2) = t * dy - k * dx
    BY DEF Climbed
  <1>2. dx \in Nat /\ dx > 0 /\ dy \in Nat /\ dy <= dx /\ t \in Nat /\ t <= dx
    OBVIOUS
  <1>3. PICK a \in Int : a = t * dy
    BY <1>2
  <1>4. PICK b \in Int : b = k * dx
    BY <1>1, <1>2
  <1>5. PICK h \in Nat : h = dx \div 2 /\ 2 * h <= dx /\ dx <= 2 * h + 1
    BY <1>2, Half
  <1>6. e + h = a - b
    BY <1>1, <1>3, <1>4, <1>5
  <1>7. k <= dy
    <2> SUFFICES ASSUME dy + 1 <= k  PROVE FALSE
      BY <1>1, <1>2
    <2>1. (dy + 1) * dx <= k * dx
      BY <1>1, <1>2, MulMono
    <2>2. (dy + 1) * dx = dy * dx + dx
      BY <1>2
    <2>3. t * dy <= dx * dy
      BY <1>2, MulMono
    <2>4. PICK c \in Int : c = dx * dy /\ c = dy * dx
      BY <1>2
    <2> QED
      BY <1>1, <1>2, <1>3, <1>4, <1>5, <1>6, <2>1, <2>2, <2>3, <2>4
  <1>8. PICK n \in Int : n = b - a /\ 2 * n <= dx /\ -dx <= 2 * n
    BY <1>1, <1>2, <1>5, <1>6
  <1>9. 2 * Abs(n) <= dx
    BY <1>2, <1>8 DEF Abs
  <1> QED
    BY <1>1, <1>2, <1>3, <1>4, <1>7, <1>8, <1>9

Rise(o) == Abs(o.to[2] - o.from[2])
Run(o) == o.to[1] - o.from[1]
Way(o) == IF o.from[2] < o.to[2] THEN 1 ELSE -1
Columns(o) == o.from[1] .. o.to[1] - 1

(* The walk of draw_line from column to column.                            *)
Walks(o, w) ==
    w = [x \in Columns(o) |->
            IF x = o.from[1] THEN [y |-> o.from[2], error |-> -(Run(o) \div 2)]
            ELSE Advance(w[x - 1], Run(o), Rise(o), Way(o))]

Slanted(o) ==
    /\ o.from[1] \in Int /\ o.to[1] \in Int /\ o.from[2] \in Int /\ o.to[2] \in Int
    /\ o.from[1] < o.to[1] /\ Rise(o) <= Run(o)

LEMMA SlantedTyped ==
    ASSUME NEW o, Slanted(o)
    PROVE  /\ Run(o) \in Nat \ {0} /\ Rise(o) \in 0 .. Run(o) /\ Way(o) \in {-1, 1}
           /\ o.to[2] - o.from[2] = Way(o) * Rise(o)
  <1>1. PICK d \in Int : d = o.to[2] - o.from[2]
    BY DEF Slanted
  <1>2. Run(o) \in Nat \ {0}
    BY DEF Slanted, Run
  <1>3. Abs(d) = IF d < 0 THEN -d ELSE d
    BY DEF Abs
  <1>4. Rise(o) \in Nat /\ Rise(o) <= Run(o) /\ Rise(o) = Abs(d)
    BY <1>1, <1>3 DEF Slanted, Rise
  <1>5. Way(o) = (IF d > 0 THEN 1 ELSE -1)
    BY <1>1 DEF Way, Slanted
  <1> QED
    BY <1>1, <1>2, <1>3, <1>4, <1>5

WalkState == [y : Int, error : Int]

LEMMA AdvanceTyped == ASSUME NEW w \in WalkState, NEW a \in Int, NEW b \in Int, NEW c \in Int
                      PROVE  Advance(w, a, b, c) \in WalkState
  <1>1. PICK e \in Int : e = w.error + b
    BY DEF WalkState
  <1>2. e - a \in Int /\ w.y + c \in Int /\ w.y \in Int
    BY DEF WalkState
  <1> QED
    BY <1>1, <1>2 DEF Advance, WalkState

LEMMA AdvanceIs == ASSUME NEW z, z.error \in Int, z.y \in Int,
                          NEW a \in Int, NEW b \in Int, NEW c \in Int
                   PROVE  /\ Advance(z, a, b, c).y = IF z.error + b > 0 THEN z.y + c ELSE z.y
                          /\ Advance(z, a, b, c).error
                                 = IF z.error + b > 0 THEN z.error + b - a ELSE z.error + b
  BY DEF Advance

LEMMA WalkExists == ASSUME NEW o, Slanted(o) PROVE \E w : Walks(o, w)
  <1> DEFINE N == Run(o) - 1
             f == o.from[1]
             v == [y |-> o.from[2], error |-> -(Run(o) \div 2)]
             Op(z) == Advance(z, Run(o), Rise(o), Way(o))
             St == [q \in (1 .. N) \X WalkState |-> Op(q[2])]
             Good == (0 .. N) \X WalkState
  <1>1. /\ Run(o) \in Nat \ {0} /\ Rise(o) \in Int /\ Way(o) \in Int /\ Run(o) \in Int
        /\ f \in Int /\ o.to[1] \in Int /\ Run(o) = o.to[1] - f /\ o.from[2] \in Int
    BY SlantedTyped DEF Slanted, Run
  <1>2. N \in Nat /\ o.to[1] - 1 = f + N
    BY <1>1
  <1>3. v \in WalkState
    <2>1. PICK h \in Int : h = -(Run(o) \div 2)
      BY <1>1, Half
    <2> QED
      BY <1>1, <2>1 DEF WalkState
  <1>4. \A z \in WalkState : Op(z) \in WalkState
    BY <1>1, AdvanceTyped
  <1> HIDE DEF v, Op, N, f
  <1>5. Steps(N, WalkState, v, St, Good)
    <2>1. <<0, v>> \in Good
      BY <1>2, <1>3
    <2>2. ASSUME NEW i \in 1 .. N, NEW z \in WalkState
          PROVE  St[<<i, z>>] \in WalkState /\ <<i, St[<<i, z>>]>> \in Good
      <3>1. St[<<i, z>>] = Op(z) /\ i \in 0 .. N
        BY <1>2
      <3> QED
        BY <1>4, <3>1
    <2> HIDE DEF St, Good
    <2> QED
      BY <1>3, <2>1, <2>2 DEF Steps
  <1>6. PICK g : Goes(g, N, WalkState, v, St, Good)
    <2> HIDE DEF St, Good
    <2> QED
      BY <1>2, <1>5, LoopRuns
  <1>7. g[0] = v /\ \A i \in 1 .. N : g[i] = Op(g[i - 1])
    <2>1. ASSUME NEW i \in 1 .. N  PROVE g[i] = Op(g[i - 1])
      <3>1. i - 1 \in 0 .. N
        BY <1>2
      <3>2. g[i - 1] \in WalkState /\ g[i] = St[<<i, g[i - 1]>>]
        BY <1>6, <3>1 DEF Goes
      <3> QED
        BY <3>2
    <2> QED
      BY <1>6, <2>1 DEF Goes
  <1> DEFINE w == [x \in Columns(o) |-> g[x - f]]
  <1>8. Columns(o) = f .. f + N
    BY <1>2 DEF Columns, f
  <1>9. ASSUME NEW x \in Columns(o)  PROVE w[x] = IF x = f THEN v ELSE Op(w[x - 1])
    <2>1. CASE x = f
      <3>1. x - f = 0
        BY <1>1, <1>8, <2>1
      <3> QED
        BY <1>7, <2>1, <3>1
    <2>2. CASE x # f
      <3>0. x \in Int /\ f + 1 <= x /\ x <= f + N
        BY <1>1, <1>2, <1>8, <2>2
      <3>4. x - 1 \in f .. f + N
        BY <1>1, <1>2, <3>0
      <3>1. x - f \in 1 .. N /\ x - 1 \in Columns(o) /\ x - 1 - f = x - f - 1
        BY <1>1, <1>2, <1>8, <3>0, <3>4
      <3>2. g[x - f] = Op(g[x - f - 1])
        BY <1>7, <3>1
      <3>3. w[x - 1] = g[x - f - 1]
        BY <3>1
      <3> QED
        BY <2>2, <3>2, <3>3
    <2> QED
      BY <2>1, <2>2
  <1>10. w = [x \in Columns(o) |-> IF x = f THEN v ELSE Op(w[x - 1])]
    <2>1. w = [x \in Columns(o) |-> w[x]]
      OBVIOUS
    <2> HIDE DEF w
    <2> QED
      BY <1>9, <2>1
  <1> HIDE DEF w
  <1>11. Walks(o, w)
    BY <1>10 DEF Walks, v, Op, f
  <1> QED
    BY <1>11

(* Where the walk is at a column.                                          *)
On(o, w, x) ==
    \E k : /\ w[x].y = o.from[2] + Way(o) * k
           /\ Climbed(Run(o), Rise(o), x - o.from[1], k, w[x].error)

LEMMA WalkOn == ASSUME NEW o, Slanted(o), NEW w, Walks(o, w)
                PROVE  \A x \in Columns(o) : On(o, w, x)
  <1> DEFINE N == Run(o) - 1
             f == o.from[1]
             S == {n \in 0 .. N : On(o, w, f + n)}
  <1>1. /\ Run(o) \in Nat \ {0} /\ Rise(o) \in 0 .. Run(o) /\ Way(o) \in {-1, 1}
        /\ f \in Int /\ o.to[1] \in Int /\ Run(o) = o.to[1] - f /\ o.from[2] \in Int
    BY SlantedTyped DEF Slanted, Run
  <1>2. N \in Nat /\ Columns(o) = f .. f + N
    BY <1>1 DEF Columns
  <1> HIDE DEF N, f
  <1>3. 0 \in S
    <2>1. f + 0 = f /\ f - f = 0 /\ f \in Columns(o)
      BY <1>1, <1>2
    <2>2. w[f] = [y |-> o.from[2], error |-> -(Run(o) \div 2)]
      BY <2>1 DEF Walks, f
    <2>3. PICK h \in Nat : h = Run(o) \div 2 /\ 2 * h <= Run(o)
      BY <1>1, Half
    <2>4. Climbed(Run(o), Rise(o), 0, 0, -h)
      <3>1. -h \in Int /\ -Run(o) < -h /\ -h <= 0 /\ -h + h = 0
        BY <1>1, <2>3
      <3>2. 0 * Rise(o) - 0 * Run(o) = 0
        BY <1>1
      <3> QED
        BY <2>3, <3>1, <3>2 DEF Climbed
    <2>5. w[f].y = o.from[2] + Way(o) * 0
      BY <1>1, <2>2
    <2>6. w[f].error = -h
      BY <2>2, <2>3
    <2>7. On(o, w, f)
      BY <2>1, <2>4, <2>5, <2>6 DEF On, f
    <2> QED
      BY <1>2, <2>1, <2>7
  <1>4. ASSUME NEW n \in 1 .. N, n - 1 \in S  PROVE n \in S
    <2>1. PICK x \in Int : x = f + n
      BY <1>1
    <2>2. x \in Columns(o) /\ x # f /\ f + (n - 1) = x - 1 /\ x - f = n /\ (x - 1) - f = n - 1
      <3>1. n \in Int /\ 1 <= n /\ n <= N
        BY <1>2
      <3>2. x \in f .. f + N
        BY <1>1, <1>2, <2>1, <3>1
      <3>3. x \in Columns(o)
        BY <1>1, <1>2, <3>2
      <3>4. x # f /\ f + (n - 1) = x - 1 /\ x - f = n /\ (x - 1) - f = n - 1
        BY <1>1, <2>1, <3>1
      <3> QED
        BY <3>3, <3>4
    <2>3. PICK k : /\ w[x - 1].y = o.from[2] + Way(o) * k
                   /\ Climbed(Run(o), Rise(o), n - 1, k, w[x - 1].error)
      <3>1. On(o, w, x - 1)
        BY <1>4, <2>2
      <3> QED
        BY <2>2, <3>1 DEF On, f
    <2> DEFINE e == w[x - 1].error
    <2>4. w[x] = Advance(w[x - 1], Run(o), Rise(o), Way(o))
      BY <2>2 DEF Walks, f
    <2>5. /\ w[x].y = IF e + Rise(o) > 0 THEN w[x - 1].y + Way(o) ELSE w[x - 1].y
          /\ w[x].error = IF e + Rise(o) > 0 THEN e + Rise(o) - Run(o) ELSE e + Rise(o)
      <3>1. w[x - 1].error \in Int /\ k \in Nat
        BY <2>3 DEF Climbed
      <3>2. w[x - 1].y \in Int /\ Run(o) \in Int /\ Rise(o) \in Int /\ Way(o) \in Int
        BY <1>1, <2>3, <3>1
      <3> QED
        BY <2>4, <3>1, <3>2, AdvanceIs
    <2>6. n - 1 \in Nat /\ n - 1 + 1 = n /\ k \in Nat
      BY <2>3 DEF Climbed
    <2> HIDE DEF e
    <2>7. IF e + Rise(o) > 0 THEN Climbed(Run(o), Rise(o), n, k + 1, e + Rise(o) - Run(o))
          ELSE Climbed(Run(o), Rise(o), n, k, e + Rise(o))
      <3>1. Climbed(Run(o), Rise(o), n - 1, k, e)
        BY <2>3 DEF e
      <3>2. IF e + Rise(o) > 0 THEN Climbed(Run(o), Rise(o), n - 1 + 1, k + 1, e + Rise(o) - Run(o))
            ELSE Climbed(Run(o), Rise(o), n - 1 + 1, k, e + Rise(o))
        BY <1>1, <2>6, <3>1, Climbs
      <3> QED
        BY <2>6, <3>2
    <2>8. o.from[2] + Way(o) * k + Way(o) = o.from[2] + Way(o) * (k + 1)
      BY <1>1, <2>6
    <2>9. On(o, w, x)
      <3>1. CASE e + Rise(o) > 0
        <4>1. w[x].y = o.from[2] + Way(o) * (k + 1)
          BY <2>3, <2>5, <2>8, <3>1
        <4>2. Climbed(Run(o), Rise(o), x - f, k + 1, w[x].error)
          BY <2>2, <2>5, <2>7, <3>1
        <4> QED
          BY <4>1, <4>2 DEF On, f
      <3>2. CASE ~(e + Rise(o) > 0)
        <4>1. w[x].y = o.from[2] + Way(o) * k
          BY <2>3, <2>5, <3>2
        <4>2. Climbed(Run(o), Rise(o), x - f, k, w[x].error)
          BY <2>2, <2>5, <2>7, <3>2
        <4> QED
          BY <4>1, <4>2 DEF On, f
      <3> QED
        BY <3>1, <3>2
    <2> QED
      BY <1>2, <2>1, <2>9
  <1> HIDE DEF S
  <1>5. 0 .. N \subseteq S
    BY <1>2, <1>3, <1>4, Induct
  <1>6. ASSUME NEW x \in Columns(o)  PROVE On(o, w, x)
    <2>1. x - f \in 0 .. N /\ f + (x - f) = x
      BY <1>1, <1>2
    <2> QED
      BY <1>5, <2>1 DEF S
  <1> QED
    BY <1>6

(* The row of the line at each column: between its ends, and half a row off *)
(* the segment at most.                                                     *)
Crossed(o, x, y) == (y - o.from[2]) * Run(o) - (x - o.from[1]) * (o.to[2] - o.from[2])
Between(a, b) == IF a < b THEN a .. b ELSE b .. a

\* Whatever lies between two places below a bound is below it too.
LEMMA BetweenBelow ==
    ASSUME NEW K \in Nat, NEW u \in 0 .. K - 1, NEW v \in 0 .. K - 1, NEW c \in Between(u, v)
    PROVE  c \in 0 .. K - 1
  <1>1. CASE u < v
    <2>1. c \in u .. v
      BY <1>1 DEF Between
    <2> QED
      BY <2>1
  <1>2. CASE ~(u < v)
    <2>1. c \in v .. u
      BY <1>2 DEF Between
    <2> QED
      BY <2>1
  <1> QED
    BY <1>1, <1>2

RowsOf(o, r) ==
    /\ r \in [Columns(o) -> Int]
    /\ \A x \in Columns(o) : /\ r[x] \in Between(o.from[2], o.to[2])
                             /\ 2 * Abs(Crossed(o, x, r[x])) <= Run(o)

LEMMA LineRows ==
    ASSUME NEW o, Slanted(o)
    PROVE  \E r : RowsOf(o, r) /\ BresenhamPixels(o)
                      = {IF o.steep THEN <<r[x], x>> ELSE <<x, r[x]>> : x \in Columns(o)}
  <1> DEFINE w == CHOOSE f : Walks(o, f)
             r == [x \in Columns(o) |-> w[x].y]
  <1>1. BresenhamPixels(o) = {IF o.steep THEN <<w[x].y, x>> ELSE <<x, w[x].y>> : x \in DOMAIN w}
    BY DEF BresenhamPixels, Walks, Run, Rise, Way, Columns
  <1>2. Walks(o, w)
    BY WalkExists
  <1> HIDE DEF w
  <1>3. DOMAIN w = Columns(o)
    BY <1>2 DEF Walks
  <1>4. /\ Run(o) \in Nat \ {0} /\ Rise(o) \in 0 .. Run(o) /\ Way(o) \in {-1, 1}
        /\ o.to[2] - o.from[2] = Way(o) * Rise(o)
        /\ o.from[1] \in Int /\ o.to[1] \in Int /\ Run(o) = o.to[1] - o.from[1]
        /\ o.from[2] \in Int /\ o.to[2] \in Int
    BY SlantedTyped DEF Slanted, Run
  <1>5. ASSUME NEW x \in Columns(o)
        PROVE  /\ w[x].y \in Int /\ w[x].y \in Between(o.from[2], o.to[2])
               /\ 2 * Abs(Crossed(o, x, w[x].y)) <= Run(o)
    <2>1. PICK k : /\ w[x].y = o.from[2] + Way(o) * k
                   /\ Climbed(Run(o), Rise(o), x - o.from[1], k, w[x].error)
      BY <1>2, WalkOn DEF On
    <2>2. PICK t \in 0 .. Run(o) - 1 : t = x - o.from[1]
      BY <1>4 DEF Columns
    <2>3. k \in 0 .. Rise(o) /\ 2 * Abs(k * Run(o) - t * Rise(o)) <= Run(o)
      BY <1>4, <2>1, <2>2, Rounding
    <2>4. w[x].y \in Int
      BY <1>4, <2>1, <2>3
    <2>5. w[x].y \in Between(o.from[2], o.to[2])
      <3>1. PICK a \in Int : a = o.from[2]
        BY <1>4
      <3>2. PICK b \in Int : b = o.to[2]
        BY <1>4
      <3>3. PICK n \in Nat : n = Rise(o)
        BY <1>4
      <3>4. CASE Way(o) = 1
        <4>1. 1 * k = k /\ 1 * n = n
          BY <2>3, <3>3
        <4>2. w[x].y = a + k /\ b - a = n
          BY <1>4, <2>1, <3>1, <3>2, <3>3, <3>4, <4>1
        <4>3. a < b
          BY <3>1, <3>2, <3>4 DEF Way
        <4> QED
          BY <2>3, <3>1, <3>2, <3>3, <4>2, <4>3 DEF Between
      <3>5. CASE Way(o) = -1
        <4>1. (-1) * k = -k /\ (-1) * n = -n
          BY <2>3, <3>3
        <4>2. w[x].y = a - k /\ b - a = -n
          <5>1. w[x].y = a + (-1) * k /\ b - a = (-1) * n
            BY <1>4, <2>1, <3>1, <3>2, <3>3, <3>5
          <5> QED
            BY <2>3, <4>1, <5>1
        <4>3. ~(a < b)
          BY <3>1, <3>2, <3>5 DEF Way
        <4> QED
          BY <2>3, <3>1, <3>2, <3>3, <4>2, <4>3 DEF Between
      <3> QED
        BY <1>4, <3>4, <3>5
    <2>6. 2 * Abs(Crossed(o, x, w[x].y)) <= Run(o)
      <3>1. PICK a \in Int : a = k * Run(o)
        BY <1>4, <2>3
      <3>2. PICK b \in Int : b = t * Rise(o)
        BY <1>4, <2>2
      <3>3. Crossed(o, x, w[x].y) = Way(o) * (a - b)
        <4>1. w[x].y - o.from[2] = Way(o) * k
          BY <1>4, <2>1, <2>3
        <4>2. Crossed(o, x, w[x].y) = (Way(o) * k) * Run(o) - t * (Way(o) * Rise(o))
          BY <1>4, <2>2, <4>1 DEF Crossed
        <4>3. CASE Way(o) = 1
          <5>1. Way(o) * k = k /\ Way(o) * Rise(o) = Rise(o) /\ Way(o) * (a - b) = a - b
            BY <1>4, <2>3, <4>3
          <5> QED
            BY <3>1, <3>2, <4>2, <5>1
        <4>4. CASE Way(o) = -1
          <5>1. Way(o) * k = -k /\ Way(o) * Rise(o) = -Rise(o) /\ Way(o) * (a - b) = -(a - b)
            BY <1>4, <2>3, <4>4
          <5>2. (-k) * Run(o) = -(k * Run(o)) /\ t * (-Rise(o)) = -(t * Rise(o))
            BY <1>4, <2>2, <2>3
          <5> QED
            BY <3>1, <3>2, <4>2, <5>1, <5>2
        <4> QED
          BY <1>4, <4>3, <4>4
      <3>4. 2 * Abs(a - b) <= Run(o)
        BY <2>3, <3>1, <3>2
      <3>5. PICK c \in Int : c = a - b
        OBVIOUS
      <3>6. Abs(Way(o) * c) = Abs(c)
        <4>1. Way(o) * c = c \/ Way(o) * c = -c
          BY <1>4
        <4> QED
          BY <4>1 DEF Abs
      <3> QED
        BY <3>3, <3>4, <3>5, <3>6
    <2> QED
      BY <2>4, <2>5, <2>6
  <1>6. RowsOf(o, r)
    BY <1>5 DEF RowsOf
  <1>7. BresenhamPixels(o) = {IF o.steep THEN <<r[x], x>> ELSE <<x, r[x]>> : x \in Columns(o)}
    BY <1>1, <1>3
  <1> HIDE DEF r
  <1> QED
    BY <1>6, <1>7

(* What is painted at one row for each column is counted by its columns.   *)
Places(E, F) == {F[x] : x \in E}
OnAxis(P, k) == {p[k] : p \in P}

LEMMA OnePerColumn ==
    ASSUME NEW E, IsFiniteSet(E), NEW F, NEW k, \A x \in E : F[x][k] = x
    PROVE  OnAxis(Places(E, F), k) = E /\ Cardinality(Places(E, F)) = Cardinality(E)
  <1> DEFINE P == Places(E, F)
             G == [x \in E |-> F[x]]
  <1>1. OnAxis(P, k) = E
    BY DEF OnAxis, Places
  <1>2. G \in [E -> P] /\ \A x, y \in E : G[x] = G[y] => x = y
    <2>1. \A x \in E : G[x][k] = x
      OBVIOUS
    <2>2. G \in [E -> P]
      BY DEF Places
    <2> HIDE DEF G, P
    <2> QED
      BY <2>1, <2>2
  <1>3. \A p \in P : \E x \in E : G[x] = p
    BY DEF Places
  <1>4. G \in Bijection(E, P)
    <2> HIDE DEF G, P
    <2> QED
      BY <1>2, <1>3 DEF Bijection, Injection, Surjection, IsInjective
  <1>5. Cardinality(P) = Cardinality(E)
    <2> HIDE DEF G, P
    <2> QED
      BY <1>4, FS_Bijection DEF ExistsBijection
  <1> QED
    BY <1>1, <1>5

LEMMA Spans == ASSUME NEW a \in Int, NEW b \in Int
               PROVE  IsFiniteSet(Between(a, b)) /\ Cardinality(Between(a, b)) = Abs(b - a) + 1
  <1>1. CASE a < b
    <2>1. Between(a, b) = a .. b /\ Abs(b - a) = b - a /\ ~(a > b)
      BY <1>1 DEF Between, Abs
    <2> QED
      BY <2>1, FS_Interval
  <1>2. CASE ~(a < b)
    <2>1. Between(a, b) = b .. a /\ ~(b > a)
      BY <1>2 DEF Between
    <2>2. Abs(b - a) = a - b
      BY <1>2 DEF Abs
    <2> QED
      BY <2>1, <2>2, FS_Interval
  <1> QED
    BY <1>1, <1>2

(* The ends of a line, without the larger one.                             *)
HalfOpen(a, b) == Between(a, b) \ {IF a < b THEN b ELSE a}

(* A set of pixels is the line from a to b, which runs along its axis long, *)
(* or what there is of it lies along the segment.                           *)
LineIs(a, b, P, long) ==
    /\ OnAxis(P, long) = HalfOpen(a[long], b[long])
    /\ Cardinality(P) = Cardinality(HalfOpen(a[long], b[long]))

Along(a, b, P, long, short) ==
    \A p \in P : /\ p[long] \in Between(a[long], b[long])
                 /\ p[short] \in Between(a[short], b[short])
                 /\ 2 * Abs((p[short] - a[short]) * (b[long] - a[long])
                            - (p[long] - a[long]) * (b[short] - a[short]))
                        <= Abs(b[long] - a[long])

LEMMA BetweenTurned == ASSUME NEW a \in Int, NEW b \in Int
                       PROVE  Between(a, b) = Between(b, a)
  <1>1. CASE a < b
    <2>1. ~(b < a)
      BY <1>1
    <2> QED
      BY <1>1, <2>1 DEF Between
  <1>2. CASE b < a
    <2>1. ~(a < b)
      BY <1>2
    <2> QED
      BY <1>2, <2>1 DEF Between
  <1>3. CASE a = b
    BY <1>3
  <1> QED
    BY <1>1, <1>2, <1>3

LEMMA HalfOpenIs == ASSUME NEW a \in Int, NEW b \in Int, a <= b
                    PROVE  /\ HalfOpen(a, b) = a .. b - 1 /\ HalfOpen(b, a) = a .. b - 1
                           /\ IsFiniteSet(a .. b - 1)
  <1>1. b - 1 \in Int
    OBVIOUS
  <1>2. HalfOpen(a, b) = a .. b - 1 /\ HalfOpen(b, a) = a .. b - 1
    BY DEF HalfOpen, Between
  <1> QED
    BY <1>1, <1>2, FS_Interval

(* Seen from the other end, a pixel is as far off.                         *)
LEMMA Turned == ASSUME NEW u \in Int, NEW v \in Int, NEW m \in Int, NEW n \in Int
                PROVE  (u + n) * m - (v + m) * n = -(u * (-m) - v * (-n))
  <1>1. (u + n) * m = u * m + n * m /\ (v + m) * n = v * n + m * n
    OBVIOUS
  <1>2. u * (-m) = -(u * m) /\ v * (-n) = -(v * n) /\ n * m = m * n
    OBVIOUS
  <1>3. PICK a \in Int : a = u * m
    OBVIOUS
  <1>4. PICK b \in Int : b = v * n
    OBVIOUS
  <1>5. PICK c \in Int : c = m * n
    OBVIOUS
  <1> QED
    BY <1>1, <1>2, <1>3, <1>4, <1>5

LEMMA AbsTwice == ASSUME NEW n \in Int PROVE Abs(-n) = Abs(n) /\ Abs(n) \in Nat
  BY DEF Abs

(* The line is turned to its longer axis and starts at its smaller end.    *)
Axis(o) == IF o.steep THEN 2 ELSE 1
Starts(o, a, b) == o.from = <<a[Axis(o)], a[3 - Axis(o)]>> /\ o.to = <<b[Axis(o)], b[3 - Axis(o)]>>

LEMMA OrientedIs ==
    ASSUME NEW x1 \in Int, NEW y1 \in Int, NEW x2 \in Int, NEW y2 \in Int, x1 # x2, y1 # y2
    PROVE  LET o == Oriented(x1, y1, x2, y2)
           IN  /\ o.steep <=> Abs(y2 - y1) > Abs(x2 - x1)
               /\ Slanted(o)
               /\ Starts(o, <<x1, y1>>, <<x2, y2>>) \/ Starts(o, <<x2, y2>>, <<x1, y1>>)
  <1> DEFINE o == Oriented(x1, y1, x2, y2)
             steep == Abs(y2 - y1) > Abs(x2 - x1)
             p == IF steep THEN <<y1, x1>> ELSE <<x1, y1>>
             q == IF steep THEN <<y2, x2>> ELSE <<x2, y2>>
  <1>1. o = [steep |-> steep, from |-> IF p[1] > q[1] THEN q ELSE p,
             to |-> IF p[1] > q[1] THEN p ELSE q]
    BY DEF Oriented
  <1> HIDE DEF o
  <1>2. /\ o.steep = steep /\ steep \in BOOLEAN
        /\ o.from = IF p[1] > q[1] THEN q ELSE p
        /\ o.to = IF p[1] > q[1] THEN p ELSE q
    <2> HIDE DEF p, q, steep
    <2>1. steep \in BOOLEAN
      BY DEF steep
    <2> QED
      BY <1>1, <2>1
  <1>3. Starts(o, <<x1, y1>>, <<x2, y2>>) \/ Starts(o, <<x2, y2>>, <<x1, y1>>)
    <2>1. (o.from = p /\ o.to = q) \/ (o.from = q /\ o.to = p)
      BY <1>2
    <2>2. CASE steep
      <3>1. p = <<y1, x1>> /\ q = <<y2, x2>>
        BY <2>2
      <3> HIDE DEF p, q, steep
      <3>2. Axis(o) = 2 /\ 3 - Axis(o) = 1
        BY <1>2, <2>2 DEF Axis
      <3> QED
        BY <2>1, <3>1, <3>2 DEF Starts
    <2>3. CASE ~steep
      <3>1. p = <<x1, y1>> /\ q = <<x2, y2>>
        BY <2>3
      <3> HIDE DEF p, q, steep
      <3>2. Axis(o) = 1 /\ 3 - Axis(o) = 2
        BY <1>2, <2>3 DEF Axis
      <3> QED
        BY <2>1, <3>1, <3>2 DEF Starts
    <2> QED
      BY <2>2, <2>3
  <1>4. /\ p[1] \in Int /\ p[2] \in Int /\ q[1] \in Int /\ q[2] \in Int /\ p[1] # q[1]
        /\ Abs(q[2] - p[2]) <= Abs(q[1] - p[1])
    BY DEF Abs
  <1> HIDE DEF p, q, steep
  <1>5. Slanted(o)
    <2>1. PICK a \in Int, b \in Int, c \in Int, d \in Int :
              a = p[1] /\ b = q[1] /\ c = p[2] /\ d = q[2]
      BY <1>4
    <2>2. a # b /\ Abs(d - c) <= Abs(b - a)
      BY <1>4, <2>1
    <2>3. CASE a > b
      <3>1. o.from = q /\ o.to = p
        BY <1>2, <2>1, <2>3
      <3>2. Abs(c - d) <= a - b /\ b < a
        BY <2>2, <2>3 DEF Abs
      <3> QED
        BY <2>1, <3>1, <3>2 DEF Slanted, Rise, Run
    <2>4. CASE a < b
      <3>1. o.from = p /\ o.to = q
        BY <1>2, <2>1, <2>4
      <3>2. Abs(d - c) <= b - a
        BY <2>2, <2>4 DEF Abs
      <3> QED
        BY <2>1, <2>4, <3>1, <3>2 DEF Slanted, Rise, Run
    <2> QED
      BY <2>2, <2>3, <2>4
  <1> QED
    BY <1>2, <1>3, <1>5 DEF o, steep

(* A slanted line.                                                         *)
LEMMA SlantedIs ==
    ASSUME NEW a \in Screen, NEW b \in Screen, a[1] # b[1], a[2] # b[2]
    PROVE  LET o == Oriented(a[1], a[2], b[1], b[2])
               P == BresenhamPixels(o)
           IN  /\ o.steep <=> Abs(b[2] - a[2]) > Abs(b[1] - a[1])
               /\ P \subseteq Screen
               /\ LineIs(a, b, P, Axis(o)) /\ Along(a, b, P, Axis(o), 3 - Axis(o))
  <1> DEFINE o == Oriented(a[1], a[2], b[1], b[2])
             l == Axis(o)
             s == 3 - Axis(o)
             P == BresenhamPixels(o)
             E == Columns(o)
  <1>1. /\ a[1] \in Int /\ a[2] \in Int /\ b[1] \in Int /\ b[2] \in Int
        /\ a = <<a[1], a[2]>> /\ b = <<b[1], b[2]>>
    BY ScreenTyped
  <1>2. /\ o.steep <=> Abs(b[2] - a[2]) > Abs(b[1] - a[1])
        /\ Slanted(o)
        /\ Starts(o, a, b) \/ Starts(o, b, a)
    BY <1>1, OrientedIs
  <1> HIDE DEF o
  <1>3. PICK r : /\ RowsOf(o, r)
                 /\ P = {IF o.steep THEN <<r[x], x>> ELSE <<x, r[x]>> : x \in Columns(o)}
    BY <1>2, LineRows
  <1> DEFINE F == [x \in E |-> IF o.steep THEN <<r[x], x>> ELSE <<x, r[x]>>]
  <1>4. P = Places(E, F)
    BY <1>3 DEF Places
  <1>5. (l = 2 /\ s = 1 /\ o.steep) \/ (l = 1 /\ s = 2 /\ ~o.steep)
    BY DEF Axis
  <1>6. \A x \in E : F[x][l] = x /\ F[x][s] = r[x]
    BY <1>5
  <1>7. /\ a[l] \in Int /\ a[s] \in Int /\ b[l] \in Int /\ b[s] \in Int
    BY <1>1, <1>5
  <1>8. \/ /\ o.from = <<a[l], a[s]>> /\ o.to = <<b[l], b[s]>>
           /\ a[l] < b[l] /\ E = a[l] .. b[l] - 1
        \/ /\ o.from = <<b[l], b[s]>> /\ o.to = <<a[l], a[s]>>
           /\ b[l] < a[l] /\ E = b[l] .. a[l] - 1
    BY <1>2 DEF Starts, Slanted, Columns
  <1>9. E = HalfOpen(a[l], b[l]) /\ IsFiniteSet(E)
    <2>1. PICK c \in Int, d \in Int : c = a[l] /\ d = b[l]
      BY <1>7
    <2>2. (c < d /\ E = c .. d - 1) \/ (d < c /\ E = d .. c - 1)
      BY <1>8, <2>1
    <2>3. E = HalfOpen(c, d) /\ IsFiniteSet(E)
      <3>1. CASE c < d
        <4>1. c <= d
          BY <3>1
        <4>2. HalfOpen(c, d) = c .. d - 1 /\ IsFiniteSet(c .. d - 1)
          BY <2>1, <4>1, HalfOpenIs
        <4> QED
          BY <2>1, <2>2, <3>1, <4>2
      <3>2. CASE d < c
        <4>1. d <= c
          BY <3>2
        <4>2. HalfOpen(c, d) = d .. c - 1 /\ IsFiniteSet(d .. c - 1)
          BY <2>1, <4>1, HalfOpenIs
        <4> QED
          BY <2>1, <2>2, <3>2, <4>2
      <3> QED
        BY <2>2, <3>1, <3>2
    <2> QED
      BY <2>1, <2>3
  <1> HIDE DEF P, F, E, l, s
  <1>10. OnAxis(P, l) = E /\ Cardinality(P) = Cardinality(E)
    <2>1. \A x \in E : F[x][l] = x
      BY <1>6
    <2> QED
      BY <1>4, <1>9, <2>1, OnePerColumn
  <1>11. ASSUME NEW x \in E
         PROVE  /\ F[x] \in Screen
                /\ x \in Between(a[l], b[l]) /\ r[x] \in Between(a[s], b[s])
                /\ 2 * Abs((r[x] - a[s]) * (b[l] - a[l]) - (x - a[l]) * (b[s] - a[s]))
                       <= Abs(b[l] - a[l])
    <2>1. /\ r[x] \in Int /\ r[x] \in Between(o.from[2], o.to[2])
          /\ 2 * Abs(Crossed(o, x, r[x])) <= Run(o)
      BY <1>3, <1>11 DEF RowsOf, E
    <2>2. x \in Int
      BY <1>7, <1>8
    <2>3. F[x] \in Screen
      <3>1. F[x] = IF o.steep THEN <<r[x], x>> ELSE <<x, r[x]>>
        BY DEF F
      <3>2. CASE o.steep
        <4>1. l = 2 /\ s = 1
          BY <1>5, <3>2
        <4>2. x \in 0 .. H - 1 /\ r[x] \in 0 .. W - 1
          <5>1. /\ a[l] \in 0 .. H - 1 /\ b[l] \in 0 .. H - 1
                /\ a[s] \in 0 .. W - 1 /\ b[s] \in 0 .. W - 1
                /\ H \in Nat /\ W \in Nat
            BY <4>1, ScreenTyped
          <5>2. x \in 0 .. H - 1
            BY <1>8, <1>11, <5>1
          <5>3. o.from[2] \in 0 .. W - 1 /\ o.to[2] \in 0 .. W - 1
            BY <1>8, <5>1
          <5>4. r[x] \in 0 .. W - 1
            BY <2>1, <5>1, <5>3, BetweenBelow
          <5> QED
            BY <5>2, <5>4
        <4> QED
          BY <3>1, <3>2, <4>2, ScreenTyped
      <3>3. CASE ~o.steep
        <4>1. l = 1 /\ s = 2
          BY <1>5, <3>3
        <4>2. x \in 0 .. W - 1 /\ r[x] \in 0 .. H - 1
          <5>1. /\ a[l] \in 0 .. W - 1 /\ b[l] \in 0 .. W - 1
                /\ a[s] \in 0 .. H - 1 /\ b[s] \in 0 .. H - 1
                /\ W \in Nat /\ H \in Nat
            BY <4>1, ScreenTyped
          <5>2. x \in 0 .. W - 1
            BY <1>8, <1>11, <5>1
          <5>3. o.from[2] \in 0 .. H - 1 /\ o.to[2] \in 0 .. H - 1
            BY <1>8, <5>1
          <5>4. r[x] \in 0 .. H - 1
            BY <2>1, <5>1, <5>3, BetweenBelow
          <5> QED
            BY <5>2, <5>4
        <4> QED
          BY <3>1, <3>3, <4>2, ScreenTyped
      <3> QED
        BY <3>2, <3>3
    <2>6. x \in Between(a[l], b[l]) /\ r[x] \in Between(a[s], b[s])
      <3>1. Between(a[s], b[s]) = Between(b[s], a[s])
        BY <1>7, BetweenTurned
      <3>2. r[x] \in Between(a[s], b[s])
        BY <1>8, <2>1, <3>1
      <3>3. CASE a[l] < b[l]
        <4>1. E = a[l] .. b[l] - 1
          BY <1>7, <1>8, <3>3
        <4> QED
          BY <1>7, <1>11, <3>2, <3>3, <4>1 DEF Between
      <3>4. CASE ~(a[l] < b[l])
        <4>1. E = b[l] .. a[l] - 1
          BY <1>8, <3>4
        <4> QED
          BY <1>7, <1>11, <3>2, <3>4, <4>1 DEF Between
      <3> QED
        BY <3>3, <3>4
    <2> DEFINE off == (r[x] - a[s]) * (b[l] - a[l]) - (x - a[l]) * (b[s] - a[s])
    <2>4. CASE o.from = <<a[l], a[s]>> /\ o.to = <<b[l], b[s]>> /\ a[l] < b[l]
      <3>1. Crossed(o, x, r[x]) = off /\ Run(o) = b[l] - a[l]
        BY <2>4 DEF Crossed, Run
      <3>2. Run(o) = Abs(b[l] - a[l])
        BY <1>7, <2>4, <3>1 DEF Abs
      <3>3. 2 * Abs(off) <= Abs(b[l] - a[l])
        BY <2>1, <3>1, <3>2
      <3> HIDE DEF off
      <3> QED
        BY <2>3, <2>6, <3>3 DEF off
    <2>5. CASE o.from = <<b[l], b[s]>> /\ o.to = <<a[l], a[s]>> /\ b[l] < a[l]
      <3>1. PICK u \in Int, v \in Int, m \in Int, n \in Int :
                u = r[x] - b[s] /\ v = x - b[l] /\ m = b[l] - a[l] /\ n = b[s] - a[s]
        BY <1>7, <2>1, <2>2
      <3>2. Crossed(o, x, r[x]) = u * (-m) - v * (-n) /\ Run(o) = -m
        <4>1. -m = a[l] - b[l] /\ -n = a[s] - b[s]
          BY <1>7, <3>1
        <4> QED
          BY <2>5, <3>1, <4>1 DEF Crossed, Run
      <3>3. off = (u + n) * m - (v + m) * n
        <4>1. r[x] - a[s] = u + n /\ x - a[l] = v + m
          BY <1>7, <2>1, <2>2, <3>1
        <4> QED
          BY <3>1, <4>1
      <3>4. PICK c \in Int : c = u * (-m) - v * (-n)
        OBVIOUS
      <3>5. off = -c
        BY <3>3, <3>4, Turned
      <3>6. Abs(off) = Abs(c) /\ 2 * Abs(c) <= -m
        BY <2>1, <3>2, <3>4, <3>5, AbsTwice
      <3>7. Abs(m) = -m
        BY <1>7, <2>5, <3>1 DEF Abs
      <3> HIDE DEF off
      <3>8. 2 * Abs(off) <= Abs(b[l] - a[l])
        BY <3>1, <3>6, <3>7
      <3> QED
        BY <2>3, <2>6, <3>8 DEF off
    <2> QED
      BY <1>8, <2>4, <2>5
  <1>12. P \subseteq Screen
    BY <1>4, <1>11 DEF Places
  <1>13. LineIs(a, b, P, l) /\ Along(a, b, P, l, s)
    <2>1. ASSUME NEW p \in P
          PROVE  /\ p[l] \in Between(a[l], b[l]) /\ p[s] \in Between(a[s], b[s])
                 /\ 2 * Abs((p[s] - a[s]) * (b[l] - a[l]) - (p[l] - a[l]) * (b[s] - a[s]))
                       <= Abs(b[l] - a[l])
      <3>1. PICK x \in E : p = F[x]
        BY <1>4 DEF Places
      <3>2. p[l] = x /\ p[s] = r[x]
        BY <1>6, <3>1
      <3> QED
        BY <1>11, <3>2
    <2> QED
      BY <1>9, <1>10, <2>1 DEF LineIs, Along
  <1> QED
    BY <1>2, <1>12, <1>13 DEF o, P, l, s

(* An upright line, and a level one.                                       *)
LEMMA UprightIs ==
    ASSUME NEW a \in Screen, NEW b \in Screen, a[1] = b[1]
    PROVE  LET P == LinePixels(a[1], a[2], b[1], b[2])
           IN  /\ P \subseteq Screen
               /\ IF a[2] >= b[2] THEN P = {} ELSE LineIs(a, b, P, 2) /\ Along(a, b, P, 2, 1)
  <1> DEFINE P == LinePixels(a[1], a[2], b[1], b[2])
             E == a[2] .. b[2] - 1
             F == [y \in E |-> <<a[1], y>>]
  <1>1. /\ a[1] \in 0 .. W - 1 /\ a[2] \in 0 .. H - 1 /\ b[1] \in 0 .. W - 1 /\ b[2] \in 0 .. H - 1
        /\ W \in Nat /\ H \in Nat
    BY ScreenTyped
  <1>2. P = {a[1]} \X E
    BY DEF LinePixels
  <1>3. P = Places(E, F)
    <2>1. \A p \in P : p[2] \in E /\ p = F[p[2]]
      BY <1>2
    <2>2. \A y \in E : F[y] \in P
      BY <1>2
    <2> HIDE DEF P, E, F
    <2> QED
      BY <2>1, <2>2 DEF Places
  <1>4. P \subseteq Screen
    BY <1>1, <1>2, ScreenTyped
  <1>5. CASE a[2] >= b[2]
    <2>1. E = {}
      BY <1>1, <1>5
    <2> QED
      BY <1>2, <1>4, <1>5, <2>1
  <1>6. CASE a[2] < b[2]
    <2>1. E = HalfOpen(a[2], b[2]) /\ IsFiniteSet(E)
      <3>1. a[2] \in Int /\ b[2] \in Int /\ a[2] <= b[2]
        BY <1>1, <1>6
      <3> HIDE DEF E
      <3> QED
        BY <1>6, <3>1, HalfOpenIs DEF E
    <2>2. \A y \in E : F[y][2] = y
      OBVIOUS
    <2> HIDE DEF E, F, P
    <2>3. OnAxis(P, 2) = E /\ Cardinality(P) = Cardinality(E)
      BY <1>3, <2>1, <2>2, OnePerColumn
    <2>4. ASSUME NEW p \in P
          PROVE  /\ p[2] \in Between(a[2], b[2]) /\ p[1] \in Between(a[1], b[1])
                 /\ 2 * Abs((p[1] - a[1]) * (b[2] - a[2]) - (p[2] - a[2]) * (b[1] - a[1]))
                     <= Abs(b[2] - a[2])
      <3>1. p[1] = a[1] /\ p[2] \in a[2] .. b[2] - 1 /\ p[2] \in Int
        BY <1>1, <1>2 DEF E
      <3>7. p[2] \in Between(a[2], b[2]) /\ p[1] \in Between(a[1], b[1])
        <4>1. PICK c \in Int, d \in Int : c = a[2] /\ d = b[2] /\ c <= d
          BY <1>1, <1>6
        <4>2. p[2] \in Between(c, d)
          BY <3>1, <4>1 DEF Between
        <4>3. a[1] \in Between(a[1], a[1])
          BY <1>1 DEF Between
        <4> QED
          BY <3>1, <4>1, <4>2, <4>3
      <3>2. p[1] - a[1] = 0 /\ b[1] - a[1] = 0
        BY <1>1, <3>1
      <3>3. PICK m \in Int : m = b[2] - a[2]
        BY <1>1
      <3>4. PICK n \in Int : n = p[2] - a[2]
        BY <1>1, <3>1
      <3>5. 0 * m - n * 0 = 0 /\ Abs(0) = 0
        BY DEF Abs
      <3>6. Abs(m) \in Nat
        BY AbsTwice
      <3> QED
        BY <3>2, <3>3, <3>4, <3>5, <3>6, <3>7
    <2>5. LineIs(a, b, P, 2) /\ Along(a, b, P, 2, 1)
      BY <2>1, <2>3, <2>4 DEF LineIs, Along
    <2>6. ~(a[2] >= b[2])
      BY <1>1, <1>6
    <2> QED
      BY <1>4, <2>5, <2>6 DEF P
  <1> QED
    BY <1>1, <1>5, <1>6

LEMMA LevelIs ==
    ASSUME NEW a \in Screen, NEW b \in Screen, a[1] # b[1], a[2] = b[2]
    PROVE  LET P == LinePixels(a[1], a[2], b[1], b[2])
           IN  /\ P \subseteq Screen
               /\ IF a[1] > b[1] THEN P = {} ELSE LineIs(a, b, P, 1) /\ Along(a, b, P, 1, 2)
  <1> DEFINE P == LinePixels(a[1], a[2], b[1], b[2])
             E == a[1] .. b[1] - 1
             F == [x \in E |-> <<x, a[2]>>]
  <1>1. /\ a[1] \in 0 .. W - 1 /\ a[2] \in 0 .. H - 1 /\ b[1] \in 0 .. W - 1 /\ b[2] \in 0 .. H - 1
        /\ W \in Nat /\ H \in Nat
    BY ScreenTyped
  <1>2. P = E \X {a[2]}
    BY DEF LinePixels
  <1>3. P = Places(E, F)
    <2>1. \A p \in P : p[1] \in E /\ p = F[p[1]]
      BY <1>2
    <2>2. \A x \in E : F[x] \in P
      BY <1>2
    <2> HIDE DEF P, E, F
    <2> QED
      BY <2>1, <2>2 DEF Places
  <1>4. P \subseteq Screen
    BY <1>1, <1>2, ScreenTyped
  <1>5. CASE a[1] > b[1]
    <2>1. E = {}
      BY <1>1, <1>5
    <2> QED
      BY <1>2, <1>4, <1>5, <2>1
  <1>6. CASE a[1] <= b[1]
    <2>1. E = HalfOpen(a[1], b[1]) /\ IsFiniteSet(E)
      <3>1. a[1] \in Int /\ b[1] \in Int
        BY <1>1
      <3> HIDE DEF E
      <3> QED
        BY <1>6, <3>1, HalfOpenIs DEF E
    <2>2. \A x \in E : F[x][1] = x
      OBVIOUS
    <2> HIDE DEF E, F, P
    <2>3. OnAxis(P, 1) = E /\ Cardinality(P) = Cardinality(E)
      BY <1>3, <2>1, <2>2, OnePerColumn
    <2>4. ASSUME NEW p \in P
          PROVE  /\ p[1] \in Between(a[1], b[1]) /\ p[2] \in Between(a[2], b[2])
                 /\ 2 * Abs((p[2] - a[2]) * (b[1] - a[1]) - (p[1] - a[1]) * (b[2] - a[2]))
                     <= Abs(b[1] - a[1])
      <3>1. p[2] = a[2] /\ p[1] \in a[1] .. b[1] - 1 /\ p[1] \in Int
        BY <1>1, <1>2 DEF E
      <3>7. p[1] \in Between(a[1], b[1]) /\ p[2] \in Between(a[2], b[2])
        <4>1. PICK c \in Int, d \in Int : c = a[1] /\ d = b[1] /\ c <= d
          BY <1>1, <1>6
        <4>2. p[1] \in Between(c, d)
          BY <3>1, <4>1 DEF Between
        <4>3. a[2] \in Between(a[2], a[2])
          BY <1>1 DEF Between
        <4> QED
          BY <3>1, <4>1, <4>2, <4>3
      <3>2. p[2] - a[2] = 0 /\ b[2] - a[2] = 0
        BY <1>1, <3>1
      <3>3. PICK m \in Int : m = b[1] - a[1]
        BY <1>1
      <3>4. PICK n \in Int : n = p[1] - a[1]
        BY <1>1, <3>1
      <3>5. 0 * m - n * 0 = 0 /\ Abs(0) = 0
        BY DEF Abs
      <3>6. Abs(m) \in Nat
        BY AbsTwice
      <3> QED
        BY <3>2, <3>3, <3>4, <3>5, <3>6, <3>7
    <2>5. LineIs(a, b, P, 1) /\ Along(a, b, P, 1, 2)
      BY <2>1, <2>3, <2>4 DEF LineIs, Along
    <2>6. ~(a[1] > b[1])
      BY <1>1, <1>6
    <2> QED
      BY <1>4, <2>5, <2>6 DEF P
  <1> QED
    BY <1>1, <1>5, <1>6

LEMMA DrawsLine ==
    ASSUME NEW a \in Screen, NEW b \in Screen
    PROVE  LET r == draw_line(Clean, a[1], a[2], b[1], b[2], Ink)
           IN  Shows(r, Ink) = LinePixels(a[1], a[2], b[1], b[2]) \cap Screen
  <1> DEFINE r == draw_line(Clean, a[1], a[2], b[1], b[2], Ink)
             P == LinePixels(a[1], a[2], b[1], b[2])
  <1>1. a = <<a[1], a[2]>> /\ b = <<b[1], b[2]>>
    BY ScreenTyped
  <1>2. r = Paint(Clean, P, 1)
    BY <1>1 DEF draw_line, Ink
  <1>3. Clean \in Buffer /\ \A p \in Positions : Clean[p] = 0
    BY Cleared DEF Clean
  <1> HIDE DEF r, P
  <1>4. r \in Buffer /\ \A p \in Positions : r[p] = IF Pixel(p) \in P THEN 1 ELSE Clean[p]
    BY <1>2, <1>3, Painting
  <1>5. \A p \in Positions : r[p] = Ink <=> Pixel(p) \in P
    BY <1>3, <1>4 DEF Ink
  <1> QED
    BY <1>4, <1>5, ShowsIs DEF r, P

LEMMA EndTyped == ASSUME NEW a \in Screen \cup (Corners \X Corners)
                  PROVE  a[1] \in Int /\ a[2] \in Int /\ a = <<a[1], a[2]>>
  <1>1. Screen = (0 .. W - 1) \X (0 .. H - 1)
    BY ScreenTyped
  <1>2. 0 .. W - 1 \subseteq Int /\ 0 .. H - 1 \subseteq Int /\ Corners \subseteq Int
    BY ScreenTyped
  <1>3. CASE a \in Screen
    <2>1. PICK x \in 0 .. W - 1, y \in 0 .. H - 1 : a = <<x, y>>
      BY <1>1, <1>3
    <2> QED
      BY <1>2, <2>1
  <1>4. CASE a \in Corners \X Corners
    <2>1. PICK x \in Corners, y \in Corners : a = <<x, y>>
      BY <1>4
    <2> QED
      BY <1>2, <2>1
  <1> QED
    BY <1>3, <1>4

LEMMA AfterLine == DrawLine => DrawingInPlace'
  <1> SUFFICES ASSUME DrawLine  PROVE DrawingInPlace'
    OBVIOUS
  <1>1. PICK a \in Screen \cup (Corners \X Corners), b \in Screen \cup (Corners \X Corners) :
            /\ call' = [fn |-> "line", a |-> a, b |-> b]
            /\ result' = draw_line(Clean, a[1], a[2], b[1], b[2], Ink)
    BY DEF DrawLine, Calls
  <1> DEFINE P == LinePixels(a[1], a[2], b[1], b[2])
             D(k) == Abs(b[k] - a[k])
  <1>2. call'.fn = "line" /\ call'.a = a /\ call'.b = b
    BY <1>1
  <1>3. /\ a[1] \in Int /\ a[2] \in Int /\ b[1] \in Int /\ b[2] \in Int
        /\ a = <<a[1], a[2]>> /\ b = <<b[1], b[2]>>
    BY EndTyped
  <1>4. \A k \in {1, 2} : Length(k)' = D(k) /\ D(k) \in Nat /\ (D(k) = 0 <=> a[k] = b[k])
    <2>1. ASSUME NEW k \in {1, 2}
          PROVE  Length(k)' = D(k) /\ D(k) \in Nat /\ (D(k) = 0 <=> a[k] = b[k])
      <3>1. a[k] \in Int /\ b[k] \in Int
        BY <1>3
      <3>2. Cardinality(Between(a[k], b[k])) = D(k) + 1
        BY <3>1, Spans
      <3>3. D(k) \in Nat /\ (D(k) = 0 <=> a[k] = b[k])
        BY <3>1 DEF Abs
      <3>4. Length(k)' = Cardinality(Between(a[k], b[k])) - 1
        BY <1>2 DEF Length, Span, Between
      <3> HIDE DEF D
      <3> QED
        BY <3>2, <3>3, <3>4
    <2> QED
      BY <2>1
  <1>5. ASSUME Painted(Ink)' = P, NEW l \in {1, 2}, LineIs(a, b, P, l)
        PROVE  IsLine(l)'
    <2>1. /\ OnAxis(P, l) = HalfOpen(a[l], b[l])
          /\ Cardinality(P) = Cardinality(HalfOpen(a[l], b[l]))
      BY <1>5 DEF LineIs
    <2>2. HalfOpen(a[l], b[l]) = Span(l)' \ {IF a[l] < b[l] THEN b[l] ELSE a[l]}
      BY <1>2 DEF HalfOpen, Span, Between
    <2>3. OnAxis(P, l) = {p[l] : p \in P}
      BY DEF OnAxis
    <2> HIDE DEF P
    <2> QED
      BY <1>2, <1>5, <2>1, <2>2, <2>3 DEF IsLine
  <1> DEFINE Lies(l, s) == \A p \in Painted(Ink)' :
                              /\ p[l] \in Span(l)' /\ p[s] \in Span(s)'
                              /\ Deviation(p, l, s)' <= Length(l)'
  <1>6. ASSUME Painted(Ink)' = P, NEW l \in {1, 2}, NEW s \in {1, 2}, Along(a, b, P, l, s)
        PROVE  Lies(l, s)
    <2>1. \A k \in {1, 2} : Span(k)' = Between(a[k], b[k])
      BY <1>2 DEF Span, Between
    <2>2. ASSUME NEW p \in P
          PROVE  /\ p[l] \in Span(l)' /\ p[s] \in Span(s)'
                 /\ Deviation(p, l, s)' <= Length(l)'
      <3>1. /\ p[l] \in Between(a[l], b[l]) /\ p[s] \in Between(a[s], b[s])
            /\ 2 * Abs((p[s] - a[s]) * (b[l] - a[l]) - (p[l] - a[l]) * (b[s] - a[s]))
                   <= Length(l)'
        BY <1>4, <1>6, <2>2 DEF Along
      <3> HIDE DEF P
      <3> QED
        BY <1>2, <2>1, <3>1 DEF Deviation
    <2> HIDE DEF P
    <2> QED
      BY <1>6, <2>2
  <1>7. ASSUME a \in Screen, b \in Screen  PROVE LineDrawn'
    <2>1. Painted(Ink)' = P \cap Screen
      BY <1>1, <1>7, DrawsLine DEF Painted, Shows
    <2>2. P \subseteq Screen => Painted(Ink)' = P
      BY <2>1
    <2>3. CASE a[1] = b[1]
      <3>1. /\ P \subseteq Screen
            /\ IF a[2] >= b[2] THEN P = {} ELSE LineIs(a, b, P, 2) /\ Along(a, b, P, 2, 1)
        BY <1>7, <2>3, UprightIs
      <3>2. Painted(Ink)' = P
        BY <2>2, <3>1
      <3>3. Length(1)' = 0 /\ Length(2)' \in Nat /\ (Length(2)' = 0 <=> a[2] = b[2])
        BY <1>4, <2>3
      <3>4. CASE a[2] < b[2]
        <4>1. IsLine(2)' /\ Lies(2, 1)
          BY <1>3, <1>5, <1>6, <3>1, <3>2, <3>4
        <4>2. Length(2)' > Length(1)'
          BY <1>3, <3>3, <3>4
        <4> QED
          BY <4>1, <4>2 DEF LineDrawn
      <3>5. CASE a[2] > b[2]
        <4>1. Painted(Ink)' = {} /\ Length(2)' > Length(1)' /\ ~(a[2] <= b[2])
          BY <1>3, <3>1, <3>2, <3>3, <3>5
        <4> QED
          BY <1>2, <2>3, <4>1 DEF LineDrawn
      <3>6. CASE a[2] = b[2]
        <4>1. Painted(Ink)' = {} /\ ~(Length(2)' > Length(1)')
          BY <1>3, <3>1, <3>2, <3>3, <3>6
        <4>2. HalfOpen(a[1], b[1]) = {}
          <5>1. PICK c \in Int : c = a[1] /\ c = b[1]
            BY <1>3, <2>3
          <5>2. HalfOpen(c, c) = {}
            BY DEF HalfOpen, Between
          <5> QED
            BY <5>1, <5>2
        <4>3. LineIs(a, b, P, 1)
          BY <3>2, <4>1, <4>2 DEF LineIs, OnAxis
        <4>4. IsLine(1)'
          BY <1>5, <3>2, <4>3
        <4> QED
          BY <4>1, <4>4 DEF LineDrawn
      <3> QED
        BY <1>3, <3>4, <3>5, <3>6
    <2>4. CASE a[1] # b[1] /\ a[2] = b[2]
      <3>1. /\ P \subseteq Screen
            /\ IF a[1] > b[1] THEN P = {} ELSE LineIs(a, b, P, 1) /\ Along(a, b, P, 1, 2)
        BY <1>7, <2>4, LevelIs
      <3>2. Painted(Ink)' = P
        BY <2>2, <3>1
      <3>3. ~(Length(2)' > Length(1)')
        BY <1>4, <2>4
      <3>4. CASE a[1] > b[1]
        <4>1. Painted(Ink)' = {} /\ ~(a[1] <= b[1])
          BY <1>3, <3>1, <3>2, <3>4
        <4> QED
          BY <1>2, <2>4, <3>3, <4>1 DEF LineDrawn
      <3>5. CASE ~(a[1] > b[1])
        <4>1. IsLine(1)' /\ Lies(1, 2)
          BY <1>5, <1>6, <3>1, <3>2, <3>5
        <4> QED
          BY <3>3, <4>1 DEF LineDrawn
      <3> QED
        BY <3>4, <3>5
    <2>5. CASE a[1] # b[1] /\ a[2] # b[2]
      <3> DEFINE o == Oriented(a[1], a[2], b[1], b[2])
      <3>1. /\ o.steep <=> D(2) > D(1)
            /\ BresenhamPixels(o) \subseteq Screen
            /\ LineIs(a, b, BresenhamPixels(o), Axis(o))
            /\ Along(a, b, BresenhamPixels(o), Axis(o), 3 - Axis(o))
        BY <1>7, <2>5, SlantedIs
      <3>2. P = BresenhamPixels(o)
        BY <2>5 DEF LinePixels
      <3>3. Painted(Ink)' = P
        BY <2>2, <3>1, <3>2
      <3>4. Length(2)' > Length(1)' <=> o.steep
        BY <1>4, <3>1
      <3>5. LineIs(a, b, P, Axis(o)) /\ Along(a, b, P, Axis(o), 3 - Axis(o))
        BY <3>1, <3>2
      <3> HIDE DEF o, P
      <3>6. CASE o.steep
        <4>1. Axis(o) = 2 /\ 3 - Axis(o) = 1
          BY <3>6 DEF Axis
        <4>2. IsLine(2)' /\ Lies(2, 1)
          BY <1>5, <1>6, <3>3, <3>5, <4>1
        <4> QED
          BY <3>4, <3>6, <4>2 DEF LineDrawn
      <3>7. CASE ~o.steep
        <4>1. Axis(o) = 1 /\ 3 - Axis(o) = 2
          BY <3>7 DEF Axis
        <4>2. IsLine(1)' /\ Lies(1, 2)
          BY <1>5, <1>6, <3>3, <3>5, <4>1
        <4> QED
          BY <3>4, <3>7, <4>2 DEF LineDrawn
      <3> QED
        BY <3>6, <3>7
    <2> QED
      BY <2>3, <2>4, <2>5
  <1>8. ASSUME ~(a \in Screen /\ b \in Screen)  PROVE LineDrawn'
    <2>1. result' = Clean
      BY <1>1, <1>3, <1>8 DEF draw_line
    <2>2. Clean \in Buffer /\ \A p \in Positions : Clean[p] = 0
      BY Cleared DEF Clean
    <2>3. Shows(Clean, Ink) = {}
      BY <2>2 DEF Shows, Buffer, Ink
    <2>4. Painted(Ink)' = {}
      BY <2>1, <2>3 DEF Painted, Shows
    <2>5. ~({call'.a, call'.b} \subseteq Screen)
      BY <1>2, <1>8
    <2> QED
      BY <2>4, <2>5 DEF LineDrawn
  <1>9. ShapesDrawn' /\ TextDrawn'
    BY <1>2 DEF ShapesDrawn, TextDrawn
  <1>10. LineDrawn'
    BY <1>7, <1>8
  <1> QED
    BY <1>9, <1>10 DEF DrawingInPlace

-----------------------------------------------------------------------------
(* Drawing                                                                 *)

LEMMA AfterRect == DrawRect => DrawingInPlace'
  <1> SUFFICES ASSUME DrawRect  PROVE DrawingInPlace'
    OBVIOUS
  <1>1. PICK x1 \in Corners, y1 \in Corners, x2 \in Corners, y2 \in Corners :
            \/ /\ call' = [fn |-> "rect", a |-> <<x1, y1>>, b |-> <<x2, y2>>]
               /\ result' = draw_rect(Clean, x1, y1, x2, y2, Ink)
            \/ /\ call' = [fn |-> "fillrect", a |-> <<x1, y1>>, b |-> <<x2, y2>>]
               /\ result' = draw_fillrect(Clean, x1, y1, x2, y2, Ink, Fill)
    BY DEF DrawRect, Calls
  <1> DEFINE border == Around(<<x1, y1>>, <<x2, y2>>)
             all == Within2(<<x1, y1>>, <<x2, y2>>)
  <1>2. call'.a = <<x1, y1>> /\ call'.b = <<x2, y2>> /\ call'.fn \in {"rect", "fillrect"}
    BY <1>1
  <1>3. /\ Rectangle' = all /\ Border' = border
        /\ Proper' <=> x1 < x2 /\ y1 < y2
    BY <1>2 DEF Rectangle, Border, Proper, Around, Within2
  <1>4. \A color : Painted(color)' = Shows(result', color)
    BY DEF Painted, Shows
  <1>5. call'.fn = "fillrect" /\ Proper' => Painted(Ink)' = border /\ Painted(Fill)' = all \ border
    BY <1>1, <1>3, <1>4, FillRectExact
  <1>6. call'.fn = "rect" /\ Proper' => Painted(Ink)' = border \ {call'.b}
    BY <1>1, <1>2, <1>3, <1>4, RectExact
  <1> HIDE DEF border, all
  <1>7. ShapesDrawn'
    BY <1>2, <1>3, <1>5, <1>6 DEF ShapesDrawn
  <1>8. LineDrawn' /\ TextDrawn'
    BY <1>2 DEF LineDrawn, TextDrawn
  <1> QED
    BY <1>7, <1>8 DEF DrawingInPlace

LEMMA AfterImage == DrawImage => DrawingInPlace'
  <1> SUFFICES ASSUME DrawImage  PROVE DrawingInPlace'
    OBVIOUS
  <1>1. PICK x \in Corners, y \in Corners, alpha \in {0, Transparent} :
            /\ call' = [fn |-> "image", a |-> <<x, y>>, alpha |-> alpha]
            /\ result' = IF alpha = Transparent THEN draw_image(draw_clear(9), Bitmap, x, y)
                         ELSE draw_image_alpha(draw_clear(9), Bitmap, x, y, alpha)
    BY DEF DrawImage, Calls
  <1>2. result' = draw_image_alpha(draw_clear(9), Bitmap, x, y, alpha)
    BY <1>1 DEF draw_image
  <1>3. call'.fn = "image" /\ call'.a[1] = x /\ call'.a[2] = y /\ call'.alpha = alpha
    BY <1>1
  <1>4. Bitmap.height = 2 /\ Bitmap.height - 1 = 1 /\ Bitmap.width - 1 = 2
    BY DEF Bitmap
  <1>5. ASSUME NEW p \in Screen
        PROVE  LET j == p[1] - AsSigned(x)
                   i == AsSigned(y) + 2 - p[2]
                   shown == i \in 0 .. 1 /\ j \in 0 .. 2 /\ (alpha = 0 => 3 * i + j # 0)
               IN  result'[p[2] * GRAPHIC_WIDTH + p[1]] = IF shown THEN 3 * i + j ELSE 9
    BY <1>2, ImageExact DEF At2, W
  <1>6. ShapesDrawn'
    BY <1>3, <1>4, <1>5 DEF ShapesDrawn
  <1>7. LineDrawn' /\ TextDrawn'
    BY <1>3 DEF LineDrawn, TextDrawn
  <1> QED
    BY <1>6, <1>7 DEF DrawingInPlace

-----------------------------------------------------------------------------
(* Texts                                                                   *)

LEMMA TextTyped == FB_SIZE < Word /\ Texts \subseteq Seq(DOMAIN font)
  BY RasterAssumption, CallsAssumption DEF FB_SIZE

LEMMA PositionOf == ASSUME NEW p \in Positions
                    PROVE  Pixel(p) \in Screen /\ At2(Pixel(p)) = p
  <1>1. W \in Nat \ {0} /\ p \in Int
    BY ScreenTyped DEF Positions
  <1>2. p = W * (p \div W) + (p % W) /\ p \div W \in Int /\ p % W \in Int
    BY <1>1, DivLaw
  <1>3. At2(Pixel(p)) = (p \div W) * W + (p % W)
    BY DEF At2, Pixel, W
  <1> QED
    BY <1>1, <1>2, <1>3, PixelOnScreen

(* The n-th glyph of a text at (x, y) over what is in the buffer b.        *)
GlyphOver(b, n, c, x, y, fg, bg, r) ==
    /\ r \in Buffer
    /\ \A p \in Screen :
          LET j == p[1] - x - 8 * n
              i == p[2] - y
              color == TextColor(font[c], i, j, fg, bg)
          IN  r[At2(p)] = IF i \in 0 .. 7 /\ j \in 0 .. 7 /\ ~Skipped(color, bg)
                            THEN color % 256 ELSE b[At2(p)]

LEMMA CharDrawn ==
    ASSUME NEW b \in Buffer, NEW n \in Nat, NEW c, NEW x \in Nat, NEW y \in Nat,
           NEW fg \in Int, NEW bg \in Int, x + 8 * n + 8 <= W, y + 8 <= H
    PROVE  GlyphOver(b, n, c, x, y, fg, bg, draw_char(b, n, c, x, y, fg, bg))
  <1> DEFINE Color(k) == TextColor(font[c], k[1], k[2], fg, bg)
             Box == (0 .. 7) \X (0 .. 7)
             shown == {k \in Box : ~Skipped(Color(k), bg)}
             Pos(k) == TextPosition(x, y, n, k[1], k[2])
             Hits(p) == {k \in shown : Pos(k) = p}
             Lowest(hits) == CHOOSE k \in hits : \A l \in hits : l[1] <= k[1]
             Q(k) == <<x + 8 * n + k[2], y + k[1]>>
             Shade(p) == IF Hits(p) = {} THEN b[p] ELSE Color(Lowest(Hits(p))) % 256
             r == draw_char(b, n, c, x, y, fg, bg)
  <1>1. r = [p \in DOMAIN b \cup {Pos(k) : k \in shown} |-> Shade(p)]
    BY DEF draw_char
  <1>2. \A k \in Box : Color(k) \in Int /\ Color(k) % 256 \in Int
    BY DEF TextColor
  <1>3. ASSUME NEW k \in Box  PROVE Q(k) \in Screen /\ Pos(k) = At2(Q(k)) /\ At2(Q(k)) \in Positions
    <2>1. k[1] \in 0 .. 7 /\ k[2] \in 0 .. 7 /\ W \in Nat /\ H \in Nat
      BY ScreenTyped
    <2>2. x + 8 * n + k[2] \in 0 .. W - 1 /\ y + k[1] \in 0 .. H - 1
      BY <2>1
    <2>3. Q(k) \in Screen
      BY <2>2, ScreenTyped
    <2>4. At2(Q(k)) \in Positions
      BY <2>3, PixelAt
    <2>5. PICK m \in Int : m = (y + k[1]) * W
      BY <2>1
    <2>6. At2(Q(k)) = m + (x + 8 * n + k[2]) /\ Pos(k) = (m + n * 8 + x + k[2]) % Word
      BY <2>5 DEF At2, TextPosition, W
    <2>7. PICK v \in Positions : v = At2(Q(k)) /\ v = m + n * 8 + x + k[2]
      BY <2>1, <2>4, <2>5, <2>6
    <2>8. v \in Int /\ 0 <= v /\ v < Word
      BY <2>7, TextTyped, ScreenTyped DEF Positions
    <2>9. v % Word = v
      <3>1. -Word <= v /\ v < 2 * Word
        BY <2>8, ScreenTyped
      <3> QED
        BY <2>8, <3>1, ModIs
    <2> QED
      BY <2>3, <2>4, <2>6, <2>7, <2>9
  <1>4. shown \subseteq Box
    OBVIOUS
  <1> HIDE DEF shown, r, Pos, Color
  <1>5. DOMAIN b \cup {Pos(k) : k \in shown} = Positions
    BY <1>3, <1>4 DEF Buffer
  <1>6. ASSUME NEW p \in Screen
        PROVE  LET e == <<p[2] - y, p[1] - x - 8 * n>>
               IN  Hits(At2(p)) = IF e \in shown THEN {e} ELSE {}
    <2> DEFINE e == <<p[2] - y, p[1] - x - 8 * n>>
    <2>1. p[1] \in Int /\ p[2] \in Int /\ p = <<p[1], p[2]>>
      BY ScreenTyped
    <2>2. ASSUME NEW k \in Box  PROVE Pos(k) = At2(p) <=> k = e
      <3>1. k[1] \in Int /\ k[2] \in Int /\ k = <<k[1], k[2]>>
        OBVIOUS
      <3>2. At2(Q(k)) = At2(p) <=> Q(k) = p
        BY <1>3, PixelAt
      <3>3. Q(k) = p <=> x + 8 * n + k[2] = p[1] /\ y + k[1] = p[2]
        BY <2>1
      <3>4. Q(k) = p <=> k[1] = p[2] - y /\ k[2] = p[1] - x - 8 * n
        BY <2>1, <3>1, <3>3
      <3> QED
        BY <1>3, <3>1, <3>2, <3>4
    <2> HIDE DEF e, Box, Q
    <2>3. Hits(At2(p)) = IF e \in shown THEN {e} ELSE {}
      BY <1>4, <2>2
    <2> QED
      BY <2>3 DEF e
  <1>7. ASSUME NEW e \in shown  PROVE Lowest({e}) = e
    <2>1. e[1] <= e[1]
      BY <1>4
    <2> QED
      BY <2>1
  <1> HIDE DEF Hits, Lowest, Q
  <1>8. ASSUME NEW p \in Screen
        PROVE  LET e == <<p[2] - y, p[1] - x - 8 * n>>
               IN  /\ r[At2(p)] = IF e \in shown THEN Color(e) % 256 ELSE b[At2(p)]
                   /\ r[At2(p)] \in Int
    <2> DEFINE e == <<p[2] - y, p[1] - x - 8 * n>>
    <2>1. At2(p) \in Positions
      BY PixelAt
    <2>2. r[At2(p)] = Shade(At2(p))
      BY <1>1, <1>5, <2>1
    <2>3. Hits(At2(p)) = IF e \in shown THEN {e} ELSE {}
      BY <1>6
    <2> HIDE DEF e
    <2>4. b[At2(p)] \in Int
      BY <2>1 DEF Buffer
    <2>5. CASE e \in shown
      <3>1. Hits(At2(p)) # {} /\ Lowest(Hits(At2(p))) = e
        BY <1>7, <2>3, <2>5
      <3>2. r[At2(p)] = Color(e) % 256
        BY <2>2, <3>1
      <3> QED
        BY <1>2, <1>4, <2>5, <3>2 DEF e
    <2>6. CASE e \notin shown
      BY <2>2, <2>3, <2>4, <2>6 DEF e
    <2> QED
      BY <2>5, <2>6
  <1>9. r \in Buffer
    <2>1. \A p \in Positions : r[p] \in Int
      BY <1>8, PositionOf
    <2> HIDE DEF Shade
    <2>2. r = [p \in Positions |-> Shade(p)]
      BY <1>1, <1>5
    <2> QED
      BY <2>1, <2>2 DEF Buffer
  <1>10. ASSUME NEW p \in Screen
         PROVE  LET j == p[1] - x - 8 * n
                    i == p[2] - y
                    color == TextColor(font[c], i, j, fg, bg)
                IN  r[At2(p)] = IF i \in 0 .. 7 /\ j \in 0 .. 7 /\ ~Skipped(color, bg)
                                  THEN color % 256 ELSE b[At2(p)]
    <2> DEFINE e == <<p[2] - y, p[1] - x - 8 * n>>
    <2>1. e \in shown <=> e[1] \in 0 .. 7 /\ e[2] \in 0 .. 7 /\ ~Skipped(Color(e), bg)
      BY DEF shown
    <2>2. r[At2(p)] = IF e \in shown THEN Color(e) % 256 ELSE b[At2(p)]
      BY <1>8
    <2> QED
      BY <2>1, <2>2 DEF Color
  <1>11. GlyphOver(b, n, c, x, y, fg, bg, r)
    BY <1>9, <1>10 DEF GlyphOver
  <1> QED
    BY <1>11 DEF r

(* What is on the screen when n chars of the text are drawn.               *)
Written(s, x, y, fg, bg, n, r) ==
    /\ r \in Buffer
    /\ \A p \in Screen :
          LET j == p[1] - x
              i == p[2] - y
              color == TextColor(font[s[(j \div 8) + 1]], i, j % 8, fg, bg)
          IN  r[At2(p)] = IF i \in 0 .. 7 /\ j \in 0 .. 8 * n - 1 /\ ~Skipped(color, bg)
                            THEN color % 256 ELSE 0

LEMMA CharWritten ==
    ASSUME NEW s, NEW x \in Nat, NEW y \in Nat, NEW fg \in Int, NEW bg \in Int,
           NEW n \in Nat \ {0}, x + 8 * n <= W, y + 8 <= H,
           NEW b, Written(s, x, y, fg, bg, n - 1, b)
    PROVE  Written(s, x, y, fg, bg, n, draw_char(b, n - 1, s[n], x, y, fg, bg))
  <1> DEFINE r == draw_char(b, n - 1, s[n], x, y, fg, bg)
  <1>1. PICK m \in Nat : m = n - 1 /\ x + 8 * m + 8 <= W
    BY ScreenTyped
  <1>2. b \in Buffer
    BY DEF Written
  <1>3. GlyphOver(b, m, s[n], x, y, fg, bg, r)
    <2>1. r = draw_char(b, m, s[n], x, y, fg, bg)
      BY <1>1
    <2> HIDE DEF r
    <2> QED
      BY <1>1, <1>2, <2>1, CharDrawn
  <1> HIDE DEF r
  <1>4. ASSUME NEW p \in Screen
        PROVE  LET j == p[1] - x
                   i == p[2] - y
                   color == TextColor(font[s[(j \div 8) + 1]], i, j % 8, fg, bg)
               IN  r[At2(p)] = IF i \in 0 .. 7 /\ j \in 0 .. 8 * n - 1 /\ ~Skipped(color, bg)
                                 THEN color % 256 ELSE 0
    <2>1. PICK j \in Int, k \in Int : j = p[1] - x /\ k = p[1] - x - 8 * m
      BY ScreenTyped
    <2> DEFINE i == p[2] - y
               color == TextColor(font[s[(j \div 8) + 1]], i, j % 8, fg, bg)
               last == TextColor(font[s[n]], i, k, fg, bg)
    <2>2. j = 8 * (n - 1) + k
      <3>1. p[1] \in Int
        BY ScreenTyped
      <3> QED
        BY <1>1, <2>1, <3>1
    <2>3. k \in 0 .. 7 => (j \div 8) + 1 = n /\ j % 8 = k
      <3> SUFFICES ASSUME k \in 0 .. 7  PROVE (j \div 8) + 1 = n /\ j % 8 = k
        OBVIOUS
      <3>1. (n - 1) * 8 + k = j
        BY <2>2
      <3>2. ((n - 1) * 8 + k) \div 8 = n - 1 /\ ((n - 1) * 8 + k) % 8 = k
        BY DivIs
      <3> QED
        BY <3>1, <3>2
    <2>4. j \in 0 .. 8 * n - 1 <=> j \in 0 .. 8 * (n - 1) - 1 \/ k \in 0 .. 7
      BY <2>2
    <2>5. k \in 0 .. 7 => j \notin 0 .. 8 * (n - 1) - 1
      BY <2>2
    <2>6. r[At2(p)] = IF i \in 0 .. 7 /\ k \in 0 .. 7 /\ ~Skipped(last, bg)
                        THEN last % 256 ELSE b[At2(p)]
      BY <1>3, <2>1 DEF GlyphOver
    <2>7. b[At2(p)] = IF i \in 0 .. 7 /\ j \in 0 .. 8 * (n - 1) - 1 /\ ~Skipped(color, bg)
                        THEN color % 256 ELSE 0
      BY <2>1 DEF Written
    <2>8. k \in 0 .. 7 => last = color
      BY <2>3
    <2> HIDE DEF i, color, last
    <2>9. r[At2(p)] = IF i \in 0 .. 7 /\ j \in 0 .. 8 * n - 1 /\ ~Skipped(color, bg)
                        THEN color % 256 ELSE 0
      BY <2>4, <2>5, <2>6, <2>7, <2>8
    <2> QED
      BY <2>1, <2>9 DEF i, color
  <1>5. Written(s, x, y, fg, bg, n, r)
    BY <1>3, <1>4 DEF Written, GlyphOver
  <1> QED
    BY <1>5 DEF r

(* A text that fits.                                                       *)
LEMMA TextWritten ==
    ASSUME NEW s, Len(s) \in Nat, NEW x \in Nat, NEW y \in Nat, NEW fg \in Int, NEW bg \in Int,
           x + 8 * Len(s) <= W, y + 8 <= H
    PROVE  Written(s, x, y, fg, bg, Len(s), draw_text(Clean, s, x, y, fg, bg))
  <1> DEFINE N == Len(s)
             Op(i, z) == draw_char(z, i - 1, s[i], x, y, fg, bg)
             Is(f) == f = [i \in 0 .. N |-> IF i = 0 THEN Clean ELSE Op(i, f[i - 1])]
             w == CHOOSE f : Is(f)
             St == [q \in (1 .. N) \X Buffer |-> Op(q[1], q[2])]
             Good == {q \in (0 .. N) \X Buffer : Written(s, x, y, fg, bg, q[1], q[2])}
  <1>1. draw_text(Clean, s, x, y, fg, bg) = w[N]
    BY DEF draw_text
  <1>2. Clean \in Buffer /\ Written(s, x, y, fg, bg, 0, Clean)
    <2>1. Clean \in Buffer /\ \A p \in Positions : Clean[p] = 0
      BY Cleared DEF Clean
    <2>2. \A p \in Screen : Clean[At2(p)] = 0 /\ 0 .. 8 * 0 - 1 = {}
      BY <2>1, PixelAt
    <2> QED
      BY <2>1, <2>2 DEF Written
  <1>3. ASSUME NEW i \in 1 .. N, NEW z \in Buffer, Written(s, x, y, fg, bg, i - 1, z)
        PROVE  Written(s, x, y, fg, bg, i, Op(i, z)) /\ Op(i, z) \in Buffer
    <2>1. i \in Nat \ {0} /\ x + 8 * i <= W
      BY ScreenTyped
    <2>2. Written(s, x, y, fg, bg, i, Op(i, z))
      BY <1>3, <2>1, CharWritten
    <2> QED
      BY <2>2 DEF Written
  <1> HIDE DEF w, Op
  <1>4. Steps(N, Buffer, Clean, St, Good)
    <2>1. <<0, Clean>> \in Good
      BY <1>2
    <2>2. ASSUME NEW i \in 1 .. N, NEW z \in Buffer, <<i - 1, z>> \in Good
          PROVE  St[<<i, z>>] \in Buffer /\ <<i, St[<<i, z>>]>> \in Good
      <3>1. St[<<i, z>>] = Op(i, z) /\ i \in 0 .. N
        OBVIOUS
      <3>2. Written(s, x, y, fg, bg, i - 1, z)
        BY <2>2
      <3>3. Written(s, x, y, fg, bg, i, Op(i, z)) /\ Op(i, z) \in Buffer
        BY <1>3, <3>2
      <3> QED
        BY <3>1, <3>3
    <2> HIDE DEF St, Good
    <2> QED
      BY <1>2, <2>1, <2>2 DEF Steps
  <1>5. PICK g : Goes(g, N, Buffer, Clean, St, Good)
    <2> HIDE DEF St, Good
    <2> QED
      BY <1>4, LoopRuns
  <1>6. Is(g)
    <2>1. ASSUME NEW i \in 1 .. N  PROVE g[i] = Op(i, g[i - 1])
      <3>1. i - 1 \in 0 .. N
        OBVIOUS
      <3>2. g[i - 1] \in Buffer /\ g[i] = St[<<i, g[i - 1]>>]
        BY <1>5, <3>1 DEF Goes
      <3> QED
        BY <3>2
    <2>2. g \in [0 .. N -> Buffer] /\ g[0] = Clean
      BY <1>5 DEF Goes
    <2>3. \A i \in 0 .. N : g[i] = IF i = 0 THEN Clean ELSE Op(i, g[i - 1])
      BY <2>1, <2>2
    <2>4. g = [i \in 0 .. N |-> g[i]]
      BY <2>2
    <2> QED
      BY <2>3, <2>4
  <1>7. Is(w)
    BY <1>6 DEF w
  <1> DEFINE S == {i \in 0 .. N : Written(s, x, y, fg, bg, i, w[i])}
  <1>8. 0 .. N \subseteq S
    <2>1. 0 \in S
      <3>1. 0 \in 0 .. N /\ w[0] = Clean
        BY <1>7
      <3> QED
        BY <1>2, <3>1
    <2>2. ASSUME NEW i \in 1 .. N, i - 1 \in S  PROVE i \in S
      <3>1. w[i] = Op(i, w[i - 1]) /\ i \in 0 .. N
        BY <1>7
      <3>2. Written(s, x, y, fg, bg, i - 1, w[i - 1])
        BY <2>2
      <3>3. w[i - 1] \in Buffer
        BY <3>2 DEF Written
      <3>4. Written(s, x, y, fg, bg, i, Op(i, w[i - 1]))
        BY <1>3, <3>2, <3>3
      <3> QED
        BY <3>1, <3>4
    <2> HIDE DEF S
    <2> QED
      BY <2>1, <2>2, Induct
  <1>9. N \in 0 .. N
    OBVIOUS
  <1> QED
    BY <1>1, <1>8, <1>9

LEMMA AfterText == DrawText => DrawingInPlace'
  <1> SUFFICES ASSUME DrawText  PROVE DrawingInPlace'
    OBVIOUS
  <1>1. PICK s \in Texts, x \in 0 .. GRAPHIC_WIDTH, y \in 0 .. 1, fg \in {Ink, White},
             bg \in {Fill, Transparent} :
            /\ call' = [fn |-> "text", s |-> s, x |-> x, y |-> y, fg |-> fg, bg |-> bg]
            /\ result' = draw_text(Clean, s, x, y, fg, bg)
    BY DEF DrawText, Calls
  <1>2. /\ call'.fn = "text" /\ call'.s = s /\ call'.x = x /\ call'.y = y
        /\ call'.fg = fg /\ call'.bg = bg
    BY <1>1
  <1>3. Len(s) \in Nat /\ x \in Nat /\ y \in Nat /\ fg \in Int /\ bg \in Int
    BY TextTyped, ScreenTyped DEF Ink, White, Fill, Transparent, W
  <1>4. ASSUME x + 8 * Len(s) <= GRAPHIC_WIDTH, y + 8 <= GRAPHIC_HEIGHT
        PROVE  Written(s, x, y, fg, bg, Len(s), result')
    BY <1>1, <1>3, <1>4, TextWritten DEF W, H
  <1>5. TextDrawn'
    <2> SUFFICES ASSUME x + 8 * Len(s) <= GRAPHIC_WIDTH, y + 8 <= GRAPHIC_HEIGHT
                 PROVE  /\ DOMAIN result' = 0 .. FB_SIZE - 1
                        /\ \A p \in Screen :
                              LET j == p[1] - x
                                  i == p[2] - y
                                  color == TextColor(font[s[(j \div 8) + 1]], i, j % 8, fg, bg)
                                  shown == /\ i \in 0 .. 7 /\ j \in 0 .. 8 * Len(s) - 1
                                           /\ ~Skipped(color, bg)
                              IN  result'[p[2] * GRAPHIC_WIDTH + p[1]]
                                      = IF shown THEN color % 256 ELSE 0
      BY <1>2 DEF TextDrawn
    <2>1. Written(s, x, y, fg, bg, Len(s), result')
      BY <1>4
    <2> QED
      BY <2>1 DEF Written, Buffer, Positions, At2, W
  <1>6. LineDrawn' /\ ShapesDrawn'
    BY <1>2 DEF LineDrawn, ShapesDrawn
  <1> QED
    BY <1>5, <1>6 DEF DrawingInPlace

-----------------------------------------------------------------------------
(* Every call                                                              *)

(* Everything else draws nothing.                                          *)
LEMMA AfterOther ==
    call'.fn \notin {"line", "rect", "fillrect", "image", "text"} => DrawingInPlace'
  BY DEF DrawingInPlace, LineDrawn, ShapesDrawn, TextDrawn

LEMMA DrawingSteps == DrawingInPlace /\ [Next]_vars => DrawingInPlace'
  <1> SUFFICES ASSUME DrawingInPlace, [Next]_vars  PROVE DrawingInPlace'
    OBVIOUS
  <1>1. CASE DrawLine
    BY <1>1, AfterLine
  <1>2. CASE DrawRect
    BY <1>2, AfterRect
  <1>3. CASE DrawImage
    BY <1>3, AfterImage
  <1>4. CASE DrawText
    BY <1>4, AfterText
  <1>5. CASE FormatNumber
    BY <1>5, AfterOther DEF FormatNumber, Calls
  <1>6. CASE FormatText
    BY <1>6, AfterOther DEF FormatText, Calls
  <1>7. CASE Move
    BY <1>7, AfterOther DEF Move, Calls
  <1>8. CASE StringCall
    <2>1. \E c : call' = c /\ c.fn \in {"strcmp", "strncmp", "memcmp", "strncpy", "strcat"}
      BY <1>8, SMTT(30) DEF StringCall, Calls
    <2> QED
      BY <2>1, AfterOther
  <1>9. CASE Return
    BY <1>9, AfterOther DEF Return, NoCall
  <1>10. CASE UNCHANGED vars
    <2>1. call' = call /\ result' = result
      BY <1>10 DEF vars
    <2>2. \A color : Painted(color)' = Painted(color)
      BY <2>1 DEF Painted
    <2>3. \A k \in {1, 2} : Length(k)' = Length(k) /\ Span(k)' = Span(k)
      BY <2>1 DEF Length, Span
    <2>4. \A k \in {1, 2} : IsLine(k)' = IsLine(k)
      BY <2>1, <2>2, <2>3 DEF IsLine
    <2>5. \A p, k, s : Deviation(p, k, s)' = Deviation(p, k, s)
      BY <2>1 DEF Deviation
    <2>6. LineDrawn' = LineDrawn
      BY <2>1, <2>2, <2>3, <2>4, <2>5 DEF LineDrawn
    <2>7. ShapesDrawn' = ShapesDrawn
      <3>1. Rectangle' = Rectangle /\ Border' = Border /\ Proper' = Proper
        BY <2>1 DEF Rectangle, Border, Proper
      <3> QED
        BY <2>1, <2>2, <3>1 DEF ShapesDrawn
    <2>8. TextDrawn' = TextDrawn
      BY <2>1 DEF TextDrawn
    <2> QED
      BY <2>6, <2>7, <2>8 DEF DrawingInPlace
  <1> QED
    BY <1>1, <1>2, <1>3, <1>4, <1>5, <1>6, <1>7, <1>8, <1>9, <1>10 DEF Next, Call

(* What draw_line, draw_rect, draw_fillrect, draw_image and draw_text of   *)
(* graphic.c (321-421, 517-565) paint stays in its place, at any corners,  *)
(* between any two pixels and for any text that fits, on any screen that   *)
(* is far from half the range of its coordinates.                          *)
THEOREM DrawingStaysInPlace == Spec => []DrawingInPlace
  <1>1. Init => DrawingInPlace
    BY DEF Init, NoCall, DrawingInPlace, LineDrawn, ShapesDrawn, TextDrawn
  <1> QED
    BY <1>1, DrawingSteps, PTL DEF Spec

-----------------------------------------------------------------------------
(* Memories                                                                *)

EndCell == Third + 2 * Longest
Cells == 0 .. EndCell
Memory == [Cells -> Int]

LEMMA MemoryTyped ==
    /\ Longest \in Nat /\ Second = Longest + 1 /\ Third = 2 * Longest + 2
    /\ EndCell \in Nat /\ EndCell = 4 * Longest + 2
    /\ Memories \subseteq Memory
    /\ \A m \in Memories : m[Longest] = 0 /\ m[Second + Longest] = 0
  BY CallsAssumption DEF Second, Third, EndCell, Memory, Cells

LEMMA MemorySize == ASSUME NEW m \in Memory
                    PROVE  DOMAIN m = Cells /\ Cardinality(DOMAIN m) = EndCell + 1
  <1>1. DOMAIN m = 0 .. EndCell
    BY DEF Memory, Cells
  <1>2. Cardinality(0 .. EndCell) = EndCell + 1
    <2>1. ~(0 > EndCell) /\ EndCell - 0 + 1 = EndCell + 1 /\ EndCell \in Int
      BY MemoryTyped
    <2> QED
      BY <2>1, FS_Interval
  <1> QED
    BY <1>1, <1>2 DEF Cells

LEMMA ArrayLength == ASSUME NEW n \in Nat, NEW S, NEW v \in [1 .. n -> S]
                     PROVE  v \in Seq(S) /\ Len(v) = n /\ DOMAIN v = 1 .. n
  OBVIOUS

CopiesCell(m, d, s, i, r) ==
    r \in Memory /\ \A a \in Cells : r[a] = IF a = d + i THEN m[s + i] ELSE m[a]

LEMMA CellCopied ==
    ASSUME NEW m \in Memory, NEW d \in Nat, NEW s \in Nat, NEW i \in Nat, s + i \in Cells
    PROVE  CopiesCell(m, d, s, i, CopyCell(m, d, s, i))
  <1>1. PICK v \in Int : v = m[s + i]
    BY DEF Memory
  <1>2. CopyCell(m, d, s, i) = [m EXCEPT ![d + i] = v]
    BY <1>1 DEF CopyCell
  <1> QED
    BY <1>1, <1>2 DEF Memory, CopiesCell

(* The memories a copying loop goes through.                               *)
Runs(m, d, s, n, I, w) ==
    /\ w \in [0 .. n -> Memory] /\ w[0] = m
    /\ \A i \in 1 .. n : w[i] = CopyCell(w[i - 1], d, s, I[i])

LEMMA CopyRuns ==
    ASSUME NEW m \in Memory, NEW d \in Nat, NEW s \in Nat, NEW n \in Nat,
           NEW I \in [1 .. n -> Nat], \A i \in 1 .. n : s + I[i] \in Cells
    PROVE  \E w : Runs(m, d, s, n, I, w) /\ Copy(m, d, s, I) = w[n]
  <1> DEFINE Op(i, z) == CopyCell(z, d, s, I[i])
             Is(f) == f = [i \in 0 .. n |-> IF i = 0 THEN m ELSE Op(i, f[i - 1])]
             w == CHOOSE f : Is(f)
             St == [q \in (1 .. n) \X Memory |-> Op(q[1], q[2])]
             Good == (0 .. n) \X Memory
  <1>1. Len(I) = n
    BY ArrayLength
  <1>2. Copy(m, d, s, I) = w[n]
    <2>1. Copy(m, d, s, I)
              = (CHOOSE f : f = [i \in 0 .. Len(I) |-> IF i = 0 THEN m
                                                     ELSE CopyCell(f[i - 1], d, s, I[i])])[Len(I)]
      BY DEF Copy
    <2> QED
      BY <1>1, <2>1
  <1>3. \A i \in 1 .. n, z \in Memory : Op(i, z) \in Memory
    BY CellCopied DEF CopiesCell
  <1> HIDE DEF Op
  <1>4. PICK g : Goes(g, n, Memory, m, St, Good)
    <2>1. <<0, m>> \in Good
      OBVIOUS
    <2>2. ASSUME NEW i \in 1 .. n, NEW z \in Memory
          PROVE  St[<<i, z>>] \in Memory /\ <<i, St[<<i, z>>]>> \in Good
      <3>1. St[<<i, z>>] = Op(i, z) /\ i \in 0 .. n
        OBVIOUS
      <3> QED
        BY <1>3, <3>1
    <2> HIDE DEF St, Good
    <2>3. Steps(n, Memory, m, St, Good)
      BY <2>1, <2>2 DEF Steps
    <2> QED
      BY <2>3, LoopRuns
  <1>5. g \in [0 .. n -> Memory] /\ g[0] = m /\ \A i \in 1 .. n : g[i] = Op(i, g[i - 1])
    <2>1. ASSUME NEW i \in 1 .. n  PROVE g[i] = Op(i, g[i - 1])
      <3>1. i - 1 \in 0 .. n
        OBVIOUS
      <3>2. g[i - 1] \in Memory /\ g[i] = St[<<i, g[i - 1]>>]
        BY <1>4, <3>1 DEF Goes
      <3> QED
        BY <3>2
    <2> QED
      BY <1>4, <2>1 DEF Goes
  <1>6. Is(g)
    <2>1. ASSUME NEW i \in 0 .. n  PROVE g[i] = IF i = 0 THEN m ELSE Op(i, g[i - 1])
      <3>1. i # 0 => i \in 1 .. n
        OBVIOUS
      <3> QED
        BY <1>5, <3>1
    <2>2. g = [i \in 0 .. n |-> g[i]]
      BY <1>5
    <2> QED
      BY <2>1, <2>2
  <1>7. Is(w)
    BY <1>6
  <1> HIDE DEF w
  <1>8. w[0] = m /\ \A i \in 1 .. n : w[i] = Op(i, w[i - 1])
    <2>1. \A i \in 0 .. n : w[i] = IF i = 0 THEN m ELSE Op(i, w[i - 1])
      BY <1>7
    <2>2. 0 \in 0 .. n /\ \A i \in 1 .. n : i \in 0 .. n /\ i # 0
      OBVIOUS
    <2> QED
      BY <2>1, <2>2
  <1>9. w \in [0 .. n -> Memory]
    <2> DEFINE S == {i \in 0 .. n : w[i] \in Memory}
    <2>1. 0 \in S
      BY <1>8
    <2>2. ASSUME NEW i \in 1 .. n, i - 1 \in S  PROVE i \in S
      BY <1>3, <1>8, <2>2
    <2> HIDE DEF S
    <2>3. 0 .. n \subseteq S
      BY <2>1, <2>2, Induct
    <2>4. \A i \in 0 .. n : w[i] \in Memory
      BY <2>3 DEF S
    <2>5. w = [i \in 0 .. n |-> w[i]]
      BY <1>7
    <2> QED
      BY <2>4, <2>5
  <1>10. Runs(m, d, s, n, I, w)
    BY <1>8, <1>9 DEF Runs, Op
  <1> QED
    BY <1>2, <1>10

(* What a copy of n cells through a buffer gives.                          *)
Copied(m, d, s, n, r) ==
    /\ r \in Memory
    /\ \A a \in Cells : r[a] = IF a \in d .. d + n - 1 THEN m[a - d + s] ELSE m[a]

Fits(d, s, n) == d \in Nat /\ s \in Nat /\ n \in Nat /\ d + n <= EndCell + 1 /\ s + n <= EndCell + 1

LEMMA CopiesUp ==
    ASSUME NEW m \in Memory, NEW d, NEW s, NEW n, Fits(d, s, n), d <= s \/ s + n <= d
    PROVE  Copied(m, d, s, n, Copy(m, d, s, Upto(n)))
  <1>1. d \in Nat /\ s \in Nat /\ n \in Nat /\ d + n <= EndCell + 1 /\ s + n <= EndCell + 1
          /\ EndCell \in Nat
    BY MemoryTyped DEF Fits
  <1>2. Upto(n) \in [1 .. n -> Nat] /\ \A i \in 1 .. n : Upto(n)[i] = i - 1
    BY <1>1 DEF Upto
  <1>3. \A i \in 1 .. n : s + Upto(n)[i] \in Cells
    BY <1>1, <1>2 DEF Cells
  <1>4. PICK w : Runs(m, d, s, n, Upto(n), w) /\ Copy(m, d, s, Upto(n)) = w[n]
    BY <1>1, <1>2, <1>3, CopyRuns
  <1> DEFINE S == {k \in 0 .. n : Copied(m, d, s, k, w[k])}
  <1>5. 0 \in S
    <2>1. \A a \in Cells : a \notin d .. d + 0 - 1
      BY <1>1 DEF Cells
    <2> QED
      BY <1>1, <1>4, <2>1 DEF Runs, Copied
  <1>6. ASSUME NEW k \in 1 .. n, k - 1 \in S  PROVE k \in S
    <2>1. PICK i \in Nat : i = k - 1 /\ i \in 0 .. n /\ Upto(n)[k] = i /\ s + i \in Cells
      BY <1>1, <1>2, <1>3
    <2>2. w[k] = CopyCell(w[i], d, s, i) /\ w[i] \in Memory /\ Copied(m, d, s, i, w[i])
      BY <1>4, <1>6, <2>1 DEF Runs
    <2>3. w[i][s + i] = m[s + i]
      <3>1. s + i \notin d .. d + i - 1
        BY <1>1, <2>1
      <3> QED
        BY <2>1, <2>2, <3>1 DEF Copied
    <2>4. /\ w[k] \in Memory
          /\ \A a \in Cells : w[k][a] = IF a = d + i THEN w[i][s + i] ELSE w[i][a]
      <3>1. CopiesCell(w[i], d, s, i, w[k])
        BY <1>1, <2>1, <2>2, CellCopied
      <3> QED
        BY <3>1 DEF CopiesCell
    <2>5. ASSUME NEW a \in Cells
          PROVE  w[k][a] = IF a \in d .. d + k - 1 THEN m[a - d + s] ELSE m[a]
      <3>1. a \in Int
        BY DEF Cells
      <3>2. CASE a = d + i
        <4>1. a - d + s = s + i /\ a \in d .. d + k - 1
          BY <1>1, <2>1, <3>2
        <4> QED
          BY <2>3, <2>4, <3>2, <4>1
      <3>3. CASE a # d + i
        <4>1. a \in d .. d + k - 1 <=> a \in d .. d + i - 1
          BY <1>1, <2>1, <3>1, <3>3
        <4>2. w[k][a] = w[i][a]
          BY <2>4, <3>3
        <4> QED
          BY <2>2, <4>1, <4>2 DEF Copied
      <3> QED
        BY <3>2, <3>3
    <2> QED
      BY <2>4, <2>5 DEF Copied
  <1> HIDE DEF S
  <1>7. 0 .. n \subseteq S
    BY <1>1, <1>5, <1>6, Induct
  <1>8. n \in 0 .. n
    BY <1>1
  <1> QED
    BY <1>4, <1>7, <1>8 DEF S

LEMMA CopiesDown ==
    ASSUME NEW m \in Memory, NEW d, NEW s, NEW n, Fits(d, s, n), s < d
    PROVE  Copied(m, d, s, n, Copy(m, d, s, Downto(n)))
  <1>1. d \in Nat /\ s \in Nat /\ n \in Nat /\ d + n <= EndCell + 1 /\ s + n <= EndCell + 1
          /\ EndCell \in Nat
    BY MemoryTyped DEF Fits
  <1>2. Downto(n) \in [1 .. n -> Nat] /\ \A i \in 1 .. n : Downto(n)[i] = n - i
    BY <1>1 DEF Downto
  <1>3. \A i \in 1 .. n : s + Downto(n)[i] \in Cells
    BY <1>1, <1>2 DEF Cells
  <1>4. PICK w : Runs(m, d, s, n, Downto(n), w) /\ Copy(m, d, s, Downto(n)) = w[n]
    BY <1>1, <1>2, <1>3, CopyRuns
  <1> DEFINE Rear(k, r) ==
                 /\ r \in Memory
                 /\ \A a \in Cells : r[a] = IF a \in d + (n - k) .. d + n - 1 THEN m[a - d + s]
                                            ELSE m[a]
             S == {k \in 0 .. n : Rear(k, w[k])}
  <1>5. 0 \in S
    <2>1. \A a \in Cells : a \notin d + (n - 0) .. d + n - 1
      BY <1>1 DEF Cells
    <2> QED
      BY <1>1, <1>4, <2>1 DEF Runs
  <1>6. ASSUME NEW k \in 1 .. n, k - 1 \in S  PROVE k \in S
    <2>0. PICK i \in Nat : i = n - k /\ i + 1 = n - (k - 1)
      <3>1. n - k \in Nat /\ n - k + 1 = n - (k - 1)
        BY <1>1
      <3> QED
        BY <3>1
    <2>1. i = n - k /\ Downto(n)[k] = i /\ s + i \in Cells /\ i + 1 = n - (k - 1)
      BY <1>2, <1>3, <2>0
    <2>2. k - 1 \in 0 .. n /\ Rear(k - 1, w[k - 1])
      BY <1>1, <1>6
    <2> DEFINE g == w[k - 1]
    <2>3. w[k] = CopyCell(g, d, s, i) /\ g \in Memory
      BY <1>4, <2>1, <2>2 DEF Runs
    <2>4. \A a \in Cells : g[a] = IF a \in d + (i + 1) .. d + n - 1 THEN m[a - d + s] ELSE m[a]
      BY <2>1, <2>2
    <2> HIDE DEF g, Rear
    <2>5. g[s + i] = m[s + i]
      <3>1. s + i \notin d + (i + 1) .. d + n - 1
        BY <1>1, <2>1
      <3> QED
        BY <2>1, <2>4, <3>1
    <2>6. /\ w[k] \in Memory
          /\ \A a \in Cells : w[k][a] = IF a = d + i THEN g[s + i] ELSE g[a]
      <3>1. CopiesCell(g, d, s, i, w[k])
        BY <1>1, <2>1, <2>3, CellCopied
      <3> QED
        BY <3>1 DEF CopiesCell
    <2>7. ASSUME NEW a \in Cells
          PROVE  w[k][a] = IF a \in d + (n - k) .. d + n - 1 THEN m[a - d + s] ELSE m[a]
      <3>1. a \in Int
        BY DEF Cells
      <3>2. CASE a = d + i
        <4>1. a - d + s = s + i /\ a \in d + (n - k) .. d + n - 1
          BY <1>1, <2>1, <3>2
        <4> QED
          BY <2>5, <2>6, <3>2, <4>1
      <3>3. CASE a # d + i
        <4>1. a \in d + (n - k) .. d + n - 1 <=> a \in d + (i + 1) .. d + n - 1
          BY <1>1, <2>1, <3>1, <3>3
        <4>2. w[k][a] = g[a]
          BY <2>6, <3>3
        <4> QED
          BY <2>4, <4>1, <4>2
      <3> QED
        BY <3>2, <3>3
    <2> QED
      BY <2>6, <2>7 DEF Rear
  <1> HIDE DEF S
  <1>7. 0 .. n \subseteq S
    BY <1>1, <1>5, <1>6, Induct
  <1>8. n \in 0 .. n /\ n - n = 0 /\ d + 0 = d
    BY <1>1
  <1>9. Rear(n, w[n])
    BY <1>7, <1>8 DEF S
  <1> QED
    BY <1>4, <1>8, <1>9 DEF Copied

LEMMA Moved ==
    ASSUME NEW m \in Memory, NEW d, NEW s, NEW n, Fits(d, s, n)
    PROVE  memmove(m, d, s, n)
               = [a \in DOMAIN m |-> IF a \in d .. d + n - 1 THEN m[a - d + s] ELSE m[a]]
  <1> DEFINE r == memmove(m, d, s, n)
  <1>1. Copied(m, d, s, n, r)
    <2>1. CASE MustGoBack(d, s, n)
      <3>1. s < d
        BY <2>1 DEF MustGoBack
      <3>2. r = Copy(m, d, s, Downto(n))
        BY <2>1 DEF memmove
      <3> QED
        BY <3>1, <3>2, CopiesDown
    <2>2. CASE ~MustGoBack(d, s, n)
      <3>1. d <= s \/ s + n <= d
        <4>1. d \in Nat /\ s \in Nat /\ n \in Nat
          BY DEF Fits
        <4> QED
          BY <2>2, <4>1 DEF MustGoBack
      <3>2. r = Copy(m, d, s, Upto(n))
        BY <2>2 DEF memmove, memcpy
      <3> QED
        BY <3>1, <3>2, CopiesUp
    <2> QED
      BY <2>1, <2>2
  <1> HIDE DEF r
  <1>2. DOMAIN m = Cells /\ r = [a \in Cells |-> r[a]]
    BY <1>1 DEF Memory, Copied
  <1>3. r = [a \in Cells |-> IF a \in d .. d + n - 1 THEN m[a - d + s] ELSE m[a]]
    BY <1>1, <1>2 DEF Copied
  <1> QED
    BY <1>2, <1>3 DEF r

LEMMA MinExists == ASSUME NEW S \in SUBSET Nat, S # {}
                   PROVE  Min(S) \in S /\ \A j \in S : Min(S) <= j
  <1>1. \E k \in S : \A j \in S : k <= j
    BY LeastExists
  <1> QED
    BY <1>1 DEF Min

LEMMA MinIs == ASSUME NEW S \in SUBSET Nat, NEW i \in S, \A j \in S : i <= j
               PROVE  Min(S) = i
  <1>1. Min(S) \in S /\ \A j \in S : Min(S) <= j
    BY MinExists
  <1>2. Min(S) <= i /\ i <= Min(S) /\ Min(S) \in Nat /\ i \in Nat
    BY <1>1
  <1> QED
    BY <1>2

(* The first of n places that is in Hits, or n.                            *)
IsFirst(n, Hits, r) ==
    /\ r \in 0 .. n /\ (r < n => r \in Hits) /\ (r = n => Hits = {})
    /\ \A j \in 0 .. r - 1 : j \notin Hits

LEMMA FirstOf == ASSUME NEW n \in Nat, NEW Hits \in SUBSET (0 .. n - 1)
                 PROVE  IsFirst(n, Hits, IF Hits = {} THEN n ELSE Min(Hits))
  <1>1. CASE Hits = {}
    BY <1>1 DEF IsFirst
  <1>2. CASE Hits # {}
    <2>1. Hits \in SUBSET Nat
      OBVIOUS
    <2>2. Min(Hits) \in Hits /\ \A j \in Hits : Min(Hits) <= j
      BY <1>2, <2>1, MinExists
    <2>3. PICK r \in 0 .. n - 1 : r = Min(Hits)
      BY <2>2
    <2>4. \A j \in 0 .. r - 1 : j \notin Hits
      BY <2>2, <2>3
    <2> QED
      BY <1>2, <2>2, <2>3, <2>4 DEF IsFirst
  <1> QED
    BY <1>1, <1>2

LEMMA Found ==
    ASSUME NEW m \in Memory, NEW d \in Nat, NEW n \in Nat, NEW c
    PROVE  LET r == memchr(m, d, c, n)
           IN  IF r = NULL THEN \A a \in d .. d + n - 1 : m[a] # c
               ELSE r \in d .. d + n - 1 /\ m[r] = c /\ \A a \in d .. r - 1 : m[a] # c
  <1> DEFINE Hits == {k \in 0 .. n - 1 : m[d + k] = c}
             i == IF Hits = {} THEN n ELSE Min(Hits)
  <1>1. memchr(m, d, c, n) = IF i = n THEN NULL ELSE d + i
    BY DEF memchr, First
  <1>2. Hits \in SUBSET (0 .. n - 1)
    OBVIOUS
  <1> HIDE DEF Hits
  <1>3. IsFirst(n, Hits, i)
    BY <1>2, FirstOf
  <1> HIDE DEF i
  <1>4. i \in 0 .. n /\ (i < n => i \in Hits) /\ (i = n => Hits = {})
          /\ \A j \in 0 .. i - 1 : j \notin Hits
    BY <1>3 DEF IsFirst
  <1>5. ASSUME NEW a \in d .. d + n - 1, m[a] = c  PROVE a - d \in Hits
    <2>1. a - d \in 0 .. n - 1 /\ d + (a - d) = a
      OBVIOUS
    <2> QED
      BY <1>5, <2>1 DEF Hits
  <1>6. CASE i = n
    BY <1>1, <1>4, <1>5, <1>6
  <1>7. CASE i # n
    <2>1. i \in 0 .. n - 1 /\ m[d + i] = c
      BY <1>4, <1>7 DEF Hits
    <2>2. d + i \in d .. d + n - 1 /\ d + i # NULL
      BY <2>1 DEF NULL
    <2>3. \A a \in d .. d + i - 1 : a \in d .. d + n - 1 /\ a - d \in 0 .. i - 1
      BY <2>1
    <2> QED
      BY <1>1, <1>4, <1>5, <1>7, <2>1, <2>2, <2>3
  <1> QED
    BY <1>6, <1>7

LEMMA AfterMove == Move => MemoryFaithful'
  <1> SUFFICES ASSUME Move  PROVE MemoryFaithful'
    OBVIOUS
  <1>1. PICK m \in Memories : \E d, s, n \in 0 .. Cardinality(DOMAIN m) \div 2 :
           \/ /\ call' = [fn |-> "memmove", m |-> m, d |-> d, s |-> s, n |-> n]
              /\ result' = memmove(m, d, s, n)
           \/ /\ call' = [fn |-> "memset", m |-> m, d |-> d, s |-> 1, n |-> n]
              /\ result' = memset(m, d, 1, n)
           \/ /\ call' = [fn |-> "memchr", m |-> m, d |-> d, s |-> s, n |-> n]
              /\ result' = memchr(m, d, s, n)
    BY DEF Move, Calls
  <1>2. m \in Memory
    BY MemoryTyped
  <1>3. PICK d \in 0 .. 2 * Longest + 1, s \in 0 .. 2 * Longest + 1, n \in 0 .. 2 * Longest + 1 :
           \/ /\ call' = [fn |-> "memmove", m |-> m, d |-> d, s |-> s, n |-> n]
              /\ result' = memmove(m, d, s, n)
           \/ /\ call' = [fn |-> "memset", m |-> m, d |-> d, s |-> 1, n |-> n]
              /\ result' = memset(m, d, 1, n)
           \/ /\ call' = [fn |-> "memchr", m |-> m, d |-> d, s |-> s, n |-> n]
              /\ result' = memchr(m, d, s, n)
    <2>1. Cardinality(DOMAIN m) = 4 * Longest + 3
      BY <1>2, MemorySize, MemoryTyped
    <2>2. (4 * Longest + 3) \div 2 = 2 * Longest + 1
      BY MemoryTyped
    <2> QED
      BY <1>1, <2>1, <2>2
  <1>4. Fits(d, s, n) /\ d \in Nat /\ n \in Nat
    BY MemoryTyped DEF Fits
  <1>5. CASE /\ call' = [fn |-> "memmove", m |-> m, d |-> d, s |-> s, n |-> n]
             /\ result' = memmove(m, d, s, n)
    <2>1. call'.fn = "memmove" /\ call'.m = m /\ call'.d = d /\ call'.s = s /\ call'.n = n
      BY <1>5
    <2>2. result' = [a \in DOMAIN m |-> IF a \in d .. d + n - 1 THEN m[a - d + s] ELSE m[a]]
      BY <1>2, <1>4, <1>5, Moved
    <2> QED
      BY <2>1, <2>2 DEF MemoryFaithful
  <1>6. CASE /\ call' = [fn |-> "memset", m |-> m, d |-> d, s |-> 1, n |-> n]
             /\ result' = memset(m, d, 1, n)
    <2>1. call'.fn = "memset" /\ call'.m = m /\ call'.d = d /\ call'.s = 1 /\ call'.n = n
      BY <1>6
    <2>2. \A a \in DOMAIN m : result'[a] = IF a \in d .. d + n - 1 THEN 1 ELSE m[a]
      BY <1>6 DEF memset
    <2> QED
      BY <2>1, <2>2 DEF MemoryFaithful
  <1>7. CASE /\ call' = [fn |-> "memchr", m |-> m, d |-> d, s |-> s, n |-> n]
             /\ result' = memchr(m, d, s, n)
    <2>1. call'.fn = "memchr" /\ call'.m = m /\ call'.d = d /\ call'.s = s /\ call'.n = n
      BY <1>7
    <2>2. IF result' = NULL THEN \A a \in d .. d + n - 1 : m[a] # s
          ELSE result' \in d .. d + n - 1 /\ m[result'] = s /\ \A a \in d .. result' - 1 : m[a] # s
      BY <1>2, <1>4, <1>7, Found
    <2> QED
      BY <2>1, <2>2 DEF MemoryFaithful
  <1> QED
    BY <1>3, <1>5, <1>6, <1>7

-----------------------------------------------------------------------------
(* Strings                                                                 *)

(* A string ends at the first 0.                                           *)
EndsAt(m, s, k) ==
    k \in Nat /\ s + k \in Cells /\ m[s + k] = 0 /\ \A i \in 0 .. k - 1 : m[s + i] # 0

LEMMA LengthIs == ASSUME NEW m \in Memory, NEW s \in Nat, NEW k, EndsAt(m, s, k)
                  PROVE  strlen(m, s) = k
  <1> DEFINE S == {i \in 0 .. Cardinality(DOMAIN m) : s + i \in DOMAIN m /\ m[s + i] = 0}
  <1>1. DOMAIN m = Cells /\ Cardinality(DOMAIN m) = EndCell + 1 /\ EndCell \in Nat
    BY MemorySize, MemoryTyped
  <1>2. k \in Nat /\ s + k \in Cells /\ m[s + k] = 0 /\ \A i \in 0 .. k - 1 : m[s + i] # 0
    BY DEF EndsAt
  <1>3. k \in 0 .. EndCell + 1
    BY <1>1, <1>2 DEF Cells
  <1>4. k \in S /\ S \in SUBSET Nat
    BY <1>1, <1>2, <1>3
  <1>5. \A j \in S : k <= j
    <2>1. ASSUME NEW j \in S, j < k  PROVE FALSE
      <3>1. j \in 0 .. k - 1 /\ m[s + j] = 0
        BY <1>2, <2>1
      <3> QED
        BY <1>2, <3>1
    <2>2. \A j \in S : j \in Nat
      BY <1>4
    <2> HIDE DEF S
    <2> QED
      BY <1>2, <2>1, <2>2
  <1>6. strlen(m, s) = Min(S)
    BY DEF strlen
  <1> HIDE DEF S
  <1> QED
    BY <1>4, <1>5, <1>6, MinIs

LEMMA LengthExists ==
    ASSUME NEW m \in Memory, NEW s \in Nat, NEW k \in Nat, s + k \in Cells, m[s + k] = 0
    PROVE  EndsAt(m, s, strlen(m, s)) /\ strlen(m, s) \in 0 .. k
  <1> DEFINE S == {i \in 0 .. k : m[s + i] = 0}
             e == Min(S)
  <1>1. S \in SUBSET Nat /\ k \in S
    OBVIOUS
  <1>2. e \in S /\ \A j \in S : e <= j
    BY <1>1, MinExists
  <1>3. e \in 0 .. k /\ m[s + e] = 0
    BY <1>2
  <1> HIDE DEF e
  <1>4. ASSUME NEW i \in 0 .. e - 1  PROVE m[s + i] # 0
    <2>1. i \in 0 .. k /\ ~(e <= i)
      BY <1>3
    <2> QED
      BY <1>2, <2>1
  <1>5. s + e \in Cells
    BY <1>3, MemoryTyped DEF Cells
  <1>6. EndsAt(m, s, e)
    BY <1>3, <1>4, <1>5 DEF EndsAt
  <1>7. strlen(m, s) = e
    BY <1>6, LengthIs
  <1> QED
    BY <1>3, <1>6, <1>7

(* An address at which a string of at most Longest chars starts.           *)
Terminated(m, s) == s \in Nat /\ s + Longest \in Cells /\ m[s + Longest] = 0

LEMMA EndsSoon == ASSUME NEW m \in Memory, NEW s, Terminated(m, s)
                  PROVE  EndsAt(m, s, strlen(m, s)) /\ strlen(m, s) \in 0 .. Longest
  BY LengthExists, MemoryTyped DEF Terminated

(* A char is compared as it is, or as its small letter.                    *)
Same == [c \in Int |-> c]
Low == [c \in Int |-> tolower(c)]
Keeps(f) == f \in [Int -> Int] /\ \A c \in Int : f[c] = 0 <=> c = 0

LEMMA BothKeep == Keeps(Same) /\ Keeps(Low)
  <1>1. Keeps(Same)
    BY DEF Same, Keeps
  <1>2. \A c \in Int : tolower(c) \in Int /\ (tolower(c) = 0 <=> c = 0)
    BY DEF tolower
  <1> QED
    BY <1>1, <1>2 DEF Low, Keeps

(* Where a comparison through f stops, and what it returns.                *)
StopAt(m, d, s, f) == Min({i \in 0 .. strlen(m, d) : m[d + i] = 0 \/ f[m[d + i]] # f[m[s + i]]})

Diff(m, d, s, f, n) ==
    LET i == StopAt(m, d, s, f) IN IF i >= n THEN 0 ELSE f[m[d + i]] - f[m[s + i]]

Stops(m, d, s, f, i) ==
    /\ i \in 0 .. strlen(m, d) /\ d + i \in Cells /\ s + i \in Cells
    /\ m[d + i] = 0 \/ f[m[d + i]] # f[m[s + i]]
    /\ \A k \in 0 .. i - 1 : m[d + k] # 0 /\ f[m[d + k]] = f[m[s + k]]

LEMMA StopsThere ==
    ASSUME NEW m \in Memory, NEW d, NEW s, Terminated(m, d), Terminated(m, s), NEW f
    PROVE  Stops(m, d, s, f, StopAt(m, d, s, f))
  <1> DEFINE e == strlen(m, d)
             S == {i \in 0 .. e : m[d + i] = 0 \/ f[m[d + i]] # f[m[s + i]]}
             i == Min(S)
  <1>1. e \in 0 .. Longest /\ m[d + e] = 0 /\ Longest \in Nat
    BY EndsSoon, MemoryTyped DEF EndsAt
  <1> HIDE DEF e
  <1>2. S \in SUBSET Nat /\ e \in S
    BY <1>1
  <1>3. i \in S /\ \A j \in S : i <= j
    BY <1>2, MinExists
  <1>4. StopAt(m, d, s, f) = i
    BY DEF StopAt, e
  <1> HIDE DEF i
  <1>5. i \in 0 .. e /\ (m[d + i] = 0 \/ f[m[d + i]] # f[m[s + i]])
    BY <1>3
  <1>6. ASSUME NEW k \in 0 .. i - 1  PROVE m[d + k] # 0 /\ f[m[d + k]] = f[m[s + k]]
    <2>1. k \in 0 .. e /\ ~(i <= k)
      BY <1>1, <1>5
    <2> QED
      BY <1>3, <2>1
  <1>7. d + i \in Cells /\ s + i \in Cells
    BY <1>1, <1>5, MemoryTyped DEF Terminated, Cells
  <1> QED
    BY <1>4, <1>5, <1>6, <1>7 DEF Stops, e

LEMMA StopIs == ASSUME NEW m \in Memory, NEW d, NEW s, Terminated(m, d), Terminated(m, s),
                       NEW f, Keeps(f), NEW i, Stops(m, d, s, f, i)
                PROVE  StopAt(m, d, s, f) = i
  <1> DEFINE S == {j \in 0 .. strlen(m, d) : m[d + j] = 0 \/ f[m[d + j]] # f[m[s + j]]}
  <1>1. strlen(m, d) \in Nat
    BY EndsSoon, MemoryTyped
  <1>2. i \in S /\ S \in SUBSET Nat
    BY <1>1 DEF Stops
  <1>3. ASSUME NEW j \in S, j < i  PROVE FALSE
    <2>1. j \in 0 .. i - 1
      BY <1>2, <1>3
    <2> QED
      BY <2>1 DEF Stops
  <1>4. \A j \in S : i <= j
    <2> HIDE DEF S
    <2> QED
      BY <1>2, <1>3
  <1>5. StopAt(m, d, s, f) = Min(S)
    BY DEF StopAt
  <1> HIDE DEF S
  <1> QED
    BY <1>2, <1>4, <1>5, MinIs

(* The chars of a string and its end, n of them at most.                   *)
Lesser(a, b) == IF a < b THEN a ELSE b
Reads(m, d, f, n) == [j \in 1 .. Lesser(n, strlen(m, d) + 1) |-> f[m[d + j - 1]]]

LEMMA StringTyped ==
    ASSUME NEW m \in Memory, NEW d, Terminated(m, d)
    PROVE  /\ String(m, d) \in Seq(Int) /\ Len(String(m, d)) = strlen(m, d)
           /\ \A j \in 1 .. strlen(m, d) : String(m, d)[j] = m[d + j - 1]
  <1> DEFINE e == strlen(m, d)
             v == [j \in 1 .. e |-> m[d + j - 1]]
  <1>1. e \in Nat /\ d \in Nat /\ d + e \in Cells /\ EndCell \in Nat
    BY EndsSoon, MemoryTyped DEF EndsAt, Terminated
  <1> HIDE DEF e
  <1>2. ASSUME NEW j \in 1 .. e  PROVE m[d + j - 1] \in Int
    <2>1. d + j - 1 \in Cells
      BY <1>1 DEF Cells
    <2> QED
      BY <2>1 DEF Memory
  <1>3. v \in [1 .. e -> Int]
    BY <1>2
  <1>4. v \in Seq(Int) /\ Len(v) = e
    <2> HIDE DEF v
    <2> QED
      BY <1>1, <1>3, ArrayLength
  <1> QED
    BY <1>4 DEF String, e

LEMMA ReadsIs ==
    ASSUME NEW m \in Memory, NEW d, Terminated(m, d), NEW n \in Nat
    PROVE  /\ Within(Ended(String(m, d)), n) = Reads(m, d, Same, n)
           /\ Lower(Within(Ended(String(m, d)), n)) = Reads(m, d, Low, n)
  <1> DEFINE e == strlen(m, d)
             t == String(m, d)
             v == Ended(t)
             w == Within(v, n)
             l == Lesser(n, e + 1)
  <1>1. e \in Nat /\ d \in Nat /\ d + e \in Cells /\ EndCell \in Nat /\ m[d + e] = 0
    BY EndsSoon, MemoryTyped DEF EndsAt, Terminated
  <1>2. t \in Seq(Int) /\ Len(t) = e /\ \A j \in 1 .. e : t[j] = m[d + j - 1]
    BY StringTyped
  <1> HIDE DEF t, e
  <1>3. v \in Seq(Int) /\ Len(v) = e + 1 /\ \A j \in 1 .. e + 1 : v[j] = m[d + j - 1]
    <2>1. v \in Seq(Int) /\ Len(v) = e + 1 /\ v[e + 1] = 0 /\ \A j \in 1 .. e : v[j] = t[j]
      BY <1>1, <1>2 DEF Ended
    <2>2. d + (e + 1) - 1 = d + e
      BY <1>1
    <2>3. \A j \in 1 .. e + 1 : j = e + 1 \/ j \in 1 .. e
      BY <1>1
    <2> HIDE DEF v
    <2> QED
      BY <1>1, <1>2, <2>1, <2>2, <2>3
  <1> HIDE DEF v
  <1>4. l \in Nat /\ l <= n /\ l <= e + 1 /\ l = (IF n < e + 1 THEN n ELSE e + 1)
    BY <1>1 DEF Lesser
  <1>5. w \in Seq(Int) /\ Len(w) = l /\ \A j \in 1 .. l : w[j] = v[j]
    <2>1. CASE n < e + 1
      <3>1. w = SubSeq(v, 1, n) /\ l = n
        BY <1>3, <1>4, <2>1 DEF Within
      <3> QED
        BY <1>1, <1>3, <2>1, <3>1
    <2>2. CASE ~(n < e + 1)
      <3>1. w = v /\ l = e + 1
        BY <1>3, <1>4, <2>2 DEF Within
      <3> QED
        BY <1>3, <3>1
    <2> QED
      BY <2>1, <2>2
  <1> HIDE DEF w, l
  <1>6. \A j \in 1 .. l : w[j] = m[d + j - 1] /\ m[d + j - 1] \in Int
    <2>1. ASSUME NEW j \in 1 .. l  PROVE w[j] = m[d + j - 1] /\ m[d + j - 1] \in Int
      <3>1. j \in 1 .. e + 1 /\ d + j - 1 \in Cells
        BY <1>1, <1>4 DEF Cells
      <3> QED
        BY <1>3, <1>5, <3>1 DEF Memory
    <2> QED
      BY <2>1
  <1>7. DOMAIN w = 1 .. l /\ w = [j \in 1 .. l |-> w[j]]
    BY <1>4, <1>5
  <1>8. w = [j \in 1 .. l |-> Same[m[d + j - 1]]]
    BY <1>6, <1>7 DEF Same
  <1>9. Lower(w) = [j \in 1 .. l |-> Low[m[d + j - 1]]]
    <2>1. \A j \in 1 .. l : tolower(w[j]) = Low[m[d + j - 1]]
      BY <1>6 DEF Low
    <2> QED
      BY <1>7, <2>1 DEF Lower
  <1> QED
    BY <1>8, <1>9 DEF Reads, l, e, w, v, t

LEMMA PrefixSame ==
    ASSUME NEW a \in Seq(Int), NEW b \in Seq(Int), NEW k \in Nat, k <= Len(a), k <= Len(b)
    PROVE  SubSeq(a, 1, k) = SubSeq(b, 1, k) <=> \A j \in 1 .. k : a[j] = b[j]
  <1> DEFINE p == SubSeq(a, 1, k)
             q == SubSeq(b, 1, k)
  <1>1. p \in Seq(Int) /\ Len(p) = k /\ \A j \in 1 .. k : p[j] = a[j]
    OBVIOUS
  <1>2. q \in Seq(Int) /\ Len(q) = k /\ \A j \in 1 .. k : q[j] = b[j]
    OBVIOUS
  <1> HIDE DEF p, q
  <1>3. (\A j \in 1 .. k : p[j] = q[j]) => p = q
    BY <1>1, <1>2
  <1>4. p = q <=> \A j \in 1 .. k : a[j] = b[j]
    BY <1>1, <1>2, <1>3
  <1> QED
    BY <1>4 DEF p, q

(* The first place at which two strings differ decides their order.        *)
LEMMA OrderIs ==
    ASSUME NEW a \in Seq(Int), NEW b \in Seq(Int), NEW p \in Nat, p + 1 <= Len(a), p + 1 <= Len(b),
           \A j \in 1 .. p : a[j] = b[j], a[p + 1] # b[p + 1]
    PROVE  Order(a, b) = Sgn(a[p + 1] - b[p + 1])
  <1>1. p + 1 \in DOMAIN a /\ p + 1 \in DOMAIN b /\ a # b /\ a[p + 1] \in Int /\ b[p + 1] \in Int
    OBVIOUS
  <1>2. ASSUME a[p + 1] < b[p + 1]  PROVE Before(a, b)
    <2>1. SubSeq(a, 1, p) = SubSeq(b, 1, p)
      <3>1. p <= Len(a) /\ p <= Len(b)
        OBVIOUS
      <3> QED
        BY <3>1, PrefixSame
    <2>2. p + 1 - 1 = p
      OBVIOUS
    <2>3. SubSeq(a, 1, p + 1 - 1) = SubSeq(b, 1, p + 1 - 1)
      BY <2>1, <2>2
    <2>4. \E i \in DOMAIN a \cap DOMAIN b : SubSeq(a, 1, i - 1) = SubSeq(b, 1, i - 1) /\ a[i] < b[i]
      <3> p + 1 \in DOMAIN a \cap DOMAIN b
        BY <1>1
      <3> WITNESS p + 1 \in DOMAIN a \cap DOMAIN b
      <3> QED
        BY <1>2, <2>3
    <2> QED
      BY <2>4 DEF Before
  <1>3. ASSUME Before(a, b)  PROVE a[p + 1] < b[p + 1]
    <2>1. PICK i \in DOMAIN a \cap DOMAIN b :
              SubSeq(a, 1, i - 1) = SubSeq(b, 1, i - 1) /\ a[i] < b[i]
      BY <1>3 DEF Before
    <2>2. i \in Nat /\ i >= 1 /\ i - 1 \in Nat /\ i - 1 <= Len(a) /\ i - 1 <= Len(b)
      OBVIOUS
    <2>3. \A j \in 1 .. i - 1 : a[j] = b[j]
      BY <2>1, <2>2, PrefixSame
    <2>4. a[i] \in Int /\ b[i] \in Int /\ a[i] # b[i]
      BY <2>1
    <2>5. i \notin 1 .. p
      BY <2>4
    <2>6. p + 1 \notin 1 .. i - 1
      BY <2>3
    <2>7. i = p + 1
      BY <2>2, <2>5, <2>6
    <2> QED
      BY <2>1, <2>7
  <1> QED
    BY <1>1, <1>2, <1>3 DEF Order, Sgn

LEMMA ReadsTyped ==
    ASSUME NEW m \in Memory, NEW d, Terminated(m, d), NEW n \in Nat, NEW f, Keeps(f)
    PROVE  /\ Reads(m, d, f, n) \in Seq(Int)
           /\ Len(Reads(m, d, f, n)) = Lesser(n, strlen(m, d) + 1)
           /\ \A j \in 1 .. Lesser(n, strlen(m, d) + 1) : Reads(m, d, f, n)[j] = f[m[d + j - 1]]
  <1> DEFINE e == strlen(m, d)
             l == Lesser(n, e + 1)
             v == [j \in 1 .. l |-> f[m[d + j - 1]]]
  <1>1. e \in Nat /\ d \in Nat /\ d + e \in Cells /\ EndCell \in Nat
    BY EndsSoon, MemoryTyped DEF EndsAt, Terminated
  <1> HIDE DEF e
  <1>2. l \in Nat /\ l <= e + 1
    BY <1>1 DEF Lesser
  <1> HIDE DEF l
  <1>3. ASSUME NEW j \in 1 .. l  PROVE f[m[d + j - 1]] \in Int
    <2>1. d + j - 1 \in Cells
      BY <1>1, <1>2 DEF Cells
    <2> QED
      BY <2>1 DEF Memory, Keeps
  <1>4. v \in [1 .. l -> Int]
    BY <1>3
  <1>5. v \in Seq(Int) /\ Len(v) = l
    <2> HIDE DEF v
    <2> QED
      BY <1>2, <1>4, ArrayLength
  <1> QED
    BY <1>5 DEF Reads, l, e

LEMMA SignOfNone == Sgn(0) = 0
  BY DEF Sgn

LEMMA Opposite == ASSUME NEW x \in Int, NEW y \in Int, y + x = 0
                  PROVE  y = -x
  OBVIOUS

LEMMA NoneIsNone == ASSUME NEW x, NEW y, x = 0, y = 0
                    PROVE  y = -x
  <1>1. y + x = 0 /\ x \in Int /\ y \in Int
    OBVIOUS
  <1> QED
    BY <1>1, Opposite, Zenon

(* The other string stops the comparison at the same place.                *)
LEMMA StopsBoth ==
    ASSUME NEW m \in Memory, NEW d, NEW s, Terminated(m, d), Terminated(m, s),
           NEW f, Keeps(f), NEW i, Stops(m, d, s, f, i)
    PROVE  Stops(m, s, d, f, i)
  <1>1. /\ i \in Nat /\ d + i \in Cells /\ s + i \in Cells
        /\ m[d + i] = 0 \/ f[m[d + i]] # f[m[s + i]]
        /\ \A k \in 0 .. i - 1 : m[d + k] # 0 /\ f[m[d + k]] = f[m[s + k]]
    BY EndsSoon, MemoryTyped DEF Stops
  <1>2. \A a \in Cells : m[a] \in Int /\ (f[m[a]] = 0 <=> m[a] = 0)
    BY DEF Memory, Keeps
  <1>3. \A k \in 0 .. i - 1 : d + k \in Cells /\ s + k \in Cells
    BY <1>1, MemoryTyped DEF Cells, Terminated
  <1>4. \A k \in 0 .. i - 1 : m[s + k] # 0 /\ f[m[s + k]] = f[m[d + k]]
    BY <1>1, <1>2, <1>3
  <1>5. m[s + i] = 0 \/ f[m[s + i]] # f[m[d + i]]
    BY <1>1, <1>2
  <1>6. i \in 0 .. strlen(m, s)
    <2>1. strlen(m, s) \in Nat /\ m[s + strlen(m, s)] = 0
      BY EndsSoon, MemoryTyped DEF EndsAt
    <2>2. strlen(m, s) \notin 0 .. i - 1
      BY <1>4, <2>1
    <2> QED
      BY <1>1, <2>1, <2>2
  <1> QED
    BY <1>1, <1>4, <1>5, <1>6 DEF Stops

LEMMA DiffIs ==
    ASSUME NEW m \in Memory, NEW d, NEW s, Terminated(m, d), Terminated(m, s),
           NEW f, Keeps(f), NEW n \in Nat
    PROVE  /\ Sgn(Diff(m, d, s, f, n)) = Order(Reads(m, d, f, n), Reads(m, s, f, n))
           /\ Diff(m, s, d, f, n) = -Diff(m, d, s, f, n)
  <1> DEFINE i == StopAt(m, d, s, f)
             e == strlen(m, d)
             g == strlen(m, s)
             A == Reads(m, d, f, n)
             B == Reads(m, s, f, n)
             x == f[m[d + i]]
             y == f[m[s + i]]
  <1>1. Stops(m, d, s, f, i) /\ Stops(m, s, d, f, i)
    BY StopsThere, StopsBoth
  <1>2. StopAt(m, s, d, f) = i
    BY <1>1, StopIs
  <1>3. Diff(m, d, s, f, n) = IF i >= n THEN 0 ELSE x - y
    BY DEF Diff
  <1>4. Diff(m, s, d, f, n) = IF i >= n THEN 0 ELSE y - x
    BY <1>2 DEF Diff
  <1> HIDE DEF i
  <1>5. /\ i \in Nat /\ i <= e /\ i <= g /\ e \in Nat /\ g \in Nat
        /\ d + i \in Cells /\ s + i \in Cells /\ d \in Nat /\ s \in Nat
    BY <1>1, EndsSoon, MemoryTyped DEF Stops, Terminated
  <1>6. \A k \in 0 .. i - 1 : m[d + k] # 0 /\ m[s + k] # 0 /\ f[m[d + k]] = f[m[s + k]]
    BY <1>1 DEF Stops
  <1>7. x \in Int /\ y \in Int
    BY <1>5 DEF Memory, Keeps
  <1>8. A \in Seq(Int) /\ Len(A) = Lesser(n, e + 1)
          /\ \A j \in 1 .. Lesser(n, e + 1) : A[j] = f[m[d + j - 1]]
    BY ReadsTyped
  <1>9. B \in Seq(Int) /\ Len(B) = Lesser(n, g + 1)
          /\ \A j \in 1 .. Lesser(n, g + 1) : B[j] = f[m[s + j - 1]]
    BY ReadsTyped
  <1> HIDE DEF A, B
  <1>9a. Len(A) = Lesser(n, e + 1) /\ Len(B) = Lesser(n, g + 1)
    BY <1>8, <1>9
  <1>10. ASSUME NEW j \in 1 .. i  PROVE f[m[d + j - 1]] = f[m[s + j - 1]]
    <2>1. PICK k \in 0 .. i - 1 : k = j - 1 /\ d + j - 1 = d + k /\ s + j - 1 = s + k
      <3>1. j - 1 \in 0 .. i - 1 /\ d + j - 1 = d + (j - 1) /\ s + j - 1 = s + (j - 1)
        BY <1>5
      <3> QED
        BY <3>1
    <2> QED
      BY <1>6, <2>1
  <1>11. d + (i + 1) - 1 = d + i /\ s + (i + 1) - 1 = s + i
    BY <1>5
  <1>12. CASE i >= n
    <2>1. Len(A) = n /\ Len(B) = n /\ Lesser(n, e + 1) = n /\ Lesser(n, g + 1) = n
      BY <1>5, <1>9a, <1>12 DEF Lesser
    <2>2. \A j \in 1 .. n : A[j] = B[j]
      <3>1. \A j \in 1 .. n : j \in 1 .. i
        BY <1>5, <1>12
      <3> QED
        BY <1>8, <1>9, <1>10, <2>1, <3>1
    <2>3. A = B
      <3>1. A \in [1 .. n -> Int]
        BY <1>8, <2>1
      <3>2. B \in [1 .. n -> Int]
        BY <1>9, <2>1
      <3> QED
        BY <2>2, <3>1, <3>2, SameFunction
    <2>4. Order(A, B) = 0
      BY <2>3 DEF Order
    <2>5. Sgn(0) = 0
      BY SignOfNone
    <2>6. Diff(m, d, s, f, n) = 0 /\ Diff(m, s, d, f, n) = 0
      BY <1>3, <1>4, <1>12
    <2>7. Diff(m, s, d, f, n) = -Diff(m, d, s, f, n)
      BY <2>6, NoneIsNone
    <2>8. Sgn(Diff(m, d, s, f, n)) = Order(A, B)
      BY <2>4, <2>5, <2>6
    <2> QED
      BY <2>7, <2>8 DEF A, B
  <1>13. CASE i < n /\ x # y
    <2>1. i + 1 <= Len(A) /\ i + 1 <= Len(B)
      BY <1>5, <1>9a, <1>13 DEF Lesser
    <2>2. A[i + 1] = x /\ B[i + 1] = y
      <3>1. i + 1 \in 1 .. Len(A) /\ i + 1 \in 1 .. Len(B)
        BY <1>5, <2>1, <1>8, <1>9
      <3> QED
        BY <1>8, <1>9, <1>11, <3>1
    <2>3. \A j \in 1 .. i : A[j] = B[j]
      <3>0. Len(A) \in Nat /\ Len(B) \in Nat
        BY <1>8, <1>9
      <3>1. \A j \in 1 .. i : j \in 1 .. Len(A) /\ j \in 1 .. Len(B)
        BY <1>5, <2>1, <3>0
      <3> QED
        BY <1>8, <1>9, <1>10, <3>1
    <2>4. Order(A, B) = Sgn(x - y)
      BY <1>5, <1>8, <1>9, <1>13, <2>1, <2>2, <2>3, OrderIs
    <2>5. ~(i >= n) /\ y - x = -(x - y)
      BY <1>5, <1>7, <1>13
    <2> QED
      BY <1>3, <1>4, <2>4, <2>5 DEF A, B
  <1>14. CASE i < n /\ x = y
    <2>1. m[d + i] = 0 /\ m[s + i] = 0
      BY <1>1, <1>14 DEF Stops
    <2>2. EndsAt(m, d, i) /\ EndsAt(m, s, i)
      BY <1>5, <1>6, <2>1 DEF EndsAt
    <2>3. e = i /\ g = i
      BY <1>5, <2>2, LengthIs
    <2>4. Len(A) = i + 1 /\ Len(B) = i + 1 /\ Lesser(n, e + 1) = i + 1 /\ Lesser(n, g + 1) = i + 1
      BY <1>5, <1>9a, <1>14, <2>3 DEF Lesser
    <2>5. \A j \in 1 .. i + 1 : A[j] = B[j]
      <3>1. \A j \in 1 .. i + 1 : j = i + 1 \/ j \in 1 .. i
        BY <1>5
      <3>2. A[i + 1] = x /\ B[i + 1] = y
        <4>1. i + 1 \in 1 .. i + 1
          BY <1>5
        <4> QED
          BY <1>8, <1>9, <1>11, <2>4, <4>1
      <3> QED
        BY <1>8, <1>9, <1>10, <1>14, <2>4, <3>1, <3>2
    <2>6. A = B
      BY <1>8, <1>9, <2>4, <2>5
    <2>7. Order(A, B) = 0
      BY <2>6 DEF Order
    <2>8. Sgn(0) = 0
      BY SignOfNone
    <2>9. x - y = 0 /\ y - x = 0
      <3> HIDE DEF x, y
      <3> QED
        BY <1>7, <1>14
    <2>10. Diff(m, d, s, f, n) = 0 /\ Diff(m, s, d, f, n) = 0
      BY <1>3, <1>4, <2>9
    <2>11. Diff(m, s, d, f, n) = -Diff(m, d, s, f, n)
      BY <2>10, NoneIsNone
    <2> QED
      BY <2>7, <2>8, <2>10, <2>11 DEF A, B
  <1> QED
    BY <1>5, <1>12, <1>13, <1>14

(* The four comparisons of strings are one.                                *)
LEMMA ComparesAs ==
    ASSUME NEW m \in Memory, NEW d, NEW s, Terminated(m, d), Terminated(m, s), NEW n \in Nat
    PROVE  /\ strcmp(m, d, s) = Diff(m, d, s, Same, EndCell + 1)
           /\ strcasecmp(m, d, s) = Diff(m, d, s, Low, EndCell + 1)
           /\ strncmp(m, d, s, n) = Diff(m, d, s, Same, n)
           /\ strncasecmp(m, d, s, n) = Diff(m, d, s, Low, n)
  <1> DEFINE e == strlen(m, d)
             S == {i \in 0 .. e : m[d + i] = 0 \/ ~(m[d + i] = m[s + i])}
             T == {i \in 0 .. e : m[d + i] = 0 \/ ~(tolower(m[d + i]) = tolower(m[s + i]))}
             Ss == {i \in 0 .. e : m[d + i] = 0 \/ Same[m[d + i]] # Same[m[s + i]]}
             Tt == {i \in 0 .. e : m[d + i] = 0 \/ Low[m[d + i]] # Low[m[s + i]]}
             i == Min(Ss)
             j == Min(Tt)
  <1>1. /\ strcmp(m, d, s) = m[d + Min(S)] - m[s + Min(S)]
        /\ strncmp(m, d, s, n) = IF Min(S) >= n THEN 0 ELSE m[d + Min(S)] - m[s + Min(S)]
        /\ strcasecmp(m, d, s) = tolower(m[d + Min(T)]) - tolower(m[s + Min(T)])
        /\ strncasecmp(m, d, s, n) = IF Min(T) >= n THEN 0
                                     ELSE tolower(m[d + Min(T)]) - tolower(m[s + Min(T)])
    BY DEF strcmp, strncmp, strcasecmp, strncasecmp, Stop
  <1>2. StopAt(m, d, s, Same) = i /\ StopAt(m, d, s, Low) = j
    BY DEF StopAt
  <1>3. e \in 0 .. Longest /\ Longest \in Nat /\ EndCell \in Nat /\ EndCell = 4 * Longest + 2
    BY EndsSoon, MemoryTyped
  <1> HIDE DEF e
  <1>4. ASSUME NEW k \in 0 .. e
        PROVE  d + k \in Cells /\ s + k \in Cells /\ m[d + k] \in Int /\ m[s + k] \in Int
    <2>1. d + k \in Cells /\ s + k \in Cells
      BY <1>3 DEF Terminated, Cells
    <2> QED
      BY <2>1 DEF Memory
  <1>5. \A k \in 0 .. e : /\ Same[m[d + k]] = m[d + k] /\ Same[m[s + k]] = m[s + k]
                          /\ Low[m[d + k]] = tolower(m[d + k]) /\ Low[m[s + k]] = tolower(m[s + k])
    BY <1>4 DEF Same, Low
  <1>6. S = Ss /\ T = Tt
    <2> HIDE DEF S, T, Ss, Tt
    <2>1. S = Ss
      BY <1>5 DEF S, Ss
    <2>2. T = Tt
      BY <1>5 DEF T, Tt
    <2> QED
      BY <2>1, <2>2
  <1>7. i \in 0 .. e /\ j \in 0 .. e
    <2>1. Stops(m, d, s, Same, i) /\ Stops(m, d, s, Low, j)
      BY <1>2, StopsThere
    <2> QED
      BY <2>1 DEF Stops, e
  <1> HIDE DEF S, T, Ss, Tt
  <1>8. Min(S) = i /\ Min(T) = j
    BY <1>6
  <1> HIDE DEF i, j
  <1>9. ~(i >= EndCell + 1) /\ ~(j >= EndCell + 1)
    BY <1>3, <1>7
  <1>10. /\ Same[m[d + i]] = m[d + i] /\ Same[m[s + i]] = m[s + i]
         /\ Low[m[d + j]] = tolower(m[d + j]) /\ Low[m[s + j]] = tolower(m[s + j])
    BY <1>5, <1>7
  <1>11. /\ Diff(m, d, s, Same, EndCell + 1) = m[d + i] - m[s + i]
         /\ Diff(m, d, s, Low, EndCell + 1) = tolower(m[d + j]) - tolower(m[s + j])
         /\ Diff(m, d, s, Same, n) = IF i >= n THEN 0 ELSE m[d + i] - m[s + i]
         /\ Diff(m, d, s, Low, n) = IF j >= n THEN 0 ELSE tolower(m[d + j]) - tolower(m[s + j])
    BY <1>2, <1>9, <1>10 DEF Diff
  <1> QED
    BY <1>1, <1>8, <1>11

(* What memcmp finds in two rows of n cells.                               *)
Cut(m, d, n) == [i \in 1 .. n |-> m[d + i - 1]]

LEMMA CutTyped == ASSUME NEW m \in Memory, NEW d \in Nat, NEW n \in Nat, d + n <= EndCell + 1
                  PROVE  /\ Cut(m, d, n) \in Seq(Int) /\ Len(Cut(m, d, n)) = n
                         /\ \A j \in 1 .. n : Cut(m, d, n)[j] = m[d + j - 1]
  <1> DEFINE v == [i \in 1 .. n |-> m[d + i - 1]]
  <1>1. ASSUME NEW j \in 1 .. n  PROVE m[d + j - 1] \in Int
    <2>1. d + j - 1 \in Cells
      BY MemoryTyped DEF Cells
    <2> QED
      BY <2>1 DEF Memory
  <1>2. v \in [1 .. n -> Int]
    BY <1>1
  <1>3. v \in Seq(Int) /\ Len(v) = n
    <2> HIDE DEF v
    <2> QED
      BY <1>2, ArrayLength
  <1> QED
    BY <1>3 DEF Cut

(* The first difference of two rows, or n.                                 *)
Apart(m, d, s, n) == {k \in 0 .. n - 1 : m[d + k] # m[s + k]}
ApartAt(m, d, s, n) == IF Apart(m, d, s, n) = {} THEN n ELSE Min(Apart(m, d, s, n))

LEMMA RowsCompared ==
    ASSUME NEW m \in Memory, NEW d \in Nat, NEW s \in Nat, NEW n \in Nat,
           d + n <= EndCell + 1, s + n <= EndCell + 1
    PROVE  /\ Sgn(memcmp(m, d, s, n)) = Order(Cut(m, d, n), Cut(m, s, n))
           /\ memcmp(m, s, d, n) = -memcmp(m, d, s, n)
  <1> DEFINE i == ApartAt(m, d, s, n)
             A == Cut(m, d, n)
             B == Cut(m, s, n)
             x == m[d + i]
             y == m[s + i]
  <1>1. memcmp(m, d, s, n) = IF i = n THEN 0 ELSE x - y
    BY DEF memcmp, First, ApartAt, Apart
  <1>2. memcmp(m, s, d, n) = IF i = n THEN 0 ELSE y - x
    <2>1. Apart(m, s, d, n) = Apart(m, d, s, n)
      BY DEF Apart
    <2>2. memcmp(m, s, d, n) = LET q == ApartAt(m, s, d, n)
                               IN  IF q = n THEN 0 ELSE m[s + q] - m[d + q]
      BY DEF memcmp, First, ApartAt, Apart
    <2>3. ApartAt(m, s, d, n) = i
      BY <2>1 DEF ApartAt
    <2> QED
      BY <2>2, <2>3
  <1>3. i \in 0 .. n /\ (i < n => i \in Apart(m, d, s, n))
        /\ (i = n => Apart(m, d, s, n) = {}) /\ \A j \in 0 .. i - 1 : j \notin Apart(m, d, s, n)
    <2> DEFINE Hits == Apart(m, d, s, n)
    <2>1. Hits \in SUBSET (0 .. n - 1)
      BY DEF Apart
    <2>2. i = IF Hits = {} THEN n ELSE Min(Hits)
      BY DEF ApartAt
    <2> HIDE DEF Hits, i
    <2>3. IsFirst(n, Hits, i)
      BY <2>1, <2>2, FirstOf
    <2> QED
      BY <2>3 DEF IsFirst, Hits
  <1>4. A \in Seq(Int) /\ Len(A) = n /\ \A j \in 1 .. n : A[j] = m[d + j - 1]
    BY CutTyped
  <1>5. B \in Seq(Int) /\ Len(B) = n /\ \A j \in 1 .. n : B[j] = m[s + j - 1]
    BY CutTyped
  <1> HIDE DEF A, B, i
  <1>6. ASSUME NEW j \in 1 .. i  PROVE A[j] = B[j]
    <2>1. j \in 1 .. n
      BY <1>3
    <2>2. PICK k \in 0 .. i - 1 : k = j - 1 /\ d + j - 1 = d + k /\ s + j - 1 = s + k
      <3>1. j - 1 \in 0 .. i - 1 /\ d + j - 1 = d + (j - 1) /\ s + j - 1 = s + (j - 1)
        BY <1>3
      <3> QED
        BY <3>1
    <2>3. k \in 0 .. n - 1 /\ k \notin Apart(m, d, s, n)
      BY <1>3, <2>2
    <2> QED
      BY <1>4, <1>5, <2>1, <2>2, <2>3 DEF Apart
  <1>7. CASE i = n
    <2>1. A = B
      BY <1>4, <1>5, <1>6, <1>7
    <2>2. Order(A, B) = 0
      BY <2>1 DEF Order
    <2>3. memcmp(m, d, s, n) = 0 /\ memcmp(m, s, d, n) = 0
      BY <1>1, <1>2, <1>7
    <2>4. memcmp(m, s, d, n) = -memcmp(m, d, s, n)
      BY <2>3, NoneIsNone
    <2> QED
      BY <2>2, <2>3, <2>4, SignOfNone DEF A, B
  <1>8. CASE i # n
    <2>1. i \in 0 .. n - 1 /\ x # y
      BY <1>3, <1>8 DEF Apart
    <2>2. d + i \in Cells /\ s + i \in Cells
      BY <2>1, MemoryTyped DEF Cells
    <2>3. x \in Int /\ y \in Int
      BY <2>2 DEF Memory
    <2>4. i + 1 \in 1 .. n /\ i + 1 <= Len(A) /\ i + 1 <= Len(B) /\ i \in Nat
          /\ d + (i + 1) - 1 = d + i /\ s + (i + 1) - 1 = s + i
      BY <1>4, <1>5, <2>1
    <2>5. A[i + 1] = x /\ B[i + 1] = y
      BY <1>4, <1>5, <2>4
    <2>6. Order(A, B) = Sgn(x - y)
      BY <1>4, <1>5, <1>6, <2>1, <2>4, <2>5, OrderIs
    <2>7. y - x = -(x - y)
      <3> HIDE DEF x, y
      <3> QED
        BY <2>3
    <2> QED
      BY <1>1, <1>2, <1>8, <2>6, <2>7 DEF A, B
  <1> QED
    BY <1>7, <1>8

LEMMA WithinIs ==
    ASSUME NEW m \in Memory, NEW s, Terminated(m, s), NEW n \in Nat
    PROVE  /\ Len(Within(String(m, s), n)) = Lesser(n, strlen(m, s))
           /\ \A j \in 1 .. Lesser(n, strlen(m, s)) : Within(String(m, s), n)[j] = m[s + j - 1]
  <1> DEFINE v == String(m, s)
             e == strlen(m, s)
  <1>1. v \in Seq(Int) /\ Len(v) = e /\ e \in Nat /\ \A j \in 1 .. e : v[j] = m[s + j - 1]
    BY StringTyped, EndsSoon, MemoryTyped
  <1> HIDE DEF v, e
  <1>2. CASE n < e
    <2>1. Within(v, n) = SubSeq(v, 1, n) /\ Lesser(n, e) = n
      BY <1>1, <1>2 DEF Within, Lesser
    <2>2. Len(SubSeq(v, 1, n)) = n /\ \A j \in 1 .. n : SubSeq(v, 1, n)[j] = v[j]
      BY <1>1, <1>2
    <2>3. \A j \in 1 .. n : j \in 1 .. e
      BY <1>1, <1>2
    <2> QED
      BY <1>1, <2>1, <2>2, <2>3 DEF v, e
  <1>3. CASE ~(n < e)
    <2>1. Within(v, n) = v /\ Lesser(n, e) = e
      BY <1>1, <1>3 DEF Within, Lesser
    <2> QED
      BY <1>1, <2>1 DEF v, e
  <1> QED
    BY <1>2, <1>3

(* The chars of a string, n of them at most.                               *)
LEMMA BoundedLength ==
    ASSUME NEW m \in Memory, NEW s, Terminated(m, s), NEW n \in Nat
    PROVE  strnlen(m, s, n) = Lesser(n, strlen(m, s))
  <1> DEFINE Hits == {k \in 0 .. n - 1 : m[s + k] = 0}
             i == IF Hits = {} THEN n ELSE Min(Hits)
             e == strlen(m, s)
  <1>1. strnlen(m, s, n) = i
    BY DEF strnlen, First
  <1>2. e \in Nat /\ m[s + e] = 0 /\ \A k \in 0 .. e - 1 : m[s + k] # 0
    BY EndsSoon, MemoryTyped DEF EndsAt
  <1>3. Hits \in SUBSET (0 .. n - 1)
    OBVIOUS
  <1> HIDE DEF Hits
  <1>4. IsFirst(n, Hits, i)
    BY <1>3, FirstOf
  <1> HIDE DEF i, e
  <1>5. i \in 0 .. n /\ (i < n => i \in Hits) /\ \A j \in 0 .. i - 1 : j \notin Hits
    BY <1>4 DEF IsFirst
  <1>6. ~(e < i)
    <2>1. SUFFICES ASSUME e < i  PROVE FALSE
      OBVIOUS
    <2>2. e \in 0 .. i - 1 /\ e \in 0 .. n - 1
      BY <1>2, <1>5, <2>1
    <2> QED
      BY <1>2, <1>5, <2>2 DEF Hits
  <1>7. i < n => i = e
    <2>1. SUFFICES ASSUME i < n, i < e  PROVE FALSE
      BY <1>2, <1>5, <1>6
    <2>2. m[s + i] = 0 /\ i \in 0 .. e - 1
      BY <1>2, <1>5, <2>1 DEF Hits
    <2> QED
      BY <1>2, <2>2
  <1>8. i = Lesser(n, e)
    BY <1>2, <1>5, <1>6, <1>7 DEF Lesser
  <1> QED
    BY <1>1, <1>8 DEF e

(* n chars at t: the string's, as far as they go, and 0 behind them.       *)
ZeroFilled(m, t, s, n) ==
    LET a == Within(String(m, s), n)
    IN  [k \in DOMAIN m |-> IF k \notin t .. t + n - 1 THEN m[k]
                            ELSE IF k < t + Len(a) THEN a[k - t + 1] ELSE 0]

LEMMA CopiesSome ==
    ASSUME NEW m \in Memory, NEW t, NEW s, NEW n, Terminated(m, s), Fits(t, s, n), s + Longest < t
    PROVE  strncpy(m, t, s, n) = ZeroFilled(m, t, s, n)
  <1> DEFINE e == strlen(m, s)
             i == Lesser(n, e)
             c == Copy(m, t, s, Upto(i))
             a == Within(String(m, s), n)
             r == ZeroFilled(m, t, s, n)
  <1>1. /\ t \in Nat /\ s \in Nat /\ n \in Nat /\ t + n <= EndCell + 1 /\ s + n <= EndCell + 1
        /\ e \in 0 .. Longest /\ Longest \in Nat /\ EndCell \in Nat
    BY EndsSoon, MemoryTyped DEF Fits
  <1>2. strncpy(m, t, s, n) = memset(c, t + i, 0, n - i)
    <2>1. strnlen(m, s, n) = i
      BY <1>1, BoundedLength
    <2> QED
      BY <2>1 DEF strncpy
  <1>3. Len(a) = i /\ \A j \in 1 .. i : a[j] = m[s + j - 1]
    BY <1>1, WithinIs
  <1> HIDE DEF a, e
  <1>4. i \in Nat /\ i <= n /\ i <= Longest
    BY <1>1 DEF Lesser
  <1> HIDE DEF i
  <1>5. Copied(m, t, s, i, c)
    <2>1. Fits(t, s, i) /\ s + i <= t
      BY <1>1, <1>4 DEF Fits
    <2> QED
      BY <2>1, CopiesUp
  <1> HIDE DEF c
  <1>6. /\ DOMAIN c = Cells /\ DOMAIN m = Cells
        /\ \A k \in Cells : c[k] = IF k \in t .. t + i - 1 THEN m[k - t + s] ELSE m[k]
    BY <1>5 DEF Copied, Memory
  <1>7. memset(c, t + i, 0, n - i)
            = [k \in Cells |-> IF k \in t + i .. t + i + (n - i) - 1 THEN 0 ELSE c[k]]
    BY <1>6 DEF memset
  <1>8. r = [k \in Cells |-> IF k \notin t .. t + n - 1 THEN m[k]
                             ELSE IF k < t + i THEN a[k - t + 1] ELSE 0]
    BY <1>3, <1>6 DEF ZeroFilled, a
  <1>9. ASSUME NEW k \in Cells
        PROVE  (IF k \in t + i .. t + i + (n - i) - 1 THEN 0 ELSE c[k])
                 = IF k \notin t .. t + n - 1 THEN m[k]
                   ELSE IF k < t + i THEN a[k - t + 1] ELSE 0
    <2>1. k \in Int /\ t + i + (n - i) - 1 = t + n - 1
      BY <1>1, <1>4 DEF Cells
    <2>2. CASE k \notin t .. t + n - 1
      <3>1. k \notin t + i .. t + n - 1 /\ k \notin t .. t + i - 1
        BY <1>1, <1>4, <2>1, <2>2
      <3> QED
        BY <1>6, <2>1, <2>2, <3>1
    <2>3. CASE k \in t .. t + i - 1
      <3>1. k \notin t + i .. t + n - 1 /\ k \in t .. t + n - 1 /\ k < t + i
        BY <1>1, <1>4, <2>1, <2>3
      <3>2. k - t + 1 \in 1 .. i /\ s + (k - t + 1) - 1 = k - t + s
        BY <1>1, <1>4, <2>1, <2>3
      <3>3. a[k - t + 1] = m[k - t + s]
        BY <1>3, <3>2
      <3> QED
        BY <1>6, <2>1, <2>3, <3>1, <3>3
    <2>4. CASE k \in t + i .. t + n - 1
      <3>1. k \in t .. t + n - 1 /\ ~(k < t + i)
        BY <1>1, <1>4, <2>1, <2>4
      <3> QED
        BY <2>1, <2>4, <3>1
    <2> QED
      BY <1>1, <1>4, <2>1, <2>2, <2>3, <2>4
  <1> HIDE DEF r
  <1> QED
    BY <1>2, <1>7, <1>8, <1>9 DEF r

LEMMA CopiesString ==
    ASSUME NEW m \in Memory, NEW t, NEW s \in Nat, NEW e, EndsAt(m, s, e),
           Fits(t, s, e + 1), s + e < t
    PROVE  Copied(m, t, s, e + 1, strcpy(m, t, s))
  <1> DEFINE c == Copy(m, t, s, Upto(e))
  <1>1. strcpy(m, t, s) = [c EXCEPT ![t + e] = 0]
    BY LengthIs DEF strcpy
  <1>2. /\ e \in Nat /\ s + e \in Cells /\ m[s + e] = 0 /\ t \in Nat
        /\ t + (e + 1) <= EndCell + 1 /\ s + (e + 1) <= EndCell + 1 /\ EndCell \in Nat
    BY MemoryTyped DEF EndsAt, Fits
  <1>3. Copied(m, t, s, e, c)
    <2>1. Fits(t, s, e) /\ s + e <= t
      BY <1>2 DEF Fits
    <2> QED
      BY <2>1, CopiesUp
  <1> HIDE DEF c
  <1>4. c \in Memory /\ \A a \in Cells : c[a] = IF a \in t .. t + e - 1 THEN m[a - t + s] ELSE m[a]
    BY <1>3 DEF Copied
  <1>5. /\ strcpy(m, t, s) \in Memory
        /\ \A a \in Cells : strcpy(m, t, s)[a] = IF a = t + e THEN 0 ELSE c[a]
    <2> DEFINE r == strcpy(m, t, s)
               b == t + e
    <2>1. r = [c EXCEPT ![b] = 0]
      BY <1>1
    <2>2. c \in [Cells -> Int]
      BY <1>4 DEF Memory
    <2>3. b \in Cells
      BY <1>2 DEF Cells
    <2> HIDE DEF r, b, Cells
    <2>4. r \in [Cells -> Int]
      BY <2>1, <2>2, <2>3
    <2>5. \A a \in Cells : r[a] = IF a = b THEN 0 ELSE c[a]
      BY <2>1, <2>2, <2>3
    <2> QED
      BY <2>4, <2>5 DEF Memory, r, b
  <1>6. ASSUME NEW a \in Cells
        PROVE  strcpy(m, t, s)[a] = IF a \in t .. t + (e + 1) - 1 THEN m[a - t + s] ELSE m[a]
    <2>1. a \in Int
      BY DEF Cells
    <2>2. CASE a = t + e
      <3>1. a - t + s = s + e /\ a \in t .. t + (e + 1) - 1
        BY <1>2, <2>2
      <3> QED
        BY <1>2, <1>5, <2>2, <3>1
    <2>3. CASE a # t + e
      <3>1. a \in t .. t + (e + 1) - 1 <=> a \in t .. t + e - 1
        BY <1>2, <2>1, <2>3
      <3> QED
        BY <1>4, <1>5, <2>3, <3>1
    <2> QED
      BY <2>2, <2>3
  <1> QED
    BY <1>5, <1>6 DEF Copied

LEMMA BothIn == ASSUME NEW a \in Seq(Int), NEW b \in Seq(Int)
                PROVE  a \o b \in Seq(Int) /\ Len(a \o b) = Len(a) + Len(b)
  OBVIOUS

LEMMA BothAt ==
    ASSUME NEW a \in Seq(Int), NEW b \in Seq(Int), NEW i \in 1 .. Len(a) + Len(b)
    PROVE  (a \o b)[i] = IF i <= Len(a) THEN a[i] ELSE b[i - Len(a)]
  OBVIOUS

\* r is m with the strings at d and s written one behind the other at t.
BothWritten(m, d, s, t, r) ==
    LET end == t + Len(String(m, d)) + Len(String(m, s))
    IN  /\ String(r, t) = String(m, d) \o String(m, s)
        /\ \A a \in Cells \ (t .. end) : r[a] = m[a]

(* Two strings copied one behind the other, at t.                          *)
LEMMA Joined ==
    ASSUME NEW m \in Memory, NEW d, NEW s, Terminated(m, d), Terminated(m, s), NEW t \in Nat,
           d + Longest < t, s + Longest < t, t + 2 * Longest \in Cells
    PROVE  BothWritten(m, d, s, t, strcat(strcpy(m, t, d), t, s))
  <1> DEFINE e == strlen(m, d)
             g == strlen(m, s)
             p == strcpy(m, t, d)
             q == strcpy(p, t + e, s)
  <1>1. /\ e \in 0 .. Longest /\ g \in 0 .. Longest /\ Longest \in Nat /\ d \in Nat /\ s \in Nat
        /\ EndCell \in Nat /\ t + 2 * Longest <= EndCell
        /\ EndsAt(m, d, e) /\ EndsAt(m, s, g)
    BY EndsSoon, MemoryTyped DEF Terminated, Cells
  <1>2. Copied(m, t, d, e + 1, p)
    <2>1. Fits(t, d, e + 1) /\ d + e < t
      BY <1>1 DEF Fits
    <2> QED
      BY <1>1, <2>1, CopiesString
  <1> HIDE DEF p
  <1>3. /\ p \in Memory
        /\ \A a \in Cells : p[a] = IF a \in t .. t + (e + 1) - 1 THEN m[a - t + d] ELSE m[a]
    BY <1>2 DEF Copied
  <1>4. \A k \in 0 .. e : p[t + k] = m[d + k]
    <2>1. \A k \in 0 .. e : t + k \in Cells /\ t + k \in t .. t + (e + 1) - 1
            /\ t + k - t + d = d + k
      BY <1>1 DEF Cells
    <2> QED
      BY <1>3, <2>1
  <1>5. \A k \in 0 .. g : p[s + k] = m[s + k] /\ s + k \in Cells
    <2>1. \A k \in 0 .. g : s + k \in Cells /\ s + k \notin t .. t + (e + 1) - 1
      BY <1>1 DEF Cells
    <2> QED
      BY <1>3, <2>1
  <1>6. m[d + e] = 0 /\ m[s + g] = 0 /\ (\A k \in 0 .. e - 1 : m[d + k] # 0)
          /\ \A k \in 0 .. g - 1 : m[s + k] # 0
    BY <1>1 DEF EndsAt
  <1>7. EndsAt(p, t, e)
    <2>1. e \in 0 .. e /\ \A k \in 0 .. e - 1 : k \in 0 .. e
      BY <1>1
    <2>2. t + e \in Cells
      BY <1>1 DEF Cells
    <2> QED
      BY <1>1, <1>4, <1>6, <2>1, <2>2 DEF EndsAt
  <1>8. EndsAt(p, s, g)
    <2>1. g \in 0 .. g /\ \A k \in 0 .. g - 1 : k \in 0 .. g
      BY <1>1
    <2> QED
      BY <1>1, <1>5, <1>6, <2>1 DEF EndsAt
  <1>9. strcat(p, t, s) = q
    BY <1>3, <1>7, LengthIs DEF strcat
  <1>10. Copied(p, t + e, s, g + 1, q)
    <2>1. Fits(t + e, s, g + 1) /\ s + g < t + e
      BY <1>1 DEF Fits
    <2> QED
      BY <1>1, <1>3, <1>8, <2>1, CopiesString
  <1> HIDE DEF q, e, g
  <1>11. /\ q \in Memory
         /\ \A a \in Cells : q[a] = IF a \in t + e .. t + e + (g + 1) - 1 THEN p[a - (t + e) + s]
                                    ELSE p[a]
    BY <1>10 DEF Copied
  <1>12. \A k \in 0 .. e - 1 : q[t + k] = m[d + k]
    <2>1. \A k \in 0 .. e - 1 : t + k \in Cells /\ t + k \notin t + e .. t + e + (g + 1) - 1
            /\ k \in 0 .. e
      BY <1>1 DEF Cells
    <2> QED
      BY <1>4, <1>11, <2>1
  <1>13. \A k \in 0 .. g : q[t + e + k] = m[s + k]
    <2> SUFFICES ASSUME NEW k \in 0 .. g  PROVE q[t + e + k] = m[s + k]
      OBVIOUS
    <2>1. PICK a \in Cells : a = t + e + k
      BY <1>1 DEF Cells
    <2>2. a \in t + e .. t + e + (g + 1) - 1
      BY <1>1, <2>1
    <2>3. q[a] = p[a - (t + e) + s]
      BY <1>11, <2>2
    <2>4. a - (t + e) + s = s + k
      BY <1>1, <2>1
    <2>5. q[a] = p[s + k]
      BY <2>3, <2>4
    <2> QED
      BY <1>5, <2>1, <2>5
  <1>14. strlen(q, t) = e + g
    <2>0. PICK u \in Nat : u = e + g
      BY <1>1
    <2>1. ASSUME NEW k \in 0 .. u - 1  PROVE q[t + k] # 0
      <3>1. CASE k < e
        <4>1. k \in 0 .. e - 1
          BY <1>1, <3>1
        <4> QED
          BY <1>6, <1>12, <4>1
      <3>2. CASE ~(k < e)
        <4>1. PICK j \in 0 .. g - 1 : t + k = t + e + j
          <5>1. k - e \in 0 .. g - 1 /\ t + k = t + e + (k - e)
            BY <1>1, <2>0, <3>2
          <5> QED
            BY <5>1
        <4>2. j \in 0 .. g
          BY <1>1
        <4> QED
          BY <1>6, <1>13, <4>1, <4>2
      <3> QED
        BY <3>1, <3>2
    <2>2. q[t + u] = 0 /\ t + u \in Cells
      <3>1. g \in 0 .. g /\ t + u = t + e + g /\ t + u \in Cells
        BY <1>1, <2>0 DEF Cells
      <3> QED
        BY <1>6, <1>13, <3>1
    <2>3. EndsAt(q, t, u)
      BY <2>1, <2>2 DEF EndsAt
    <2> QED
      BY <1>11, <2>0, <2>3, LengthIs
  <1> DEFINE A == String(m, d)
             B == String(m, s)
             C == String(q, t)
  <1>15. /\ A \in Seq(Int) /\ Len(A) = e /\ \A j \in 1 .. e : A[j] = m[d + j - 1]
         /\ B \in Seq(Int) /\ Len(B) = g /\ \A j \in 1 .. g : B[j] = m[s + j - 1]
    BY StringTyped DEF e, g
  <1>16. C = [i \in 1 .. e + g |-> q[t + i - 1]]
    BY <1>14 DEF String
  <1> HIDE DEF A, B, C
  <1>17. A \o B = [i \in 1 .. e + g |-> IF i <= e THEN A[i] ELSE B[i - e]]
    <2> DEFINE J == A \o B
    <2>1. J \in Seq(Int) /\ Len(J) = Len(A) + Len(B)
      BY <1>15, BothIn
    <2>2. ASSUME NEW i \in 1 .. Len(A) + Len(B)
          PROVE  J[i] = IF i <= Len(A) THEN A[i] ELSE B[i - Len(A)]
      BY <1>15, BothAt
    <2> HIDE DEF J
    <2>3. J = [i \in 1 .. e + g |-> J[i]]
      BY <1>1, <1>15, <2>1
    <2>4. J = [i \in 1 .. e + g |-> IF i <= e THEN A[i] ELSE B[i - e]]
      BY <1>15, <2>2, <2>3
    <2> QED
      BY <2>4 DEF J
  <1>18. ASSUME NEW i \in 1 .. e + g  PROVE q[t + i - 1] = IF i <= e THEN A[i] ELSE B[i - e]
    <2>1. CASE i <= e
      <3>1. PICK k \in 0 .. e - 1 : t + i - 1 = t + k /\ d + i - 1 = d + k
        <4>1. i - 1 \in 0 .. e - 1 /\ t + i - 1 = t + (i - 1) /\ d + i - 1 = d + (i - 1)
          BY <1>1, <2>1
        <4> QED
          BY <4>1
      <3>2. i \in 1 .. e
        BY <1>1, <2>1
      <3> QED
        BY <1>12, <1>15, <2>1, <3>1, <3>2
    <2>2. CASE ~(i <= e)
      <3>1. PICK k \in 0 .. g : t + i - 1 = t + e + k /\ s + (i - e) - 1 = s + k
        <4>1. i - e - 1 \in 0 .. g /\ t + i - 1 = t + e + (i - e - 1)
              /\ s + (i - e) - 1 = s + (i - e - 1)
          BY <1>1, <2>2
        <4> QED
          BY <4>1
      <3>2. i - e \in 1 .. g
        BY <1>1, <2>2
      <3> QED
        BY <1>13, <1>15, <2>2, <3>1, <3>2
    <2> QED
      BY <2>1, <2>2
  <1>19. C = A \o B
    BY <1>16, <1>17, <1>18
  <1>20. ASSUME NEW a \in Cells \ (t .. t + Len(A) + Len(B))  PROVE q[a] = m[a]
    <2>1. a \in Int /\ a \notin t .. t + e + g
      BY <1>1, <1>15 DEF Cells
    <2>2. a \notin t + e .. t + e + (g + 1) - 1 /\ a \notin t .. t + (e + 1) - 1
      BY <1>1, <2>1
    <2> QED
      BY <1>3, <1>11, <2>2
  <1> QED
    BY <1>9, <1>19, <1>20 DEF A, B, C, p, BothWritten

LEMMA StringsEnd == ASSUME NEW m \in Memories, NEW d \in {0, Second}
                    PROVE  /\ m \in Memory /\ Terminated(m, d) /\ d \in Nat
                           /\ d + Longest < Third /\ d + Longest + 1 <= EndCell + 1
  <1>1. d + Longest \in Cells /\ m[d + Longest] = 0
    <2>1. m[Longest] = 0 /\ m[Second + Longest] = 0 /\ 0 + Longest = Longest
      BY MemoryTyped
    <2>2. d + Longest \in Cells
      BY MemoryTyped DEF Cells
    <2> QED
      BY <2>1, <2>2
  <1>2. d \in Nat /\ d + Longest < Third /\ d + Longest + 1 <= EndCell + 1
    BY MemoryTyped
  <1> QED
    BY <1>1, <1>2, MemoryTyped DEF Terminated

(* What MemoryFaithful says of a comparison of strings.                    *)
Compared(m, d, s, n, r) ==
    LET a == Within(Ended(String(m, d)), n) b == Within(Ended(String(m, s)), n)
    IN  /\ Sgn(r[1]) = Order(a, b) /\ r[2] = -r[1]
        /\ Sgn(r[3]) = Order(Lower(a), Lower(b))

LEMMA ComparedRight ==
    ASSUME NEW m \in Memory, NEW d, NEW s, Terminated(m, d), Terminated(m, s), NEW n \in Nat,
           NEW x, NEW y, NEW z, x = Diff(m, d, s, Same, n), y = Diff(m, s, d, Same, n),
           z = Diff(m, d, s, Low, n)
    PROVE  Compared(m, d, s, n, <<x, y, z>>)
  <1> DEFINE a == Within(Ended(String(m, d)), n)
             b == Within(Ended(String(m, s)), n)
             r == <<x, y, z>>
  <1>1. a = Reads(m, d, Same, n) /\ Lower(a) = Reads(m, d, Low, n)
    BY ReadsIs
  <1>2. b = Reads(m, s, Same, n) /\ Lower(b) = Reads(m, s, Low, n)
    BY ReadsIs
  <1>3. Sgn(x) = Order(Reads(m, d, Same, n), Reads(m, s, Same, n)) /\ y = -x
    BY BothKeep, DiffIs
  <1>4. Sgn(z) = Order(Reads(m, d, Low, n), Reads(m, s, Low, n))
    BY BothKeep, DiffIs
  <1>5. r[1] = x /\ r[2] = y /\ r[3] = z
    OBVIOUS
  <1> HIDE DEF a, b, r
  <1>6. Sgn(r[1]) = Order(a, b) /\ r[2] = -r[1] /\ Sgn(r[3]) = Order(Lower(a), Lower(b))
    BY <1>1, <1>2, <1>3, <1>4, <1>5
  <1> QED
    BY <1>6 DEF Compared, a, b, r

LEMMA AfterStringCall == StringCall => MemoryFaithful'
  <1> SUFFICES ASSUME StringCall  PROVE MemoryFaithful'
    OBVIOUS
  <1> DEFINE Strcmp(m, d, s) ==
                 /\ call' = [fn |-> "strcmp", m |-> m, d |-> d, s |-> s,
                             n |-> Cardinality(DOMAIN m)]
                 /\ result' = <<strcmp(m, d, s), strcmp(m, s, d), strcasecmp(m, d, s)>>
             Strncmp(m, d, s, n) ==
                 /\ call' = [fn |-> "strncmp", m |-> m, d |-> d, s |-> s, n |-> n]
                 /\ result' = <<strncmp(m, d, s, n), strncmp(m, s, d, n), strncasecmp(m, d, s, n)>>
             Memcmp(m, d, s, n) ==
                 /\ call' = [fn |-> "memcmp", m |-> m, d |-> d, s |-> s, n |-> n]
                 /\ result' = <<memcmp(m, d, s, n), memcmp(m, s, d, n)>>
             Strncpy(m, d, s, n) ==
                 /\ call' = [fn |-> "strncpy", m |-> m, d |-> Third, s |-> s, n |-> n]
                 /\ result' = strncpy(m, Third, s, n)
             Strcat(m, d, s) ==
                 /\ call' = [fn |-> "strcat", m |-> m, d |-> d, s |-> s, n |-> 0]
                 /\ result' = strcat(strcpy(m, Third, d), Third, s)
  <1>1. PICK m \in Memories, d \in {0, Second}, s \in {0, Second} :
            \/ Strcmp(m, d, s)
            \/ \E n \in 0 .. Longest + 1 :
                  Strncmp(m, d, s, n) \/ Memcmp(m, d, s, n) \/ Strncpy(m, d, s, n)
            \/ Strcat(m, d, s)
    BY DEF StringCall, Calls
  <1>2. /\ m \in Memory /\ Terminated(m, d) /\ Terminated(m, s) /\ d \in Nat /\ s \in Nat
        /\ d + Longest < Third /\ s + Longest < Third
        /\ d + Longest + 1 <= EndCell + 1 /\ s + Longest + 1 <= EndCell + 1
    BY StringsEnd
  <1>3. Longest \in Nat /\ EndCell \in Nat /\ Third = 2 * Longest + 2 /\ EndCell = 4 * Longest + 2
    BY MemoryTyped
  <1>4. CASE Strcmp(m, d, s)
    <2>1. Cardinality(DOMAIN m) = EndCell + 1 /\ EndCell + 1 \in Nat
      BY <1>2, <1>3, MemorySize
    <2>2. /\ strcmp(m, d, s) = Diff(m, d, s, Same, EndCell + 1)
          /\ strcasecmp(m, d, s) = Diff(m, d, s, Low, EndCell + 1)
          /\ strcmp(m, s, d) = Diff(m, s, d, Same, EndCell + 1)
      BY <1>2, <2>1, ComparesAs
    <2>3. Compared(m, d, s, EndCell + 1, result')
      BY <1>2, <1>4, <2>1, <2>2, ComparedRight
    <2>4. call'.fn = "strcmp" /\ call'.m = m /\ call'.d = d /\ call'.s = s /\ call'.n = EndCell + 1
      BY <1>4, <2>1
    <2> QED
      BY <2>3, <2>4 DEF MemoryFaithful, Compared
  <1>5. ASSUME NEW n \in 0 .. Longest + 1, Strncmp(m, d, s, n)
        PROVE  MemoryFaithful'
    <2>0. n \in Nat
      BY <1>3
    <2>1. /\ strncmp(m, d, s, n) = Diff(m, d, s, Same, n)
          /\ strncasecmp(m, d, s, n) = Diff(m, d, s, Low, n)
          /\ strncmp(m, s, d, n) = Diff(m, s, d, Same, n)
      BY <1>2, <2>0, ComparesAs
    <2>2. Compared(m, d, s, n, result')
      BY <1>2, <1>5, <2>0, <2>1, ComparedRight
    <2>3. call'.fn = "strncmp" /\ call'.m = m /\ call'.d = d /\ call'.s = s /\ call'.n = n
      BY <1>5
    <2> QED
      BY <2>2, <2>3 DEF MemoryFaithful, Compared
  <1>6. ASSUME NEW n \in 0 .. Longest + 1, Memcmp(m, d, s, n)
        PROVE  MemoryFaithful'
    <2>0. n \in Nat /\ d + n <= EndCell + 1 /\ s + n <= EndCell + 1
      BY <1>2, <1>3
    <2>1. /\ Sgn(memcmp(m, d, s, n)) = Order(Cut(m, d, n), Cut(m, s, n))
          /\ memcmp(m, s, d, n) = -memcmp(m, d, s, n)
      BY <1>2, <2>0, RowsCompared
    <2>2. result'[1] = memcmp(m, d, s, n) /\ result'[2] = memcmp(m, s, d, n)
      BY <1>6
    <2>3. /\ Sgn(result'[1]) = Order([i \in 1 .. n |-> m[d + i - 1]],
                                    [i \in 1 .. n |-> m[s + i - 1]])
          /\ result'[2] = -result'[1]
      BY <2>1, <2>2 DEF Cut
    <2>4. call'.fn = "memcmp" /\ call'.m = m /\ call'.d = d /\ call'.s = s /\ call'.n = n
      BY <1>6
    <2> QED
      BY <2>3, <2>4 DEF MemoryFaithful
  <1>7. ASSUME NEW n \in 0 .. Longest + 1, Strncpy(m, d, s, n)
        PROVE  MemoryFaithful'
    <2>0. Fits(Third, s, n)
      BY <1>2, <1>3 DEF Fits
    <2>1. result' = ZeroFilled(m, Third, s, n)
      BY <1>2, <1>7, <2>0, CopiesSome
    <2>2. call'.fn = "strncpy" /\ call'.m = m /\ call'.d = Third /\ call'.s = s /\ call'.n = n
      BY <1>7
    <2> QED
      BY <2>1, <2>2 DEF MemoryFaithful, ZeroFilled
  <1>8. CASE Strcat(m, d, s)
    <2>0. Third \in Nat /\ Third + 2 * Longest \in Cells
      BY <1>3 DEF Cells
    <2>1. BothWritten(m, d, s, Third, strcat(strcpy(m, Third, d), Third, s))
      BY <1>2, <2>0, Joined
    <2>2. BothWritten(m, d, s, Third, result')
      BY <1>8, <2>1
    <2>3. DOMAIN m = Cells
      BY <1>2, MemorySize
    <2>4. call'.fn = "strcat" /\ call'.m = m /\ call'.d = d /\ call'.s = s /\ call'.n = 0
      BY <1>8
    <2> QED
      BY <2>2, <2>3, <2>4 DEF MemoryFaithful, BothWritten
  <1> QED
    BY <1>1, <1>4, <1>5, <1>6, <1>7, <1>8

(* No other call touches memory.                                           *)
LEMMA ElsewhereFaithful ==
    ASSUME DrawLine \/ DrawRect \/ DrawImage \/ DrawText \/ FormatNumber \/ FormatText \/ Return
    PROVE  MemoryFaithful'
  <1>1. CASE Return
    BY <1>1 DEF Return, MemoryFaithful
  <1>2. CASE ~Return
    <2>1. "m" \notin DOMAIN call'
      <3>1. DrawLine => "m" \notin DOMAIN call'
        BY DEF DrawLine, Calls
      <3>2. DrawRect => "m" \notin DOMAIN call'
        BY DEF DrawRect, Calls
      <3>3. DrawImage => "m" \notin DOMAIN call'
        BY DEF DrawImage, Calls
      <3>4. DrawText => "m" \notin DOMAIN call'
        BY DEF DrawText, Calls
      <3>5. FormatNumber => "m" \notin DOMAIN call'
        BY DEF FormatNumber, Calls
      <3>6. FormatText => "m" \notin DOMAIN call'
        BY DEF FormatText, Calls
      <3> QED
        BY <1>2, <3>1, <3>2, <3>3, <3>4, <3>5, <3>6
    <2> QED
      BY <2>1 DEF MemoryFaithful
  <1> QED
    BY <1>1, <1>2

LEMMA FaithfulStays == MemoryFaithful /\ [Next]_vars => MemoryFaithful'
  <1>1. CASE UNCHANGED vars
    <2>1. call' = call /\ result' = result
      BY <1>1 DEF vars
    <2> QED
      BY <2>1 DEF MemoryFaithful
  <1>2. CASE Next
    BY <1>2, AfterMove, AfterStringCall, ElsewhereFaithful DEF Next, Call
  <1> QED
    BY <1>1, <1>2

(* The functions of libc on memory and strings (memmove.c:4-16, strcmp.c,  *)
(* strncpy.c and the other files of their kind) return, and leave in       *)
(* memory, what they promise, on every memory and however long the two     *)
(* strings in it are: regions that overlap are copied as if through a      *)
(* buffer, comparisons follow the first difference and change sign with    *)
(* their arguments, copies touch nothing else.                             *)
THEOREM MemoryActsAsPromised == Spec => []MemoryFaithful
  <1>1. Init => MemoryFaithful
    BY DEF Init, MemoryFaithful
  <1> QED
    BY <1>1, FaithfulStays, PTL DEF Spec
===============================================================================
