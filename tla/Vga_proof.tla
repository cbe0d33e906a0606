------------------------------- MODULE Vga_proof -------------------------------
(***************************************************************************)
(* Whatever was done to the card before, a switch of the mode sets all     *)
(* registers of its table, the text comes back, and every palette is       *)
(* loaded whole: for a window of any size, any palettes and drawings.      *)
(***************************************************************************)
EXTENDS Vga, FiniteSetTheorems, SequenceTheorems, WellFoundedInduction, TLAPS

(* The card between two calls: registers, ports and planes.                *)
Regs == [MISC : Byte, SEQ : [1 .. 5 -> Byte], CRTC : [1 .. 25 -> Byte], GC : [1 .. 9 -> Byte],
         AC : [1 .. 21 -> Byte]]
Cells == (0 .. 3) \X Offset
Colours == 0 .. Len(libvga_default_palette) - 1

Card ==
    [regs : Regs, index : [Indexed -> Nat], ac_index : Nat, ac_data : BOOLEAN,
     ac_screen : BOOLEAN, dac : [Colours -> Colour], dac_index : Colours,
     dac_part : Seq(Byte), planes : [Cells -> Byte]]

Tables == {libvga_regs_320x200x256, libvga_regs_80x25xtext}

-----------------------------------------------------------------------------
(* What the recursive definitions compute                                  *)

(* A non-empty set of numbers has a least member.                          *)
LEMMA LeastExists ==
    ASSUME NEW S \in SUBSET Nat, S # {}
    PROVE  \E k \in S : \A j \in S : k <= j
<1> DEFINE T == {0 .. x : x \in S}
<1>1. IsWellFoundedOn(StrictSubsetOrdering(Nat), FiniteSubsetsOf(Nat))
  BY FS_StrictSubsetOrderingWellFounded
<1>2. T \subseteq FiniteSubsetsOf(Nat)
  <2>1. ASSUME NEW x \in S  PROVE IsFiniteSet(0 .. x) /\ 0 .. x \subseteq Nat
    BY FS_Interval
  <2> QED
    BY <2>1 DEF FiniteSubsetsOf
<1>3. PICK I \in T : \A J \in T : ~(<<J, I>> \in StrictSubsetOrdering(Nat))
  <2>1. T # {}
    OBVIOUS
  <2> QED
    BY <1>1, <1>2, <2>1, WFMin
<1>4. PICK i \in S : I = 0 .. i
  OBVIOUS
<1>5. ASSUME NEW j \in S, j < i  PROVE FALSE
  <2>1. 0 .. j \in T /\ 0 .. j \subseteq I /\ 0 .. j # I /\ 0 .. j \subseteq Nat
    BY <1>4, <1>5
  <2>2. <<0 .. j, I>> \in StrictSubsetOrdering(Nat)
    BY <1>4, <2>1 DEF StrictSubsetOrdering
  <2> QED
    BY <1>3, <2>1, <2>2
<1> QED
  BY <1>5

(* Two functions that begin alike and continue alike end alike.            *)
LEMMA SameFromStart ==
    ASSUME NEW N \in Nat, NEW f, NEW g, f[0] = g[0],
           \A i \in 1 .. N : f[i - 1] = g[i - 1] => f[i] = g[i]
    PROVE  f[N] = g[N]
<1> DEFINE Bad == {i \in 0 .. N : f[i] # g[i]}
<1>1. ASSUME Bad # {}  PROVE FALSE
  <2>1. Bad \in SUBSET Nat
    OBVIOUS
  <2> HIDE DEF Bad
  <2>2. PICK k \in Bad : \A j \in Bad : k <= j
    BY <1>1, <2>1, LeastExists
  <2>3. k \in 0 .. N /\ f[k] # g[k]
    BY DEF Bad
  <2>4. k \in 1 .. N /\ k - 1 \in 0 .. N /\ ~(k <= k - 1)
    BY <2>3
  <2>5. f[k - 1] = g[k - 1]
    BY <2>2, <2>4 DEF Bad
  <2> QED
    BY <2>3, <2>4, <2>5
<1> QED
  BY <1>1

(* A loop of N rounds, each of which takes what is good before it to what  *)
(* is good after it.                                                       *)
LEMMA Induct ==
    ASSUME NEW N \in Nat, NEW S, 0 \in S, \A i \in 1 .. N : i - 1 \in S => i \in S
    PROVE  0 .. N \subseteq S
  <1> DEFINE Bad == {i \in 0 .. N : i \notin S}
  <1>1. ASSUME Bad # {}  PROVE FALSE
    <2>1. Bad \in SUBSET Nat
      OBVIOUS
    <2> HIDE DEF Bad
    <2>2. PICK k \in Bad : \A j \in Bad : k <= j
      BY <1>1, <2>1, LeastExists
    <2>3. k \in 0 .. N /\ k \notin S
      BY DEF Bad
    <2>4. k \in 1 .. N /\ k - 1 \in 0 .. N /\ ~(k <= k - 1)
      BY <2>3
    <2>5. k - 1 \in S
      BY <2>2, <2>4 DEF Bad
    <2> QED
      BY <2>3, <2>4, <2>5
  <1> QED
    BY <1>1

Steps(N, V, v, St, Good) ==
    /\ v \in V /\ <<0, v>> \in Good
    /\ \A i \in 1 .. N : \A x \in V :
          <<i - 1, x>> \in Good => St[<<i, x>>] \in V /\ <<i, St[<<i, x>>]>> \in Good

Goes(g, N, V, v, St, Good) ==
    /\ g \in [0 .. N -> V] /\ g[0] = v
    /\ \A i \in 1 .. N : g[i] = St[<<i, g[i - 1]>>]
    /\ \A i \in 0 .. N : <<i, g[i]>> \in Good

LEMMA LoopRuns ==
    ASSUME NEW N \in Nat, NEW V, NEW v, NEW St, NEW Good, Steps(N, V, v, St, Good)
    PROVE  \E g : Goes(g, N, V, v, St, Good)
  <1> DEFINE Runs(g, n) == /\ g[0] = v /\ \A i \in 1 .. n : g[i] = St[<<i, g[i - 1]>>]
                           /\ \A i \in 0 .. n : <<i, g[i]>> \in Good
             S == {n \in 0 .. N : \E g \in [0 .. n -> V] : Runs(g, n)}
  <1>4. v \in V /\ <<0, v>> \in Good
    BY DEF Steps
  <1>1. 0 \in S
    <2> DEFINE h == [i \in 0 .. 0 |-> v]
    <2>1. h \in [0 .. 0 -> V] /\ h[0] = v /\ 0 \in 0 .. N
      BY <1>4
    <2>2. 1 .. 0 = {} /\ 0 .. 0 = {0}
      OBVIOUS
    <2> HIDE DEF h
    <2>3. Runs(h, 0)
      BY <1>4, <2>1, <2>2
    <2> QED
      BY <2>1, <2>3
  <1>2. ASSUME NEW n \in 1 .. N, n - 1 \in S  PROVE n \in S
    <2>1. PICK g \in [0 .. n - 1 -> V] : Runs(g, n - 1)
      BY <1>2
    <2>2. n - 1 \in 0 .. n - 1 /\ n \in 0 .. N
      BY <1>2
    <2> DEFINE y == St[<<n, g[n - 1]>>]
               h == [i \in 0 .. n |-> IF i < n THEN g[i] ELSE y]
    <2>3. y \in V /\ <<n, y>> \in Good
      BY <1>2, <2>1, <2>2 DEF Steps
    <2> HIDE DEF y
    <2>4. h \in [0 .. n -> V] /\ h[n] = y /\ \A i \in 0 .. n - 1 : h[i] = g[i]
      BY <2>2, <2>3
    <2> HIDE DEF h
    <2>5. \A i \in 1 .. n : i = n \/ (i \in 1 .. n - 1 /\ i \in 0 .. n - 1)
      OBVIOUS
    <2>6. \A i \in 1 .. n : i - 1 \in 0 .. n - 1
      OBVIOUS
    <2>7. \A i \in 1 .. n : h[i] = St[<<i, h[i - 1]>>]
      <3>1. h[n] = St[<<n, h[n - 1]>>]
        BY <2>2, <2>4 DEF y
      <3>2. \A i \in 1 .. n - 1 : g[i] = St[<<i, g[i - 1]>>]
        BY <2>1
      <3> QED
        BY <2>4, <2>5, <2>6, <3>1, <3>2
    <2>8. \A i \in 0 .. n : <<i, h[i]>> \in Good
      <3>1. \A i \in 0 .. n : i = n \/ i \in 0 .. n - 1
        OBVIOUS
      <3> QED
        BY <2>1, <2>3, <2>4, <3>1
    <2>9. h[0] = v
      BY <2>1, <2>4
    <2> QED
      BY <2>2, <2>4, <2>7, <2>8, <2>9
  <1> HIDE DEF S
  <1>3. N \in S
    <2>1. 0 .. N \subseteq S
      BY <1>1, <1>2, Induct
    <2> QED
      BY <2>1
  <1> QED
    BY <1>3 DEF S, Goes

LEMMA SameFunction ==
    ASSUME NEW A, NEW S, NEW f \in [A -> S], NEW g \in [A -> S], \A i \in A : f[i] = g[i]
    PROVE  f = g
  OBVIOUS

LEMMA ArrayLength ==
    ASSUME NEW n \in Nat, NEW S, NEW v \in [1 .. n -> S]
    PROVE  v \in Seq(S) /\ Len(v) = n /\ DOMAIN v = 1 .. n
  OBVIOUS

-----------------------------------------------------------------------------
(* The registers                                                           *)

LEMMA TablesTyped == Tables \subseteq Regs
  <1>1. libvga_regs_320x200x256 \in Regs
    BY DEF libvga_regs_320x200x256, Regs, Byte
  <1>2. libvga_regs_80x25xtext \in Regs
    BY DEF libvga_regs_80x25xtext, Regs, Byte
  <1> QED
    BY <1>1, <1>2 DEF Tables

(* With the top bit as libvga_write_regs sets it the tables are as before. *)
LEMMA TablesUnprotect ==
    ASSUME NEW T \in Tables
    PROVE  [T.CRTC EXCEPT ![4] = TopBit(@, 1), ![18] = TopBit(@, 0)] = T.CRTC
  <1>1. T.CRTC \in [1 .. 25 -> Byte]
    BY TablesTyped DEF Regs
  <1>2. T.CRTC[4] = 130 /\ T.CRTC[18] = 14
    <2>1. CASE T = libvga_regs_320x200x256
      BY <2>1 DEF libvga_regs_320x200x256
    <2>2. CASE T = libvga_regs_80x25xtext
      BY <2>2 DEF libvga_regs_80x25xtext
    <2> QED
      BY <2>1, <2>2 DEF Tables
  <1>3. TopBit(130, 1) = 130 /\ TopBit(14, 0) = 14
    BY DEF TopBit
  <1>4. ASSUME NEW v \in [1 .. 25 -> Byte], v[4] = 130, v[18] = 14
        PROVE  [v EXCEPT ![4] = TopBit(@, 1), ![18] = TopBit(@, 0)] = v
    BY <1>3, <1>4
  <1> QED
    BY <1>1, <1>2, <1>4

LEMMA TopBitIs ==
    ASSUME NEW v \in Byte
    PROVE  /\ TopBit(v, 1) \in Byte /\ TopBit(v, 0) \in Byte
           /\ ~BitSet(TopBit(v, 0), 128)
  BY DEF TopBit, BitSet, Byte

(* Everything but the registers and the indices is left alone.             *)
Aside(c, d) ==
    /\ d.planes = c.planes /\ d.dac = c.dac /\ d.dac_index = c.dac_index
    /\ d.dac_part = c.dac_part

LEMMA SeqWritten ==
    ASSUME NEW c \in Card, NEW v \in [1 .. 5 -> Byte]
    PROVE  /\ WriteFile(c, "SEQ", v) \in Card
           /\ WriteFile(c, "SEQ", v).regs = [c.regs EXCEPT !.SEQ = v]
           /\ Aside(c, WriteFile(c, "SEQ", v))
  <1> DEFINE w == [i \in DOMAIN v |-> IF Protected(c, "SEQ", i - 1) THEN c.regs["SEQ"][i] ELSE v[i]]
  <1>1. w = v
    BY DEF Protected, Card, Regs
  <1>2. WriteFile(c, "SEQ", v) = [c EXCEPT !.index["SEQ"] = Len(v) - 1, !.regs["SEQ"] = w]
    BY DEF WriteFile
  <1> HIDE DEF w
  <1>3. WriteFile(c, "SEQ", v) = [c EXCEPT !.index["SEQ"] = 4, !.regs["SEQ"] = v]
    <2>1. Len(v) - 1 = 4
      BY ArrayLength
    <2> QED
      BY <1>1, <1>2, <2>1
  <1>4. [c EXCEPT !.index["SEQ"] = 4, !.regs["SEQ"] = v] \in Card
    BY DEF Card, Regs, Indexed
  <1>5. [c EXCEPT !.index["SEQ"] = 4, !.regs["SEQ"] = v].regs = [c.regs EXCEPT !.SEQ = v]
    BY DEF Card, Regs, Indexed
  <1> QED
    BY <1>3, <1>4, <1>5 DEF Card, Regs, Indexed, Aside

LEMMA GcWritten ==
    ASSUME NEW c \in Card, NEW v \in [1 .. 9 -> Byte]
    PROVE  /\ WriteFile(c, "GC", v) \in Card
           /\ WriteFile(c, "GC", v).regs = [c.regs EXCEPT !.GC = v]
           /\ Aside(c, WriteFile(c, "GC", v))
  <1> DEFINE w == [i \in DOMAIN v |-> IF Protected(c, "GC", i - 1) THEN c.regs["GC"][i] ELSE v[i]]
  <1>1. w = v
    BY DEF Protected, Card, Regs
  <1>2. WriteFile(c, "GC", v) = [c EXCEPT !.index["GC"] = Len(v) - 1, !.regs["GC"] = w]
    BY DEF WriteFile
  <1> HIDE DEF w
  <1>3. WriteFile(c, "GC", v) = [c EXCEPT !.index["GC"] = 8, !.regs["GC"] = v]
    <2>1. Len(v) - 1 = 8
      BY ArrayLength
    <2> QED
      BY <1>1, <1>2, <2>1
  <1>4. [c EXCEPT !.index["GC"] = 8, !.regs["GC"] = v] \in Card
    BY DEF Card, Regs, Indexed
  <1>5. [c EXCEPT !.index["GC"] = 8, !.regs["GC"] = v].regs = [c.regs EXCEPT !.GC = v]
    BY DEF Card, Regs, Indexed
  <1> QED
    BY <1>3, <1>4, <1>5 DEF Card, Regs, Indexed, Aside

LEMMA CrtcWritten ==
    ASSUME NEW c \in Card, NEW v \in [1 .. 25 -> Byte],
           ~BitSet(c.regs.CRTC[18], 128)
    PROVE  /\ WriteFile(c, "CRTC", v) \in Card
           /\ WriteFile(c, "CRTC", v).regs = [c.regs EXCEPT !.CRTC = v]
           /\ Aside(c, WriteFile(c, "CRTC", v))
  <1> DEFINE w == [i \in DOMAIN v |->
                      IF Protected(c, "CRTC", i - 1) THEN c.regs["CRTC"][i] ELSE v[i]]
  <1>1. w = v
    BY DEF Protected, Card, Regs
  <1>2. WriteFile(c, "CRTC", v) = [c EXCEPT !.index["CRTC"] = Len(v) - 1, !.regs["CRTC"] = w]
    BY DEF WriteFile
  <1> HIDE DEF w
  <1>3. WriteFile(c, "CRTC", v) = [c EXCEPT !.index["CRTC"] = 24, !.regs["CRTC"] = v]
    <2>1. Len(v) - 1 = 24
      BY ArrayLength
    <2> QED
      BY <1>1, <1>2, <2>1
  <1>4. [c EXCEPT !.index["CRTC"] = 24, !.regs["CRTC"] = v] \in Card
    BY DEF Card, Regs, Indexed
  <1>5. [c EXCEPT !.index["CRTC"] = 24, !.regs["CRTC"] = v].regs = [c.regs EXCEPT !.CRTC = v]
    BY DEF Card, Regs, Indexed
  <1> QED
    BY <1>3, <1>4, <1>5 DEF Card, Regs, Indexed, Aside

(* Register 17 lets the others go, whichever state it was in.              *)
LEMMA Unprotected ==
    ASSUME NEW c \in Card
    PROVE  /\ Unprotect(c) \in Card /\ Aside(c, Unprotect(c))
           /\ ~BitSet(Unprotect(c).regs.CRTC[18], 128)
           /\ \E v \in [1 .. 25 -> Byte] : Unprotect(c).regs = [c.regs EXCEPT !.CRTC = v]
  <1> DEFINE at3 == [c EXCEPT !.index["CRTC"] = 3]
             d   == WriteData(at3, "CRTC", TopBit(ReadData(at3, "CRTC"), 1))
             at17 == [d EXCEPT !.index["CRTC"] = 17]
             e   == WriteData(at17, "CRTC", TopBit(ReadData(at17, "CRTC"), 0))
  <1>1. Unprotect(c) = e
    BY DEF Unprotect, WriteIndex
  <1>2. at3 \in Card /\ at3.index["CRTC"] = 3 /\ at3.regs = c.regs /\ Aside(c, at3)
    BY DEF Card, Indexed, Aside
  <1> HIDE DEF at3
  <1>3. /\ d \in Card /\ Aside(at3, d)
        /\ \E v \in [1 .. 25 -> Byte] : d.regs = [c.regs EXCEPT !.CRTC = v]
    <2>1. ReadData(at3, "CRTC") = c.regs.CRTC[4] /\ c.regs.CRTC[4] \in Byte
      <3>1. ReadData(at3, "CRTC") = c.regs["CRTC"][3 + 1]
        BY <1>2 DEF ReadData
      <3>2. c.regs.CRTC[4] \in Byte
        BY DEF Card, Regs
      <3> QED
        BY <3>1, <3>2
    <2>2. PICK x \in Byte : x = TopBit(ReadData(at3, "CRTC"), 1)
      BY <2>1, TopBitIs
    <2>3. CASE Protected(at3, "CRTC", at3.index["CRTC"])
      <3>1. d = at3
        BY <2>3 DEF WriteData
      <3>2. c.regs = [c.regs EXCEPT !.CRTC = c.regs.CRTC] /\ c.regs.CRTC \in [1 .. 25 -> Byte]
        BY DEF Card, Regs
      <3> QED
        BY <1>2, <3>1, <3>2 DEF Aside
    <2>4. CASE ~Protected(at3, "CRTC", at3.index["CRTC"])
      <3>1. d = [at3 EXCEPT !.regs["CRTC"][4] = x]
        <4>1. d = [at3 EXCEPT !.regs["CRTC"][at3.index["CRTC"] + 1] = x]
          BY <2>2, <2>4 DEF WriteData
        <4>2. at3.index["CRTC"] + 1 = 4
          BY <1>2
        <4> QED
          BY <4>1, <4>2
      <3>2. PICK w \in [1 .. 25 -> Byte] : w = [c.regs.CRTC EXCEPT ![4] = x]
        BY DEF Card, Regs
      <3>3. d = [at3 EXCEPT !.regs["CRTC"] = w]
        <4>1. w = [at3.regs["CRTC"] EXCEPT ![4] = x]
          BY <1>2, <3>2
        <4>2. [at3 EXCEPT !.regs["CRTC"][4] = x] = [at3 EXCEPT !.regs["CRTC"] = w]
          BY <4>1
        <4> HIDE DEF d
        <4> QED
          BY <3>1, <4>2
      <3> HIDE DEF d
      <3>4. d \in Card
        BY <1>2, <3>3 DEF Card, Regs
      <3>5. d.regs = [at3.regs EXCEPT !.CRTC = w]
        BY <1>2, <3>3 DEF Card, Regs
      <3>6. d.regs = [c.regs EXCEPT !.CRTC = w]
        BY <1>2, <3>5
      <3>7. Aside(at3, d)
        BY <1>2, <3>3 DEF Aside, Card
      <3> QED
        BY <3>4, <3>6, <3>7
    <2> QED
      BY <2>3, <2>4
  <1> HIDE DEF d
  <1>4. at17 \in Card /\ at17.index["CRTC"] = 17 /\ at17.regs = d.regs /\ Aside(d, at17)
    BY <1>3 DEF Card, Indexed, Aside
  <1> HIDE DEF at17
  <1>5. PICK v \in [1 .. 25 -> Byte] : d.regs = [c.regs EXCEPT !.CRTC = v]
    BY <1>3
  <1>6. ReadData(at17, "CRTC") = v[18] /\ v[18] \in Byte
    BY <1>4, <1>5 DEF ReadData, Card, Regs
  <1>7. PICK x \in Byte : x = TopBit(ReadData(at17, "CRTC"), 0) /\ ~BitSet(x, 128)
    BY <1>6, TopBitIs
  <1>8. e = [at17 EXCEPT !.regs["CRTC"][18] = x]
    <2>1. ~Protected(at17, "CRTC", at17.index["CRTC"]) /\ at17.index["CRTC"] + 1 = 18
      BY <1>4 DEF Protected
    <2>2. e = [at17 EXCEPT !.regs["CRTC"][at17.index["CRTC"] + 1] = x]
      BY <1>7, <2>1 DEF WriteData
    <2> QED
      BY <2>1, <2>2
  <1>9. PICK w \in [1 .. 25 -> Byte] : w = [v EXCEPT ![18] = x]
    OBVIOUS
  <1>10. at17.regs["CRTC"] = v
    BY <1>4, <1>5 DEF Card, Regs
  <1>11. e = [at17 EXCEPT !.regs["CRTC"] = w]
    <2>1. w = [at17.regs["CRTC"] EXCEPT ![18] = x]
      BY <1>9, <1>10
    <2> QED
      BY <1>8, <2>1
  <1> HIDE DEF e
  <1>12. e \in Card
    BY <1>4, <1>11 DEF Card, Regs
  <1>15. e.regs = [d.regs EXCEPT !.CRTC = w]
    BY <1>4, <1>11 DEF Card, Regs
  <1>16. w[18] = x
    BY <1>9
  <1>13. e.regs = [c.regs EXCEPT !.CRTC = w] /\ e.regs.CRTC[18] = x
    BY <1>5, <1>15, <1>16 DEF Card, Regs
  <1>14. Aside(c, e)
    BY <1>2, <1>3, <1>4, <1>11 DEF Aside, Card
  <1> QED
    BY <1>1, <1>7, <1>12, <1>13, <1>14

(* An index, then a datum: while the index is one of the table's the       *)
(* palette is disconnected, and takes the datum.                           *)
LEMMA AcIndexed ==
    ASSUME NEW c \in Card, ~c.ac_data, NEW n \in 0 .. 20
    PROVE  LET d == WriteAC(c, n)
           IN  /\ d \in Card /\ d.regs = c.regs /\ Aside(c, d)
               /\ d.ac_data /\ d.ac_index = n /\ ~d.ac_screen
  <1>1. n % 32 = n /\ BitSet(n, 32) = FALSE /\ n \in Nat
    BY DEF BitSet
  <1>2. WriteAC(c, n) = [c EXCEPT !.ac_index = n, !.ac_screen = FALSE, !.ac_data = TRUE]
    BY <1>1 DEF WriteAC
  <1> QED
    BY <1>1, <1>2 DEF Card, Aside

Indexing(c, n) == c.ac_data /\ c.ac_index = n /\ ~c.ac_screen

TakesAc(c, n, v, d) ==
    /\ d \in Card /\ Aside(c, d) /\ ~d.ac_data
    /\ d.regs = [c.regs EXCEPT !.AC = [c.regs.AC EXCEPT ![n + 1] = v]]

LEMMA AcTaken ==
    ASSUME NEW c \in Card, NEW n \in 0 .. 20, Indexing(c, n), NEW v \in Byte
    PROVE  TakesAc(c, n, v, WriteAC(c, v))
  <1> USE DEF Indexing, TakesAc
  <1>1. c.regs["AC"] \in [1 .. 21 -> Byte]
    BY DEF Card, Regs
  <1>2. Len(c.regs.AC) = 21
    BY <1>1, ArrayLength
  <1>3. WriteAC(c, v) = [[c EXCEPT !.ac_data = FALSE] EXCEPT !.regs["AC"][n + 1] = v]
    <2>1. ~(n >= Len(c.regs.AC) \/ (c.ac_screen /\ n < 16))
      BY <1>2
    <2> QED
      BY <2>1 DEF WriteAC
  <1>4. PICK a \in [1 .. 21 -> Byte] : a = [c.regs["AC"] EXCEPT ![n + 1] = v]
    BY <1>1
  <1> DEFINE e == [c EXCEPT !.ac_data = FALSE]
  <1>5. e \in Card /\ e.regs = c.regs /\ ~e.ac_data /\ Aside(c, e)
    BY DEF Card, Aside
  <1> HIDE DEF e
  <1>6. [e EXCEPT !.regs["AC"][n + 1] = v] = [e EXCEPT !.regs["AC"] = a]
    <2>1. a = [e.regs["AC"] EXCEPT ![n + 1] = v]
      BY <1>4, <1>5
    <2> QED
      BY <2>1
  <1>7. WriteAC(c, v) = [e EXCEPT !.regs["AC"] = a]
    BY <1>3, <1>6 DEF e
  <1>8. [e EXCEPT !.regs["AC"] = a] \in Card
    BY <1>5 DEF Card, Regs
  <1>9. [e EXCEPT !.regs["AC"] = a].regs = [c.regs EXCEPT !.AC = a]
    BY <1>5 DEF Card, Regs
  <1> QED
    BY <1>4, <1>5, <1>7, <1>8, <1>9 DEF Card, Aside

(* The pairs for the attribute controller go where they are meant to, if   *)
(* the first of them is taken for an index.                                *)
LEMMA AcPairs ==
    ASSUME NEW c \in Card, ~c.ac_data, NEW v \in [1 .. 21 -> Byte]
    PROVE  LET d == WriteACPairs(c, v)
           IN  d \in Card /\ Aside(c, d) /\ d.regs = [c.regs EXCEPT !.AC = v]
  <1> DEFINE file(n) == [i \in 1 .. 21 |-> IF i <= n THEN v[i] ELSE c.regs.AC[i]]
             Op(n, d) == WriteAC(WriteAC(d, n - 1), v[n])
             Runs(f) == f = [n \in 0 .. Len(v) |-> IF n = 0 THEN c ELSE Op(n, f[n - 1])]
             w == CHOOSE f : Runs(f)
             P(n, d) == /\ d \in Card /\ Aside(c, d) /\ ~d.ac_data
                        /\ d.regs = [c.regs EXCEPT !.AC = file(n)]
             St == [p \in (1 .. 21) \X Card |-> Op(p[1], p[2])]
             Good == {p \in (0 .. 21) \X Card : P(p[1], p[2])}
  <1>1. WriteACPairs(c, v) = w[Len(v)]
    BY DEF WriteACPairs
  <1>2. Len(v) = 21
    BY ArrayLength
  <1>3. ASSUME NEW n \in 1 .. 21, NEW d, P(n - 1, d)  PROVE P(n, Op(n, d))
    <2>1. n - 1 \in 0 .. 20 /\ v[n] \in Byte /\ n - 1 + 1 = n
      OBVIOUS
    <2>3. file(n - 1) \in [1 .. 21 -> Byte] /\ file(n) \in [1 .. 21 -> Byte]
      BY DEF Card, Regs
    <2>2. [file(n - 1) EXCEPT ![n] = v[n]] = file(n)
      <3>1. ASSUME NEW i \in 1 .. 21
            PROVE  [file(n - 1) EXCEPT ![n] = v[n]][i] = file(n)[i]
        <4>1. CASE i = n
          BY <4>1
        <4>2. CASE i # n
          <5>1. i <= n - 1 <=> i <= n
            BY <4>2
          <5>2. [file(n - 1) EXCEPT ![n] = v[n]][i] = file(n - 1)[i]
            BY <4>2
          <5> QED
            BY <5>1, <5>2
        <4> QED
          BY <4>1, <4>2
      <3> HIDE DEF file
      <3>2. [file(n - 1) EXCEPT ![n] = v[n]] \in [1 .. 21 -> Byte]
        BY <2>1, <2>3
      <3> QED
        BY <2>3, <3>1, <3>2, SameFunction
    <2> HIDE DEF file
    <2> DEFINE e == WriteAC(d, n - 1)
               f == WriteAC(e, v[n])
    <2>4. /\ e \in Card /\ e.regs = d.regs /\ Aside(d, e)
          /\ e.ac_data /\ e.ac_index = n - 1 /\ ~e.ac_screen
      BY <1>3, <2>1, AcIndexed
    <2> HIDE DEF e
    <2>5. /\ f \in Card /\ Aside(e, f) /\ ~f.ac_data
          /\ f.regs = [e.regs EXCEPT !.AC = [e.regs.AC EXCEPT ![n - 1 + 1] = v[n]]]
      <3>1. PICK m \in 0 .. 20 : m = n - 1
        BY <2>1
      <3>2. PICK b \in Byte : b = v[n]
        BY <2>1
      <3>3. TakesAc(e, m, b, WriteAC(e, b))
        <4>1. e \in Card /\ Indexing(e, m)
          BY <2>4, <3>1 DEF Indexing
        <4> HIDE DEF f
        <4> QED
          BY <4>1, AcTaken
      <3> QED
        BY <3>1, <3>2, <3>3 DEF TakesAc
    <2> HIDE DEF f
    <2>6. e.regs = [c.regs EXCEPT !.AC = file(n - 1)] /\ e.regs.AC = file(n - 1)
      BY <1>3, <2>3, <2>4 DEF Card, Regs
    <2>7. f.regs = [e.regs EXCEPT !.AC = file(n)]
      BY <2>1, <2>2, <2>5, <2>6
    <2>8. f.regs = [c.regs EXCEPT !.AC = file(n)]
      BY <2>3, <2>6, <2>7 DEF Card, Regs
    <2>9. Aside(c, f)
      BY <1>3, <2>4, <2>5 DEF Aside
    <2> QED
      BY <2>5, <2>8, <2>9 DEF e, f
  <1>4. file(21) = v /\ P(0, c)
    <2>1. PICK a \in [1 .. 21 -> Byte] : a = c.regs.AC
      BY DEF Card, Regs
    <2>2. file(0) = [i \in 1 .. 21 |-> a[i]] /\ file(21) = [i \in 1 .. 21 |-> v[i]]
      BY <2>1
    <2> HIDE DEF file
    <2>4. file(0) = c.regs.AC
      BY <2>1, <2>2
    <2>5. file(21) = v
      BY <2>2
    <2> QED
      BY <2>4, <2>5 DEF Card, Regs, Aside
  <1> HIDE DEF Op, P, file
  <1>5. PICK g : Goes(g, 21, Card, c, St, Good)
    <2>1. <<0, c>> \in Good
      BY <1>4
    <2>2. ASSUME NEW i \in 1 .. 21, NEW x \in Card, <<i - 1, x>> \in Good
          PROVE  St[<<i, x>>] \in Card /\ <<i, St[<<i, x>>]>> \in Good
      <3>1. P(i - 1, x) /\ St[<<i, x>>] = Op(i, x)
        BY <2>2
      <3>2. P(i, Op(i, x)) /\ i \in 0 .. 21
        BY <1>3, <3>1
      <3>3. Op(i, x) \in Card
        BY <3>2 DEF P
      <3>4. <<i, Op(i, x)>> \in Good
        BY <3>2, <3>3
      <3> QED
        BY <3>1, <3>3, <3>4
    <2>3. 21 \in Nat
      OBVIOUS
    <2> HIDE DEF St, Good
    <2>4. Steps(21, Card, c, St, Good)
      BY <2>1, <2>2 DEF Steps
    <2> QED
      BY <2>3, <2>4, LoopRuns
  <1>6. /\ \A n \in 0 .. 21 : g[n] \in Card /\ <<n, g[n]>> \in Good
        /\ g[0] = c /\ DOMAIN g = 0 .. 21 /\ g = [n \in 0 .. 21 |-> g[n]]
        /\ \A n \in 1 .. 21 : g[n] = St[<<n, g[n - 1]>>]
    BY <1>5 DEF Goes
  <1>7. \A n \in 1 .. 21 : n - 1 \in 0 .. 21 /\ g[n] = Op(n, g[n - 1])
    BY <1>6
  <1>8. Runs(g)
    <2>1. ASSUME NEW n \in 0 .. 21  PROVE g[n] = IF n = 0 THEN c ELSE Op(n, g[n - 1])
      <3>1. n # 0 => n \in 1 .. 21
        OBVIOUS
      <3> QED
        BY <1>6, <1>7, <3>1
    <2> HIDE DEF St, Good
    <2> QED
      BY <1>2, <1>6, <2>1
  <1>9. Runs(w)
    BY <1>8
  <1> HIDE DEF w, St
  <1>10. w[0] = c /\ \A i \in 1 .. 21 : w[i] = Op(i, w[i - 1])
    <2>1. \A n \in 0 .. 21 : w[n] = IF n = 0 THEN c ELSE Op(n, w[n - 1])
      BY <1>2, <1>9
    <2> QED
      BY <2>1
  <1>11. w[21] = g[21]
    <2>1. \A i \in 1 .. 21 : w[i - 1] = g[i - 1] => w[i] = g[i]
      BY <1>7, <1>10
    <2>2. w[0] = g[0] /\ 21 \in Nat
      BY <1>6, <1>10
    <2> QED
      BY <2>1, <2>2, SameFromStart
  <1>12. P(21, w[21])
    BY <1>6, <1>11
  <1> QED
    BY <1>1, <1>2, <1>4, <1>12 DEF P

LEMMA AcFile ==
    ASSUME NEW c \in Card, NEW v \in [1 .. 21 -> Byte]
    PROVE  LET d == WriteACFile(c, v)
           IN  d \in Card /\ Aside(c, d) /\ d.ac_screen /\ d.regs = [c.regs EXCEPT !.AC = v]
  <1> DEFINE d == ReadInStat(c)
             e == WriteACPairs(d, v)
             f == ReadInStat(e)
  <1>1. d \in Card /\ ~d.ac_data /\ Aside(c, d) /\ d.regs = c.regs
    BY DEF ReadInStat, Card, Aside
  <1> HIDE DEF d
  <1>2. e \in Card /\ Aside(d, e) /\ e.regs = [d.regs EXCEPT !.AC = v]
    BY <1>1, AcPairs
  <1> HIDE DEF e
  <1>3. f \in Card /\ ~f.ac_data /\ Aside(e, f) /\ f.regs = e.regs
    BY <1>2 DEF ReadInStat, Card, Aside
  <1> HIDE DEF f
  <1>4. BitSet(32, 32) = TRUE /\ 32 % 32 = 0
    BY DEF BitSet
  <1>5. WriteAC(f, 32) = [f EXCEPT !.ac_index = 0, !.ac_screen = TRUE, !.ac_data = TRUE]
    <2>1. WriteAC(f, 32) =
              [f EXCEPT !.ac_index = 32 % 32, !.ac_screen = BitSet(32, 32), !.ac_data = TRUE]
      BY <1>3 DEF WriteAC
    <2> QED
      BY <1>4, <2>1
  <1> DEFINE g == [f EXCEPT !.ac_index = 0, !.ac_screen = TRUE, !.ac_data = TRUE]
  <1>10. g \in Card /\ g.regs = f.regs /\ g.ac_screen /\ Aside(f, g)
    BY <1>3 DEF Card, Aside
  <1>6. WriteAC(f, 32) \in Card /\ WriteAC(f, 32).regs = f.regs /\ WriteAC(f, 32).ac_screen
    BY <1>5, <1>10
  <1>7. Aside(f, WriteAC(f, 32))
    BY <1>5, <1>10
  <1>8. WriteACFile(c, v) = WriteAC(f, 32)
    BY DEF WriteACFile, d, e, f
  <1>9. Aside(c, WriteAC(f, 32))
    BY <1>1, <1>2, <1>3, <1>7 DEF Aside
  <1> QED
    BY <1>1, <1>2, <1>3, <1>6, <1>8, <1>9

-----------------------------------------------------------------------------
(* The palette                                                             *)

Six(rgb) == [k \in 1 .. 3 |-> (rgb[k] \div 4) % 64]

LEMMA Appends ==
    ASSUME NEW x \in Byte, NEW y \in Byte, NEW z \in Byte
    PROVE  /\ Append(<<>>, x) = <<x>> /\ Append(<<x>>, y) = <<x, y>>
           /\ Append(<<x, y>>, z) = <<x, y, z>>
  <1>1. Append(<<>>, x) = <<x>>
    OBVIOUS
  <1>2. Append(<<x>>, y) = <<x, y>>
    <2>1. Append(<<x>>, y) \in Seq(Byte) /\ <<x, y>> \in Seq(Byte)
      OBVIOUS
    <2>2. Len(Append(<<x>>, y)) = 2 /\ Len(<<x, y>>) = 2
      OBVIOUS
    <2>3. Append(<<x>>, y)[1] = x /\ Append(<<x>>, y)[2] = y
      OBVIOUS
    <2>4. PICK s \in Seq(Byte), t \in Seq(Byte) : s = Append(<<x>>, y) /\ t = <<x, y>>
      BY <2>1
    <2>5. Len(s) = Len(t) /\ \A i \in 1 .. 2 : s[i] = t[i]
      BY <2>2, <2>3, <2>4
    <2>6. s = t
      BY <2>2, <2>4, <2>5, SeqEqual
    <2> QED
      BY <2>4, <2>6
  <1>3. Append(<<x, y>>, z) = <<x, y, z>>
    <2>1. Append(<<x, y>>, z) \in Seq(Byte) /\ <<x, y, z>> \in Seq(Byte)
      OBVIOUS
    <2>2. Len(Append(<<x, y>>, z)) = 3 /\ Len(<<x, y, z>>) = 3
      OBVIOUS
    <2>3. Append(<<x, y>>, z)[1] = x /\ Append(<<x, y>>, z)[2] = y /\ Append(<<x, y>>, z)[3] = z
      OBVIOUS
    <2>4. PICK s \in Seq(Byte), t \in Seq(Byte) : s = Append(<<x, y>>, z) /\ t = <<x, y, z>>
      BY <2>1
    <2>5. Len(s) = Len(t) /\ \A i \in 1 .. 3 : s[i] = t[i]
      BY <2>2, <2>3, <2>4
    <2>6. s = t
      BY <2>2, <2>4, <2>5, SeqEqual
    <2> QED
      BY <2>4, <2>6
  <1> QED
    BY <1>1, <1>2, <1>3

(* All but the colours stays as it was.                                    *)
Beside(c, d) ==
    /\ d.regs = c.regs /\ d.index = c.index /\ d.ac_screen = c.ac_screen /\ d.planes = c.planes

LEMMA ColourWritten ==
    ASSUME NEW c \in Card, c.dac_part = <<>>, NEW rgb \in Colour
    PROVE  LET d == WriteColour(c, rgb)
           IN  /\ d \in Card /\ Beside(c, d) /\ d.dac_part = <<>>
               /\ d.dac_index = (c.dac_index + 1) % Len(libvga_default_palette)
               /\ \A i \in Colours : d.dac[i] = IF i = c.dac_index THEN Six(rgb) ELSE c.dac[i]
  <1> DEFINE N == Len(libvga_default_palette)
             x == (rgb[1] \div 4) % 64
             y == (rgb[2] \div 4) % 64
             z == (rgb[3] \div 4) % 64
             d == WriteDac(c, rgb[1] \div 4)
             e == WriteDac(d, rgb[2] \div 4)
             f == WriteDac(e, rgb[3] \div 4)
  <1>1. x \in Byte /\ y \in Byte /\ z \in Byte /\ N \in Nat \ {0}
    <2>1. \A k \in 1 .. 3 : rgb[k] \in 0 .. 255
      BY DEF Colour, Byte
    <2>2. ASSUME NEW k \in 1 .. 3  PROVE (rgb[k] \div 4) % 64 \in 0 .. 255
      <3>1. PICK b \in 0 .. 255 : b = rgb[k]
        BY <2>1
      <3>2. PICK q \in Nat : q = b \div 4
        OBVIOUS
      <3>3. q % 64 \in 0 .. 63
        OBVIOUS
      <3> QED
        BY <3>1, <3>2, <3>3
    <2>3. N \in Nat \ {0}
      BY VgaAssumption, EmptySeq, LenProperties
    <2> QED
      BY <2>2, <2>3 DEF Byte
  <1>3. Six(rgb) = <<x, y, z>> /\ Six(rgb) \in Colour
    BY <1>1 DEF Six, Colour
  <1> HIDE DEF x, y, z
  <1>2. /\ Append(<<>>, x) = <<x>> /\ Append(<<x>>, y) = <<x, y>>
        /\ Append(<<x, y>>, z) = <<x, y, z>>
    BY <1>1, Appends
  <1>4. d = [c EXCEPT !.dac_part = <<x>>]
    BY <1>2 DEF WriteDac, x
  <1>5. /\ d \in Card /\ d.dac_part = <<x>> /\ d.dac_index = c.dac_index
        /\ d.dac = c.dac /\ Beside(c, d)
    <2>1. <<x>> \in Seq(Byte)
      BY <1>1
    <2> HIDE DEF d
    <2> QED
      BY <1>4, <2>1 DEF Card, Beside
  <1>6. e = [d EXCEPT !.dac_part = <<x, y>>]
    <2> HIDE DEF d
    <2> QED
      BY <1>2, <1>5 DEF WriteDac, y
  <1> HIDE DEF d
  <1>7. /\ e \in Card /\ e.dac_part = <<x, y>> /\ e.dac_index = c.dac_index
        /\ e.dac = c.dac /\ Beside(d, e)
    <2>1. <<x, y>> \in Seq(Byte)
      BY <1>1
    <2> HIDE DEF e
    <2> QED
      BY <1>5, <1>6, <2>1 DEF Card, Beside
  <1> HIDE DEF e
  <1>8. f = [e EXCEPT !.dac[e.dac_index] = Six(rgb), !.dac_part = <<>>,
                      !.dac_index = (@ + 1) % N]
    <2>1. Append(e.dac_part, (rgb[3] \div 4) % 64) = Six(rgb)
      BY <1>2, <1>3, <1>7 DEF z
    <2>2. ~(Len(Six(rgb)) < 3)
      BY <1>3
    <2> QED
      BY <2>1, <2>2 DEF WriteDac
  <1> DEFINE i == c.dac_index
             a == [c.dac EXCEPT ![i] = Six(rgb)]
             j == (i + 1) % N
  <1>9. i \in Colours /\ j \in Colours
    BY <1>1 DEF Card, Colours
  <1>10. a \in [Colours -> Colour] /\ \A k \in Colours : a[k] = IF k = i THEN Six(rgb) ELSE c.dac[k]
    BY <1>3 DEF Card
  <1>11. f = [e EXCEPT !.dac = a, !.dac_part = <<>>, !.dac_index = j]
    <2>1. a = [e.dac EXCEPT ![e.dac_index] = Six(rgb)] /\ j = (e.dac_index + 1) % N
      BY <1>7
    <2> HIDE DEF a, j, N, f
    <2> QED
      BY <1>8, <2>1
  <1> HIDE DEF a, j, f, N, i
  <1>12. f \in Card /\ f.dac = a /\ f.dac_part = <<>> /\ f.dac_index = j /\ Beside(e, f)
    BY <1>7, <1>9, <1>10, <1>11 DEF Card, Beside
  <1>13. Beside(c, f)
    BY <1>5, <1>7, <1>12 DEF Beside
  <1>14. WriteColour(c, rgb) = f
    BY DEF WriteColour, f, e, d
  <1> QED
    BY <1>10, <1>12, <1>13, <1>14 DEF i, j, N

(* All the colours, from the index that was set.                           *)
Loads(p, n, c, d) ==
    /\ d \in Card /\ Beside(c, d)
    /\ \A i \in Colours : d.dac[i] = IF i < n THEN Six(p[i + 1]) ELSE c.dac[i]

LEMMA ColoursWritten ==
    ASSUME NEW c \in Card, c.dac_part = <<>>, c.dac_index = 0,
           NEW p \in Seq(Colour), Len(p) <= Len(libvga_default_palette)
    PROVE  Loads(p, Len(p), c, WriteColours(c, p)) /\ WriteColours(c, p).dac_part = <<>>
  <1> DEFINE N == Len(libvga_default_palette)
             L == Len(p)
             Op(n, d) == WriteColour(d, p[n])
             Runs(f) == f = [n \in 0 .. L |-> IF n = 0 THEN c ELSE Op(n, f[n - 1])]
             w == CHOOSE f : Runs(f)
             P(n, d) == Loads(p, n, c, d) /\ d.dac_part = <<>> /\ d.dac_index = n % N
             St == [q \in (1 .. L) \X Card |-> Op(q[1], q[2])]
             Good == {q \in (0 .. L) \X Card : P(q[1], q[2])}
  <1>1. WriteColours(c, p) = w[L]
    BY DEF WriteColours
  <1>2. L \in Nat /\ N \in Nat \ {0} /\ L <= N /\ Colours = 0 .. N - 1
    BY VgaAssumption, EmptySeq, LenProperties DEF Colours
  <1> HIDE DEF L, N
  <1>3. ASSUME NEW n \in 1 .. L, NEW d, P(n - 1, d)  PROVE P(n, Op(n, d))
    <2>1. /\ n - 1 \in 0 .. N - 1 /\ (n - 1) % N = n - 1 /\ p[n] \in Colour
      <3>1. n - 1 \in 0 .. N - 1
        BY <1>2
      <3>2. p[n] \in Colour
        BY ElementOfSeq DEF L
      <3> QED
        BY <1>2, <3>1, <3>2
    <2> DEFINE e == WriteColour(d, p[n])
    <2>2. d \in Card /\ d.dac_part = <<>> /\ d.dac_index = n - 1 /\ Beside(c, d)
      BY <1>3, <2>1 DEF Loads
    <2>3. /\ e \in Card /\ Beside(d, e) /\ e.dac_part = <<>>
          /\ e.dac_index = (d.dac_index + 1) % N
          /\ \A i \in Colours : e.dac[i] = IF i = d.dac_index THEN Six(p[n]) ELSE d.dac[i]
      BY <2>1, <2>2, ColourWritten DEF N
    <2> HIDE DEF e
    <2>4. e.dac_index = n % N
      BY <2>2, <2>3
    <2>5. Beside(c, e)
      BY <2>2, <2>3 DEF Beside
    <2>6. ASSUME NEW i \in Colours
          PROVE  e.dac[i] = IF i < n THEN Six(p[i + 1]) ELSE c.dac[i]
      <3>1. d.dac[i] = IF i < n - 1 THEN Six(p[i + 1]) ELSE c.dac[i]
        BY <1>3 DEF Loads
      <3>2. CASE i = n - 1
        BY <2>2, <2>3, <3>2
      <3>3. CASE i # n - 1
        <4>1. i < n - 1 <=> i < n
          BY <1>2, <3>3
        <4>2. e.dac[i] = d.dac[i]
          BY <2>2, <2>3, <3>3
        <4> QED
          BY <3>1, <4>1, <4>2
      <3> QED
        BY <3>2, <3>3
    <2>7. Op(n, d) = e
      BY DEF e
    <2> QED
      BY <2>3, <2>4, <2>5, <2>6, <2>7 DEF Loads
  <1>4. P(0, c)
    <2>1. 0 % N = 0 /\ \A i \in Colours : ~(i < 0)
      BY <1>2
    <2> QED
      BY <2>1 DEF Loads, Beside
  <1> HIDE DEF Op, P
  <1>5. PICK g : Goes(g, L, Card, c, St, Good)
    <2>1. <<0, c>> \in Good
      BY <1>2, <1>4
    <2>2. ASSUME NEW i \in 1 .. L, NEW x \in Card, <<i - 1, x>> \in Good
          PROVE  St[<<i, x>>] \in Card /\ <<i, St[<<i, x>>]>> \in Good
      <3>1. P(i - 1, x) /\ St[<<i, x>>] = Op(i, x)
        BY <2>2
      <3>2. P(i, Op(i, x)) /\ i \in 0 .. L
        BY <1>2, <1>3, <3>1
      <3>3. Op(i, x) \in Card
        BY <3>2 DEF P, Loads
      <3>4. <<i, Op(i, x)>> \in Good
        BY <3>2, <3>3
      <3> QED
        BY <3>1, <3>3, <3>4
    <2> HIDE DEF St, Good
    <2>4. Steps(L, Card, c, St, Good)
      BY <2>1, <2>2 DEF Steps
    <2> QED
      BY <1>2, <2>4, LoopRuns
  <1>6. /\ \A n \in 0 .. L : g[n] \in Card /\ <<n, g[n]>> \in Good
        /\ g[0] = c /\ DOMAIN g = 0 .. L /\ g = [n \in 0 .. L |-> g[n]]
        /\ \A n \in 1 .. L : g[n] = St[<<n, g[n - 1]>>]
    BY <1>5 DEF Goes
  <1>7. ASSUME NEW n \in 1 .. L  PROVE n - 1 \in 0 .. L /\ g[n] = Op(n, g[n - 1])
    <2>1. n - 1 \in 0 .. L
      BY <1>2
    <2>2. g[n - 1] \in Card /\ g[n] = St[<<n, g[n - 1]>>]
      BY <1>6, <2>1
    <2> QED
      BY <2>1, <2>2
  <1>8. Runs(g)
    <2>1. ASSUME NEW n \in 0 .. L  PROVE g[n] = IF n = 0 THEN c ELSE Op(n, g[n - 1])
      <3>1. n # 0 => n \in 1 .. L
        BY <1>2
      <3> QED
        BY <1>6, <1>7, <3>1
    <2> HIDE DEF St, Good
    <2> QED
      BY <1>6, <2>1
  <1>9. Runs(w)
    BY <1>8
  <1> HIDE DEF w, St
  <1>10. w[0] = c /\ \A i \in 1 .. L : w[i] = Op(i, w[i - 1])
    <2>1. \A n \in 0 .. L : w[n] = IF n = 0 THEN c ELSE Op(n, w[n - 1])
      BY <1>9
    <2> QED
      BY <1>2, <2>1
  <1>11. w[L] = g[L]
    <2>1. \A i \in 1 .. L : w[i - 1] = g[i - 1] => w[i] = g[i]
      BY <1>7, <1>10
    <2>2. w[0] = g[0]
      BY <1>6, <1>10
    <2> QED
      BY <1>2, <2>1, <2>2, SameFromStart
  <1>12. P(L, w[L])
    <2>1. L \in 0 .. L
      BY <1>2
    <2>2. <<L, g[L]>> \in Good
      BY <1>6, <2>1
    <2>3. P(L, g[L])
      BY <2>2
    <2> QED
      BY <1>11, <2>3
  <1> QED
    BY <1>1, <1>12 DEF P, L

(* The index is set first, whatever was written before.                    *)
LEMMA PaletteSet ==
    ASSUME NEW c \in Card,
           NEW p \in Seq(Colour), Len(p) <= Len(libvga_default_palette)
    PROVE  Loads(p, Len(p), c, libvga_set_palette(c, p))
  <1> DEFINE d == WriteDacIndex(c, 0)
             e == WriteColours(d, p)
  <1>1. /\ d \in Card /\ Beside(c, d) /\ d.dac = c.dac /\ d.dac_part = <<>> /\ d.dac_index = 0
    <2>1. 0 \in Colours /\ <<>> \in Seq(Byte)
      BY VgaAssumption, EmptySeq, LenProperties DEF Colours
    <2> QED
      BY <2>1 DEF WriteDacIndex, Card, Beside
  <1> HIDE DEF d
  <1>2. Loads(p, Len(p), d, e)
    BY <1>1, ColoursWritten
  <1> HIDE DEF e
  <1>3. libvga_set_palette(c, p) = e
    BY DEF libvga_set_palette, d, e
  <1> QED
    BY <1>1, <1>2, <1>3 DEF Loads, Beside

(* libvga_write_regs: every register as the table says.                    *)
Sets(c, T, d) ==
    /\ d \in Card /\ d.regs = T /\ d.ac_screen /\ d.planes = c.planes
    /\ \A i \in Colours : d.dac[i] = Six(libvga_default_palette[i + 1])

LEMMA RegsWritten ==
    ASSUME NEW c \in Card, NEW T \in Tables
    PROVE  Sets(c, T, libvga_write_regs(c, T))
  <1> DEFINE c0 == [c EXCEPT !.regs.MISC = T.MISC]
             c1 == WriteFile(c0, "SEQ", T.SEQ)
             c2 == Unprotect(c1)
             c3 == WriteFile(c2, "CRTC", T.CRTC)
             c4 == WriteFile(c3, "GC", T.GC)
             c5 == WriteACFile(c4, T.AC)
             c6 == libvga_set_palette(c5, libvga_default_palette)
  <1>1. libvga_write_regs(c, T) = c6
    BY TablesUnprotect DEF libvga_write_regs
  <1>2. /\ T = [MISC |-> T.MISC, SEQ |-> T.SEQ, CRTC |-> T.CRTC, GC |-> T.GC, AC |-> T.AC]
        /\ T.MISC \in Byte /\ T.SEQ \in [1 .. 5 -> Byte] /\ T.CRTC \in [1 .. 25 -> Byte]
        /\ T.GC \in [1 .. 9 -> Byte] /\ T.AC \in [1 .. 21 -> Byte]
    BY TablesTyped DEF Regs
  <1>3. c0 \in Card /\ c0.regs.MISC = T.MISC /\ c0.planes = c.planes
    BY <1>2 DEF Card, Regs
  <1> HIDE DEF c0
  <1>4. /\ c1 \in Card /\ c1.planes = c.planes
        /\ c1.regs.MISC = T.MISC /\ c1.regs.SEQ = T.SEQ
    <2>1. c1 \in Card /\ Aside(c0, c1) /\ c1.regs = [c0.regs EXCEPT !.SEQ = T.SEQ]
      BY <1>2, <1>3, SeqWritten
    <2> HIDE DEF c1
    <2> QED
      BY <1>2, <1>3, <2>1 DEF Aside, Card, Regs
  <1> HIDE DEF c1
  <1>5. /\ c2 \in Card /\ c2.planes = c.planes /\ ~BitSet(c2.regs.CRTC[18], 128)
        /\ c2.regs.MISC = T.MISC /\ c2.regs.SEQ = T.SEQ
    <2>1. c2 \in Card /\ Aside(c1, c2) /\ ~BitSet(c2.regs.CRTC[18], 128)
      BY <1>4, Unprotected
    <2>2. PICK v \in [1 .. 25 -> Byte] : c2.regs = [c1.regs EXCEPT !.CRTC = v]
      BY <1>4, Unprotected
    <2> HIDE DEF c2
    <2> QED
      BY <1>4, <2>1, <2>2 DEF Aside, Card, Regs
  <1> HIDE DEF c2
  <1>6. /\ c3 \in Card /\ c3.planes = c.planes
        /\ c3.regs.MISC = T.MISC /\ c3.regs.SEQ = T.SEQ /\ c3.regs.CRTC = T.CRTC
    <2>1. c3 \in Card /\ Aside(c2, c3) /\ c3.regs = [c2.regs EXCEPT !.CRTC = T.CRTC]
      BY <1>2, <1>5, CrtcWritten
    <2> HIDE DEF c3
    <2> QED
      BY <1>2, <1>5, <2>1 DEF Aside, Card, Regs
  <1> HIDE DEF c3
  <1>7. /\ c4 \in Card /\ c4.planes = c.planes
        /\ c4.regs.MISC = T.MISC /\ c4.regs.SEQ = T.SEQ /\ c4.regs.CRTC = T.CRTC
        /\ c4.regs.GC = T.GC
    <2>1. c4 \in Card /\ Aside(c3, c4) /\ c4.regs = [c3.regs EXCEPT !.GC = T.GC]
      BY <1>2, <1>6, GcWritten
    <2> HIDE DEF c4
    <2> QED
      BY <1>2, <1>6, <2>1 DEF Aside, Card, Regs
  <1> HIDE DEF c4
  <1>8. /\ c5 \in Card /\ c5.planes = c.planes /\ c5.ac_screen
        /\ c5.regs.MISC = T.MISC /\ c5.regs.SEQ = T.SEQ /\ c5.regs.CRTC = T.CRTC
        /\ c5.regs.GC = T.GC /\ c5.regs.AC = T.AC
    <2>1. c5 \in Card /\ Aside(c4, c5) /\ c5.regs = [c4.regs EXCEPT !.AC = T.AC] /\ c5.ac_screen
      BY <1>2, <1>7, AcFile
    <2> HIDE DEF c5
    <2> QED
      BY <1>2, <1>7, <2>1 DEF Aside, Card, Regs
  <1> HIDE DEF c5
  <1>9. c5.regs = T
    <2>1. c5.regs \in Regs
      BY <1>8 DEF Card
    <2> QED
      BY <1>2, <1>8, <2>1 DEF Regs
  <1>10. Loads(libvga_default_palette, Len(libvga_default_palette), c5, c6)
    <2>1. /\ libvga_default_palette \in Seq(Colour)
          /\ Len(libvga_default_palette) <= Len(libvga_default_palette)
      BY VgaAssumption, LenProperties
    <2> QED
      BY <1>8, <2>1, PaletteSet
  <1> HIDE DEF c6
  <1>11. \A i \in Colours : i < Len(libvga_default_palette)
    BY VgaAssumption, LenProperties DEF Colours
  <1> QED
    BY <1>1, <1>8, <1>9, <1>10, <1>11 DEF Loads, Beside, Sets

-----------------------------------------------------------------------------
(* The window                                                              *)

(* Only the index register of the graphics controller moves.               *)
Selects(c, d) ==
    /\ d \in Card /\ d.regs = c.regs /\ d.ac_screen = c.ac_screen /\ d.planes = c.planes
    /\ d.dac = c.dac

LEMMA FramebufferTyped ==
    ASSUME NEW c \in Card
    PROVE  Selects(c, libvga_get_framebuffer(c).card)
  <1>1. libvga_get_framebuffer(c).card = [c EXCEPT !.index["GC"] = 6]
    BY DEF libvga_get_framebuffer, WriteIndex
  <1> DEFINE d == [c EXCEPT !.index["GC"] = 6]
  <1>2. Selects(c, d)
    BY DEF Selects, Card, Indexed
  <1> HIDE DEF d
  <1> QED
    BY <1>1, <1>2 DEF d

(* In mode 13h the framebuffer asked for is where the window is, and the   *)
(* window chains four planes.                                              *)
LEMMA Framebuffer13h ==
    ASSUME NEW c \in Card, c.regs = libvga_regs_320x200x256
    PROVE  /\ libvga_get_framebuffer(c).vram = Window(libvga_get_framebuffer(c).card)
           /\ Window(c) = libvga_get_framebuffer(c).vram
           /\ \A a \in Offset : Cell(c, a) \in Cells
  <1>1. c.regs["GC"][7] = 5 /\ c.regs.SEQ[5] = 14
    BY DEF libvga_regs_320x200x256
  <1>2. (5 \div 4) % 4 = 1 /\ BitSet(14, 8) = TRUE
    BY DEF BitSet
  <1> DEFINE d == WriteIndex(c, "GC", 6)
  <1>3. ReadData(d, "GC") = 5 /\ d.regs = c.regs
    <2>1. d.index["GC"] = 6 /\ d.regs = c.regs
      BY DEF WriteIndex, Card, Indexed
    <2> HIDE DEF d
    <2> QED
      BY <1>1, <2>1 DEF ReadData
  <1> HIDE DEF d
  <1>4. libvga_get_framebuffer(c) = [card |-> d, vram |-> 1]
    BY <1>2, <1>3 DEF libvga_get_framebuffer, d
  <1>5. Window(c) = 1 /\ Window(d) = 1
    BY <1>1, <1>2, <1>3 DEF Window
  <1>6. ASSUME NEW a \in Offset  PROVE Cell(c, a) \in Cells
    <2>1. Cell(c, a) = <<a % 4, (a \div 4) * 4>>
      BY <1>1, <1>2 DEF Cell
    <2>2. a % 4 \in 0 .. 3 /\ (a \div 4) * 4 \in 0 .. Size - 1
      BY VgaAssumption DEF Offset
    <2> QED
      BY <2>1, <2>2 DEF Cells, Offset
  <1> QED
    BY <1>4, <1>5, <1>6

(* One byte of one plane, if the window is there.                          *)
Pokes(c, base, a, v, d) ==
    /\ d \in Card /\ d.regs = c.regs /\ d.ac_screen = c.ac_screen /\ d.dac = c.dac
    /\ base = Window(c) => d.planes = [c.planes EXCEPT ![Cell(c, a)] = v]

LEMMA PokeTyped ==
    ASSUME NEW c \in Card, NEW base, NEW a \in Offset, NEW v \in Byte
    PROVE  Pokes(c, base, a, v, Poke(c, base, a, v))
  <1> DEFINE x == Cell(c, a)
             p == [c.planes EXCEPT ![x] = v]
             d == [c EXCEPT !.planes = p]
  <1>1. p \in [Cells -> Byte]
    BY DEF Card
  <1>2. IF base = Window(c) THEN Poke(c, base, a, v) = d ELSE Poke(c, base, a, v) = c
    BY DEF Poke
  <1> HIDE DEF p, x
  <1>4. /\ d \in Card /\ d.regs = c.regs /\ d.planes = p
        /\ d.ac_screen = c.ac_screen /\ d.dac = c.dac
    BY <1>1 DEF Card
  <1> HIDE DEF d
  <1> QED
    BY <1>2, <1>4 DEF p, x, Pokes

(* What was saved of t comes back, and what never left stays.              *)
Saved(c, base, saved, t) ==
    /\ base = Window(c)
    /\ \A a \in Offset : Cell(c, a) \in Cells /\ saved[a] = t[Cell(c, a)]

Restored(c, base, saved, t, n, d) ==
    /\ d \in Card /\ d.regs = c.regs
    /\ Saved(c, base, saved, t) =>
          /\ \A x \in Cells : c.planes[x] = t[x] => d.planes[x] = t[x]
          /\ \A a \in Offset : a < n => d.planes[Cell(c, a)] = t[Cell(c, a)]

LEMMA FontRestored ==
    ASSUME NEW c \in Card, NEW base, NEW saved \in [Offset -> Byte], NEW t \in [Cells -> Byte]
    PROVE  Restored(c, base, saved, t, Size, Restore(c, base, saved))
  <1> DEFINE Op(n, d) == Poke(d, base, n - 1, saved[n - 1])
             Runs(f) == f = [n \in 0 .. Size |-> IF n = 0 THEN c ELSE Op(n, f[n - 1])]
             w == CHOOSE f : Runs(f)
             P(n, d) == Restored(c, base, saved, t, n, d)
             St == [q \in (1 .. Size) \X Card |-> Op(q[1], q[2])]
             Good == {q \in (0 .. Size) \X Card : P(q[1], q[2])}
  <1>1. Restore(c, base, saved) = w[Size]
    BY DEF Restore
  <1>2. Size \in Nat
    BY VgaAssumption
  <1>3. ASSUME NEW n \in 1 .. Size, NEW d, P(n - 1, d)  PROVE P(n, Op(n, d))
    <2> DEFINE m == n - 1
               e == Poke(d, base, m, saved[m])
    <2>1. m \in Offset /\ saved[m] \in Byte
      BY <1>2 DEF Offset
    <2>2. d \in Card /\ d.regs = c.regs
      BY <1>3 DEF Restored
    <2> HIDE DEF m
    <2>3. /\ e \in Card /\ e.regs = d.regs
          /\ base = Window(d) => e.planes = [d.planes EXCEPT ![Cell(d, m)] = saved[m]]
      <3>1. Pokes(d, base, m, saved[m], e)
        BY <2>1, <2>2, PokeTyped
      <3> HIDE DEF e
      <3> QED
        BY <3>1 DEF Pokes
    <2>4. Window(d) = Window(c) /\ Cell(d, m) = Cell(c, m)
      BY <2>2 DEF Window, Cell
    <2>5. ASSUME Saved(c, base, saved, t)
          PROVE  /\ \A x \in Cells : c.planes[x] = t[x] => e.planes[x] = t[x]
                 /\ \A a \in Offset : a < n => e.planes[Cell(c, a)] = t[Cell(c, a)]
      <3>1. /\ Cell(c, m) \in Cells /\ saved[m] = t[Cell(c, m)]
            /\ \A a \in Offset : Cell(c, a) \in Cells
        BY <2>1, <2>5 DEF Saved
      <3>2. e.planes = [d.planes EXCEPT ![Cell(c, m)] = t[Cell(c, m)]]
        BY <2>3, <2>4, <2>5, <3>1 DEF Saved
      <3>3. d.planes \in [Cells -> Byte]
        BY <2>2 DEF Card
      <3> HIDE DEF e
      <3>4. ASSUME NEW x \in Cells, d.planes[x] = t[x] \/ x = Cell(c, m)
            PROVE  e.planes[x] = t[x]
        BY <3>2, <3>3, <3>4
      <3>5. /\ \A x \in Cells : c.planes[x] = t[x] => d.planes[x] = t[x]
            /\ \A a \in Offset : a < m => d.planes[Cell(c, a)] = t[Cell(c, a)]
        BY <1>3, <2>5 DEF Restored, m
      <3>6. \A a \in Offset : a < n => a < m \/ a = m
        BY <1>2 DEF Offset, m
      <3> QED
        BY <3>1, <3>4, <3>5, <3>6
    <2>6. Op(n, d) = e
      BY DEF m
    <2> HIDE DEF e
    <2> QED
      BY <2>2, <2>3, <2>5, <2>6 DEF Restored
  <1>4. P(0, c)
    <2>1. \A a \in Offset : ~(a < 0)
      BY <1>2 DEF Offset
    <2> QED
      BY <2>1 DEF Restored
  <1> HIDE DEF Op, P
  <1>5. PICK g : Goes(g, Size, Card, c, St, Good)
    <2>1. <<0, c>> \in Good
      BY <1>2, <1>4
    <2>2. ASSUME NEW i \in 1 .. Size, NEW x \in Card, <<i - 1, x>> \in Good
          PROVE  St[<<i, x>>] \in Card /\ <<i, St[<<i, x>>]>> \in Good
      <3>1. P(i - 1, x) /\ St[<<i, x>>] = Op(i, x)
        BY <2>2
      <3>2. P(i, Op(i, x)) /\ i \in 0 .. Size
        BY <1>2, <1>3, <3>1
      <3>3. Op(i, x) \in Card
        BY <3>2 DEF P, Restored
      <3>4. <<i, Op(i, x)>> \in Good
        BY <3>2, <3>3
      <3> QED
        BY <3>1, <3>3, <3>4
    <2> HIDE DEF St, Good
    <2>4. Steps(Size, Card, c, St, Good)
      BY <2>1, <2>2 DEF Steps
    <2> QED
      BY <1>2, <2>4, LoopRuns
  <1>6. /\ \A n \in 0 .. Size : g[n] \in Card /\ <<n, g[n]>> \in Good
        /\ g[0] = c /\ DOMAIN g = 0 .. Size /\ g = [n \in 0 .. Size |-> g[n]]
        /\ \A n \in 1 .. Size : g[n] = St[<<n, g[n - 1]>>]
    BY <1>5 DEF Goes
  <1>7. ASSUME NEW n \in 1 .. Size  PROVE n - 1 \in 0 .. Size /\ g[n] = Op(n, g[n - 1])
    <2>1. n - 1 \in 0 .. Size
      BY <1>2
    <2>2. g[n - 1] \in Card /\ g[n] = St[<<n, g[n - 1]>>]
      BY <1>6, <2>1
    <2> QED
      BY <2>1, <2>2
  <1>8. Runs(g)
    <2>1. ASSUME NEW n \in 0 .. Size  PROVE g[n] = IF n = 0 THEN c ELSE Op(n, g[n - 1])
      <3>1. n # 0 => n \in 1 .. Size
        BY <1>2
      <3> QED
        BY <1>6, <1>7, <3>1
    <2> HIDE DEF St, Good
    <2> QED
      BY <1>6, <2>1
  <1>9. Runs(w)
    BY <1>8
  <1> HIDE DEF w, St
  <1>10. w[0] = c /\ \A i \in 1 .. Size : w[i] = Op(i, w[i - 1])
    <2>1. \A n \in 0 .. Size : w[n] = IF n = 0 THEN c ELSE Op(n, w[n - 1])
      BY <1>9
    <2> QED
      BY <1>2, <2>1
  <1>11. w[Size] = g[Size]
    <2>1. \A i \in 1 .. Size : w[i - 1] = g[i - 1] => w[i] = g[i]
      BY <1>7, <1>10
    <2>2. w[0] = g[0]
      BY <1>6, <1>10
    <2> QED
      BY <1>2, <2>1, <2>2, SameFromStart
  <1>12. P(Size, w[Size])
    <2>1. Size \in 0 .. Size
      BY <1>2
    <2>2. <<Size, g[Size]>> \in Good
      BY <1>6, <2>1
    <2>3. P(Size, g[Size])
      BY <2>2
    <2> QED
      BY <1>11, <2>3
  <1> QED
    BY <1>1, <1>12 DEF P

-----------------------------------------------------------------------------
(* The invariant                                                           *)

TypeOK ==
    /\ card \in Card
    /\ libvga_txt_mode_font \in [Offset -> Byte]
    /\ mode \in {"bios", "13h", "3h"}
    /\ text \in [Cells -> Byte]
    /\ palette \in Seq(Colour) /\ Len(palette) <= Len(libvga_default_palette)
    /\ alternating \in BOOLEAN

(* While the switches alternate, what mode 13h has not drawn over is as    *)
(* text mode had it, and the rest is saved.                                *)
TextKept == alternating =>
    /\ mode # "13h" => card.planes = text
    /\ mode = "13h" => /\ \A x \in Cells : \/ card.planes[x] = text[x]
                                           \/ \E a \in Offset : x = Cell(card, a)
                       /\ \A a \in Offset : libvga_txt_mode_font[a] = text[Cell(card, a)]

IInv == TypeOK /\ RegistersSet /\ PaletteLoaded /\ TextKept

LEMMA PaletteInSix ==
    PaletteLoaded <=> \A i \in DOMAIN palette : card.dac[i - 1] = Six(palette[i])
  BY DEF PaletteLoaded, Six

LEMMA TablesAre ==
    /\ libvga_regs_320x200x256 \in Tables /\ libvga_regs_80x25xtext \in Tables
    /\ mode = "13h" => Table = libvga_regs_320x200x256
    /\ mode = "3h" => Table = libvga_regs_80x25xtext
  BY DEF Tables, Table

LEMMA Started == Init => IInv
<1> SUFFICES ASSUME Init  PROVE IInv
  OBVIOUS
<1> DEFINE T == libvga_regs_80x25xtext
<1>1. PICK phase \in BOOLEAN, screen \in BOOLEAN, protect \in {0, 1} :
          card = BiosCard(phase, screen, protect)
  BY DEF Init
<1>2. T.CRTC[18] = 14 /\ TopBit(14, 0) \in Byte /\ TopBit(14, 1) \in Byte
  BY DEF libvga_regs_80x25xtext, TopBit, Byte
<1>3. PICK v \in [1 .. 25 -> Byte] : v = [T.CRTC EXCEPT ![18] = TopBit(@, protect)]
  <2>1. T.CRTC \in [1 .. 25 -> Byte]
    BY TablesTyped DEF Regs, Tables
  <2>2. TopBit(T.CRTC[18], protect) \in Byte
    BY <1>2
  <2> HIDE DEF T
  <2> QED
    BY <2>1, <2>2
<1>4. [T EXCEPT !.CRTC = v] \in Regs
  <2>1. T \in Regs
    BY TablesTyped DEF Tables
  <2> HIDE DEF T
  <2> QED
    BY <2>1 DEF Regs
<1>5. [T EXCEPT !.CRTC[18] = TopBit(@, protect)] = [T EXCEPT !.CRTC = v]
  <2> HIDE DEF T
  <2> QED
    BY <1>3
<1> DEFINE dac0 == [i \in 0 .. Len(libvga_default_palette) - 1 |-> <<0, 0, 0>>]
           planes0 == [cell \in (0 .. 3) \X Offset |-> cell[1] + 4]
<1>6. dac0 \in [Colours -> Colour]
  BY DEF Colours, Colour, Byte
<1>7. planes0 \in [Cells -> Byte]
  <2>1. ASSUME NEW cell \in (0 .. 3) \X Offset  PROVE cell[1] + 4 \in 0 .. 255
    OBVIOUS
  <2> QED
    BY <2>1 DEF Cells, Byte
<1>8. 0 \in Colours /\ <<>> \in Seq(Byte) /\ 0 \in Byte
  BY VgaAssumption, EmptySeq, LenProperties DEF Colours, Byte
<1> DEFINE index0 == [f \in Indexed |-> 0]
<1>9. index0 \in [Indexed -> Nat]
  OBVIOUS
<1>10. card = [regs |-> [T EXCEPT !.CRTC = v], index |-> index0, ac_index |-> 0,
               ac_data |-> phase, ac_screen |-> screen, dac |-> dac0, dac_index |-> 0,
               dac_part |-> <<>>, planes |-> planes0]
  BY <1>1, <1>5 DEF BiosCard
<1> HIDE DEF dac0, planes0, index0, T
<1>11. card \in Card
  BY <1>4, <1>6, <1>7, <1>8, <1>9, <1>10 DEF Card
<1>12. text \in [Cells -> Byte] /\ text = card.planes
  BY <1>11 DEF Init, Card
<1>13. libvga_txt_mode_font \in [Offset -> Byte]
  BY <1>8 DEF Init
<1>14. /\ mode = "bios" /\ palette = <<>> /\ palette \in Seq(Colour) /\ DOMAIN palette = {}
       /\ Len(palette) <= Len(libvga_default_palette) /\ alternating = TRUE
  BY VgaAssumption, EmptySeq, LenProperties DEF Init
<1> QED
  BY <1>11, <1>12, <1>13, <1>14 DEF IInv, TypeOK, RegistersSet, PaletteLoaded, TextKept

(* The default palette, whole.                                             *)
LEMMA DefaultLoaded ==
    ASSUME NEW c \in Card, NEW d \in Card, NEW T \in Tables, Sets(c, T, d),
           card'.dac = d.dac, palette' = libvga_default_palette
    PROVE  /\ PaletteLoaded'
           /\ palette' \in Seq(Colour) /\ Len(palette') <= Len(libvga_default_palette)
<1>1. /\ libvga_default_palette \in Seq(Colour) /\ Len(libvga_default_palette) \in Nat
      /\ DOMAIN libvga_default_palette = 1 .. Len(libvga_default_palette)
  BY VgaAssumption, LenProperties
<1>2. ASSUME NEW i \in 1 .. Len(libvga_default_palette)
      PROVE  d.dac[i - 1] = Six(libvga_default_palette[i])
  <2>1. i - 1 \in Colours /\ i - 1 + 1 = i
    BY <1>1 DEF Colours
  <2> QED
    BY <2>1 DEF Sets
<1> QED
  BY <1>1, <1>2 DEF PaletteLoaded, Six

LEMMA To13h == IInv /\ libvga_switch_mode13h => IInv'
<1> SUFFICES ASSUME IInv, libvga_switch_mode13h  PROVE IInv'
  OBVIOUS
<1> DEFINE c == libvga_write_regs(card, libvga_regs_320x200x256)
           f == libvga_get_framebuffer(c)
<1>1. card \in Card
  BY DEF IInv, TypeOK
<1>2. Sets(card, libvga_regs_320x200x256, c)
  BY <1>1, TablesAre, RegsWritten
<1>3. c \in Card /\ c.regs = libvga_regs_320x200x256 /\ c.ac_screen /\ c.planes = card.planes
  BY <1>2 DEF Sets
<1>11. /\ card' = f.card /\ mode' = "13h" /\ palette' = libvga_default_palette
       /\ libvga_txt_mode_font' = [a \in Offset |-> Peek(f.card, f.vram, a)]
       /\ alternating' = (alternating /\ mode # "13h") /\ text' = text
  BY DEF libvga_switch_mode13h
<1> HIDE DEF c
<1>4. Selects(c, f.card) /\ f.vram = Window(f.card) /\ \A a \in Offset : Cell(c, a) \in Cells
  BY <1>3, FramebufferTyped, Framebuffer13h
<1> HIDE DEF f
<1>5. /\ card' \in Card /\ card'.regs = libvga_regs_320x200x256 /\ card'.ac_screen
      /\ card'.planes = card.planes /\ card'.dac = c.dac
  BY <1>3, <1>4, <1>11 DEF Selects
<1>6. PaletteLoaded' /\ palette' \in Seq(Colour) /\ Len(palette') <= Len(libvga_default_palette)
  BY <1>1, <1>2, <1>3, <1>5, <1>11, TablesAre, DefaultLoaded
<1>7. \A a \in Offset : Cell(card', a) \in Cells
  BY <1>3, <1>4, <1>5 DEF Cell
<1>8. \A a \in Offset : libvga_txt_mode_font'[a] = card.planes[Cell(card', a)]
  BY <1>4, <1>5, <1>11 DEF Peek
<1>9. libvga_txt_mode_font' \in [Offset -> Byte]
  <2>1. \A a \in Offset : card.planes[Cell(card', a)] \in Byte
    BY <1>1, <1>7 DEF Card
  <2> QED
    BY <1>8, <1>11, <2>1
<1>10. TextKept'
  <2>1. alternating' => card.planes = text
    BY <1>11 DEF IInv, TypeOK, TextKept
  <2> QED
    BY <1>5, <1>8, <1>11, <2>1 DEF TextKept
<1>12. RegistersSet'
  BY <1>5, <1>11 DEF RegistersSet, Table
<1>13. TypeOK'
  BY <1>5, <1>6, <1>9, <1>11 DEF IInv, TypeOK
<1> QED
  BY <1>6, <1>10, <1>12, <1>13 DEF IInv

LEMMA To3h == IInv /\ libvga_switch_mode3h => IInv'
<1> SUFFICES ASSUME IInv, libvga_switch_mode3h  PROVE IInv'
  OBVIOUS
<1> DEFINE f == libvga_get_framebuffer(card)
           d == Restore(f.card, f.vram, libvga_txt_mode_font)
           e == libvga_write_regs(d, libvga_regs_80x25xtext)
<1>1. /\ card \in Card /\ text \in [Cells -> Byte] /\ libvga_txt_mode_font \in [Offset -> Byte]
  BY DEF IInv, TypeOK
<1>2. /\ card' = e /\ mode' = "3h" /\ palette' = libvga_default_palette
      /\ alternating' = (alternating /\ mode = "13h")
      /\ text' = text /\ libvga_txt_mode_font' = libvga_txt_mode_font
  BY DEF libvga_switch_mode3h, RestoreFirst
<1>3. Selects(card, f.card)
  BY <1>1, FramebufferTyped
<1>4. alternating' => /\ f.vram = Window(f.card)
                      /\ \A a \in Offset : Cell(card, a) \in Cells
  <2>1. alternating' => card.regs = libvga_regs_320x200x256
    BY <1>2 DEF IInv, RegistersSet, Table
  <2> QED
    BY <1>1, <2>1, Framebuffer13h
<1> HIDE DEF f
<1>5. Restored(f.card, f.vram, libvga_txt_mode_font, text, Size, d)
  BY <1>1, <1>3, FontRestored DEF Selects
<1> HIDE DEF d
<1>6. Sets(d, libvga_regs_80x25xtext, e)
  <2>1. d \in Card
    BY <1>5 DEF Restored
  <2> QED
    BY <2>1, TablesAre, RegsWritten
<1> HIDE DEF e
<1>7. /\ d \in Card /\ e \in Card
      /\ e.regs = libvga_regs_80x25xtext /\ e.ac_screen /\ e.planes = d.planes
  BY <1>5, <1>6 DEF Restored, Sets
<1>8. PaletteLoaded' /\ palette' \in Seq(Colour) /\ Len(palette') <= Len(libvga_default_palette)
  BY <1>2, <1>6, <1>7, TablesAre, DefaultLoaded
<1>9. ASSUME alternating'  PROVE e.planes = text
  <2>1. \A a \in Offset : Cell(f.card, a) = Cell(card, a)
    BY <1>3 DEF Selects, Cell
  <2>2. /\ \A x \in Cells : card.planes[x] = text[x] \/ \E a \in Offset : x = Cell(card, a)
        /\ \A a \in Offset : libvga_txt_mode_font[a] = text[Cell(card, a)]
    BY <1>2, <1>9 DEF IInv, TypeOK, TextKept
  <2>3. Saved(f.card, f.vram, libvga_txt_mode_font, text)
    BY <1>4, <1>9, <2>1, <2>2 DEF Saved
  <2>4. f.card.planes = card.planes
    BY <1>3 DEF Selects
  <2>5. \A a \in Offset : a < Size
    BY VgaAssumption DEF Offset
  <2>6. ASSUME NEW x \in Cells  PROVE d.planes[x] = text[x]
    <3>1. CASE card.planes[x] = text[x]
      BY <1>5, <2>3, <2>4, <3>1 DEF Restored
    <3>2. CASE \E a \in Offset : x = Cell(card, a)
      BY <1>5, <2>1, <2>3, <2>5, <3>2 DEF Restored
    <3> QED
      BY <2>2, <3>1, <3>2
  <2>7. d.planes \in [Cells -> Byte]
    BY <1>7 DEF Card
  <2> QED
    BY <1>1, <1>7, <2>6, <2>7, SameFunction
<1>10. TextKept'
  BY <1>2, <1>9 DEF TextKept
<1>11. RegistersSet'
  BY <1>2, <1>7 DEF RegistersSet, Table
<1>12. TypeOK'
  BY <1>1, <1>2, <1>7, <1>8 DEF IInv, TypeOK
<1> QED
  BY <1>8, <1>10, <1>11, <1>12 DEF IInv

LEMMA AfterPalette == IInv /\ SetPalette => IInv'
<1> SUFFICES ASSUME IInv, SetPalette  PROVE IInv'
  OBVIOUS
<1>1. PICK p \in Palettes :
          /\ card' = libvga_set_palette(card, p)
          /\ palette' = p \o SubSeq(palette, Len(p) + 1, Len(palette))
          /\ UNCHANGED <<libvga_txt_mode_font, mode, text, alternating>>
  BY DEF SetPalette
<1> DEFINE N == Len(libvga_default_palette)
<1>2. /\ card \in Card /\ palette \in Seq(Colour) /\ Len(palette) <= N
  BY DEF IInv, TypeOK
<1>3. p \in Seq(Colour) /\ Len(p) <= N /\ N \in Nat /\ Len(p) \in Nat /\ Len(palette) \in Nat
  BY <1>2, VgaAssumption, LenProperties
<1>4. Loads(p, Len(p), card, card')
  BY <1>1, <1>2, <1>3, PaletteSet
<1>5. card' \in Card /\ Beside(card, card')
  BY <1>4 DEF Loads
<1> DEFINE rest == SubSeq(palette, Len(p) + 1, Len(palette))
           n == IF Len(palette) < Len(p) THEN 0 ELSE Len(palette) - Len(p)
<1>6. /\ rest \in Seq(Colour) /\ Len(rest) = n /\ n \in Nat
      /\ \A i \in 1 .. n : rest[i] = palette[Len(p) + i]
  BY <1>2, <1>3
<1> HIDE DEF rest
<1>7. /\ palette' \in Seq(Colour) /\ Len(palette') = Len(p) + n
      /\ \A i \in 1 .. Len(p) : palette'[i] = p[i]
      /\ \A i \in Len(p) + 1 .. Len(p) + n : palette'[i] = rest[i - Len(p)]
  BY <1>1, <1>3, <1>6, ConcatProperties DEF rest
<1>8. Len(palette') <= N
  BY <1>2, <1>3, <1>7
<1>9. ASSUME NEW i \in DOMAIN palette'  PROVE card'.dac[i - 1] = Six(palette'[i])
  <2>1. i \in 1 .. Len(p) + n /\ i - 1 \in Colours /\ i - 1 + 1 = i
    BY <1>3, <1>6, <1>7, <1>8, LenProperties DEF Colours
  <2>2. card'.dac[i - 1] = IF i - 1 < Len(p) THEN Six(p[i]) ELSE card.dac[i - 1]
    BY <1>4, <2>1 DEF Loads
  <2>3. CASE i <= Len(p)
    BY <1>3, <1>7, <2>1, <2>2, <2>3
  <2>4. CASE ~(i <= Len(p))
    <3>1. i \in Len(p) + 1 .. Len(p) + n /\ i - Len(p) \in 1 .. n
      BY <1>3, <1>6, <2>1, <2>4
    <3>2. Len(p) + (i - Len(p)) = i /\ i \in 1 .. Len(palette) /\ ~(i - 1 < Len(p))
      BY <1>3, <1>6, <2>1, <2>4, <3>1
    <3>3. palette'[i] = palette[i]
      BY <1>6, <1>7, <3>1, <3>2
    <3>4. i \in DOMAIN palette
      BY <1>2, <3>2, LenProperties
    <3>5. card.dac[i - 1] = Six(palette[i])
      BY <3>4, PaletteInSix DEF IInv
    <3> QED
      BY <2>2, <3>2, <3>3, <3>5
  <2> QED
    BY <2>3, <2>4
<1>10. PaletteLoaded'
  BY <1>9 DEF PaletteLoaded, Six
<1>11. RegistersSet'
  BY <1>1, <1>5 DEF IInv, RegistersSet, Table, Beside
<1>12. \A a \in Offset : Cell(card', a) = Cell(card, a)
  BY <1>5 DEF Beside, Cell
<1>13. TextKept'
  <2>1. card'.planes = card.planes
    BY <1>5 DEF Beside
  <2> QED
    BY <1>1, <1>12, <2>1 DEF IInv, TextKept
<1>14. TypeOK'
  BY <1>1, <1>5, <1>7, <1>8 DEF IInv, TypeOK
<1> QED
  BY <1>10, <1>11, <1>13, <1>14 DEF IInv

LEMMA AfterDraw == IInv /\ Draw => IInv'
<1> SUFFICES ASSUME IInv, Draw  PROVE IInv'
  OBVIOUS
<1> DEFINE f == libvga_get_framebuffer(card)
<1>1. PICK a \in Offset, v \in Bytes :
          /\ card' = Poke(f.card, f.vram, a, v)
          /\ text' = IF mode = "13h" THEN text ELSE card'.planes
          /\ UNCHANGED <<libvga_txt_mode_font, mode, palette, alternating>>
  BY DEF Draw
<1>2. card \in Card /\ v \in Byte /\ text \in [Cells -> Byte]
  BY VgaAssumption DEF IInv, TypeOK
<1>3. Selects(card, f.card)
  BY <1>2, FramebufferTyped
<1>4. mode = "13h" => f.vram = Window(f.card)
  <2>1. mode = "13h" => card.regs = libvga_regs_320x200x256
    BY DEF IInv, RegistersSet, Table
  <2> QED
    BY <1>2, <2>1, Framebuffer13h
<1> HIDE DEF f
<1>5. Pokes(f.card, f.vram, a, v, card')
  BY <1>1, <1>2, <1>3, PokeTyped DEF Selects
<1>6. /\ card' \in Card /\ card'.regs = card.regs /\ card'.ac_screen = card.ac_screen
      /\ card'.dac = card.dac
  BY <1>3, <1>5 DEF Selects, Pokes
<1>7. RegistersSet'
  BY <1>1, <1>6 DEF IInv, RegistersSet, Table
<1>8. PaletteLoaded'
  BY <1>1, <1>6 DEF IInv, PaletteLoaded
<1>9. \A b \in Offset : Cell(card', b) = Cell(card, b) /\ Cell(f.card, b) = Cell(card, b)
  BY <1>3, <1>6 DEF Selects, Cell
<1>10. TextKept'
  <2>1. CASE mode # "13h"
    BY <1>1, <2>1 DEF TextKept
  <2>2. CASE mode = "13h"
    <3>1. card'.planes = [card.planes EXCEPT ![Cell(card, a)] = v]
      BY <1>3, <1>4, <1>5, <1>9, <2>2 DEF Pokes, Selects
    <3>2. \A x \in Cells : card'.planes[x] = card.planes[x] \/ x = Cell(card, a)
      BY <1>2, <3>1 DEF Card
    <3>3. ASSUME alternating
          PROVE  /\ \A x \in Cells : card.planes[x] = text[x] \/ \E b \in Offset : x = Cell(card, b)
                 /\ \A b \in Offset : libvga_txt_mode_font[b] = text[Cell(card, b)]
      BY <2>2, <3>3 DEF IInv, TextKept
    <3>4. mode' = "13h" /\ text' = text /\ alternating' = alternating
          /\ libvga_txt_mode_font' = libvga_txt_mode_font
      BY <1>1, <2>2
    <3> QED
      BY <1>9, <3>2, <3>3, <3>4 DEF TextKept
  <2> QED
    BY <2>1, <2>2
<1>11. TypeOK'
  <2>1. text' \in [Cells -> Byte]
    BY <1>1, <1>2, <1>6 DEF Card
  <2> QED
    BY <1>1, <1>6, <2>1 DEF IInv, TypeOK
<1> QED
  BY <1>7, <1>8, <1>10, <1>11 DEF IInv

LEMMA Stays == IInv /\ [Next]_vars => IInv'
<1> SUFFICES ASSUME IInv, [Next]_vars  PROVE IInv'
  OBVIOUS
<1>1. CASE UNCHANGED vars
  BY <1>1 DEF vars, IInv, TypeOK, RegistersSet, Table, PaletteLoaded, TextKept, Cell
<1> QED
  BY <1>1, To13h, To3h, AfterPalette, AfterDraw DEF Next

THEOREM Always == Spec => []IInv
  BY Started, Stays, PTL DEF Spec

(* Whatever the ports remember, and whatever was drawn and loaded before,  *)
(* a switch sets every register as its table says (libvga.c:114-165).      *)
THEOREM RegistersStaySet == Spec => []RegistersSet
<1>1. IInv => RegistersSet
  BY DEF IInv
<1> QED
  BY Always, <1>1, PTL

(* The text and the font come back from mode 13h byte for byte, for a      *)
(* window of any size (libvga.c:195-211).                                  *)
THEOREM TextComesBack == Spec => []TextRestored
<1>1. IInv => TextRestored
  BY DEF IInv, TextKept, TextRestored
<1> QED
  BY Always, <1>1, PTL

(* Every palette of at most as many colours as the default one is loaded   *)
(* whole, over whatever was loaded before (libvga.c:155-165).              *)
THEOREM PalettesLoad == Spec => []PaletteLoaded
<1>1. IInv => PaletteLoaded
  BY DEF IInv
<1> QED
  BY Always, <1>1, PTL
===============================================================================
