--------------------------------- MODULE Vga ---------------------------------
(***************************************************************************)
(* k/libvga.c: the switches between text mode and mode 13h, byte by byte   *)
(* through the ports, against a card whose ports remember what came        *)
(* before: index registers, the attribute controller's single port for     *)
(* index and data, write-protected CRTC registers, colours in three        *)
(* writes, and planes of which the window shows what the registers say.    *)
(***************************************************************************)
EXTENDS Integers, Sequences

CONSTANTS
    Size,                   \* bound: the bytes of the window
    libvga_default_palette, \* bound: some of its colours, in order
    Palettes,               \* bound: what other callers of libvga_set_palette load
    Bytes                   \* bound: what is drawn

Byte == 0 .. 255
Colour == [1 .. 3 -> Byte]
Offset == 0 .. Size - 1         \* the addresses of the window

ASSUME VgaAssumption ==
    /\ Size \in Nat /\ Size % 4 = 0
    /\ libvga_default_palette \in Seq(Colour) \ {<<>>}
    /\ \A p \in Palettes : p \in Seq(Colour) /\ Len(p) <= Len(libvga_default_palette)
    /\ Bytes \subseteq Byte

VARIABLES
    card,                 \* the VGA card: registers, latches of its ports, planes
    libvga_txt_mode_font, \* the bytes saved
    mode,                 \* the mode last switched to
    text,                 \* history: the planes as text mode last had them
    palette,              \* history: the palette last loaded
    alternating           \* history: only 13h from text, only 3h from 13h

vars == <<card, libvga_txt_mode_font, mode, text, palette, alternating>>

-----------------------------------------------------------------------------
(* The register tables.                                                    *)
libvga_regs_320x200x256 == [
    MISC |-> 99,
    SEQ  |-> <<3, 1, 15, 0, 14>>,
    CRTC |-> <<95, 79, 80, 130, 84, 128, 191, 31, 0, 65, 0, 0, 0, 0, 0, 0,
               156, 14, 143, 40, 64, 150, 185, 163, 255>>,
    GC   |-> <<0, 0, 0, 0, 0, 64, 5, 15, 255>>,
    AC   |-> <<0, 1, 2, 3, 4, 5, 6, 7, 8, 9, 10, 11, 12, 13, 14, 15, 65, 0, 15, 0, 0>>]

libvga_regs_80x25xtext == [
    MISC |-> 103,
    SEQ  |-> <<3, 0, 3, 0, 2>>,
    CRTC |-> <<95, 79, 80, 130, 85, 129, 191, 31, 0, 79, 13, 14, 0, 0, 0, 80,
               156, 14, 143, 40, 31, 150, 185, 163, 255>>,
    GC   |-> <<0, 0, 0, 0, 0, 16, 14, 0, 255>>,
    AC   |-> <<0, 1, 2, 3, 4, 5, 20, 7, 56, 57, 58, 59, 60, 61, 62, 63, 12, 0, 15, 8, 0>>]

Indexed == {"SEQ", "CRTC", "GC"}

-----------------------------------------------------------------------------
(* The card, as libvga.c uses it.                                          *)
BitSet(v, bit) == (v \div bit) % 2 = 1

\* CRTC registers 0 to 7 take no value while the top bit of register 17 is set.
Protected(c, file, i) == file = "CRTC" /\ i < 8 /\ BitSet(c.regs.CRTC[18], 128)

WriteIndex(c, file, v) == [c EXCEPT !.index[file] = v]
WriteData(c, file, v) ==
    IF Protected(c, file, c.index[file]) THEN c
    ELSE [c EXCEPT !.regs[file][c.index[file] + 1] = v]
ReadData(c, file) == c.regs[file][c.index[file] + 1]

\* One port: an index, then a datum.  While bit 5 of the index connects the palette to
\* the screen the palette takes no value.
WriteAC(c, v) ==
    LET shown == [c EXCEPT !.ac_index = v % 32, !.ac_screen = BitSet(v, 32), !.ac_data = TRUE]
        done  == [c EXCEPT !.ac_data = FALSE]
    IN  IF ~c.ac_data THEN shown
        ELSE IF c.ac_index >= Len(c.regs.AC) \/ (c.ac_screen /\ c.ac_index < 16) THEN done
        ELSE [done EXCEPT !.regs.AC[c.ac_index + 1] = v]
ReadInStat(c) == [c EXCEPT !.ac_data = FALSE]

\* Six bits of red, green, blue, then the next colour.
WriteDacIndex(c, v) == [c EXCEPT !.dac_index = v, !.dac_part = <<>>]
WriteDac(c, v) ==
    LET part == Append(c.dac_part, v % 64)
    IN  IF Len(part) < 3 THEN [c EXCEPT !.dac_part = part]
        ELSE [c EXCEPT !.dac[c.dac_index] = part, !.dac_part = <<>>,
                       !.dac_index = (@ + 1) % Len(libvga_default_palette)]

\* Where the window is, and which byte of which plane address a of it shows: chained four
\* planes to an address, or the two of text.
Window(c) == (c.regs.GC[7] \div 4) % 4
Cell(c, a) ==
    LET n == IF BitSet(c.regs.SEQ[5], 8) THEN 4 ELSE 2
    IN  <<a % n, (a \div n) * n>>

Peek(c, base, a) == IF base = Window(c) THEN c.planes[Cell(c, a)] ELSE 0
Poke(c, base, a, v) == IF base = Window(c) THEN [c EXCEPT !.planes[Cell(c, a)] = v] ELSE c

-----------------------------------------------------------------------------
(* libvga.c.                                                               *)

\* for (i = 0; i < n; i++) { outb(index, i); outb(data, *regs++); }
\* (Register 17, which protects, comes after those it protects.)
WriteFile(c, file, values) ==
    [c EXCEPT !.index[file] = Len(values) - 1,
              !.regs[file] = [i \in DOMAIN values |->
                                 IF Protected(c, file, i - 1) THEN @[i] ELSE values[i]]]

TopBit(v, b) == (v % 128) + 128 * b

\* The first write may fall on a protected register; the second lifts the protection.
Unprotect(c) ==
    LET at3  == WriteIndex(c, "CRTC", 3)
        at17 == WriteIndex(WriteData(at3, "CRTC", TopBit(ReadData(at3, "CRTC"), 1)), "CRTC", 17)
    IN  WriteData(at17, "CRTC", TopBit(ReadData(at17, "CRTC"), 0))

\* The pairs of index and datum, in order.
WriteACPairs(c, values) ==
    LET after[n \in 0 .. Len(values)] ==
            IF n = 0 THEN c ELSE WriteAC(WriteAC(after[n - 1], n - 1), values[n])
    IN  after[Len(values)]

WriteACFileUnsynced(c, values) ==   \* mutant: the index of the first pair may be taken for a datum
    WriteAC(ReadInStat(WriteACPairs(c, values)), 32)

WriteACFile(c, values) == WriteAC(ReadInStat(WriteACPairs(ReadInStat(c), values)), 32)

WriteColour(c, rgb) ==
    WriteDac(WriteDac(WriteDac(c, rgb[1] \div 4), rgb[2] \div 4), rgb[3] \div 4)

WriteColours(c, colours) ==
    LET after[n \in 0 .. Len(colours)] ==
            IF n = 0 THEN c ELSE WriteColour(after[n - 1], colours[n])
    IN  after[Len(colours)]

libvga_set_palette_on(c, colours) == WriteColours(c, colours)   \* mutant: from where the last ended
libvga_set_palette(c, colours) == WriteColours(WriteDacIndex(c, 0), colours)

libvga_write_regs(c, regs) ==
    LET misc == WriteFile([c EXCEPT !.regs.MISC = regs.MISC], "SEQ", regs.SEQ)
        crtc == WriteFile(Unprotect(misc), "CRTC",
                          [regs.CRTC EXCEPT ![4] = TopBit(@, 1), ![18] = TopBit(@, 0)])
        ac   == WriteACFile(WriteFile(crtc, "GC", regs.GC), regs.AC)
    IN  libvga_set_palette(ac, libvga_default_palette)

\* Selects register 6; of its four values two stand for one address.
libvga_get_framebuffer(c) ==
    LET at6 == WriteIndex(c, "GC", 6)
        s   == (ReadData(at6, "GC") \div 4) % 4
    IN  [card |-> at6, vram |-> IF s = 0 THEN 1 ELSE s]

Restore(c, vram, saved) ==
    LET after[n \in 0 .. Size] == IF n = 0 THEN c ELSE Poke(after[n - 1], vram, n - 1, saved[n - 1])
    IN  after[Size]

-----------------------------------------------------------------------------
\* What the BIOS leaves: text mode, the ports in any phase, the font in plane 2.
BiosCard(phase, screen, protect) ==
    [regs |-> [libvga_regs_80x25xtext EXCEPT !.CRTC[18] = TopBit(@, protect)],
     index |-> [f \in Indexed |-> 0], ac_index |-> 0, ac_data |-> phase, ac_screen |-> screen,
     dac |-> [i \in 0 .. Len(libvga_default_palette) - 1 |-> <<0, 0, 0>>],
     dac_index |-> 0, dac_part |-> <<>>,
     planes |-> [cell \in (0 .. 3) \X Offset |-> cell[1] + 4]]

Init ==
    /\ \E phase, screen \in BOOLEAN, protect \in {0, 1} : card = BiosCard(phase, screen, protect)
    /\ libvga_txt_mode_font = [a \in Offset |-> 0]
    /\ mode = "bios"
    /\ text = card.planes
    /\ palette = <<>>
    /\ alternating = TRUE

libvga_switch_mode13h ==
    LET f == libvga_get_framebuffer(libvga_write_regs(card, libvga_regs_320x200x256))
    IN  /\ card' = f.card
        /\ libvga_txt_mode_font' = [a \in Offset |-> Peek(f.card, f.vram, a)]
        /\ mode' = "13h"
        /\ palette' = libvga_default_palette
        /\ alternating' = (alternating /\ mode # "13h")
        /\ UNCHANGED text

RestoreLast(c, saved) ==   \* mutant: the registers first, then the font
    LET f == libvga_get_framebuffer(libvga_write_regs(c, libvga_regs_80x25xtext))
    IN  Restore(f.card, f.vram, saved)
RestoreFirst(c, saved) ==
    LET f == libvga_get_framebuffer(c)
    IN  libvga_write_regs(Restore(f.card, f.vram, saved), libvga_regs_80x25xtext)

libvga_switch_mode3h ==
    /\ card' = RestoreFirst(card, libvga_txt_mode_font)
    /\ mode' = "3h"
    /\ palette' = libvga_default_palette
    /\ alternating' = (alternating /\ mode = "13h")
    /\ UNCHANGED <<libvga_txt_mode_font, text>>

SetPalette == \E p \in Palettes :
    /\ card' = libvga_set_palette(card, p)
    /\ palette' = p \o SubSeq(palette, Len(p) + 1, Len(palette))
    /\ UNCHANGED <<libvga_txt_mode_font, mode, text, alternating>>

\* Whoever asks for the framebuffer writes to it: pixels, or characters.
Draw == \E a \in Offset, v \in Bytes : LET f == libvga_get_framebuffer(card) IN
    /\ card' = Poke(f.card, f.vram, a, v)
    /\ text' = IF mode = "13h" THEN text ELSE card'.planes
    /\ UNCHANGED <<libvga_txt_mode_font, mode, palette, alternating>>

Next == libvga_switch_mode13h \/ libvga_switch_mode3h \/ SetPalette \/ Draw

Spec == Init /\ [][Next]_vars

-----------------------------------------------------------------------------
(* Properties.                                                             *)
Table == CASE mode = "13h" -> libvga_regs_320x200x256
           [] mode = "3h"  -> libvga_regs_80x25xtext

\* Whatever the ports remember from before, a switch sets every register as its table says
\* and leaves the palette connected to the screen (libvga.c:114-165).
RegistersSet == mode # "bios" =>
    /\ card.regs = Table
    /\ card.ac_screen

\* Text and font come back: if the switches alternate, nothing drawn in mode 13h is left
\* in the planes after the return to text mode (libvga.c:195-211).
TextRestored == alternating /\ mode = "3h" => card.planes = text

\* Every colour reaches the DAC whole, in six bits, at its index, after any earlier loads.
PaletteLoaded == \A i \in DOMAIN palette :
    card.dac[i - 1] = [k \in 1 .. 3 |-> (palette[i][k] \div 4) % 64]
=============================================================================
