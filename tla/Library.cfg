SPECIFICATION LibrarySpec
CONSTANTS
  Bits = 16
  ShortBits = 8
  GRAPHIC_WIDTH = 17
  GRAPHIC_HEIGHT = 9
  Word = 256
  font <- MCFont
  Corners <- MCCorners
  Texts <- MCTexts
  Numbers <- MCNumbers
  Bases = {8, 10, 16}
  Widths <- MCWidths
  Precisions <- MCPrecisions
  Types <- MCTypes
  Pieces <- MCPieces
  Longest = 2
  Memories <- MCMemories
  Chunk = {c1, c2, c3, c4, c5}
  NoChunk = NoChunk
SYMMETRY ChunkSymmetry
INVARIANTS DrawingInPlace FormatFaithful MemoryFaithful TreesChecked SearchFinds BinFind
