SPECIFICATION Spec
CONSTANTS
  Word = 256
  Bitmaps <- MCBitmaps
  Tunes <- MCTunes
  HeaderSize = 4
  MaxHeld = 2
  Delay = 1
  MaxTick = 2
INVARIANTS ResourcesExact LoadedExact
CHECK_DEADLOCK FALSE
