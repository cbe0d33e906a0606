SPECIFICATION Spec
CONSTANTS
  Size = 4
  libvga_default_palette <- FewColours
  Palettes <- OtherPalettes
  Bytes = {9}
INVARIANTS
  RegistersSet
  TextRestored
  PaletteLoaded
