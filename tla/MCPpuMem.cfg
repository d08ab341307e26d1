SPECIFICATION Spec
CONSTANTS
    FV = 1
    NV = 1
    NH = 1
    VTHI = 2
    VTLO = 1
    HT = 2
    Colours = 1
    OamSize = 2
    CycleLength = 3
    Accesses <- MemoryAccesses
    Blanks <- AnyBlanks
    RamInit <- BlankRam
    PaletteInit <- BlankPalette
PROPERTIES PortSpec
