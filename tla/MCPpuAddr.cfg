SPECIFICATION Spec
CONSTANTS
    FV = 1
    NV = 2
    NH = 1
    VTHI = 1
    VTLO = 2
    HT = 2
    Colours = 1
    OamSize = 1
    CycleLength = 3
    Accesses <- ReadingAccesses
    Blanks <- NoBlanks
    RamInit <- Addresses
    PaletteInit <- Colors
INVARIANT TypeOK
PROPERTIES PortSpec ExecutedOnce
