SPECIFICATION Spec
CONSTANTS
    Base = 16
    Depth = 3
    NoByte = NoByte
    FV = 1
    NV = 1
    NH = 1
    VTHI = 1
    VTLO = 1
    HT = 2
    Colours = 1
    OamSize = 3
    CycleLength = 4
    Accesses <- Program
    IndexedStores = FALSE
    Halted <- Debug
    Running <- NoOps
    Targets <- RamAndRom
INVARIANTS AccessOnce DmaCopies
PROPERTIES DisableDisables PpuMemLeavesRegs
