CONSTANTS
    Base = 256
    MemSize = 8
    Registers = {0, 1}
    Heap = {0}
    Scripts <- MCScripts
    PrgFiles <- MCPrg
    Selections <- MCSelections
    MaxDepth = 4
    Roms <- NoRoms
    PrgBank = 4
    ChrBank = 4
    Block = 4
    Texts = {}
    HasScriptMgr = TRUE
    MaxFaults = 1
    MaxLeft = 2
SPECIFICATION HaltingSpec
PROPERTIES Responsive QuitEnds
INVARIANTS Released VerdictDeserved TallyComplete HaltedAfterWait
