CONSTANTS
    Base = 256
    MemSize = 8
    Registers = {0, 1}
    Heap = {205}
    Scripts <- MCScripts
    PrgFiles <- MCPrg
    Selections = {}
    MaxDepth = 3
    Roms <- MCRoms
    PrgBank = 4
    ChrBank = 4
    Block = 4
    Texts <- MCTexts
    HasScriptMgr = FALSE
    MaxFaults = 1
    MaxLeft = 2
SPECIFICATION Spec
INVARIANTS TypeOK InStep RomPlays AnswerIsOwn Released
