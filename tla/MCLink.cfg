CONSTANTS
    Base = 16
    Depth = 3
    NoByte = NoByte
    TickClks = 4
    ByteTicks = 3
    MemSize = 2
    Packets <- AllPackets
    Registers = {0, 2}
SPECIFICATION Spec
INVARIANTS FlagsExact NothingDropped InSync AnswersRight AsCommanded
PROPERTIES ProtocolSpec
