CONSTANTS
    Base = 16
    Depth = 3
    NoByte = NoByte
    TickClks = 4
    ByteTicks = 3
    MemSize = 2
    Packets <- AnswerPackets
    Registers = {0, 2}
SPECIFICATION SpecHalting
PROPERTIES AnswerArrives WaitForHltReturns
