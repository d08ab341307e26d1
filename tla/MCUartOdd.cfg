CONSTANTS
    DataBits = 2
    StopBits = 1
    ParityMode = 1
    Oversample = 4
    TickClks = 3
    Depth = 3
SPECIFICATION Spec
INVARIANTS DeliveredOnce ParityAgrees
PROPERTY EveryByteLeaves
