CONSTANTS
    Base = 16
    Depth = 3
    NoByte = NoByte
    Backlog = 1
SPECIFICATION MCSpec
INVARIANTS HciTypeOK CountsLive
PROPERTY CheckedAnswersLand
