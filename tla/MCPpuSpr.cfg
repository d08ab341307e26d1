SPECIFICATION Spec
CONSTANTS
    Objs = 3
    Slots = 2
    Wide = 2
    High = 2
    Rows = 3
    Lines = 9
    Byte = 8
    Border = 1
    Clip = 1
    Pattern <- ThePattern
    Oams <- TheOams
    Objects <- AnOverlay
    MaxChanges = 2
INVARIANTS SpritesShown FirstInRange
