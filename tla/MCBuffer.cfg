CONSTANTS
    CheapPrepend = 2
    InitialSize = 2
    ExtraSize = 2
    Byte = {0, 1}
    MaxPiece = 3
    MaxSize = 7
SPECIFICATION Spec
INVARIANTS
    SpaceIsMade
    HeaderFits
PROPERTIES
    ImplementsByteQueue
