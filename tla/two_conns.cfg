SPECIFICATION Spec
CONSTANTS
    a = a
    b = b
    Conns = {a, b}
    NumPieces = 2
    PieceLength = 3
    TotalLength = 4
    BlockLen = 2
    LossyPieces = {1}
    Has <- Everything
    First <- FirstLater
    BadPeers = {b}
    Orderly = {}
    Polite = {}
    Droppable = {a, b}
    MaxClears = 1
    MaxChokes = 0
INVARIANTS TypeOK DoneOnDisk HeldContent FullCountIsDecided
PROPERTY ImplementsStore
CHECK_DEADLOCK FALSE
