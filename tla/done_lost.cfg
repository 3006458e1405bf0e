SPECIFICATION Spec
CONSTANTS
    a = a
    b = b
    Conns = {a, b}
    NumPieces = 1
    PieceLength = 2
    TotalLength = 2
    BlockLen = 1
    LossyPieces = {}
    Has <- Everything
    First <- Everything
    BadPeers = {}
    Orderly = {a, b}
    Polite = {}
    Droppable = {}
    MaxClears = 1
    MaxChokes = 0
PROPERTY DoneStable
CHECK_DEADLOCK FALSE
