SPECIFICATION FairSpec
CONSTANTS
    a = a
    b = b
    Conns = {a, b}
    NumPieces = 3
    PieceLength = 2
    TotalLength = 5
    BlockLen = 1
    LossyPieces = {}
    Has <- Everything
    First <- Everything
    BadPeers = {}
    Orderly = {a, b}
    Polite = {}
    Droppable = {}
    MaxClears = 0
    MaxChokes = 0
PROPERTIES EventuallyDone
CHECK_DEADLOCK FALSE
