SPECIFICATION FairSpec
CONSTANTS
    a = a
    b = b
    Conns = {a}
    NumPieces = 2
    PieceLength = 2
    TotalLength = 4
    BlockLen = 2
    LossyPieces = {}
    Has <- Everything
    First <- Everything
    BadPeers = {}
    Orderly = {a}
    Polite = {a}
    Droppable = {}
    MaxClears = 0
    MaxChokes = 0
PROPERTY EventuallyDone
CHECK_DEADLOCK FALSE
