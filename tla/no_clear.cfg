SPECIFICATION Spec
CONSTANTS
    a = a
    b = b
    Conns = {a, b}
    NumPieces = 3
    PieceLength = 3
    TotalLength = 8
    BlockLen = 2
    LossyPieces = {}
    Has <- Everything
    First <- FirstLater
    BadPeers = {}
    Orderly = {}
    Polite = {}
    Droppable = {b}
    MaxClears = 0
    MaxChokes = 1
INVARIANTS OneFetcher  
PROPERTY ImplementsStrictStore
CHECK_DEADLOCK FALSE
