SPECIFICATION SeedSpec
CONSTANTS
    a = a
    b = b
    l1 = l1
    Conns = {a, b}
    Leechers = {l1}
    NumPieces = 2
    PieceLength = 3
    TotalLength = 4
    BlockLen = 2
    LossyPieces = {}
    Has <- Everything
    First <- Everything
    BadPeers = {}
    Orderly = {a, b}
    Polite = {}
    Droppable = {b}
    MaxClears = 0
    MaxChokes = 0
INVARIANTS SeedTypeOK ToldIsStored 
PROPERTY KeepsItsWord
CHECK_DEADLOCK FALSE
