SPECIFICATION FileSpec
CONSTANTS
    a = a
    Conns = {a}
    NumPieces = 2
    PieceLength = 3
    TotalLength = 5
    BlockLen = 3
    LossyPieces = {}
    Has <- Everything
    First <- Everything
    BadPeers = {}
    Orderly = {a}
    Polite = {}
    Droppable = {}
    MaxClears = 1
    MaxChokes = 0
    MaxSaves = 2
    MaxKills = 1
    KeptFields = 2
INVARIANTS FileTypeOK  DoneOnDisk
PROPERTIES  ImplementsRecord
CHECK_DEADLOCK FALSE
