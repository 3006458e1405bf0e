SPECIFICATION BossSpec
CONSTANTS
    thePeer = thePeer
    c1 = c1
    c2 = c2
    Conns = {c1, c2}
    Peers = {thePeer}
    PeerOf <- ToThePeer
    TrackerAnswers <- NobodyOrThePeer
    TrackerFails = {"first", "again"}
    StallAfter = 2
    ClearAfter = 1
    Interval = 1
    Prompt = FALSE
    MaxFailures = 1
    NumPieces = 1
    PieceLength = 2
    TotalLength = 2
    BlockLen = 2
    LossyPieces = {}
    Has <- Everything
    First <- Everything
    BadPeers = {}
    Orderly = {c1, c2}
    Polite = {}
    Droppable = {c1, c2}
    MaxClears = 0
    MaxChokes = 0
INVARIANTS BossTypeOK OneConnectionPerPeer PutAsideOnlyAtTheEnd 
CHECK_DEADLOCK FALSE
