SPECIFICATION FairBossSpec
CONSTANTS
    thePeer = thePeer
    c1 = c1
    c2 = c2
    Conns = {c1}
    Peers = {thePeer}
    PeerOf <- ToThePeer
    TrackerAnswers <- NobodyOrThePeer
    TrackerFails = {"first", "again"}
    StallAfter = 2
    ClearAfter = 1
    Interval = 2
    Prompt = TRUE
    MaxFailures = 2
    NumPieces = 2
    PieceLength = 2
    TotalLength = 3
    BlockLen = 2
    LossyPieces = {}
    Has <- Everything
    First <- Everything
    BadPeers = {}
    Orderly = {c1}
    Polite = {}
    Droppable = {c1}
    MaxClears = 0
    MaxChokes = 0
PROPERTY RunReturns
CHECK_DEADLOCK FALSE
