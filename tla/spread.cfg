SPECIFICATION Spec
CONSTANTS
    Layouts <- NoEmptyInside
    PieceLength = 3
    WordSize = 32
    Failing = {1}
    MaxFiles = 3
    MinSize = 0
    MaxSize = 4
    MaxTotal = 8
INVARIANTS TypeOK NoStrayByte WrittenInPlace ReadsBack
PROPERTY ImplementsStore
CHECK_DEADLOCK FALSE
