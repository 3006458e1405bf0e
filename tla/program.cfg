SPECIFICATION FairSpec
CONSTANTS
    NumSessions = 3
    Threads = 2
    Loaded = {2}
    MaxHanging = 1
INVARIANTS TypeOK LeaversHaveSaved
PROPERTIES  OthersReturn 
CHECK_DEADLOCK FALSE
