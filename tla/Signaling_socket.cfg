CONSTANTS
    Sessions = 1
    ServerCandidates = 1
    BrowserCandidates = 1
SPECIFICATION FairSpec
CHECK_DEADLOCK FALSE
PROPERTIES
    ClosedSocketEndsSession
