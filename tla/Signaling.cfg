CONSTANTS
    Sessions = 1
    ServerCandidates = 2
    BrowserCandidates = 2
SPECIFICATION FairSpec
CHECK_DEADLOCK FALSE
INVARIANTS
    TypeOK
    BrowserCandidatesArrive
    ServerCandidatesArrive
PROPERTIES
    SessionSettles
