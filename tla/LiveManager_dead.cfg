CONSTANTS
    Key = {k1}
    Client = {c1, c2}
    None = None
SPECIFICATION FairSpec
CHECK_DEADLOCK FALSE
PROPERTIES
    DeadStreamLetsGo
