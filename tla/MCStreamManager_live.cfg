CONSTANTS
    Url = {u1}
    Request = {r1}
    Session = {x1, x2, x3}
    MaxPeers = 3
    MaxPerStream = 2
    None = None
SPECIFICATION FairSpec
CHECK_DEADLOCK FALSE
PROPERTIES
    IdleStreamStops
