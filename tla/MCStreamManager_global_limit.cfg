CONSTANTS
    Url = {u1}
    Request = {r1}
    Session = {x1, x2, x3}
    MaxPeers = 1
    MaxPerStream = 2
    None = None
SPECIFICATION Spec
CHECK_DEADLOCK FALSE
INVARIANT
    GlobalPeerLimit
