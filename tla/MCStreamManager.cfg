\* Two racing creations, two URLs, three viewers; both limits within reach.
CONSTANTS
    Url = {u1, u2}
    Request = {r1, r2}
    Session = {x1, x2, x3}
    MaxPeers = 2
    MaxPerStream = 2
    None = None
SPECIFICATION Spec
SYMMETRY AnySymmetry
CHECK_DEADLOCK FALSE
INVARIANTS
    TypeOK
    OneStreamPerUrl
    AnswersMatchRequest
    PullsAreOwned
    CountIsHolders
    PerStreamLimit
    GaugeIsCounted
    IdleStreamHasTimer
PROPERTIES
    ImplementsCatalog
