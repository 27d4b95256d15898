CONSTANTS
    Key = {k1, k2}
    Client = {c1, c2, c3}
    None = None
SPECIFICATION FairSpec
CHECK_DEADLOCK FALSE
INVARIANTS
    TypeOK
    CountIsViewers
    NoViewerCutOff
    NoStrayProcess
    IdleEntryHasTimer
PROPERTIES
    IdleEntryStops
