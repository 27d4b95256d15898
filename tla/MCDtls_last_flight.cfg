SPECIFICATION FairSpec
CONSTANTS
    None = None
    Pairs <- Torn
PROPERTY LastFlightIsRepeated
CHECK_DEADLOCK FALSE
