SPECIFICATION FairSpec
CONSTANTS
    None = None
    Pairs <- MCPairs
INVARIANTS
    TypeOK
    OneSecret
    ClientFinishesLast
    EpochIsBacked
    OnlyConfigsDecide
PROPERTY HandshakeSettles
CHECK_DEADLOCK FALSE
