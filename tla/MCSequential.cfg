\* Minute is 6 seconds here, a second 2 ticks.  Messages of one fragment or two, cut in
\* one place or in another, an empty one, and those that are packed with others; enough
\* room and reads for each datagram of a flight and some again.
CONSTANTS
    Rates = {0, 3, 5}
    SECOND = 2
    Minute = 6
    MaxTime = 15
    None = None
    Output <- Outputs
    ChunkSize = {1, 12, 31}
    Lines <- AnswerLines
    MaxLines = 5
    Lengths = {0, 1, 4}
    MaxMessages = 2
    Mtus = {2, 3}
    HeaderLength = 1
    MaxSize = 50
    MaxReads = 5
SPECIFICATION SeqSpec
CHECK_DEADLOCK FALSE
INVARIANTS
    RateHolds
    RetryHintSuffices
    HeaderIsFound
    CacheIsHeader
    SessionHasCredentials
    OnlyAppends
    MessagesAreWhole
    NothingIsHeldBack
