CONSTANTS
    Viewer = {v1, v2}
    OutputLen = 6
    HeaderEnd = 2
    TagEnds = {2, 4, 6}
    MaxRead = 3
    BROADCAST_CAP = 2
SPECIFICATION Spec
CHECK_DEADLOCK FALSE
SYMMETRY Symmetry
INVARIANTS
    OverlapIsOneChunk
