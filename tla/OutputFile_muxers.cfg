SPECIFICATION OutputSpec
CONSTANTS
    Target = 2
    HasVideo = TRUE
    MaxPts = 4
    MaxPackets = 4
    NoPts = NoPts
    Streams <- MCStreams
    Inputs <- MCInputs
    Max32 = 80
    MovieScale = 2
    SegSeconds = 1
    MkvOutputs <- MCMkvOutputs
    Ms = 3
    KeySpan = 3
    ClusterSpan = 6
    RelMin <- MCRelMin
    MaxInterleave = 9
    MaxInterleaveBytes = 8
CHECK_DEADLOCK FALSE
INVARIANTS
    NothingLostAcrossSegments
    PlaylistComplete
    ReadsBack
    SegmentsTile
    SegmentsCutWhereDue
