SPECIFICATION OutputSpec
CONSTANTS
    Target = 2
    HasVideo = TRUE
    MaxPts = 4
    MaxPackets = 1
    NoPts = NoPts
    Streams <- MCStreams
    Inputs <- MCNoInputs
    Max32 = 80
    MovieScale = 2
    SegSeconds = 1
    MkvOutputs <- MCLateFilm
    Ms = 3
    KeySpan = 3
    ClusterSpan = 6
    RelMin <- MCRelMin
    MaxInterleave = 9
    MaxInterleaveBytes = 8
CHECK_DEADLOCK FALSE
INVARIANT BrokenIsRefused
