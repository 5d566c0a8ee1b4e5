SPECIFICATION OpSpec
CONSTANTS
    Setups <- MCSetups
    MaxPackets = 3
    MaxPts = 4
    CopyWindows <- MCCopyWindows
    CopyPts = 3
    CopyPackets = 3
    None = None
CHECK_DEADLOCK FALSE
INVARIANTS
    TypeOK
    WindowExact
    CfrTimeline
    CfrShowsLatest
    StampsMatch
    CutIsExact
    NoGopIsSplitInOrder
PROPERTIES
    PipeSpec
    TranscodeEnds
