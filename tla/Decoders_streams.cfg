SPECIFICATION MCSpec
CONSTANTS
    NSlots = 2
    PoolCap = 2
    MaxPackets = 3
    MaxFrames = 2
    MaxUnseen = 1
    MaxDpbFrames = 2
    MaxPoc = 4
    MaxPictures = 5
    MaxPocLsb = 8
    Orderings <- MCOrderings
    LatencyCountsAll = TRUE
    StartPocs = {6}
    MaxReach = 3
    MaxCoded = 4
    MaxOdd = 1
    HeaderLen = 2
    StreamLen = 6
    Headers <- MCHeaders
    Depth = 1
CHECK_DEADLOCK FALSE
INVARIANTS
    LeavesInDisplayOrder
    EveryPictureLeaves
    OwnStamp
    PoolIsDead
    PushNothingWaits
PROPERTIES
    PipeSpec
    SerialSpec
    PushSerialSpec
    MP3Terminates
