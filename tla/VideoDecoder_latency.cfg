SPECIFICATION Spec
CONSTANTS
    NSlots = 2
    PoolCap = 2
    MaxPackets = 1
    MaxFrames = 2
    MaxUnseen = 1
    MaxDpbFrames = 2
    MaxPoc = 4
    MaxPictures = 1
    MaxPocLsb = 8
    Orderings <- MCLatencyOrdering
    LatencyCountsAll = FALSE
    StartPocs = {6}
    MaxReach = 4
    MaxCoded = 5
    MaxOdd = 0
CHECK_DEADLOCK FALSE
INVARIANT LeavesInDisplayOrder
