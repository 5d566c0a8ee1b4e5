SPECIFICATION Spec
CONSTANTS
    Target = 2
    HasVideo = TRUE
    MaxPts = 4
    MaxPackets = 3
    NoPts = NoPts
CHECK_DEADLOCK FALSE
INVARIANTS
    RollsOver
