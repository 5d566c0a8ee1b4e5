SPECIFICATION Spec
CONSTANTS
    NSlots = 1
    PoolCap = 2
    MaxPackets = 2
    MaxFrames = 3
    MaxUnseen = 2
CHECK_DEADLOCK FALSE
INVARIANTS
    EveryShownFrameComesOut
