SPECIFICATION InputSpec
CONSTANTS
    Senders <- MCSenders
    SeqSpace = 32
    FirstSeq = 28
    MaxNals = 2
    MaxScan = 2
    ClockRange = 16
    MaxLead = 0
    MaxClock = 40
    ReturnsToFirst = FALSE
    None = None
CHECK_DEADLOCK FALSE
INVARIANTS
    NalsAreWhole
    NothingElseIsLost
    JpegsAreWhole
    Resynchronises
    LossIsReported
    PtsIsElapsed
