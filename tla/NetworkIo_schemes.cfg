SPECIFICATION Spec
CONSTANTS
    None = None
    Pack = 2
    Copies = {0, 1, 2}
    Window = 1
    Garbage = Garbage
    Pids = {256, 257}
    Video = {256}
    HeaderLimit = 3
    DimsLimit = 4
    Programs <- MCPrograms
    StampMod = 8
    MaxRetries = 1
    Config <- MCConfig
    TagMod = 16
    Scripts <- MCScripts
    Jobs <- MCJobs
    InChunk = 2
    OutChunk = 2
    TsMax = 5
    MayClose = TRUE
    Web <- MCWeb
    MaxRedirects = 2
    Sources <- MCSources
    MaxDepth = 3
    CutUrl <- MCCutUrl
CHECK_DEADLOCK FALSE
INVARIANTS
    IntactUnitsComeOut
    SplicesOnlyHeadless
    SentIsWritten
    TagsAreForwarded
    RepliesAreFound
    StreamIsThePlaylist
PROPERTY NetworkEnds
