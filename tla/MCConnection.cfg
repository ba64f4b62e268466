SPECIFICATION FairSpec
CONSTANTS
    Inputs <- MCInputs
    Replies <- MCReplies
    MaxReq = 4
    MaxRead = 5
    MaxHead = 2
    MaxChunks = 2
    StreamFlush = 2
    PipelineFlush = 4
    HandlerLimited = TRUE
INVARIANTS
    TypeOK
    HeadsAreHeads
    OneReader
    NoByteLost
    WireWellFormed
    NothingHeldBack
    FinishedResponsesSurvive
    UpgradeIsClean
PROPERTY
    PeerCannotHold
