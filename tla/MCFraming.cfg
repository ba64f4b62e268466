SPECIFICATION BridgeSpec
CONSTANTS
    Requests <- MCRequests
    Meant <- MCMeant
    Answerable <- MCAnswerable
    Answers <- MCAnswers
    Rewrites <- MCRewrites
    U64Max = 25
    MaxBody = 12
    MaxHead = 8
    MaxHeaders = 4
    HEADER_SCRATCH_TIER1 = 2
    MAX_HEADERS_CEILING = 5
INVARIANTS
    OneReading
    OneAuthority
    SplitIsExact
    LimitsExact
    LinesReadAlike
    UnderstoodAsMeant
    ReadAsSent
    BackendsAgree
