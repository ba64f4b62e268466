CONSTANTS
    Streams <- LimitStreams
    Meant <- NothingMeant
    MAX_SIZE_DIGITS = 1
    ExtRoom = 3
    MaxBody = 2
    MaxTrailer = 7
    MaxTrailers = 1
    MaxRead = 30
SPECIFICATION Spec
INVARIANTS PacketsDoNotMatter
