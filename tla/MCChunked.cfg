CONSTANTS
    Streams <- MCStreams
    Meant <- MCMeant
    MAX_SIZE_DIGITS = 1
    ExtRoom = 3
    MaxBody = 3
    MaxTrailer = 7
    MaxTrailers = 1
    MaxRead = 30
SPECIFICATION Spec
INVARIANTS DataIsFinal DecodesWhatWasMeant PacketsDecodeAlike TypeOK
