\* As healthy, but churl_read may return 0 bytes before the end of the stream.
CONSTANTS
    MaxLen = 4
    MaxChunk = 3
    MaxChunks = 3
    Stalls = TRUE
    Bridges = {"fdw", "ext"}
SPECIFICATION Spec
CHECK_DEADLOCK FALSE
INVARIANT EofOnlyAtEnd
