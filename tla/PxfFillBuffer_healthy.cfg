\* Streams of up to 3 chunks of 1..3 bytes read by either bridge with buffers of
\* 1..4 bytes; a 0-byte read happens only at the end of the stream.
CONSTANTS
    MaxLen = 4
    MaxChunk = 3
    MaxChunks = 3
    Stalls = FALSE
    Bridges = {"fdw", "ext"}
SPECIFICATION Spec
CHECK_DEADLOCK FALSE
INVARIANT FillMatchesReference
INVARIANT EofOnlyAtEnd
