SPECIFICATION BufferSpec
CONSTANTS
    MaxSize = 6
    MaxLines = 3
    ChunkSize = 3
    WordSize = 256
    MaxOutput = 18
INVARIANT TrimEnds
CHECK_DEADLOCK FALSE
