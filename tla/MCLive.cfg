SPECIFICATION Spec
CONSTANTS
    c1 = c1
    c2 = c2
    LogChunks <- MCChunks
    MaxBufferedBytes = 2
    MaxBufferedChunks = 2
    BytesPerSecond = 2
    ComposeLogRelayChunks = 2
    TailBytes = 3
    LogScenes <- MCLogScenes
    Containers = {c1, c2}
    MatrixScenes <- MCMatrixScenes
    Frames <- MCFrames
    Facts <- MCFacts
    MemoryCapacity = 4
    ViewScenes <- MCViewScenes
INVARIANTS
    LogsAreHonest
    MatrixIsTidy
    ViewsAreHonest
PROPERTIES
    LiveStreamsEnd
CHECK_DEADLOCK FALSE
