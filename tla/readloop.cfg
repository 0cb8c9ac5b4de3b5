SPECIFICATION MCSpec
CONSTANTS
    c1 = c1
    c2 = c2
    c3 = c3
    Cache = {c1, c2, c3}
    NoCache = NoCache
    Fd = {f1, f2}
    NoFd = NoFd
    processLimit = 1
    Output <- TwoChunks
    MaxRemovals = 1
INVARIANTS
    ProcessLimited
    BufferOwned
    OneContinuation
    QueueOnlyWhenFull
    NoStaleRemoval
    FinishedComplete
PROPERTIES
    FinishedIsFinal
    ImplementsTranslations
    EveryTaskServed
    ShutdownTerminates
