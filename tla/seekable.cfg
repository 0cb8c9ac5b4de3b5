SPECIFICATION SeekSpec
CONSTANTS
    Cache = {c1, c2, c3}
    NoCache = NoCache
    Fd = {f1, f2}
    NoFd = NoFd
    Block = {b1, b2}
    processLimit = 1
    Output <- OneChunk
    MaxRemovals = 3
SYMMETRY MCSymmetry
INVARIANTS
    CompleteUnlessReused
    ReleaseReaches
    InputsClosed
    DescriptorKept
