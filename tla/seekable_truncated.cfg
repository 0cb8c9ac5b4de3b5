SPECIFICATION SeekSpec
CONSTANTS
    Cache = {c1, c2}
    NoCache = NoCache
    Fd = {f1}
    NoFd = NoFd
    Block = {b1, b2}
    processLimit = 1
    Output <- OneChunk
    MaxRemovals = 2
SYMMETRY MCSymmetry
INVARIANTS
    CompleteForReader
