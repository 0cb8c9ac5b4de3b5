SPECIFICATION Spec
CONSTANTS
    Key = {k1, k2, k3}
    Object = {o1, o2, o3}
    Handle = {h1, h2}
    None = None
    cacheLimit = 1
    Word = 8
    MaxSize = 1
    MaxTime = 1
    MaxPreloads = 1
    MaxRenames = 1
SYMMETRY MCSymmetry
INVARIANTS
    UsageCounted
    OneTranslation
PROPERTIES
    LeastRecentFirst
    CleanupEffective
    QuietEvictsAboveLimit
