SPECIFICATION Spec
CONSTANTS
    Key = {k1, k2}
    Object = {o1, o2}
    Handle = {h1, h2}
    None = None
    cacheLimit = 2
    Word = 16
    MaxSize = 4
    MaxTime = 1
    MaxPreloads = 0
    MaxRenames = 0
SYMMETRY MCSymmetry
PROPERTIES
    NeverEvictsBelowLimit
