SPECIFICATION Spec
CONSTANTS
    f1 = f1
    f2 = f2
    File = {f1, f2}
    Caller = {c1, c2}
    Output <- OneSilent
    Capacity = 1
    MaxKills = 1
    MaxStops = 1
INVARIANTS
    BytesInOrder
    ReaperNeverBlocks
PROPERTIES
    ReadsReturn
