SPECIFICATION Spec
CONSTANTS
    f1 = f1
    f2 = f2
    File = {f1}
    Caller = {c1}
    Output <- OneByte
    Capacity = 1
    MaxKills = 0
    MaxStops = 0
PROPERTIES
    UnmountEnds
