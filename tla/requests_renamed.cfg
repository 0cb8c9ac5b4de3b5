SPECIFICATION RequestsSpec
CONSTANTS
    Word <- MCWaitWord
    Key = {k1, k2}
    Object = {o1, o2, o3}
    Thread = {t1, t2}
    None = None
    MaxSize = 1
    MaxRobbed = 1
SYMMETRY MCSymmetry
INVARIANTS
    PointerValid
    WaitNeedsCache
    StatAnswersFinal
PROPERTIES
    StatStable
