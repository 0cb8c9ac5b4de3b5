SPECIFICATION RequestsSpec
CONSTANTS
    Word <- MCWord
    Key = {k1}
    Object = {o1, o2}
    Thread = {t1, t2}
    None = None
    MaxSize = 2
    MaxRobbed = 0
INVARIANTS
    FlagsMean
    PointerValid
PROPERTIES
    StatStable
    RequestsAnswered
