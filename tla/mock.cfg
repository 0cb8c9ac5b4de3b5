SPECIFICATION Spec
CONSTANTS
    Mocks = {"stream", "cache"}
    Objects = {"cache"}
    Functions = {"doAsyncRead", "write", "finish"}
    MockOf <- MCMockOf
    Void = {"write", "finish"}
    Sequenced = {"seq", "closeSeq"}
    Values = {"half", "all"}
    SizeMax = 4
    Statements <- MCStatements
    MaxExpects = 3
    MaxCalls = 3
INVARIANTS SequencesOrdered PassedMeansMet RootReachesAlive
