SPECIFICATION Spec
CONSTANTS
    Thread = {t1, t2}
    Output <- MCOutput
    MaxPosition = 3
    MaxLength = 2
INVARIANTS
    NoLostWakeup
PROPERTIES
    SizeIsFinal
    ImplementsStreamLog
    EveryCallReturns
