SPECIFICATION FairSpec
CONSTANTS
    Callers = {c1, c2}
    MaxSeq = 1
    MaxAttempts = 2
    Permits = 1
    MaxCalls = 2
CONSTRAINT OneFault
PROPERTIES
    EveryCallReturns
CHECK_DEADLOCK FALSE
