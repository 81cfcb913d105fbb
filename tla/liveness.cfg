SPECIFICATION AllSpec
CONSTANTS
    Workers = {w1, w2}
    Instances = {i1}
    Bindings = {b1}
    MaxKeys = 2
    MaxLate = 0
    Serialised = FALSE
    None = None
    Callers = {t1}
    MaxCtx = 3
    MaxDeadlines = 2
    Horizon = 1
    Nobody = Nobody
    Tests = 1
    BenchTime = FALSE
    MaxN = 1000000000
    DoneCap = 1
PROPERTY EveryRequestEnds
PROPERTY ContextsEnd
PROPERTY CancelReturns
PROPERTY RunEnds
