SPECIFICATION FairSpec
CONSTANTS
    Pids = {p1, p2, p3}
    Slots = {s1, s2}
    Files = {"pid"}
    KillTimeout = 25
    StartDelay = 25
    StartWait = 0
    MonitTimeout = 30
    Errexit = TRUE
    Reuse = FALSE
    WaitsForExit = TRUE
    None = None
    Empty = Empty
INVARIANT TypeOK
INVARIANT JobIsRecorded
INVARIANT StoppedMeansGone
PROPERTY StopTakesEffect
PROPERTY JobComesBack
