SPECIFICATION Spec
CONSTANTS
    Pids = {p1, p2, p3}
    Slots = {s1, s2}
    Files = {"pid"}
    KillTimeout = 2
    StartDelay = 2
    StartWait = 0
    MonitTimeout = 5
    Errexit = TRUE
    Reuse = TRUE
    WaitsForExit = TRUE
    None = None
    Empty = Empty
PROPERTY RefusedMeansRunning
