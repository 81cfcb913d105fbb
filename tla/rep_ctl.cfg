SPECIFICATION Spec
CONSTANTS
    Pids = {p1, p2, p3, p4}
    Slots = {s1, s2}
    Files = {"pid", "fail"}
    KillTimeout = 25
    StartDelay = 2
    StartWait = 25
    MonitTimeout = 30
    Errexit = TRUE
    Reuse = FALSE
    WaitsForExit = FALSE
    None = None
    Empty = Empty
SYMMETRY Symmetry
CONSTRAINT NotAbandoned
INVARIANT RepRunsOnce
INVARIANT StopLeavesNoRep
INVARIANT RepIsAccounted
