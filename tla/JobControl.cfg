SPECIFICATION Spec
CONSTANTS
    P1 = P1
    P2 = P2
    Pids <- TwoPids
    NJobs = 3
    MaxProcs = 2
    Codes = {"ok", "fail"}
    ChildMax = 2
    NOTIFY = FALSE
    PidReuse = FALSE
    Stoppable <- TwoPids
SYMMETRY TwoPidsSymmetry
INVARIANTS LiveProcsTracked StatusCurrent JobKeptWhileBuilt CurJobUsable BgStatusRight
PROPERTY ForegroundStatus
