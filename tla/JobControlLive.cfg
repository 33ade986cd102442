SPECIFICATION FairSpec
CONSTANTS
    P1 = P1
    P2 = P2
    Pids <- TwoPids
    NJobs = 2
    MaxProcs = 2
    Codes = {"ok"}
    ChildMax = 1
    NOTIFY = TRUE
    PidReuse = TRUE
    Stoppable <- NonePid
INVARIANTS TypeOK LiveProcFound
PROPERTY WaitingEnds
