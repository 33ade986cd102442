\* The queue while it does not overflow and one entry is taken out at a time.
SPECIFICATION Spec
CONSTANTS
    SIGCHLD = SIGCHLD
    SIGINT = SIGINT
    Sigs <- AllSigs
    QSize = 3
    MaxDepth = 10
    MaxBrackets = 2
    MaxCaught = 4
    Overflow = FALSE
    DequeueWindow = FALSE
SYMMETRY SigSymmetry
INVARIANTS TypeOK LevelBalanced CriticalSectionsRunAlone NoSignalLost HandledAtMostOnce
PROPERTY DrainIsFifo
