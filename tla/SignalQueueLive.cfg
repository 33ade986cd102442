SPECIFICATION FairSpec
CONSTANTS
    SIGCHLD = SIGCHLD
    SIGINT = SIGINT
    Sigs <- OneSig
    QSize = 3
    MaxDepth = 8
    MaxBrackets = 2
    MaxCaught = 3
    Overflow = FALSE
    DequeueWindow = FALSE
PROPERTY EverySignalHandled
