SPECIFICATION FairSpec
CONSTANTS
    None = None
    A = A
    B = B
    Shells <- TwoShells
    Mode = "inc"
    HISTSAVEBYCOPY = FALSE
    Monotonic = FALSE
    SAVEHIST = 1
    StaleAge = 2
    MaxEvents = 1
    MaxTime = 3
    MaxLives = 1
    MaxCrashes = 1
    MaxFailures = 0
PROPERTIES ExitSaves ExitEnds
CHECK_DEADLOCK FALSE
