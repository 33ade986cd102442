SPECIFICATION Spec
CONSTANTS
    None = None
    A = A
    B = B
    Shells <- TwoShells
    Mode = "share"
    HISTSAVEBYCOPY = TRUE
    Monotonic = TRUE
    SAVEHIST = 2
    StaleAge = 1
    MaxEvents = 2
    MaxTime = 1
    MaxLives = 1
    MaxCrashes = 1
    MaxFailures = 1
SYMMETRY TwoShellsSymmetry
INVARIANTS TypeOK SavedKept WrittenOnce WriterHoldsLock
PROPERTY ReadSees
CHECK_DEADLOCK FALSE
