SPECIFICATION Spec
CONSTANTS
    MaxDepth = 3
    Uses <- Untroubled
INVARIANTS
    TypeOK
    LoopsTrueDepth
PROPERTY
    ImplementsCompletion
