SPECIFICATION Spec
CONSTANTS
    None = None
    Names = {"x"}
    Values <- Scalars
    Refs = {}
    Exports = {"x"}
    MaxLevel = 2
    MaxFrames = 2
    Redeclared = FALSE
INVARIANT EnvMatches
PROPERTY PrefixUndone
