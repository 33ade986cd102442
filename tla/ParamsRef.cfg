SPECIFICATION Spec
CONSTANTS
    None = None
    Names = {"r", "s"}
    Values <- NamesOf
    Refs = {"r", "s"}
    Exports = {}
    MaxLevel = 1
    MaxFrames = 1
    Redeclared = FALSE
INVARIANTS TypeOK NoCircle
PROPERTY RefStable
