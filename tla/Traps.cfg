SPECIFICATION Spec
CONSTANTS
    Sigs <- OneSig
    Bodies <- OneBody
    MaxLevel = 2
    MaxTraps = 1
    MaxSaved = 2
    SelfChange = FALSE
    PosixDepth = 1
INVARIANTS TypeOK TrapTablesAgree SavedTrapsInScope
PROPERTY TrapsRestored
