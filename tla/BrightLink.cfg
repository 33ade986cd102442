SPECIFICATION FairSpec
CONSTANTS
    None = None
    I1 = I1
    I2 = I2
    Idents <- TwoIdents
    MaxConns = 3
    MaxCalls = 3
    MaxRegs = 3
    MaxRestarts = 1
INVARIANTS TypeOK SessionIsPinned SuccessMeansStored CounterInStep
PROPERTY CallEnds
