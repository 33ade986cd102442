SPECIFICATION Spec
CONSTANTS
    MaxDepth = 3
    Uses <- UntilContinue
PROPERTY
    BreakExits
