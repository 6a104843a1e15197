CONSTANTS
    Inputs <- MCInputs
    Scans <- MCScans
    MergeLists <- MCMergeLists
    InitSize = 2
    Threshold = 2
    MaxVid = 3
    Free = Free
SPECIFICATION Spec
INVARIANTS
    TypeOK
    IndexMatches
    ScanExact
    AbortsOnClash
PROPERTY ImplementsValueMap
CHECK_DEADLOCK FALSE
