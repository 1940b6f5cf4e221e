CONSTANTS
    p1 = p1
    p2 = p2
    NoFile = NoFile
    Processes <- MCTwoProcesses
    InitialKinds <- MCAnyKind
    Locks = TRUE
    Columns = 3
    MaxFaults = 1
SPECIFICATION Spec
SYMMETRY Symmetry
INVARIANT VersionTellsColumns
