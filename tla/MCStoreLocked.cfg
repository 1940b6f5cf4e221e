CONSTANTS
    p1 = p1
    p2 = p2
    NoFile = NoFile
    Processes <- MCOneProcess
    InitialKinds <- MCVersion5
    Locks = TRUE
    Columns = 3
    MaxFaults = 0
SPECIFICATION Spec
PROPERTY SoundNeverQuarantined
