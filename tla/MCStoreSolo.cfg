CONSTANTS
    p1 = p1
    p2 = p2
    NoFile = NoFile
    Processes <- MCOneProcess
    InitialKinds <- MCAnyKind
    Locks = FALSE
    Columns = 3
    MaxFaults = 3
SPECIFICATION FairSpec
INVARIANT TypeOK
PROPERTIES SoundNeverQuarantined EnsuredMeansSound RecoversForGood
