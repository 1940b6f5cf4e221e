CONSTANTS
    a = a
    b = b
    home = home
    work = work
    NoDomain = NoDomain
    Words <- MCWords
    Domains <- MCDomains
    Ages <- MCAges
    NewGoals <- MCNewGoals
    UpdateFields <- MCUpdateFields
    SignalChoices <- MCSignalChoices
    MaxSignals = 2
    Configs <- MCConfigs
    GoalCap = 1
    Unit = 2
    MaxGoals = 3
    MaxWrites = 3
SPECIFICATION Spec
INVARIANT NeverComplacent
