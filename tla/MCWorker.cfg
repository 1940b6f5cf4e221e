CONSTANTS
    a1 = a1
    a2 = a2
    r1 = r1
    NoRequest = NoRequest
    Requests <- MCRequests
    Appraisals <- MCAppraisals
    Overrides <- MCOverrides
SPECIFICATION FairSpec
INVARIANTS TypeOK OneReservation TruthfulOutcome
PROPERTIES NoEntryAfterAnswer ImplementsAdmission EveryCallerAnswered SlotRecovers
CHECK_DEADLOCK FALSE
