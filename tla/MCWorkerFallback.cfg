CONSTANTS
    a1 = a1
    a2 = a2
    r1 = r1
    NoRequest = NoRequest
    Requests <- MCRequests
    Appraisals <- MCAppraisals
    Overrides <- MCOverrides
SPECIFICATION Spec
PROPERTY NoExpiredProviderCall
CHECK_DEADLOCK FALSE
