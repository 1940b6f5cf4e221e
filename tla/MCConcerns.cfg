SPECIFICATION Spec
CONSTANTS
  p1 = p1
  p2 = p2
  k1 = k1
  k2 = k2
  Passes = {p1, p2}
  Keys = {k1, k2}
  Answers <- MCAnswers
  MaxId = 3
  MaxDispute = 2
  ConcernCap = 2
  ContradictionCap = 1
  TrustCap = 1
  MaxWeight = 2
  Baseline = 1
  MaxDelta = 1
  MaxIdle = 1
  FadesBelow <- MCFadesBelow
  ReadsMayFail = TRUE
SYMMETRY Symmetry
INVARIANT TypeOK
PROPERTIES UntouchedLiveStays NothingNamedIsLost BoundedWeightStep BoundedTrustStep ContradictionIdsUnique
