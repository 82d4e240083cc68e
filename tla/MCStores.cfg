CONSTANTS
  Agents = {x, y, z}
  Kinds <- MCKinds
  Segments <- MCSegments
  Casefold <- MCCasefold
  Radii <- MCRadii
  Ttls <- MCTtls
  MaxClaims = 3
  MaxLag = 1
  Writers = {v, w}
  Sources = {s, t}
  Enrollments = {e, f}
  MaxRows = 3
  MaxSegments = 3
  MaxLeaves = 6
  MaxSeen = 2
SPECIFICATION MCSpec
SYMMETRY Symmetry
INVARIANTS ExclusiveInv SettledInv LogFaithfulInv SuccessorFencedInv PromotionIsOneStep
INVARIANTS AlwaysVerifies DirectlyAfter OverlapIsSharedPlace PathsProve ReportTruthful
PROPERTIES NoOvertaking AppendOnly
CHECK_DEADLOCK FALSE
