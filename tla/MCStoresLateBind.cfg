CONSTANTS
  Agents = {x, y, z}
  Kinds <- MCKinds
  Segments <- MCSegments
  Casefold <- MCCasefold
  Radii <- MCRadii
  Ttls <- MCTtls
  MaxClaims = 3
  MaxLag = 0
  Writers = {v, w}
  Sources = {s, t}
  Enrollments = {e, f}
  MaxRows = 2
  MaxSegments = 3
  MaxLeaves = 6
  MaxSeen = 2
SPECIFICATION MCSpec
SYMMETRY Symmetry
PROPERTY BoundBeforeFirst
CHECK_DEADLOCK FALSE
