CONSTANTS
  a1 = a1
  a2 = a2
  a3 = a3
  t2 = t2
  Agents <- MCAgents
  Kinds <- MCKinds
  Segments <- MCSegments
  Casefold <- MCCasefold
  Radii <- MCRadii
  Ttls <- MCTtls
  MaxClaims = 3
  MaxLag = 0
  Operations <- MCOperations
  KindOf <- MCKindOf
  JobOf <- MCJobOf
  Threads = {t1, t2}
  MaxRestarts = 1
SPECIFICATION MCSpec
INVARIANTS OneLateWrite DeliveredOnce ClosedMeansStopped
PROPERTIES Served PollersKeepTheirPlace SoleWriter JobsSettle
