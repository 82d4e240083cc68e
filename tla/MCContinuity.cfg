CONSTANTS
  Agents = {a, b}
  LeaseLife = 2
  AckLife = 2
  MaxFence = 2
  MaxLag = 1
  MaxTime = 4
  MaxRequests = 3
  w1 = w1
  w2 = w2
  a1 = a1
  s1 = s1
  s2 = s2
  Works = {w1, w2}
  Participants = {a1, a2}
  TurnIds = {t1}
  Schedulers = {s1, s2}
  SchedulerId <- MCSchedulerId
  Batons <- MCBatons
  MaxBudget = 2
  MaxGen = 2
  MaxExpiry = 1
  Drivers = {d1, d2}
  MaxTasks = 2
  Signals <- MCSignals
  Subjects = {u, v}
  Cooldown = 0
  CoalesceWindow = 0
  MaxEvents = 3
  LastTime = 1
  MaxFaults = 1
SPECIFICATION MCSpec
SYMMETRY Symmetry
INVARIANTS OneSuccessor ReceiptsStayTrue NothingLost StartedNeverStalls WakesBounded OneTask JournalReplays RunsBacked
PROPERTY FencedIssue
CHECK_DEADLOCK FALSE
