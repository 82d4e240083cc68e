CONSTANTS
  Dispatchers = {p, q}
  Envelopes = {d, e}
  Paths = {f, g, h}
  Processes = {f, g, h}
  Intents <- MCIntents
  MaxTime = 1
  MaxReport = 1
  Clients = {p, q}
  MaxAttempts = 2
  Requests <- MCRequests
  SessionOf <- MCSessionOf
  ModeOf <- MCModeOf
  Runners = {p, q}
SPECIFICATION MCSpec
SYMMETRY Symmetry
INVARIANT FinishedIsTerminal
CHECK_DEADLOCK FALSE
