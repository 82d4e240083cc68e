CONSTANTS
  MaxSeq = 3
  Relays = {r, q}
  Mail <- MCMail
  Frames <- MCFrames
  MaxBatch = 2
  MaxEntries = 2
  MaxStarts = 3
  AGENTS <- MCAgents
  FileMail <- MCFileMail
  TableMail <- MCTableMail
  MaxCrashes = 1
  Sessions = {"s", "t"}
  AddressOf <- MCAddressOf
  HookMail <- MCHookMail
  Hooks = {h, k}
  MaxPointers = 1
SPECIFICATION MCSpec
INVARIANT NeverReplayed
CHECK_DEADLOCK FALSE
