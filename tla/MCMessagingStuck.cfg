CONSTANTS
  MaxSeq = 3
  Relays = {r}
  Mail <- MCMail
  Frames <- MCFrames
  MaxBatch = 2
  MaxEntries = 2
  MaxStarts = 2
  AGENTS <- MCAgents
  FileMail <- MCFileMail
  TableMail <- MCTableMail
  MaxCrashes = 1
  Sessions = {"s", "t"}
  AddressOf <- MCAddressOf
  HookMail <- MCHookMail
  Hooks = {h, k}
  MaxPointers = 1
SPECIFICATION MCSpec
PROPERTY BridgeGoesOn
CHECK_DEADLOCK FALSE
