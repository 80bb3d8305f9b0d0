CONSTANTS
  LlamaSessions = {l1, l2, l3}
  IdleSessions = {l2, l3}
  LlamaCommand = LlamaCommand
  Nobody = Nobody
  KeepRunning = FALSE
  MaxConcurrent = 1
  MaxLlamaCommands = 1
  MaxServerFaults = 1
  Keys = {k1, k2}
  Callers = {c1, c2, c3, c4}
  NoKey = NoKey
  NoEntry = NoEntry
SPECIFICATION FairSpec
CHECK_DEADLOCK FALSE
INVARIANTS
  SessionsHaveServer
  ClosedServersAreGone
PROPERTIES
  UsersServerStays
  IdleServersStop
  ImplementsFifoLine
  WaitersAreServed
