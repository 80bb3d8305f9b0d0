CONSTANTS
  t1 = t1
  t2 = t2
  c1 = c1
  c2 = c2
  c3 = c3
  a1 = a1
  a2 = a2
  d1 = d1
  d2 = d2
  NoThread = NoThread
  NoSession = NoSession
  NoOne = NoOne
  Threads <- MCThreads
  Calls <- MCCalls
  AgentTurns <- MCAgentTurns
  SandboxCommands <- MCSandboxCommands
  MaxPurges = 0
  MaxFailures = 0
  MaxSandboxFaults = 0
SPECIFICATION MCSpec
CHECK_DEADLOCK FALSE
INVARIANT
  StartedSandboxesArePrepared
