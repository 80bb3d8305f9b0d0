CONSTANTS
  t1 = t1
  w1 = w1
  w2 = w2
  u1 = u1
  NoThread = NoThread
  NoRow = NoRow
  Threads <- MCThreads
  Kinds <- MCKinds
  WakeTurns <- MCWakeTurns
  UserTurns <- MCUserTurns
  MaxCommands = 2
  MaxRestarts = 1
SPECIFICATION FairSpec
INVARIANTS
  CommandsStick
  NoWakeIsLost
PROPERTIES
  OneShotsAreToldOnce
  IdleFloor
