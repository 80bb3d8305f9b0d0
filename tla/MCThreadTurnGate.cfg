CONSTANTS
  t1 = t1
  t2 = t2
  c1 = c1
  c2 = c2
  c3 = c3
  s1 = s1
  s2 = s2
  s3 = s3
  NoThread = NoThread
  NoSemaphore = NoSemaphore
  Threads <- MCThreads
  Callers <- MCCallers
  Semaphores <- MCSemaphores
SPECIFICATION FairSpec
INVARIANTS
  MutualExclusion
  IdleShutdownIsFinal
  EntriesAreUsed
  BusyIffRunning
PROPERTIES
  ImplementsAdmission
  WaitersSettle
