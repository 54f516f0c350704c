\* Two live-data jobs and a command of every kind compete for the lock, under fair scheduling.
SPECIFICATION FairSpec
CONSTANTS
  Commands = {c1}
  Lives = {l1, l2}
  NoJob = NoJob
  Kinds = {"workflow", "other", "planned", "offline"}
  PoolSize = 3
  BadParameters = FALSE
PROPERTIES
  CommandsEnd
  LiveStops
  ShutdownCompletes
  CleanupFailureStops
