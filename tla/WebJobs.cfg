\* Two commands of every kind and two live-data jobs: every admission, overlap,
\* cancellation and shutdown.
SPECIFICATION Spec
CONSTANTS
  Commands = {c1, c2}
  Lives = {l1, l2}
  NoJob = NoJob
  Kinds = {"workflow", "other", "planned", "offline"}
  PoolSize = 4
  BadParameters = TRUE
SYMMETRY Symmetry
INVARIANTS
  HardwareExclusive
  TerminalMeansReleased
  OneTerminalEvent
  QuietAfterShutdown
PROPERTIES
  EndIsFinal
  LiveStepsBack
