\* Two jobs in sequence, a cancellation and a stop in any order, and Ctrl-C.
SPECIFICATION Spec
CONSTANTS
  Jobs = {j1, j2}
  Cancels = {c1}
  Stops = {s1}
  NoJob = NoJob
  Commands = {"workflow"}
  Mode = "live"
  FilesMode = FALSE
  Interrupts = TRUE
  ServeFailures = FALSE
SYMMETRY Symmetry
INVARIANTS
  TypeOK
  SingleSlot
  CancelScope
  AtMostOneFinished
  NoJobLost
  ShutdownAfterCleanup
PROPERTIES
  ImplementsAsyncJobs
