SPECIFICATION Spec
CONSTANTS
  Jobs = {j1}
  Cancels = {c1}
  Stops = {s1}
  NoJob = NoJob
  Commands = {"workflow"}
  Mode = "live"
  FilesMode = FALSE
  Interrupts = FALSE
  ServeFailures = FALSE
INVARIANTS
  SummaryReportsCleanupFailure
