\* One job of every kind, with every failure the Worker handles.
SPECIFICATION FairSpec
CONSTANTS
  Jobs = {j1}
  Cancels = {c1}
  Stops = {s1}
  NoJob = NoJob
  Commands = {"workflow", "log", "other"}
  Mode = "live"
  FilesMode = TRUE
  Interrupts = TRUE
  ServeFailures = TRUE
INVARIANTS
  TerminalAgreement
  FailedHasFatalError
PROPERTIES
  JobsFinish
  StopCompletes
