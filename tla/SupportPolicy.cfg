SPECIFICATION Spec
CONSTANTS
  ProductModels = {"e36312a", "e3646a"}
  CandidateModels = {"candidate"}
  DeScopedModels = {"e36103b"}
  CatalogModels = {"e36313a"}
  Generic = "generic-scpi"
  Governed = {"measure", "sequence", "trigger-step"}
  Exempt = {"verify"}
  Offline = {"snapshot-diff"}
  Real <- MCReal
  Inventory <- MCInventory
  Canonical <- MCCanonical
  NoFeature = "none"
  BackendNames = {"", "@py", "pyvisa_bt", "another"}
  Requirements <- MCRequirements
  EvidenceIds = {"lan", "python", "serial"}
  BuiltEvidence <- MCEvidence
  ValidatedTransports <- MCValidatedTransports
  ValidatedCommands <- MCReal
  EvidenceOf <- MCEvidenceOf
  PyvisaPyEvidence <- MCPyvisaPyEvidence
  PyvisaPyFeatures <- MCPyvisaPyFeatures
  PendingConnections <- MCPendingConnections
  PendingCommands <- MCPendingCommands
  RatingCompatible = {"e3646a"}
  MaxEdits = 2
INVARIANTS
  AdmittedHasEvidence
  ProjectionAgrees
  ReleasedModelsUsable
CHECK_DEADLOCK FALSE
