SPECIFICATION Spec
CONSTANTS
  NoModel = none
  NoValue = none
  Profile = "generic-scpi"
  Words <- MCWords
  ActiveModels <- MCDrivers
  DeScoped <- MCDeScoped
  Drivers <- MCDrivers
  ModelChannels <- MCModelChannels
  SimulatedResource <- MCSimulatedResource
  SimulatedModel <- MCSimulatedModel
  Upper <- MCUpper
  Ratings <- MCRatings
  Registries <- MCRegistries
  Expected <- MCExpected
  Docs <- MCDocs
  Files <- MCFiles
  Requests <- MCRequests
  Benches <- MCBenches
  LiveSupported <- MCLiveSupported
  MaxEdits = 2
INVARIANTS
  OnlyIntendedInstrument
  ReadmissionStable
PROPERTIES
  WrittenWithinLimits
  EnabledChecked
CHECK_DEADLOCK FALSE
