SPECIFICATION Spec
CONSTANTS
    NumChannels = 2
    Programs <- MCPrograms
    MaxDisturbances = 3
INVARIANTS SuccessMeansDone TriggerRestored TemporaryOutputsOff
PROPERTIES RestoreSwitchesOnLast OnlyOwnChannelsChange
CHECK_DEADLOCK FALSE
