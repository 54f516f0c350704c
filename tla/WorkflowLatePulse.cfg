SPECIFICATION Spec
CONSTANTS
  Plans <- MCPlans
  NumChannels = 2
  MaxReads = 1
  MaxErrors = 2
PROPERTIES
  NoPulseAfterStop
