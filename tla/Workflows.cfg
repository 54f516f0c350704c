\* Every kind of plan on two channels, with up to two instrument errors and
\* a read that cannot drain two.
SPECIFICATION Spec
CONSTANTS
  Plans <- MCPlans
  NumChannels = 2
  MaxReads = 1
  MaxErrors = 2
INVARIANTS
  CancelledIsOff
  CancelNotLost
  FailedSequenceIsOff
  CompletedIsSound
  StopWithinUnit
PROPERTIES
  EnabledProgrammed
  UnitWritten
