\* One inbox pipeline: safety and liveness with every fault enabled.
SPECIFICATION FairSpec
CONSTANTS
  NumLeaves = 3
  Contested = {0}
  MayRevert = {1}
  MaxFaults = 2
  MaxCrashes = 1
  MaxReorgs = 1
INVARIANTS
  HeldOnce
  NothingForgotten
  FreshBeforeRetried
  RecordedIsDelivered
PROPERTIES
  RetriesAreFifo
  EverySettled
  ImplementsDelivery
CHECK_DEADLOCK FALSE
