\* One pipeline end to end, with a fault, two failed calls and a crash.
SPECIFICATION Spec
CONSTANTS
  NumLeaves = 2
  Inbox = celo
  Contested = {0}
  MayRevert = {1}
  MaxFaults = 1
  MaxCalls = 2
  MaxCrashes = 1
PROPERTIES
  SubmitterIsAsAssumed
  ProcessorIsAsAssumed
  EveryDelivered
CHECK_DEADLOCK FALSE
