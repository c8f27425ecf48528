\* The test driver: 0, 1 or 2 messages, one fault and SIGINT.
SPECIFICATION HarnessSpec
CONSTANTS
  NotGiven = NotGiven
  GivenRounds = {NotGiven, 0}
  DefaultRounds = 2
  PerRound = 1
  AgentStreams = 1
  MaxMessages = 1
  MaxFaults = 1
INVARIANTS
  SuccessMeansProcessed
PROPERTIES
  HarnessEnds
\* The driver exits.
CHECK_DEADLOCK FALSE
