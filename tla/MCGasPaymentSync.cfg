\* The gas-payment indexer: flaky answers, failed queries, a crash between two puts.
SPECIFICATION FairSpec
CONSTANTS
  NumPayments = 3
  LeafOf <- MCLeafOf
  Amount <- MCAmount
  ConfigFrom = 1
  ChunkSize = 2
  MaxBlock = 5
  MaxFlaky = 1
  MaxCrashes = 1
INVARIANTS
  TotalIsExact
  NoSilentGap
PROPERTIES
  EveryProcessed
CHECK_DEADLOCK FALSE
