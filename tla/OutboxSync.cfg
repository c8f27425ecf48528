\* The message indexer: flaky answers, failed queries, a crash between any two puts.
SPECIFICATION FairSpec
CONSTANTS
  NumLeaves = 3
  ConfigFrom = 0
  ChunkSize = 2
  MaxBlock = 4
  MaxFlaky = 2
  MaxCrashes = 1
INVARIANTS
  StoredUpToLatest
  MissingIsAhead
  FirstIsKept
PROPERTIES
  MissedIsRecovered
CHECK_DEADLOCK FALSE
