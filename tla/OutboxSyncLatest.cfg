\* A crash between the latest index and the message it counts.
SPECIFICATION Spec
CONSTANTS
  NumLeaves = 2
  ConfigFrom = 0
  ChunkSize = 2
  MaxBlock = 3
  MaxFlaky = 0
  MaxCrashes = 1
INVARIANT AllBelowLatestStored
CHECK_DEADLOCK FALSE
