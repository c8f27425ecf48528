SPECIFICATION DatabaseSpec
CONSTANTS
  ByteBase = 2
  WideBytes = 4
  NumIndices = 2
  MaxOps = 3
  MaxCrashes = 1
  Entities <- MCEntities
  Destinations <- MCDestinations
  Payments <- MCPayments
INVARIANTS
  ReadsBack
  LatestNeverAhead
  EncodingsAreCanonical
PROPERTIES
  ImplementsRows
CHECK_DEADLOCK FALSE
