\* The checkpoint fetcher and two message processors, with faults and a crash.
SPECIFICATION FairSpec
CONSTANTS
  NumLeaves = 3
  celo = celo
  polygon = polygon
  Inboxes <- MCInboxes
  Destination <- MCDestination
  Admitted <- MCAdmitted
  MaxFaults = 2
  MaxCrashes = 1
INVARIANTS
  AssertionHolds
  NothingPassed
PROPERTIES
  NeverSentAfterRecorded
  EveryForwarded
CHECK_DEADLOCK FALSE
