\* Three validators, one of which may diverge; a quorum of two.
SPECIFICATION FairSpec
CONSTANTS
  Validators = {v1, v2, v3}
  Diverging = {v3}
  Threshold = 2
  MaxIndex = 2
  MaxOdd = 1
  MaxFaults = 1
INVARIANTS
  PublishedHasQuorum
  AnswerIsSigned
PROPERTIES
  CatchesUp
CHECK_DEADLOCK FALSE
