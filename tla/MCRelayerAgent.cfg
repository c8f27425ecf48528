\* The relayer process from its settings to its exit code.
SPECIFICATION Spec
CONSTANTS
  InboxKeys <- MCInboxKeys
  Lists <- MCLists
  Messages <- MCMessages
  SourceLists <- MCSourceLists
  MaxFailures = 2
INVARIANTS
  PipelinesAsConfigured
  StartupNeedsOnlySettings
  AdmittedByLists
PROPERTIES
  FailureEndsAgent
\* The process may end.
CHECK_DEADLOCK FALSE
