SPECIFICATION Spec
CONSTANTS
  c1 = c1
  c2 = c2
  t1 = t1
  Updater = updater
  Clients = {c1, c2}
  Trackers = {t1}
  Connection = "http"
  HttpRequests = 2
  Used = {"message_status", "process", "latest_checkpoint with lag", "fetch_sorted_cached_checkpoints"}
  MaxOps = 1
INVARIANTS
  EverySendAccounted
PROPERTIES
  EveryRequestReturns
  UpdaterEnds
CHECK_DEADLOCK FALSE
