SPECIFICATION Spec
CONSTANTS
  Tasks = {t1}
  Sessions = {s1}
  Cancels = {}
  Cancellable = {}
  Dispatchers = {d1, d2}
  NoSession = NoSession
  QueueCap = 2
  MaxRetry = 0
  HasUpdatedAt = TRUE
  Faults = FALSE
  Drops = FALSE
  Crashes = FALSE
PROPERTY DispatchedOnce
CHECK_DEADLOCK FALSE
