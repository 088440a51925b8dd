SPECIFICATION Spec
CONSTANTS
  Tasks = {t1}
  Sessions = {s1, s2}
  Cancels = {c1}
  Cancellable = {t1}
  Dispatchers = {d1}
  NoSession = NoSession
  QueueCap = 1
  MaxRetry = 1
  HasUpdatedAt = TRUE
  Faults = TRUE
  Drops = TRUE
  Crashes = TRUE
INVARIANTS TypeOK OneCopyPerCall NothingInvented
PROPERTY RowsAdvance
CHECK_DEADLOCK FALSE
