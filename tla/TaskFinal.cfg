SPECIFICATION Spec
CONSTANTS
  Tasks = {t1}
  Sessions = {s1}
  Cancels = {c1}
  Cancellable = {t1}
  Dispatchers = {d1}
  NoSession = NoSession
  QueueCap = 2
  MaxRetry = 0
  HasUpdatedAt = TRUE
  Faults = FALSE
  Drops = FALSE
  Crashes = FALSE
PROPERTY TerminalIsFinal
CHECK_DEADLOCK FALSE
