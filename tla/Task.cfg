SPECIFICATION FairSpec
CONSTANTS
  Tasks = {t1, t2}
  Sessions = {s1}
  Cancels = {c1}
  Cancellable = {t2}
  Dispatchers = {d1}
  NoSession = NoSession
  QueueCap = 1
  MaxRetry = 1
  HasUpdatedAt = TRUE
  Faults = FALSE
  Drops = FALSE
  Crashes = FALSE
INVARIANTS ResultRecorded PushedIsCurrent TerminalIsStamped
PROPERTIES FollowsMachine QueuedTaskEnds
CHECK_DEADLOCK FALSE
