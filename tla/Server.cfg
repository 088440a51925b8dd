SPECIFICATION FairSpec
CONSTANTS
  Versions = {1, 2}
  Requests = {p1, e1, w1, g1}
  Plain = {p1}
  Hijacked = {w1}
  Left = {g1}
  Files <- SomeFiles
  MaxFaults = 2
INVARIANTS TypeOK SchemaSound RequestsKeepDatabase
PROPERTIES StopsInTime ServesAgain
CHECK_DEADLOCK FALSE
