SPECIFICATION Spec
CONSTANTS
  a1 = a1  s1 = s1  s2 = s2
  Agents = {a1}
  Sessions = {s1, s2}
  AgentOf <- SameAgent
  Admins = {m1}
  NoSession = NoSession
  Environments <- OverlapOnly
PROPERTY LiveSessionKept
CHECK_DEADLOCK FALSE
