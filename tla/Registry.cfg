SPECIFICATION FairSpec
CONSTANTS
  a1 = a1  s1 = s1  s2 = s2
  Agents = {a1}
  Sessions = {s1, s2}
  AgentOf <- SameAgent
  Admins = {m1}
  NoSession = NoSession
  Environments <- CalmOrAny
INVARIANTS TypeOK RegisteredHasHandler DisplacedIsClosed FlagSettled
PROPERTIES ImplementsLink SilentIsEvicted ClosedSessionEnds
CHECK_DEADLOCK FALSE
