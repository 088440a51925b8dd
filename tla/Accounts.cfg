CONSTANTS
  Requests = {r1, r2}
  Users = {u1, u2}
  Names = {n1, n2}
  Passwords = {p1}
  u1 = u1  u2 = u2  u3 = u3  n1 = n1  n2 = n2  p1 = p1  r1 = r1  r2 = r2
  Seed <- OneAdmin
  Forms <- SomeForms
  Patches <- SomePatches
  TTLHours = 1
  LookupFails = FALSE
  MaxTime = 2
  MaxTokens = 2
SPECIFICATION Spec
SYMMETRY RequestSymmetry
INVARIANTS TypeOK UniqueNames AccessIsBounded UpdatesKept NoOrphans
PROPERTY DeletedStaysDeleted
CHECK_DEADLOCK FALSE
