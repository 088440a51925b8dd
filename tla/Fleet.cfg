CONSTANTS
  Requests = {r1, r2}
  Factories = {f1}
  Agents = {a1, a2}
  Devices = {d1}
  Tokens = {t1, t2, t3}
  Statuses = {"OFFLINE", "ONLINE"}
  f1 = f1  a1 = a1  a2 = a2  d1 = d1  d2 = d2  t1 = t1  t2 = t2  t3 = t3  r1 = r1  r2 = r2
  Patches <- SomePatches
SPECIFICATION Spec
SYMMETRY Symm
INVARIANTS TypeOK ReferencesHold StatusSettled CredentialWorks
CHECK_DEADLOCK FALSE
